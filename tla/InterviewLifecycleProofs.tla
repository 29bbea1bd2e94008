----------------------- MODULE InterviewLifecycleProofs -----------------------
(***************************************************************************)
(* What InterviewLifecycle guarantees for any number of interviews and     *)
(* calls, any retention period and any deadline shorter than it.           *)
(***************************************************************************)
EXTENDS InterviewLifecycle, TLAPS

Unstarted == {"new", "store_candidate", "store_session"}

(***************************************************************************)
(* Which call may be in which step: a start is about its own interview,    *)
(* and only the calls that lock a row ever wait for it.                    *)
(***************************************************************************)
CallInv ==
    /\ \A i \in Interviews : about[i] = i /\ pc[i] \notin Locking \cup {"report", "listing"}
    /\ \A c \in Calls :
          /\ pc[c] \notin {"store_candidate", "store_session"}
          /\ pc[c] \in {"answering", "read_back", "feed", "feeding"} => kind[c] = "answer"
          /\ pc[c] = "listing" => kind[c] = "list"
          /\ pc[c] \in {"report", "generating", "stored"} => kind[c] \in {"report", "list"}

(***************************************************************************)
(* A call in a locked step is alone on its row, and the row is there.      *)
(***************************************************************************)
LockInv ==
    /\ \A i \in Interviews : \A c \in row_lock[i] : about[c] = i /\ pc[c] \in Locking
    /\ \A c \in Calls : pc[c] \in Locking =>
          row_lock[about[c]] = {c} /\ Stored(about[c])

(***************************************************************************)
(* A start has yet to store its session and may still do so; its candidate *)
(* is no older than the start, and the start no older than its deadline.   *)
(***************************************************************************)
StartInv ==
    /\ \A i \in Interviews : pc[i] \in Unstarted => ~ Stored(i) /\ i \notin erased
    /\ \A i \in Interviews : pc[i] = "store_session" =>
          \E c \in candidates : c.interview_id = i /\ c.created_at >= since[i]
    /\ \A c \in Callers : Live(c) => since[c] <= clock /\ clock <= since[c] + Deadline

(***************************************************************************)
(* Reports belong to interviews that are there, one each; what was served  *)
(* is still there, or its interview is erased.                             *)
(***************************************************************************)
ReportInv ==
    /\ \A r \in reports : Stored(r.interview_id)
    /\ \A r, s \in reports : r.interview_id = s.interview_id => r = s
    /\ \A c \in Callers : \A r \in served[c] : r \in reports \/ r.interview_id \in erased
    /\ \A c \in Calls : pc[c] = "generating" => ReportsOf(about[c]) = {}

(***************************************************************************)
(* What was last recorded of an interview keeps it from the sweep, whose   *)
(* cutoff lies a whole retention period back.                              *)
(***************************************************************************)
Covered(i) ==
    \/ touched[i] <= sessions[i].last_activity_at
    \/ \E r \in reports : r.interview_id = i /\ touched[i] <= r.created_at

SweepInv ==
    /\ sweep = "erasing" => cutoff + Retention <= clock
    /\ \A i \in Interviews : Stored(i) => Covered(i)

(***************************************************************************)
(* Whatever a listing goes through is there or was erased since.           *)
(***************************************************************************)
ListingInv ==
    \A c \in Calls : kind[c] = "list" =>
        /\ \A i \in todo[c] : Stored(i) \/ i \in erased
        /\ pc[c] = "report" => Stored(about[c]) \/ about[c] \in erased
        /\ pc[c] = "not_found" => (todo[c] \cup {about[c]}) \cap erased # {}

IInv ==
    /\ TypeOK /\ CallInv /\ LockInv /\ StartInv
    /\ ErasedLeavesNoTrace /\ SessionHasCandidate
    /\ ReportInv /\ OneReportPerInterview
    /\ SweepInv /\ ListingInv

USE DEF tables, call, sweeper, history, Callers, Waiting, Locking, Over, Never

-----------------------------------------------------------------------------
(***************************************************************************)
(* The types hold initially and every action keeps them.                   *)
(***************************************************************************)
LEMMA GotoType ==
    ASSUME TypeOK, NEW c \in Callers,
           NEW label \in {"new"} \cup Waiting \cup Locking \cup Over, Goto(c, label)
    PROVE  /\ pc' \in [Callers -> {"new"} \cup Waiting \cup Locking \cup Over]
           /\ since' \in [Callers -> Nat]
  BY DEF Goto, TypeOK

LEMMA EraseType ==
    ASSUME TypeOK, NEW i \in Interviews, Erase(i)
    PROVE  /\ candidates' \subseteq candidates
           /\ sessions' \in [Interviews -> SessionRow]
           /\ reports' \subseteq reports
           /\ activity_events' \subseteq activity_events
           /\ erased' \subseteq Interviews /\ touched' \in [Interviews -> Nat]
  <1>1. NoSession \in SessionRow
      BY DEF NoSession, SessionRow
  <1>2. QED
      BY <1>1 DEF Erase, TypeOK, CandidatesOf, ReportsOf, EventsOf

LEMMA LastActivityType ==
    ASSUME NEW s \in SessionRow, NEW t \in Nat
    PROVE  [s EXCEPT !.last_activity_at = t] \in SessionRow
  BY DEF SessionRow

LEMMA InitType == Init => TypeOK
  <1> SUFFICES ASSUME Init PROVE TypeOK
      OBVIOUS
  <1>1. candidates \subseteq Candidate
      BY DEF Init, Candidate
  <1>2. activity_events \subseteq Candidate
      BY DEF Init, Candidate
  <1>3. sessions \in [Interviews -> SessionRow]
    <2>1. {NoSession, Session(FALSE, 1), Session(TRUE, 1)} \subseteq SessionRow
        BY DEF NoSession, Session, SessionRow
    <2>2. QED
        BY <2>1 DEF Init
  <1>4. pc \in [Callers -> {"new"} \cup Waiting \cup Locking \cup Over]
      BY DEF Init
  <1>5. row_lock \in [Interviews -> SUBSET Callers] /\ todo \in [Callers -> SUBSET Interviews]
        /\ served \in [Callers -> SUBSET Report]
      BY DEF Init
  <1>6. about \in [Callers -> Interviews] /\ touched \in [Interviews -> Nat]
        /\ since \in [Callers -> Nat] /\ created_at \in [Callers -> Nat]
      BY DEF Init
  <1>7. QED
      BY <1>1, <1>2, <1>3, <1>4, <1>5, <1>6 DEF Init, TypeOK

LEMMA StepType == TypeOK /\ [Next]_vars => TypeOK'
  <1> SUFFICES ASSUME TypeOK, [Next]_vars PROVE TypeOK'
      OBVIOUS
  <1> USE DEF TypeOK
  <1>1. ASSUME NEW i \in Interviews, BeginStart(i) PROVE TypeOK'
      BY <1>1 DEF BeginStart, Goto
  <1>2. ASSUME NEW i \in Interviews, StoreCandidate(i) PROVE TypeOK'
    <2>1. candidates' \subseteq Candidate
        BY <1>2 DEF StoreCandidate, Candidate
    <2>2. QED
        BY <1>2, <2>1 DEF StoreCandidate, Goto
  <1>3. ASSUME NEW i \in Interviews, StoreSession(i) PROVE TypeOK'
    <2>1. sessions' \in [Interviews -> SessionRow]
        BY <1>3 DEF StoreSession, Session, SessionRow
    <2>2. touched' \in [Interviews -> Nat]
        BY <1>3 DEF StoreSession, Touch
    <2>3. QED
        BY <1>3, <2>1, <2>2, GotoType DEF StoreSession
  <1>4. ASSUME NEW c \in Callers, AnswerLocks(c) PROVE TypeOK'
    <2>1. \E label \in {"not_found", "completed", "answering"} : Goto(c, label)
        BY <1>4 DEF AnswerLocks
    <2>2. row_lock' \in [Interviews -> SUBSET Callers]
        BY <1>4 DEF AnswerLocks
    <2>3. QED
        BY <1>4, <2>1, <2>2, GotoType DEF AnswerLocks
  <1>5. ASSUME NEW c \in Callers, AnswerCommits(c) PROVE TypeOK'
    <2>1. sessions' \in [Interviews -> SessionRow]
        BY <1>5 DEF AnswerCommits, Session, SessionRow
    <2>2. touched' \in [Interviews -> Nat] /\ row_lock' \in [Interviews -> SUBSET Callers]
        BY <1>5 DEF AnswerCommits, Touch, Release
    <2>3. QED
        BY <1>5, <2>1, <2>2, GotoType DEF AnswerCommits
  <1>6. ASSUME NEW c \in Callers, ReadBack(c) \/ MakeEvent(c) \/ NothingToFeed(c) PROVE TypeOK'
    <2>1. \E label \in {"feed", "not_found", "feeding", "done"} : Goto(c, label)
        BY <1>6 DEF ReadBack, MakeEvent, NothingToFeed
    <2>2. created_at' \in [Callers -> Nat]
        BY <1>6 DEF ReadBack, MakeEvent, NothingToFeed
    <2>3. QED
        BY <1>6, <2>1, <2>2, GotoType DEF ReadBack, MakeEvent, NothingToFeed
  <1>7. ASSUME NEW c \in Callers, AddEvent(c) PROVE TypeOK'
    <2>1. \A s, u \in Nat : Later(s, u) \in Nat
        BY DEF Later
    <2>2. sessions' \in [Interviews -> SessionRow]
      <3>1. Later(sessions[about[c]].last_activity_at, created_at[c]) \in Nat
          BY <2>1 DEF SessionRow
      <3>2. [sessions[about[c]] EXCEPT !.last_activity_at =
                Later(sessions[about[c]].last_activity_at, created_at[c])] \in SessionRow
          BY <3>1, LastActivityType
      <3>3. QED
          BY <1>7, <3>2 DEF AddEvent
    <2>3. touched' \in [Interviews -> Nat]
        BY <1>7, <2>1 DEF AddEvent
    <2>4. activity_events' \subseteq Candidate
        BY <1>7 DEF AddEvent, Candidate
    <2>5. created_at' \in [Callers -> Nat]
        BY <1>7 DEF AddEvent
    <2>6. QED
        BY <1>7, <2>2, <2>3, <2>4, <2>5, GotoType DEF AddEvent
  <1>8. ASSUME NEW c \in Callers, AskReport(c) PROVE TypeOK'
    <2>1. \E label \in {"not_found", "done", "not_completed", "report"} : Goto(c, label)
        BY <1>8 DEF AskReport
    <2>2. served' \in [Callers -> SUBSET Report]
        BY <1>8 DEF AskReport, Serve, ReportsOf
    <2>3. QED
        BY <1>8, <2>1, <2>2, GotoType DEF AskReport
  <1>9. ASSUME NEW c \in Callers, AskListing(c) PROVE TypeOK'
    <2>1. todo' \in [Callers -> SUBSET Interviews]
        BY <1>9 DEF AskListing
    <2>2. QED
        BY <1>9, <2>1, GotoType DEF AskListing
  <1>10. ASSUME NEW c \in Callers, ListRow(c) PROVE TypeOK'
    <2>1. \E label \in {"not_found", "report", "listing"} : Goto(c, label)
        BY <1>10 DEF ListRow
    <2>2. todo' \in [Callers -> SUBSET Interviews] /\ about' \in [Callers -> Interviews]
        BY <1>10 DEF ListRow
    <2>3. QED
        BY <1>10, <2>1, <2>2, GotoType DEF ListRow
  <1>11. ASSUME NEW c \in Callers, ListDone(c) PROVE TypeOK'
      BY <1>11, GotoType DEF ListDone
  <1>12. ASSUME NEW c \in Callers, LockForReport(c) PROVE TypeOK'
    <2>1. c \in Calls => NextRow(c) \in {"listing", "done"}
        BY DEF NextRow
    <2>2. \E label \in {"not_found", "listing", "done", "refused", "generating"} : Goto(c, label)
        BY <1>12 DEF LockForReport, NextRow
    <2>3. row_lock' \in [Interviews -> SUBSET Callers]
        BY <1>12 DEF LockForReport
    <2>4. served' \in [Callers -> SUBSET Report]
        BY <1>12 DEF LockForReport, Serve, ReportsOf
    <2>5. QED
        BY <1>12, <2>2, <2>3, <2>4, GotoType DEF LockForReport
  <1>13. ASSUME NEW c \in Callers, StoreReport(c) PROVE TypeOK'
    <2> DEFINE report == [interview_id |-> about[c], by |-> c, created_at |-> clock]
    <2>1. report \in Report
        BY <1>13 DEF StoreReport, Report
    <2>2. reports' \subseteq Report
        BY <1>13, <2>1 DEF StoreReport
    <2>3. served' \in [Callers -> SUBSET Report]
        BY <1>13, <2>1 DEF StoreReport
    <2>4. touched' \in [Interviews -> Nat]
        BY <1>13 DEF StoreReport, Touch
    <2>5. QED
        BY <1>13, <2>2, <2>3, <2>4, GotoType DEF StoreReport
  <1>14. ASSUME NEW c \in Callers, ReleaseReport(c) PROVE TypeOK'
    <2>1. \E label \in {"listing", "done"} : Goto(c, label)
        BY <1>14 DEF ReleaseReport, NextRow
    <2>2. row_lock' \in [Interviews -> SUBSET Callers]
        BY <1>14 DEF ReleaseReport, Release
    <2>3. QED
        BY <1>14, <2>1, <2>2, GotoType DEF ReleaseReport
  <1>15. ASSUME NEW c \in Callers, DeleteOwned(c) PROVE TypeOK'
    <2>1. \E label \in {"not_found", "done"} : Goto(c, label)
        BY <1>15 DEF DeleteOwned
    <2>2. Erase(about[c]) \/ UNCHANGED <<tables, history>>
        BY <1>15 DEF DeleteOwned
    <2>3. QED
        BY <1>15, <2>1, <2>2, GotoType, EraseType DEF DeleteOwned
  <1>16. ASSUME NEW c \in Callers, Cancel(c) PROVE TypeOK'
    <2>1. row_lock' \in [Interviews -> SUBSET Callers] /\ created_at' \in [Callers -> Nat]
        BY <1>16 DEF Cancel, Release
    <2>2. QED
        BY <1>16, <2>1, GotoType DEF Cancel
  <1>17. CASE SelectExpired
      BY <1>17, RetentionAssumption DEF SelectExpired
  <1>18. ASSUME NEW i \in Interviews, PurgeSelected(i) PROVE TypeOK'
    <2>1. Erase(i) \/ UNCHANGED <<tables, history>>
        BY <1>18 DEF PurgeSelected
    <2>2. QED
        BY <1>18, <2>1, EraseType DEF PurgeSelected
  <1>19. CASE PurgeOrphans
      BY <1>19 DEF PurgeOrphans
  <1>20. CASE Tick
      BY <1>20 DEF Tick
  <1>21. CASE UNCHANGED vars
      BY <1>21 DEF vars
  <1>22. QED
      BY <1>1, <1>2, <1>3, <1>4, <1>5, <1>6, <1>7, <1>8, <1>9, <1>10, <1>11, <1>12, <1>13,
         <1>14, <1>15, <1>16, <1>17, <1>18, <1>19, <1>20, <1>21 DEF Next

-----------------------------------------------------------------------------
(***************************************************************************)
(* Starts stay about their interviews, and calls in the steps of their     *)
(* kind.                                                                   *)
(***************************************************************************)
LEMMA GotoStep ==
    ASSUME TypeOK, NEW c \in Callers, NEW label, Goto(c, label)
    PROVE  /\ pc'[c] = label
           /\ \A d \in Callers : d # c => pc'[d] = pc[d] /\ since'[d] = since[d]
  BY DEF Goto, TypeOK

LEMMA StepCall == TypeOK /\ CallInv /\ [Next]_vars => CallInv'
  <1> SUFFICES ASSUME TypeOK, CallInv, [Next]_vars PROVE CallInv'
      OBVIOUS
  <1> USE CallersAssumption DEF CallInv
  <1>1. ASSUME NEW c \in Callers, NEW label, Goto(c, label), kind' = kind, about' = about,
               c \in Interviews => label \notin Locking \cup {"report", "listing"},
               c \in Calls =>
                  /\ label \notin {"store_candidate", "store_session"}
                  /\ label \in {"answering", "read_back", "feed", "feeding"} => kind[c] = "answer"
                  /\ label = "listing" => kind[c] = "list"
                  /\ label \in {"report", "generating", "stored"} => kind[c] \in {"report", "list"}
        PROVE CallInv'
      BY <1>1, GotoStep
  <1>2. ASSUME UNCHANGED <<kind, about, pc>> PROVE CallInv'
      BY <1>2
  <1>3. ASSUME NEW i \in Interviews, BeginStart(i) \/ StoreCandidate(i) \/ StoreSession(i)
        PROVE CallInv'
    <2>1. \E label \in {"store_candidate", "store_session", "read_back"} : Goto(i, label)
        BY <1>3 DEF BeginStart, StoreCandidate, StoreSession
    <2>2. QED
        BY <1>1, <1>3, <2>1 DEF BeginStart, StoreCandidate, StoreSession
  <1>4. ASSUME NEW c \in Callers, AnswerLocks(c) PROVE CallInv'
    <2>1. c \in Calls /\ kind[c] = "answer"
        BY <1>4 DEF AnswerLocks
    <2>2. \E label \in {"not_found", "completed", "answering"} : Goto(c, label)
        BY <1>4 DEF AnswerLocks
    <2>3. QED
        BY <1>1, <1>4, <2>1, <2>2 DEF AnswerLocks
  <1>5. ASSUME NEW c \in Callers, AnswerCommits(c) PROVE CallInv'
      BY <1>1, <1>5 DEF AnswerCommits
  <1>6. ASSUME NEW c \in Callers, ReadBack(c) \/ MakeEvent(c) \/ NothingToFeed(c) \/ AddEvent(c)
        PROVE CallInv'
    <2>1. \E label \in {"feed", "not_found", "feeding", "done"} : Goto(c, label)
        BY <1>6 DEF ReadBack, MakeEvent, NothingToFeed, AddEvent
    <2>2. pc[c] \in {"read_back", "feed", "feeding"} /\ kind' = kind /\ about' = about
        BY <1>6 DEF ReadBack, MakeEvent, NothingToFeed, AddEvent
    <2>3. QED
        BY <1>1, <2>1, <2>2
  <1>7. ASSUME NEW c \in Callers, AskReport(c) \/ AskListing(c) PROVE CallInv'
    <2>1. c \in Calls /\ kind[c] \in {"report", "list"} /\ kind' = kind /\ about' = about
        BY <1>7 DEF AskReport, AskListing
    <2>2. \/ kind[c] = "list" /\ Goto(c, "listing")
          \/ \E label \in {"not_found", "done", "not_completed", "report"} : Goto(c, label)
        BY <1>7 DEF AskReport, AskListing
    <2>3. QED
        BY <1>1, <2>1, <2>2
  <1>8. ASSUME NEW c \in Callers, ListRow(c) PROVE CallInv'
    <2>1. c \in Calls /\ kind[c] = "list" /\ kind' = kind
        BY <1>8 DEF ListRow
    <2>2. \E label \in {"not_found", "report", "listing"} : Goto(c, label)
        BY <1>8 DEF ListRow
    <2>3. \A i \in Interviews : about'[i] = about[i]
        BY <1>8, <2>1 DEF ListRow, TypeOK
    <2>4. QED
        BY <2>1, <2>2, <2>3, GotoStep
  <1>9. ASSUME NEW c \in Callers, ListDone(c) PROVE CallInv'
      BY <1>1, <1>9 DEF ListDone
  <1>10. ASSUME NEW c \in Callers, LockForReport(c) \/ StoreReport(c) \/ ReleaseReport(c)
         PROVE CallInv'
    <2>1. c \in Calls /\ kind[c] \in {"report", "list"} /\ kind' = kind /\ about' = about
        BY <1>10 DEF LockForReport, StoreReport, ReleaseReport
    <2>2. \/ kind[c] = "list" /\ Goto(c, "listing")
          \/ \E label \in {"not_found", "done", "refused", "generating", "stored"} : Goto(c, label)
        BY <1>10 DEF LockForReport, StoreReport, ReleaseReport, NextRow
    <2>3. QED
        BY <1>1, <2>1, <2>2
  <1>11. ASSUME NEW c \in Callers, DeleteOwned(c) \/ Cancel(c) PROVE CallInv'
    <2>1. \E label \in {"not_found", "done", "failed"} : Goto(c, label)
        BY <1>11 DEF DeleteOwned, Cancel
    <2>2. QED
        BY <1>1, <1>11, <2>1 DEF DeleteOwned, Cancel
  <1>12. ASSUME NEW i \in Interviews, PurgeSelected(i) PROVE CallInv'
      BY <1>2, <1>12 DEF PurgeSelected
  <1>13. CASE SelectExpired \/ PurgeOrphans \/ Tick \/ UNCHANGED vars
      BY <1>2, <1>13 DEF SelectExpired, PurgeOrphans, Tick, vars
  <1>14. QED
      BY <1>3, <1>4, <1>5, <1>6, <1>7, <1>8, <1>9, <1>10, <1>11, <1>12, <1>13 DEF Next

-----------------------------------------------------------------------------
(***************************************************************************)
(* The steps that write to the tables.  Deletions and the sweep do one     *)
(* thing to them, if any: they erase an interview that is there and whose  *)
(* row nobody holds.                                                       *)
(***************************************************************************)
LEMMA Writers ==
    ASSUME TypeOK, [Next]_vars
    PROVE  \/ UNCHANGED <<tables, history>>
           \/ \E i \in Interviews : StoreCandidate(i) \/ StoreSession(i)
           \/ \E c \in Callers : AnswerCommits(c) \/ AddEvent(c) \/ StoreReport(c)
           \/ \E i \in Interviews : Erase(i) /\ Stored(i) /\ Free(i)
           \/ PurgeOrphans
  <1>1. ASSUME NEW i \in Interviews, BeginStart(i) PROVE UNCHANGED <<tables, history>>
      BY <1>1 DEF BeginStart
  <1>2. ASSUME NEW c \in Callers, AnswerLocks(c) \/ ReadBack(c) \/ MakeEvent(c) \/ NothingToFeed(c)
        PROVE  UNCHANGED <<tables, history>>
      BY <1>2 DEF AnswerLocks, ReadBack, MakeEvent, NothingToFeed
  <1>3. ASSUME NEW c \in Callers, AskReport(c) \/ AskListing(c) \/ ListRow(c) \/ ListDone(c)
        PROVE  UNCHANGED <<tables, history>>
      BY <1>3 DEF AskReport, AskListing, ListRow, ListDone
  <1>4. ASSUME NEW c \in Callers, LockForReport(c) \/ ReleaseReport(c) \/ Cancel(c)
        PROVE  UNCHANGED <<tables, history>>
      BY <1>4 DEF LockForReport, ReleaseReport, Cancel
  <1>5. CASE SelectExpired \/ Tick \/ UNCHANGED vars
      BY <1>5 DEF SelectExpired, Tick, vars
  <1>6. ASSUME NEW c \in Callers, DeleteOwned(c)
        PROVE  \/ UNCHANGED <<tables, history>>
               \/ \E i \in Interviews : Erase(i) /\ Stored(i) /\ Free(i)
      BY <1>6 DEF DeleteOwned, TypeOK
  <1>7. ASSUME NEW i \in Interviews, PurgeSelected(i)
        PROVE  UNCHANGED <<tables, history>> \/ (Erase(i) /\ Stored(i) /\ Free(i))
      BY <1>7 DEF PurgeSelected, Expired
  <1>8. QED
      BY <1>1, <1>2, <1>3, <1>4, <1>5, <1>6, <1>7 DEF Next

\* An answer or a report under way is one of the calls, and holds its row.
LEMMA HolderHolds ==
    ASSUME TypeOK, CallInv, LockInv, NEW c \in Callers, pc[c] \in Locking
    PROVE  c \in Calls /\ row_lock[about[c]] = {c} /\ Stored(about[c])
  BY DEF CallInv, LockInv

(***************************************************************************)
(* Only what is there is erased, with nobody on its row, and only a start  *)
(* makes an interview's session.                                           *)
(***************************************************************************)
LEMMA EraseRows ==
    ASSUME TypeOK, NEW i \in Interviews, Erase(i), Stored(i), Free(i)
    PROVE  /\ ~ Stored(i)' /\ ReportsOf(i)' = {} /\ EventsOf(i)' = {} /\ CandidatesOf(i)' = {}
           /\ erased' = erased \cup {i}
           /\ \A j \in Interviews \ {i} :
                 /\ sessions'[j] = sessions[j] /\ CandidatesOf(j)' = CandidatesOf(j)
                 /\ ReportsOf(j)' = ReportsOf(j) /\ touched'[j] = touched[j]
           /\ reports' = {r \in reports : r.interview_id # i}
           /\ candidates' = {r \in candidates : r.interview_id # i}
           /\ activity_events' = {r \in activity_events : r.interview_id # i}
  <1>1. reports' = {r \in reports : r.interview_id # i}
      BY DEF Erase, ReportsOf
  <1>2. candidates' = {r \in candidates : r.interview_id # i}
      BY DEF Erase, CandidatesOf
  <1>3. activity_events' = {r \in activity_events : r.interview_id # i}
      BY DEF Erase, EventsOf
  <1>4. ~ Stored(i)' /\ \A j \in Interviews \ {i} : sessions'[j] = sessions[j]
      BY DEF Erase, Stored, NoSession, TypeOK
  <1>5. \A j \in Interviews \ {i} : touched'[j] = touched[j]
      BY DEF Erase, TypeOK
  <1>6. erased' = erased \cup {i}
      BY DEF Erase
  <1>7. QED
      BY <1>1, <1>2, <1>3, <1>4, <1>5, <1>6 DEF ReportsOf, CandidatesOf, EventsOf

LEMMA StepRows ==
    ASSUME TypeOK, CallInv, LockInv, [Next]_vars
    PROVE  /\ \A i \in Interviews : Stored(i) => Stored(i)' \/ i \in erased'
           /\ \A i \in Interviews : Stored(i)' /\ ~ Stored(i) =>
                 pc[i] = "store_session" /\ pc'[i] \notin Unstarted
           /\ erased \subseteq erased'
           /\ \A i \in erased' : i \in erased \/ (Stored(i) /\ Free(i) /\ ~ Stored(i)')
           /\ \A i \in Interviews : row_lock[i] # {} /\ Stored(i) => Stored(i)'
  <1>1. CASE UNCHANGED <<tables, history>>
      BY <1>1 DEF Stored
  <1>2. CASE \E i \in Interviews : Erase(i) /\ Stored(i) /\ Free(i)
      BY <1>2, EraseRows DEF Stored, Free
  <1>3. ASSUME NEW i \in Interviews, StoreCandidate(i) PROVE UNCHANGED <<sessions, erased>>
      BY <1>3 DEF StoreCandidate
  <1>4. ASSUME NEW i \in Interviews, StoreSession(i)
        PROVE  /\ pc[i] = "store_session" /\ pc'[i] = "read_back" /\ erased' = erased /\ Stored(i)'
               /\ \A j \in Interviews : j # i => Stored(j)' = Stored(j)
      BY <1>4, GotoStep DEF StoreSession, Stored, Session, TypeOK
  <1>5. ASSUME NEW c \in Callers, AnswerCommits(c)
        PROVE  erased' = erased /\ \A j \in Interviews : Stored(j)' = Stored(j)
    <2>1. Stored(about[c])
        BY <1>5, HolderHolds DEF AnswerCommits
    <2>2. PICK row \in {Session(TRUE, clock), Session(FALSE, clock)} :
                sessions' = [sessions EXCEPT ![about[c]] = row]
        BY <1>5 DEF AnswerCommits
    <2>3. row.stored
        BY <2>2 DEF Session
    <2>4. QED
        BY <1>5, <2>1, <2>2, <2>3 DEF AnswerCommits, Stored, TypeOK
  <1>6. ASSUME NEW c \in Callers, AddEvent(c)
        PROVE  erased' = erased /\ \A j \in Interviews : Stored(j)' = Stored(j)
    <2>1. CASE Stored(about[c])
      <3>1. sessions' = [sessions EXCEPT ![about[c]].last_activity_at = Later(@, created_at[c])]
          BY <1>6, <2>1 DEF AddEvent
      <3>2. about[c] \in Interviews /\ sessions[about[c]] \in SessionRow
          BY DEF TypeOK
      <3>3. sessions'[about[c]].stored = sessions[about[c]].stored
          BY <3>1, <3>2 DEF TypeOK, SessionRow
      <3>4. QED
          BY <1>6, <3>1, <3>2, <3>3 DEF AddEvent, Stored, TypeOK
    <2>2. CASE ~ Stored(about[c])
        BY <1>6, <2>2 DEF AddEvent, Stored
    <2>3. QED
        BY <2>1, <2>2
  <1>7. ASSUME NEW c \in Callers, StoreReport(c) PROVE UNCHANGED <<sessions, erased>>
      BY <1>7 DEF StoreReport
  <1>8. CASE PurgeOrphans
      BY <1>8 DEF PurgeOrphans, Stored
  <1> DEFINE Good ==
           /\ \A i \in Interviews : Stored(i) => Stored(i)' \/ i \in erased'
           /\ \A i \in Interviews : Stored(i)' /\ ~ Stored(i) =>
                 pc[i] = "store_session" /\ pc'[i] \notin Unstarted
           /\ erased \subseteq erased'
           /\ \A i \in erased' : i \in erased \/ (Stored(i) /\ Free(i) /\ ~ Stored(i)')
           /\ \A i \in Interviews : row_lock[i] # {} /\ Stored(i) => Stored(i)'
  <1>10. (erased' = erased /\ \A j \in Interviews : Stored(j)' = Stored(j)) => Good
      OBVIOUS
  <1>11. UNCHANGED <<sessions, erased>> => Good
      BY DEF Stored
  <1>12. (\E i \in Interviews : StoreCandidate(i) \/ StoreSession(i)) => Good
      BY <1>3, <1>4, <1>11 DEF Unstarted
  <1>13. (\E c \in Callers : AnswerCommits(c) \/ AddEvent(c) \/ StoreReport(c)) => Good
      BY <1>5, <1>6, <1>7, <1>10, <1>11
  <1>14. UNCHANGED <<tables, history>> => Good
      BY <1>11
  <1>15. (\E i \in Interviews : Erase(i) /\ Stored(i) /\ Free(i)) => Good
      BY <1>2
  <1>16. PurgeOrphans => Good
      BY <1>8
  <1> HIDE DEF Good
  <1>17. Good
      BY <1>12, <1>13, <1>14, <1>15, <1>16, Writers
  <1>18. QED
      BY <1>17 DEF Good

-----------------------------------------------------------------------------
(***************************************************************************)
(* Whoever waits for a row takes it free; whoever has it keeps it to       *)
(* themselves, and the row in its place, until they let go.                *)
(***************************************************************************)
LEMMA StepLock == TypeOK /\ CallInv /\ LockInv /\ [Next]_vars => LockInv'
  <1> SUFFICES ASSUME TypeOK, CallInv, LockInv, [Next]_vars PROVE LockInv'
      OBVIOUS
  <1> USE CallersAssumption
  <1>1. \A i \in Interviews : row_lock[i] # {} /\ Stored(i) => sessions'[i].stored
      BY StepRows DEF Stored
  <1>2. \A d \in Calls : pc[d] \in Locking => sessions'[about[d]].stored
      BY <1>1 DEF LockInv, TypeOK
  <1>3. \A i \in Interviews : pc[i] \notin Locking
      BY DEF CallInv
  \* The call neither takes nor releases a row.
  <1>4. ASSUME NEW c \in Callers, NEW label, Goto(c, label), UNCHANGED <<row_lock, about>>,
               label \in Locking <=> pc[c] \in Locking
        PROVE LockInv'
    <2>1. \A d \in Callers : pc'[d] \in Locking <=> pc[d] \in Locking
        BY <1>4, GotoStep
    <2>2. \A i \in Interviews : \A d \in row_lock'[i] : about'[d] = i /\ pc'[d] \in Locking
        BY <1>4, <2>1 DEF LockInv, TypeOK
    <2>3. QED
        BY <1>2, <1>4, <2>1, <2>2 DEF LockInv, Stored
  \* It lets go of what it has.
  <1>5. ASSUME NEW c \in Callers, NEW label, Goto(c, label), Release(c), about' = about,
               label \notin Locking
        PROVE LockInv'
    <2>1. \A i \in Interviews : row_lock'[i] = row_lock[i] \ {c}
        BY <1>5 DEF Release
    <2>2. \A i \in Interviews : \A d \in row_lock'[i] : d # c /\ about'[d] = i /\ pc'[d] \in Locking
        BY <1>5, <2>1, GotoStep DEF LockInv, TypeOK
    <2>3. \A d \in Calls : pc'[d] \in Locking => d # c /\ pc[d] \in Locking
        BY <1>5, GotoStep
    <2>4. \A d \in Calls : pc'[d] \in Locking => row_lock'[about'[d]] = {d}
        BY <1>5, <2>1, <2>3 DEF LockInv, TypeOK
    <2>5. QED
        BY <1>2, <1>5, <2>2, <2>3, <2>4 DEF LockInv, Stored
  \* It takes a row that is free.
  <1>6. ASSUME NEW c \in Calls, NEW label \in Locking, Goto(c, label), about' = about,
               Free(about[c]), Stored(about[c])', pc[c] \notin Locking,
               row_lock' = [row_lock EXCEPT ![about[c]] = {c}]
        PROVE LockInv'
    <2>1. \A d \in Calls : d # c /\ pc'[d] \in Locking => pc[d] \in Locking /\ about[d] # about[c]
        BY <1>6, GotoStep DEF LockInv, Free
    <2>2. \A i \in Interviews : row_lock'[i] = IF i = about[c] THEN {c} ELSE row_lock[i]
        BY <1>6 DEF TypeOK
    <2>3. \A i \in Interviews : \A d \in row_lock'[i] : about'[d] = i /\ pc'[d] \in Locking
        BY <1>6, <2>2, GotoStep DEF LockInv, TypeOK
    <2>4. \A d \in Calls : pc'[d] \in Locking => row_lock'[about'[d]] = {d}
        BY <1>6, <2>1, <2>2 DEF LockInv, TypeOK
    <2>5. QED
        BY <1>2, <1>6, <2>1, <2>3, <2>4 DEF LockInv, Stored
  <1>7. ASSUME UNCHANGED <<row_lock, about, pc>> PROVE LockInv'
      BY <1>2, <1>7 DEF LockInv, Stored
  <1>8. ASSUME NEW i \in Interviews, BeginStart(i) \/ StoreCandidate(i) \/ StoreSession(i)
        PROVE LockInv'
    <2>1. \E label \in {"store_candidate", "store_session", "read_back"} : Goto(i, label)
        BY <1>8 DEF BeginStart, StoreCandidate, StoreSession
    <2>2. UNCHANGED <<row_lock, about>>
        BY <1>8 DEF BeginStart, StoreCandidate, StoreSession
    <2>3. QED
        BY <1>3, <1>4, <2>1, <2>2
  <1>9. ASSUME NEW c \in Callers, AnswerLocks(c) PROVE LockInv'
    <2>1. c \in Calls /\ about' = about /\ sessions' = sessions /\ pc[c] = "new"
        BY <1>9 DEF AnswerLocks
    <2>2. \/ \E label \in {"not_found", "completed"} : Goto(c, label) /\ row_lock' = row_lock
          \/ /\ Stored(about[c]) /\ Free(about[c]) /\ Goto(c, "answering")
             /\ row_lock' = [row_lock EXCEPT ![about[c]] = {c}]
        BY <1>9 DEF AnswerLocks
    <2>3. Stored(about[c]) => Stored(about[c])'
        BY <2>1 DEF Stored
    <2>4. QED
        BY <1>4, <1>6, <2>1, <2>2, <2>3
  <1>10. ASSUME NEW c \in Callers, AnswerCommits(c) \/ Cancel(c) PROVE LockInv'
    <2>1. \E label \in {"read_back", "failed"} : Goto(c, label)
        BY <1>10 DEF AnswerCommits, Cancel
    <2>2. Release(c) /\ about' = about
        BY <1>10 DEF AnswerCommits, Cancel
    <2>3. QED
        BY <1>5, <2>1, <2>2
  <1>11. ASSUME NEW c \in Callers,
                ReadBack(c) \/ MakeEvent(c) \/ NothingToFeed(c) \/ AddEvent(c) \/ ListDone(c)
         PROVE LockInv'
    <2>1. \E label \in {"feed", "not_found", "feeding", "done"} : Goto(c, label)
        BY <1>11 DEF ReadBack, MakeEvent, NothingToFeed, AddEvent, ListDone
    <2>2. pc[c] \in Waiting /\ UNCHANGED <<row_lock, about>>
        BY <1>11 DEF ReadBack, MakeEvent, NothingToFeed, AddEvent, ListDone
    <2>3. QED
        BY <1>4, <2>1, <2>2
  <1>12. ASSUME NEW c \in Callers, AskReport(c) \/ AskListing(c) \/ DeleteOwned(c) PROVE LockInv'
    <2>1. \E label \in {"not_found", "done", "not_completed", "report", "listing"} : Goto(c, label)
        BY <1>12 DEF AskReport, AskListing, DeleteOwned
    <2>2. pc[c] = "new" /\ UNCHANGED <<row_lock, about>>
        BY <1>12 DEF AskReport, AskListing, DeleteOwned
    <2>3. QED
        BY <1>4, <2>1, <2>2
  <1>13. ASSUME NEW c \in Callers, ListRow(c) PROVE LockInv'
    <2>1. \E label \in {"not_found", "report", "listing"} : Goto(c, label)
        BY <1>13 DEF ListRow
    <2>2. pc[c] = "listing" /\ row_lock' = row_lock
        BY <1>13 DEF ListRow
    <2>3. \A d \in Callers : d # c => about'[d] = about[d]
        BY <1>13 DEF ListRow, TypeOK
    <2>4. \A d \in Callers : pc'[d] \in Locking <=> (d # c /\ pc[d] \in Locking)
        BY <2>1, <2>2, GotoStep
    <2>5. \A i \in Interviews : \A d \in row_lock'[i] : about'[d] = i /\ pc'[d] \in Locking
        BY <2>2, <2>3, <2>4 DEF LockInv, TypeOK
    <2>6. QED
        BY <1>2, <2>2, <2>3, <2>4, <2>5 DEF LockInv, Stored
  <1>14. ASSUME NEW c \in Callers, LockForReport(c) PROVE LockInv'
    <2>1. c \in Calls /\ about' = about /\ sessions' = sessions /\ pc[c] = "report"
        BY <1>14 DEF LockForReport, CallInv
    <2>2. \/ \E label \in {"not_found", "listing", "done", "refused"} :
                Goto(c, label) /\ row_lock' = row_lock
          \/ /\ Stored(about[c]) /\ Free(about[c]) /\ Goto(c, "generating")
             /\ row_lock' = [row_lock EXCEPT ![about[c]] = {c}]
        BY <1>14 DEF LockForReport, NextRow
    <2>3. Stored(about[c]) => Stored(about[c])'
        BY <2>1 DEF Stored
    <2>4. QED
        BY <1>4, <1>6, <2>1, <2>2, <2>3
  <1>15. ASSUME NEW c \in Callers, StoreReport(c) PROVE LockInv'
      BY <1>4, <1>15 DEF StoreReport
  <1>16. ASSUME NEW c \in Callers, ReleaseReport(c) PROVE LockInv'
    <2>1. \E label \in {"listing", "done"} : Goto(c, label)
        BY <1>16 DEF ReleaseReport, NextRow
    <2>2. QED
        BY <1>5, <1>16, <2>1 DEF ReleaseReport
  <1>17. ASSUME NEW i \in Interviews, PurgeSelected(i) PROVE LockInv'
      BY <1>7, <1>17 DEF PurgeSelected
  <1>18. CASE SelectExpired \/ PurgeOrphans \/ Tick \/ UNCHANGED vars
      BY <1>7, <1>18 DEF SelectExpired, PurgeOrphans, Tick, vars
  <1>19. QED
      BY <1>8, <1>9, <1>10, <1>11, <1>12, <1>13, <1>14, <1>15, <1>16, <1>17, <1>18 DEF Next

-----------------------------------------------------------------------------
(***************************************************************************)
(* A step moves one call at most, never one that is over, and no call      *)
(* becomes new; only a start goes through the steps of a start, and only   *)
(* with the row locked is a report generated.                              *)
(***************************************************************************)
Move(c, label) ==
    /\ Goto(c, label) /\ pc[c] \notin Over /\ label # "new" /\ clock' = clock
    /\ label = "store_candidate" => pc[c] = "new"
    /\ label = "store_session" => c \in Interviews /\ pc[c] = "store_candidate" /\ StoreCandidate(c)
    /\ label = "generating" => LockForReport(c)
    /\ about' = about \/ ListRow(c)

LEMMA Moves ==
    ASSUME [Next]_vars
    PROVE  \/ UNCHANGED <<pc, since, about>> /\ (clock' = clock \/ Tick)
           \/ \E c \in Callers : \E label : Move(c, label)
  <1>1. ASSUME NEW i \in Interviews, BeginStart(i) \/ StoreCandidate(i) \/ StoreSession(i)
        PROVE  \E label : Move(i, label)
    <2>1. BeginStart(i) => Move(i, "store_candidate")
        BY DEF BeginStart, Move
    <2>2. StoreCandidate(i) => Move(i, "store_session")
        BY DEF StoreCandidate, Move
    <2>3. StoreSession(i) => Move(i, "read_back")
        BY DEF StoreSession, Move
    <2>4. QED
        BY <1>1, <2>1, <2>2, <2>3
  <1>2. ASSUME NEW c \in Callers, AnswerLocks(c) \/ AnswerCommits(c) PROVE \E label : Move(c, label)
    <2>1. \E label \in {"not_found", "completed", "answering", "read_back"} : Goto(c, label)
        BY <1>2 DEF AnswerLocks, AnswerCommits
    <2>2. UNCHANGED <<clock, about>> /\ pc[c] \in {"new", "answering"}
        BY <1>2 DEF AnswerLocks, AnswerCommits
    <2>3. QED
        BY <2>1, <2>2 DEF Move
  <1>3. ASSUME NEW c \in Callers, ReadBack(c) \/ MakeEvent(c) \/ NothingToFeed(c) \/ AddEvent(c)
        PROVE  \E label : Move(c, label)
    <2>1. \E label \in {"feed", "not_found", "feeding", "done"} : Goto(c, label)
        BY <1>3 DEF ReadBack, MakeEvent, NothingToFeed, AddEvent
    <2>2. UNCHANGED <<clock, about>> /\ pc[c] \in Waiting
        BY <1>3 DEF ReadBack, MakeEvent, NothingToFeed, AddEvent
    <2>3. QED
        BY <2>1, <2>2 DEF Move
  <1>4. ASSUME NEW c \in Callers, AskReport(c) \/ AskListing(c) \/ ListRow(c) \/ ListDone(c)
        PROVE  \E label : Move(c, label)
    <2>1. \E label \in {"not_found", "done", "not_completed", "report", "listing"} : Goto(c, label)
        BY <1>4 DEF AskReport, AskListing, ListRow, ListDone
    <2>2. clock' = clock /\ (about' = about \/ ListRow(c)) /\ pc[c] \in {"new", "listing"}
        BY <1>4 DEF AskReport, AskListing, ListRow, ListDone
    <2>3. QED
        BY <2>1, <2>2 DEF Move
  <1>5. ASSUME NEW c \in Callers, LockForReport(c) \/ StoreReport(c) \/ ReleaseReport(c)
        PROVE  \E label : Move(c, label)
    <2>1. CASE LockForReport(c)
      <3>1. \E label \in {"not_found", "done", "listing", "refused", "generating"} : Goto(c, label)
          BY <2>1 DEF LockForReport, NextRow
      <3>2. UNCHANGED <<clock, about>> /\ pc[c] = "report"
          BY <2>1 DEF LockForReport
      <3>3. QED
          BY <2>1, <3>1, <3>2 DEF Move
    <2>2. CASE StoreReport(c) \/ ReleaseReport(c)
      <3>1. \E label \in {"done", "listing", "stored"} : Goto(c, label)
          BY <2>2 DEF StoreReport, ReleaseReport, NextRow
      <3>2. UNCHANGED <<clock, about>> /\ pc[c] \in {"generating", "stored"}
          BY <2>2 DEF StoreReport, ReleaseReport
      <3>3. QED
          BY <3>1, <3>2 DEF Move
    <2>3. QED
        BY <1>5, <2>1, <2>2
  <1>6. ASSUME NEW c \in Callers, DeleteOwned(c) \/ Cancel(c) PROVE \E label : Move(c, label)
    <2>1. \E label \in {"not_found", "done", "failed"} : Goto(c, label)
        BY <1>6 DEF DeleteOwned, Cancel
    <2>2. UNCHANGED <<clock, about>> /\ pc[c] \notin Over
        BY <1>6 DEF DeleteOwned, Cancel, Live
    <2>3. QED
        BY <2>1, <2>2 DEF Move
  <1>7. ASSUME NEW i \in Interviews, PurgeSelected(i) PROVE UNCHANGED <<pc, since, about, clock>>
      BY <1>7 DEF PurgeSelected
  <1>8. CASE SelectExpired \/ PurgeOrphans \/ Tick \/ UNCHANGED vars
      BY <1>8 DEF SelectExpired, PurgeOrphans, Tick, vars
  <1>9. QED
      BY <1>1, <1>2, <1>3, <1>4, <1>5, <1>6, <1>7, <1>8 DEF Next

(***************************************************************************)
(* A start that is under way keeps its candidate: a candidate older than   *)
(* the retention period cannot be one of a start within its deadline.      *)
(***************************************************************************)
LEMMA StepStart == TypeOK /\ CallInv /\ LockInv /\ StartInv /\ [Next]_vars => StartInv'
  <1> SUFFICES ASSUME TypeOK, CallInv, LockInv, StartInv, [Next]_vars PROVE StartInv'
      OBVIOUS
  <1>1. \A i \in Interviews : pc'[i] \in Unstarted =>
           pc[i] \in Unstarted /\ (pc[i] = pc'[i] => since'[i] = since[i])
    <2>1. ASSUME NEW c \in Callers, NEW label, Move(c, label), NEW i \in Interviews,
                 pc'[i] \in Unstarted
          PROVE  pc[i] \in Unstarted /\ (pc[i] = pc'[i] => since'[i] = since[i])
        BY <2>1, GotoStep DEF Move, Unstarted
    <2>2. QED
        BY <2>1, Moves
  <1>2. \A i \in Interviews : pc'[i] \in Unstarted => ~ Stored(i)' /\ i \notin erased'
      BY <1>1, StepRows DEF StartInv
  <1>3. ASSUME NEW i \in Interviews, pc'[i] = "store_session"
        PROVE  \E r \in candidates' : r.interview_id = i /\ r.created_at >= since'[i]
    <2>1. CASE pc[i] # "store_session"
      <3>1. StoreCandidate(i) /\ pc[i] = "store_candidate" /\ clock' = clock
        <4>1. ASSUME NEW c \in Callers, NEW label, Move(c, label)
              PROVE  StoreCandidate(i) /\ pc[i] = "store_candidate" /\ clock' = clock
            BY <1>3, <2>1, <4>1, GotoStep DEF Move
        <4>2. QED
            BY <1>3, <2>1, <4>1, Moves
      <3>2. since'[i] = since[i] /\ since[i] <= clock
          BY <3>1 DEF StoreCandidate, Goto, StartInv, Live, TypeOK
      <3>3. [interview_id |-> i, created_at |-> clock] \in candidates'
          BY <3>1 DEF StoreCandidate
      <3>4. QED
          BY <3>2, <3>3 DEF TypeOK
    <2>2. CASE pc[i] = "store_session"
      <3>1. PICK r \in candidates : r.interview_id = i /\ r.created_at >= since[i]
          BY <2>2 DEF StartInv
      <3>2. ~ Stored(i) /\ since'[i] = since[i]
          BY <1>1, <1>3, <2>2 DEF StartInv, Unstarted
      <3>3. CASE PurgeOrphans
        <4>1. clock <= since[i] + Deadline
            BY <2>2 DEF StartInv, Live
        <4>2. r.created_at >= clock - Retention
            BY <3>1, <4>1, RetentionAssumption DEF TypeOK, Candidate
        <4>3. r \in candidates'
            BY <3>3, <4>2, RetentionAssumption DEF PurgeOrphans, TypeOK, Candidate
        <4>4. QED
            BY <3>1, <3>2, <4>3
      <3>4. ASSUME NEW j \in Interviews, Erase(j), Stored(j), Free(j) PROVE r \in candidates'
          BY <3>1, <3>2, <3>4, EraseRows
      <3>5. ASSUME NEW j \in Interviews, StoreCandidate(j) \/ StoreSession(j) PROVE r \in candidates'
          BY <3>5 DEF StoreCandidate, StoreSession
      <3>6. ASSUME NEW c \in Callers, AnswerCommits(c) \/ AddEvent(c) \/ StoreReport(c)
            PROVE  r \in candidates'
          BY <3>6 DEF AnswerCommits, AddEvent, StoreReport
      <3>7. QED
          BY <3>1, <3>2, <3>3, <3>4, <3>5, <3>6, Writers
    <2>3. QED
        BY <2>1, <2>2
  <1>4. ASSUME NEW d \in Callers, Live(d)' PROVE since'[d] <= clock' /\ clock' <= since'[d] + Deadline
    <2>1. ASSUME NEW c \in Callers, NEW label, Move(c, label)
          PROVE  since'[d] <= clock' /\ clock' <= since'[d] + Deadline
      <3>1. CASE d = c /\ pc[c] = "new"
          BY <1>4, <2>1, <3>1, RetentionAssumption DEF Move, Goto, Live, TypeOK
      <3>2. CASE d # c \/ pc[c] # "new"
        <4>1. since'[d] = since[d] /\ Live(d)
            BY <1>4, <2>1, <3>2 DEF Move, Goto, Live, TypeOK
        <4>2. QED
            BY <2>1, <4>1 DEF StartInv, Move
      <3>3. QED
          BY <3>1, <3>2
    <2>2. CASE UNCHANGED <<pc, since, about>> /\ (clock' = clock \/ Tick)
        BY <1>4, <2>2, RetentionAssumption DEF StartInv, Live, Tick, TypeOK
    <2>3. QED
        BY <2>1, <2>2, Moves
  <1>5. QED
      BY <1>2, <1>3, <1>4 DEF StartInv

-----------------------------------------------------------------------------
(***************************************************************************)
(* Nothing is written for an interview that is not there, but by a start   *)
(* that has not stored it yet; so nothing comes back after an erasure.     *)
(***************************************************************************)
LEMMA StepErased ==
    TypeOK /\ CallInv /\ LockInv /\ StartInv /\ ErasedLeavesNoTrace /\ [Next]_vars
        => ErasedLeavesNoTrace'
  <1> SUFFICES ASSUME TypeOK, CallInv, LockInv, StartInv, ErasedLeavesNoTrace, [Next]_vars,
                      NEW i \in erased'
               PROVE  ~ Stored(i)' /\ ReportsOf(i)' = {} /\ EventsOf(i)' = {} /\ CandidatesOf(i)' = {}
      BY DEF ErasedLeavesNoTrace
  <1> USE DEF ReportsOf, EventsOf, CandidatesOf
  <1> DEFINE Gone == /\ \A r \in reports' : r.interview_id # i
                     /\ \A e \in activity_events' : e.interview_id # i
                     /\ \A c \in candidates' : c.interview_id # i
  <1>1. i \in Interviews /\ ~ Stored(i)'
    <2>1. i \in Interviews
        BY StepType DEF TypeOK
    <2>2. i \in erased => ~ Stored(i) /\ pc[i] # "store_session"
        BY <2>1 DEF ErasedLeavesNoTrace, StartInv, Unstarted
    <2>3. QED
        BY <2>1, <2>2, StepRows
  <1>2. i \in erased =>
           /\ ~ Stored(i) /\ pc[i] \notin Unstarted
           /\ \A r \in reports : r.interview_id # i
           /\ \A e \in activity_events : e.interview_id # i
           /\ \A c \in candidates : c.interview_id # i
      BY <1>1 DEF ErasedLeavesNoTrace, StartInv
  <1>3. CASE \E j \in Interviews : Erase(j) /\ Stored(j) /\ Free(j)
    <2>1. PICK j \in Interviews : Erase(j) /\ Stored(j) /\ Free(j)
        BY <1>3
    <2>2. /\ reports' = {r \in reports : r.interview_id # j}
          /\ candidates' = {r \in candidates : r.interview_id # j}
          /\ activity_events' = {r \in activity_events : r.interview_id # j}
          /\ erased' = erased \cup {j}
        BY <2>1, EraseRows
    <2>3. Gone
        BY <1>2, <2>2
    <2>4. QED
        BY <1>1, <2>3
  <1>4. CASE erased' = erased
    <2>1. ASSUME NEW j \in Interviews, StoreCandidate(j) \/ StoreSession(j) PROVE Gone
      <3>1. StoreCandidate(j) => j # i
          BY <1>2, <1>4 DEF StoreCandidate, Unstarted
      <3>2. QED
          BY <1>2, <1>4, <2>1, <3>1 DEF StoreCandidate, StoreSession
    <2>2. ASSUME NEW c \in Callers, AnswerCommits(c) PROVE Gone
        BY <1>2, <1>4, <2>2 DEF AnswerCommits
    <2>3. ASSUME NEW c \in Callers, AddEvent(c) PROVE Gone
      <3>1. about[c] = i => UNCHANGED activity_events
          BY <1>2, <1>4, <2>3 DEF AddEvent
      <3>2. QED
          BY <1>2, <1>4, <2>3, <3>1 DEF AddEvent
    <2>4. ASSUME NEW c \in Callers, StoreReport(c) PROVE Gone
      <3>1. about[c] # i
          BY <1>2, <1>4, <2>4, HolderHolds DEF StoreReport
      <3>2. reports' \subseteq
               reports \cup {[interview_id |-> about[c], by |-> c, created_at |-> clock]}
          BY <2>4 DEF StoreReport
      <3>3. \A r \in reports' : r.interview_id # i
          BY <1>2, <1>4, <3>1, <3>2
      <3>4. UNCHANGED <<candidates, activity_events>>
          BY <2>4 DEF StoreReport
      <3>5. i \in erased
          BY <1>4
      <3>6. QED
          BY <1>2, <3>3, <3>4, <3>5
    <2>5. UNCHANGED <<tables, history>> \/ PurgeOrphans => Gone
        BY <1>2, <1>4 DEF PurgeOrphans
    <2> HIDE DEF Gone
    <2>6. CASE Gone
        BY <1>1, <2>6 DEF Gone
    <2>7. QED
        BY <1>3, <2>1, <2>2, <2>3, <2>4, <2>5, <2>6, Writers
  <1>5. erased' = erased \/ \E j \in Interviews : Erase(j) /\ Stored(j) /\ Free(j)
    <2>1. ASSUME NEW j \in Interviews, StoreCandidate(j) \/ StoreSession(j) PROVE erased' = erased
        BY <2>1 DEF StoreCandidate, StoreSession
    <2>2. ASSUME NEW c \in Callers, AnswerCommits(c) \/ AddEvent(c) \/ StoreReport(c)
          PROVE  erased' = erased
        BY <2>2 DEF AnswerCommits, AddEvent, StoreReport
    <2>3. QED
        BY <2>1, <2>2, Writers DEF PurgeOrphans
  <1>6. QED
      BY <1>3, <1>4, <1>5

(***************************************************************************)
(* A session is stored after its candidate and erased with it; in between  *)
(* the orphan purge sees the session.                                      *)
(***************************************************************************)
LEMMA StepCandidate ==
    TypeOK /\ CallInv /\ LockInv /\ StartInv /\ SessionHasCandidate /\ [Next]_vars
        => SessionHasCandidate'
  <1> SUFFICES ASSUME TypeOK, CallInv, LockInv, StartInv, SessionHasCandidate, [Next]_vars,
                      NEW i \in Interviews, Stored(i)'
               PROVE  \E c \in candidates' : c.interview_id = i
      BY DEF SessionHasCandidate, CandidatesOf
  <1>1. PICK c \in candidates : c.interview_id = i
    <2>1. CASE Stored(i)
        BY <2>1 DEF SessionHasCandidate, CandidatesOf
    <2>2. CASE pc[i] = "store_session"
        BY <2>2 DEF StartInv
    <2>3. QED
        BY <2>1, <2>2, StepRows
  <1>2. ASSUME NEW j \in Interviews, Erase(j), Stored(j), Free(j) PROVE c \in candidates'
      BY <1>1, <1>2, EraseRows
  <1>3. CASE PurgeOrphans
    <2>1. Stored(i)
        BY <1>3 DEF PurgeOrphans, Stored
    <2>2. QED
        BY <1>1, <1>3, <2>1 DEF PurgeOrphans
  <1>4. ASSUME NEW j \in Interviews, StoreCandidate(j) \/ StoreSession(j) PROVE c \in candidates'
      BY <1>4 DEF StoreCandidate, StoreSession
  <1>5. ASSUME NEW d \in Callers, AnswerCommits(d) \/ AddEvent(d) \/ StoreReport(d)
        PROVE  c \in candidates'
      BY <1>5 DEF AnswerCommits, AddEvent, StoreReport
  <1>6. QED
      BY <1>1, <1>2, <1>3, <1>4, <1>5, Writers

-----------------------------------------------------------------------------
(***************************************************************************)
(* A report is generated under the row lock when there is none, so it is   *)
(* never replaced, and lost only with its interview.                       *)
(***************************************************************************)
NewReport(c) == [interview_id |-> about[c], by |-> c, created_at |-> clock]

LEMMA StoresReport ==
    ASSUME TypeOK, CallInv, LockInv, ReportInv, NEW c \in Callers, StoreReport(c)
    PROVE  /\ c \in Calls /\ Stored(about[c]) /\ row_lock[about[c]] = {c}
           /\ \A r \in reports : r.interview_id # about[c]
           /\ reports' = reports \cup {NewReport(c)}
           /\ UNCHANGED <<sessions, erased, about>>
           /\ served' = [served EXCEPT ![c] = @ \cup {NewReport(c)}]
           /\ pc' = [pc EXCEPT ![c] = "stored"]
  <1>1. c \in Calls /\ Stored(about[c]) /\ row_lock[about[c]] = {c}
      BY HolderHolds DEF StoreReport
  <1>2. ReportsOf(about[c]) = {}
      BY <1>1 DEF ReportInv, StoreReport
  <1>3. QED
      BY <1>1, <1>2 DEF StoreReport, ReportsOf, NewReport, Goto

\* The other steps that write to the tables add no report.
LEMMA ReportsOnlyGo ==
    ASSUME TypeOK, CallInv, LockInv, ErasedLeavesNoTrace, [Next]_vars,
           ~ \E c \in Callers : StoreReport(c)
    PROVE  reports' \subseteq reports /\ \A r \in reports \ reports' : r.interview_id \in erased'
  <1>1. ASSUME NEW i \in Interviews, Erase(i), Stored(i), Free(i)
        PROVE  reports' \subseteq reports /\ \A r \in reports \ reports' : r.interview_id \in erased'
      BY <1>1, EraseRows
  <1>2. ASSUME NEW i \in Interviews, StoreCandidate(i) \/ StoreSession(i) PROVE reports' = reports
      BY <1>2 DEF StoreCandidate, StoreSession
  <1>3. ASSUME NEW c \in Callers, AnswerCommits(c) \/ AddEvent(c) PROVE reports' = reports
      BY <1>3 DEF AnswerCommits, AddEvent
  <1>4. CASE reports' = reports
      BY <1>4
  <1>5. QED
      BY <1>1, <1>2, <1>3, <1>4, Writers DEF PurgeOrphans

\* What a step lets a call return is a report that is stored.
LEMMA ServedAreStored ==
    ASSUME TypeOK, [Next]_vars
    PROVE  \A c \in Callers : served'[c] \subseteq served[c] \cup reports \cup reports'
  <1>1. ASSUME NEW c \in Callers, AskReport(c) \/ LockForReport(c)
        PROVE  served' = served \/ Serve(c, about[c])
      BY <1>1 DEF AskReport, LockForReport
  <1>2. ASSUME NEW c \in Callers, StoreReport(c)
        PROVE  \A d \in Callers : served'[d] \subseteq served[d] \cup reports'
      BY <1>2 DEF StoreReport, TypeOK
  <1>3. ASSUME NEW c \in Callers, Serve(c, about[c])
        PROVE  \A d \in Callers : served'[d] \subseteq served[d] \cup reports
      BY <1>3 DEF Serve, ReportsOf, TypeOK
  <1>4. ASSUME NEW i \in Interviews,
               BeginStart(i) \/ StoreCandidate(i) \/ StoreSession(i) \/ PurgeSelected(i)
        PROVE  served' = served
      BY <1>4 DEF BeginStart, StoreCandidate, StoreSession, PurgeSelected
  <1>5. ASSUME NEW c \in Callers,
               AnswerLocks(c) \/ AnswerCommits(c) \/ ReadBack(c) \/ MakeEvent(c) \/ NothingToFeed(c)
        PROVE  served' = served
      BY <1>5 DEF AnswerLocks, AnswerCommits, ReadBack, MakeEvent, NothingToFeed
  <1>6. ASSUME NEW c \in Callers,
               AddEvent(c) \/ AskListing(c) \/ ListRow(c) \/ ListDone(c) \/ ReleaseReport(c)
        PROVE  served' = served
      BY <1>6 DEF AddEvent, AskListing, ListRow, ListDone, ReleaseReport
  <1>7. ASSUME NEW c \in Callers, DeleteOwned(c) \/ Cancel(c) PROVE served' = served
      BY <1>7 DEF DeleteOwned, Cancel
  <1>8. CASE SelectExpired \/ PurgeOrphans \/ Tick \/ UNCHANGED vars
      BY <1>8 DEF SelectExpired, PurgeOrphans, Tick, vars
  <1>9. QED
      BY <1>1, <1>2, <1>3, <1>4, <1>5, <1>6, <1>7, <1>8 DEF Next

\* A call that begins to generate has found no report under the lock.
LEMMA BeginsToGenerate ==
    ASSUME TypeOK, [Next]_vars, NEW c \in Callers, pc'[c] = "generating", pc[c] # "generating"
    PROVE  about' = about /\ ReportsOf(about[c]) = {} /\ reports' = reports
  <1>1. LockForReport(c)
    <2>1. ASSUME NEW d \in Callers, NEW label, Move(d, label) PROVE LockForReport(c)
        BY <2>1, GotoStep DEF Move
    <2>2. QED
        BY <2>1, Moves
  <1>2. pc'[c] = "generating" /\ NextRow(c) # "generating"
      BY DEF NextRow
  <1>3. ReportsOf(about[c]) = {}
      BY <1>1, <1>2, GotoStep DEF LockForReport
  <1>4. QED
      BY <1>1, <1>3 DEF LockForReport

\* What a call is about changes only as a listing goes on to a row.
LEMMA AboutMoves ==
    ASSUME TypeOK, [Next]_vars, NEW c \in Callers, pc[c] # "listing"
    PROVE  about'[c] = about[c]
  <1>1. ASSUME NEW d \in Callers, NEW label, Move(d, label) PROVE about'[c] = about[c]
    <2>1. ListRow(d) => d # c /\ about'[c] = about[c]
        BY DEF ListRow, TypeOK
    <2>2. QED
        BY <1>1, <2>1 DEF Move
  <1>2. QED
      BY <1>1, Moves

LEMMA StepReport ==
    TypeOK /\ CallInv /\ LockInv /\ StartInv /\ ErasedLeavesNoTrace /\ ReportInv /\ [Next]_vars
        => ReportInv'
  <1> SUFFICES ASSUME TypeOK, CallInv, LockInv, StartInv, ErasedLeavesNoTrace, ReportInv,
                      [Next]_vars
               PROVE  ReportInv'
      OBVIOUS
  <1>1. CASE \E c \in Callers : StoreReport(c)
    <2>1. PICK c \in Callers : StoreReport(c)
        BY <1>1
    <2> USE StoresReport, <2>1
    <2>2. \A r \in reports' : Stored(r.interview_id)'
        BY DEF ReportInv, Stored, NewReport
    <2>3. \A r, s \in reports' : r.interview_id = s.interview_id => r = s
        BY DEF ReportInv, NewReport
    <2>4. ASSUME NEW d \in Callers, NEW r \in served'[d]
          PROVE  r \in reports' \/ r.interview_id \in erased'
      <3>1. served'[d] \subseteq served[d] \cup {NewReport(c)}
          BY DEF TypeOK
      <3>2. reports' = reports \cup {NewReport(c)} /\ erased' = erased
          OBVIOUS
      <3>3. QED
          BY <2>4, <3>1, <3>2 DEF ReportInv
    <2>5. ASSUME NEW d \in Calls, pc'[d] = "generating" PROVE ReportsOf(about[d])' = {}
      <3>1. pc[d] = "generating" /\ d # c
          BY <2>5 DEF TypeOK
      <3>2. about[d] # about[c]
          BY <3>1, HolderHolds
      <3>3. QED
          BY <3>1, <3>2 DEF ReportInv, ReportsOf, NewReport
    <2>6. QED
        BY <2>2, <2>3, <2>4, <2>5 DEF ReportInv
  <1>2. CASE ~ \E c \in Callers : StoreReport(c)
    <2>1. reports' \subseteq reports /\ \A r \in reports \ reports' : r.interview_id \in erased'
        BY <1>2, ReportsOnlyGo
    <2>2. ASSUME NEW r \in reports' PROVE Stored(r.interview_id)'
      <3>1. r.interview_id \in Interviews /\ Stored(r.interview_id)
          BY <2>1 DEF ReportInv, TypeOK, Report
      <3>2. r.interview_id \notin erased'
          BY <2>2, StepErased DEF ErasedLeavesNoTrace, ReportsOf
      <3>3. QED
          BY <3>1, <3>2, StepRows
    <2>3. ASSUME NEW d \in Callers, NEW r \in served'[d]
          PROVE  r \in reports' \/ r.interview_id \in erased'
      <3>1. r \in reports \/ r.interview_id \in erased
        <4>1. r \in served[d] \cup reports
            BY <2>1, ServedAreStored
        <4>2. QED
            BY <4>1 DEF ReportInv
      <3>2. QED
          BY <2>1, <3>1, StepRows
    <2>4. ASSUME NEW d \in Calls, pc'[d] = "generating" PROVE ReportsOf(about[d])' = {}
      <3>1. about'[d] = about[d] /\ ReportsOf(about[d]) = {}
        <4>1. CASE pc[d] = "generating"
            BY <4>1, AboutMoves DEF ReportInv
        <4>2. CASE pc[d] # "generating"
            BY <2>4, <4>2, BeginsToGenerate
        <4>3. QED
            BY <4>1, <4>2
      <3>2. QED
          BY <2>1, <3>1 DEF ReportsOf
    <2>5. QED
        BY <2>1, <2>2, <2>3, <2>4 DEF ReportInv
  <1>3. QED
      BY <1>1, <1>2

(***************************************************************************)
(* So all who were given a report were given the same one.                 *)
(***************************************************************************)
LEMMA StepOneReport ==
    TypeOK /\ CallInv /\ LockInv /\ StartInv /\ ErasedLeavesNoTrace /\ ReportInv
    /\ OneReportPerInterview /\ [Next]_vars => OneReportPerInterview'
  <1> SUFFICES ASSUME TypeOK, CallInv, LockInv, StartInv, ErasedLeavesNoTrace, ReportInv,
                      OneReportPerInterview, [Next]_vars
               PROVE  OneReportPerInterview'
      OBVIOUS
  <1> DEFINE All == reports \cup UNION {served[c] : c \in Callers}
  <1>1. CASE \E c \in Callers : StoreReport(c)
    <2>1. PICK c \in Callers : StoreReport(c)
        BY <1>1
    <2>2. All' \subseteq All \cup {NewReport(c)}
      <3>1. \A d \in Callers : served'[d] \subseteq served[d] \cup {NewReport(c)}
          BY <2>1, StoresReport DEF TypeOK
      <3>2. reports' = reports \cup {NewReport(c)}
          BY <2>1, StoresReport
      <3>3. QED
          BY <3>1, <3>2
    <2>3. about[c] \notin erased
        BY <2>1, StoresReport DEF ErasedLeavesNoTrace
    <2>4. \A r \in All : r.interview_id # about[c]
        BY <2>1, <2>3, StoresReport DEF ReportInv
    <2>5. QED
        BY <2>2, <2>4 DEF OneReportPerInterview, NewReport
  <1>2. CASE ~ \E c \in Callers : StoreReport(c)
    <2>1. All' \subseteq All
        BY <1>2, ReportsOnlyGo, ServedAreStored
    <2>2. QED
        BY <2>1 DEF OneReportPerInterview
  <1>3. QED
      BY <1>1, <1>2

-----------------------------------------------------------------------------
(***************************************************************************)
(* Whatever is recorded of an interview moves its last activity along, or  *)
(* is the report that keeps it.                                            *)
(***************************************************************************)
LEMMA StepCovered ==
    TypeOK /\ CallInv /\ LockInv /\ StartInv /\ ReportInv
    /\ (\A i \in Interviews : Stored(i) => Covered(i)) /\ [Next]_vars
        => \A i \in Interviews : Stored(i)' => Covered(i)'
  <1> SUFFICES ASSUME TypeOK, CallInv, LockInv, StartInv, ReportInv,
                      \A i \in Interviews : Stored(i) => Covered(i), [Next]_vars,
                      NEW i \in Interviews, Stored(i)'
               PROVE  Covered(i)'
      OBVIOUS
  \* What has just been touched is covered, and so is what stays as it is.
  <1>1. ASSUME sessions'[i].last_activity_at = clock, touched'[i] = clock PROVE Covered(i)'
      BY <1>1 DEF Covered, TypeOK
  <1>2. ASSUME sessions'[i] = sessions[i], touched'[i] = touched[i],
               \A r \in reports : r.interview_id = i => r \in reports'
        PROVE  Covered(i)'
      BY <1>2 DEF Covered, Stored
  <1>3. ASSUME NEW j \in Interviews, StoreCandidate(j) PROVE Covered(i)'
      BY <1>2, <1>3 DEF StoreCandidate
  <1>4. ASSUME NEW j \in Interviews, StoreSession(j) PROVE Covered(i)'
    <2>1. CASE i = j
        BY <1>1, <1>4, <2>1 DEF StoreSession, Session, Touch, TypeOK
    <2>2. CASE i # j
        BY <1>2, <1>4, <2>2 DEF StoreSession, Touch, TypeOK
    <2>3. QED
        BY <2>1, <2>2
  <1>5. ASSUME NEW c \in Callers, AnswerCommits(c) PROVE Covered(i)'
    <2>1. CASE i = about[c]
        BY <1>1, <1>5, <2>1 DEF AnswerCommits, Session, Touch, TypeOK
    <2>2. CASE i # about[c]
        BY <1>2, <1>5, <2>2 DEF AnswerCommits, Touch, TypeOK
    <2>3. QED
        BY <2>1, <2>2
  <1>6. ASSUME NEW c \in Callers, AddEvent(c) PROVE Covered(i)'
    <2>1. CASE i # about[c] \/ ~ Stored(about[c])
        BY <1>2, <1>6, <2>1 DEF AddEvent, TypeOK
    <2>2. CASE i = about[c] /\ Stored(about[c])
      <3>1. /\ sessions' = [sessions EXCEPT ![i].last_activity_at = Later(@, created_at[c])]
            /\ touched' = [touched EXCEPT ![i] = Later(@, created_at[c])] /\ reports' = reports
          BY <1>6, <2>2 DEF AddEvent
      <3>2. sessions[i] \in SessionRow
          BY DEF TypeOK
      <3>3. /\ sessions'[i].last_activity_at = Later(sessions[i].last_activity_at, created_at[c])
            /\ touched'[i] = Later(touched[i], created_at[c])
          BY <3>1, <3>2 DEF TypeOK, SessionRow
      <3>4. /\ sessions[i].last_activity_at \in Nat /\ touched[i] \in Nat /\ created_at[c] \in Nat
            /\ \A r \in reports : r.created_at \in Nat
          BY <3>2 DEF TypeOK, SessionRow, Report
      <3>5. CASE touched[i] <= sessions[i].last_activity_at
          BY <3>3, <3>4, <3>5 DEF Covered, Later
      <3>6. CASE \E r \in reports : r.interview_id = i /\ touched[i] <= r.created_at
        <4>1. touched'[i] = touched[i] \/ touched'[i] <= sessions'[i].last_activity_at
            BY <3>3, <3>4 DEF Later
        <4>2. QED
            BY <3>1, <3>6, <4>1 DEF Covered
      <3>7. QED
          BY <2>2, <3>5, <3>6 DEF Covered
    <2>3. QED
        BY <2>1, <2>2
  <1>7. ASSUME NEW c \in Callers, StoreReport(c) PROVE Covered(i)'
    <2>1. reports' = reports \cup {NewReport(c)} /\ sessions' = sessions
        BY <1>7, StoresReport
    <2>2. touched' = [touched EXCEPT ![about[c]] = clock]
        BY <1>7 DEF StoreReport, Touch
    <2>3. CASE i = about[c]
      <3>1. touched'[i] = clock /\ clock \in Nat
          BY <2>2, <2>3 DEF TypeOK
      <3>2. NewReport(c) \in reports' /\ NewReport(c).interview_id = i
          BY <2>1, <2>3 DEF NewReport
      <3>3. touched'[i] <= NewReport(c).created_at
          BY <3>1 DEF NewReport
      <3>4. QED
          BY <3>2, <3>3 DEF Covered
    <2>4. CASE i # about[c]
        BY <1>2, <2>1, <2>2, <2>4 DEF TypeOK
    <2>5. QED
        BY <2>3, <2>4
  <1>8. ASSUME NEW j \in Interviews, Erase(j), Stored(j), Free(j) PROVE Covered(i)'
    <2>1. i # j
        BY <1>8, EraseRows
    <2>2. QED
        BY <1>2, <1>8, <2>1, EraseRows
  <1>9. UNCHANGED <<tables, history>> \/ PurgeOrphans => Covered(i)'
      BY <1>2 DEF PurgeOrphans
  <1>10. QED
      BY <1>3, <1>4, <1>5, <1>6, <1>7, <1>8, <1>9, Writers

(***************************************************************************)
(* The sweep's cutoff is set a retention period back, and time goes on.    *)
(***************************************************************************)
LEMMA StepCutoff ==
    TypeOK /\ CallInv /\ (sweep = "erasing" => cutoff + Retention <= clock) /\ [Next]_vars
        => (sweep = "erasing" => cutoff + Retention <= clock)'
  <1> SUFFICES ASSUME TypeOK, CallInv, sweep = "erasing" => cutoff + Retention <= clock,
                      [Next]_vars, sweep' = "erasing"
               PROVE  cutoff' + Retention <= clock'
      OBVIOUS
  <1>1. CASE SelectExpired
      BY <1>1, RetentionAssumption DEF SelectExpired, TypeOK
  <1>2. CASE UNCHANGED <<sweep, cutoff>>
    <2>1. clock' = clock \/ Tick
        BY Moves DEF Move
    <2>2. QED
        BY <1>2, <2>1, RetentionAssumption DEF Tick, TypeOK
  <1>3. CASE PurgeOrphans
      BY <1>3 DEF PurgeOrphans
  <1>4. ASSUME NEW i \in Interviews,
               BeginStart(i) \/ StoreCandidate(i) \/ StoreSession(i) \/ PurgeSelected(i)
        PROVE  UNCHANGED <<sweep, cutoff>>
      BY <1>4 DEF BeginStart, StoreCandidate, StoreSession, PurgeSelected
  <1>5. ASSUME NEW c \in Callers,
               AnswerLocks(c) \/ AnswerCommits(c) \/ ReadBack(c) \/ MakeEvent(c) \/ NothingToFeed(c)
        PROVE  UNCHANGED <<sweep, cutoff>>
      BY <1>5 DEF AnswerLocks, AnswerCommits, ReadBack, MakeEvent, NothingToFeed
  <1>6. ASSUME NEW c \in Callers,
               AddEvent(c) \/ AskReport(c) \/ AskListing(c) \/ ListRow(c) \/ ListDone(c)
        PROVE  UNCHANGED <<sweep, cutoff>>
      BY <1>6 DEF AddEvent, AskReport, AskListing, ListRow, ListDone
  <1>7. ASSUME NEW c \in Callers,
               LockForReport(c) \/ StoreReport(c) \/ ReleaseReport(c) \/ DeleteOwned(c) \/ Cancel(c)
        PROVE  UNCHANGED <<sweep, cutoff>>
      BY <1>7 DEF LockForReport, StoreReport, ReleaseReport, DeleteOwned, Cancel
  <1>8. CASE Tick \/ UNCHANGED vars
      BY <1>2, <1>8 DEF Tick, vars
  <1>9. QED
      BY <1>1, <1>2, <1>3, <1>4, <1>5, <1>6, <1>7, <1>8 DEF Next

(***************************************************************************)
(* What a listing goes on to is there when it is put on the list; it goes  *)
(* only by an erasure, which is for good.                                  *)
(***************************************************************************)
LEMMA StepListing == TypeOK /\ CallInv /\ LockInv /\ ListingInv /\ [Next]_vars => ListingInv'
  <1> SUFFICES ASSUME TypeOK, CallInv, LockInv, ListingInv, [Next]_vars, NEW c \in Calls,
                      kind'[c] = "list"
               PROVE  /\ \A i \in todo'[c] : Stored(i)' \/ i \in erased'
                      /\ pc'[c] = "report" => Stored(about[c])' \/ about'[c] \in erased'
                      /\ pc'[c] = "not_found" => (todo'[c] \cup {about'[c]}) \cap erased' # {}
      BY DEF ListingInv
  <1> DEFINE There(i) == Stored(i) \/ i \in erased
             Keeps == /\ \A i \in todo'[c] : There(i)
                      /\ pc'[c] = "report" => There(about'[c])
                      /\ pc'[c] = "not_found" => (todo'[c] \cup {about'[c]}) \cap erased # {}
  <1> HIDE DEF Keeps
  <1>1. about'[c] \in Interviews /\ todo'[c] \subseteq Interviews
      BY StepType DEF TypeOK
  <1>2. kind' = kind
    <2>1. ASSUME NEW i \in Interviews,
                 BeginStart(i) \/ StoreCandidate(i) \/ StoreSession(i) \/ PurgeSelected(i)
          PROVE  kind' = kind
        BY <2>1 DEF BeginStart, StoreCandidate, StoreSession, PurgeSelected
    <2>2. ASSUME NEW d \in Callers,
                 AnswerLocks(d) \/ AnswerCommits(d) \/ ReadBack(d) \/ MakeEvent(d) \/ NothingToFeed(d)
          PROVE  kind' = kind
        BY <2>2 DEF AnswerLocks, AnswerCommits, ReadBack, MakeEvent, NothingToFeed
    <2>3. ASSUME NEW d \in Callers,
                 AddEvent(d) \/ AskReport(d) \/ AskListing(d) \/ ListRow(d) \/ ListDone(d)
          PROVE  kind' = kind
        BY <2>3 DEF AddEvent, AskReport, AskListing, ListRow, ListDone
    <2>4. ASSUME NEW d \in Callers, LockForReport(d) \/ StoreReport(d) \/ ReleaseReport(d)
                                    \/ DeleteOwned(d) \/ Cancel(d)
          PROVE  kind' = kind
        BY <2>4 DEF LockForReport, StoreReport, ReleaseReport, DeleteOwned, Cancel
    <2>5. CASE SelectExpired \/ PurgeOrphans \/ Tick \/ UNCHANGED vars
        BY <2>5 DEF SelectExpired, PurgeOrphans, Tick, vars
    <2>6. QED
        BY <2>1, <2>2, <2>3, <2>4, <2>5 DEF Next
  <1>3. /\ \A i \in todo[c] : There(i)
        /\ pc[c] = "report" => There(about[c])
        /\ pc[c] = "not_found" => (todo[c] \cup {about[c]}) \cap erased # {}
      BY <1>2 DEF ListingInv
  <1>4. ASSUME Keeps
        PROVE  /\ \A i \in todo'[c] : Stored(i)' \/ i \in erased'
               /\ pc'[c] = "report" => Stored(about[c])' \/ about'[c] \in erased'
               /\ pc'[c] = "not_found" => (todo'[c] \cup {about'[c]}) \cap erased' # {}
    <2>1. \A i \in Interviews : There(i) => sessions'[i].stored \/ i \in erased'
        BY StepRows DEF Stored
    <2>2. QED
        BY <1>1, <1>4, <2>1, StepRows DEF Stored, Keeps
  <1>5. ASSUME todo'[c] = todo[c], about'[c] = about[c], pc'[c] = pc[c] PROVE Keeps
      BY <1>3, <1>5 DEF Keeps
  \* Steps of other calls, and those that neither give up nor go on to a report.
  <1>6. ASSUME NEW d \in Callers, NEW label, Goto(d, label), UNCHANGED <<todo, about>>,
               d # c \/ label \notin {"report", "not_found"}
        PROVE  Keeps
      BY <1>3, <1>6, GotoStep DEF Keeps
  <1>7. ASSUME NEW i \in Interviews, BeginStart(i) \/ StoreCandidate(i) \/ StoreSession(i)
        PROVE  Keeps
    <2>1. \E label \in {"store_candidate", "store_session", "read_back"} : Goto(i, label)
        BY <1>7 DEF BeginStart, StoreCandidate, StoreSession
    <2>2. UNCHANGED <<todo, about>>
        BY <1>7 DEF BeginStart, StoreCandidate, StoreSession
    <2>3. QED
        BY <1>6, <2>1, <2>2
  <1>8. ASSUME NEW d \in Callers, AnswerLocks(d) \/ AskReport(d) \/ DeleteOwned(d) PROVE Keeps
    <2>1. d # c /\ UNCHANGED <<todo, about>>
        BY <1>2, <1>8 DEF AnswerLocks, AskReport, DeleteOwned
    <2>2. \E label : Goto(d, label)
        BY <1>8 DEF AnswerLocks, AskReport, DeleteOwned
    <2>3. QED
        BY <1>6, <2>1, <2>2
  <1>9. ASSUME NEW d \in Callers, AnswerCommits(d) \/ ReadBack(d) PROVE Keeps
    <2>1. d # c /\ UNCHANGED <<todo, about>>
        BY <1>2, <1>9 DEF AnswerCommits, ReadBack, CallInv
    <2>2. \E label : Goto(d, label)
        BY <1>9 DEF AnswerCommits, ReadBack
    <2>3. QED
        BY <1>6, <2>1, <2>2
  <1>10. ASSUME NEW d \in Callers, MakeEvent(d) \/ NothingToFeed(d) \/ AddEvent(d) \/ ListDone(d)
         PROVE  Keeps
    <2>1. \E label \in {"feeding", "done", "feed"} : Goto(d, label)
        BY <1>10 DEF MakeEvent, NothingToFeed, AddEvent, ListDone
    <2>2. UNCHANGED <<todo, about>>
        BY <1>10 DEF MakeEvent, NothingToFeed, AddEvent, ListDone
    <2>3. QED
        BY <1>6, <2>1, <2>2
  <1>11. ASSUME NEW d \in Callers, StoreReport(d) \/ ReleaseReport(d) \/ Cancel(d) PROVE Keeps
    <2>1. \E label \in {"stored", "listing", "done", "failed"} : Goto(d, label)
        BY <1>11 DEF StoreReport, ReleaseReport, Cancel, NextRow
    <2>2. UNCHANGED <<todo, about>>
        BY <1>11 DEF StoreReport, ReleaseReport, Cancel
    <2>3. QED
        BY <1>6, <2>1, <2>2
  <1>12. ASSUME NEW d \in Callers, AskListing(d) PROVE Keeps
    <2>1. CASE d = c
        BY <1>12, <2>1, GotoStep DEF AskListing, Keeps, TypeOK
    <2>2. CASE d # c
        BY <1>5, <1>12, <2>2, GotoStep DEF AskListing, TypeOK
    <2>3. QED
        BY <2>1, <2>2
  <1>13. ASSUME NEW d \in Callers, ListRow(d) PROVE Keeps
    <2>1. \E label \in {"not_found", "report", "listing"} : Goto(d, label)
        BY <1>13 DEF ListRow
    <2>2. CASE d # c
      <3>1. todo'[c] = todo[c] /\ about'[c] = about[c]
          BY <1>13, <2>2 DEF ListRow, TypeOK
      <3>2. QED
          BY <1>5, <2>1, <2>2, <3>1, GotoStep
    <2>3. CASE d = c
      <3>1. PICK i \in todo[c] :
               \/ ~ Stored(i) /\ Goto(c, "not_found") /\ UNCHANGED <<about, todo>>
               \/ /\ Stored(i) /\ Goto(c, IF sessions[i].completed THEN "report" ELSE "listing")
                  /\ todo' = [todo EXCEPT ![c] = @ \ {i}] /\ about' = [about EXCEPT ![c] = i]
          BY <1>13, <2>3 DEF ListRow
      <3>2. CASE ~ Stored(i) /\ Goto(c, "not_found") /\ UNCHANGED <<about, todo>>
        <4>1. i \in erased
            BY <1>3, <3>2
        <4>2. pc'[c] = "not_found"
            BY <3>2, GotoStep
        <4>3. QED
            BY <1>3, <3>2, <4>1, <4>2 DEF Keeps
      <3>3. CASE Stored(i) /\ Goto(c, IF sessions[i].completed THEN "report" ELSE "listing")
                 /\ todo' = [todo EXCEPT ![c] = @ \ {i}] /\ about' = [about EXCEPT ![c] = i]
        <4>1. pc'[c] # "not_found" /\ todo'[c] \subseteq todo[c] /\ about'[c] = i
            BY <3>3, GotoStep DEF TypeOK
        <4>2. QED
            BY <1>3, <3>3, <4>1 DEF Keeps
      <3>4. QED
          BY <3>1, <3>2, <3>3
    <2>4. QED
        BY <2>2, <2>3
  <1>14. ASSUME NEW d \in Callers, LockForReport(d) PROVE Keeps
    <2>1. UNCHANGED <<todo, about>> /\ pc[d] = "report"
        BY <1>14 DEF LockForReport
    <2>2. \/ ~ Stored(about[d]) /\ Goto(d, "not_found")
          \/ \E label \in {"listing", "done", "refused", "generating"} : Goto(d, label)
        BY <1>14 DEF LockForReport, NextRow
    <2>3. CASE d = c /\ ~ Stored(about[d]) /\ Goto(d, "not_found")
        BY <1>3, <2>1, <2>3, GotoStep DEF Keeps
    <2>4. QED
        BY <1>6, <2>1, <2>2, <2>3
  <1>15. ASSUME NEW i \in Interviews, PurgeSelected(i) PROVE Keeps
    <2>1. todo' = todo /\ about' = about /\ pc' = pc
        BY <1>15 DEF PurgeSelected
    <2>2. todo'[c] = todo[c] /\ about'[c] = about[c] /\ pc'[c] = pc[c]
        BY <2>1
    <2>3. QED
        BY <1>5, <2>2
  <1>16. ASSUME SelectExpired \/ PurgeOrphans \/ Tick \/ UNCHANGED vars PROVE Keeps
    <2>1. todo' = todo /\ about' = about /\ pc' = pc
        BY <1>16 DEF SelectExpired, PurgeOrphans, Tick, vars
    <2>2. todo'[c] = todo[c] /\ about'[c] = about[c] /\ pc'[c] = pc[c]
        BY <2>1
    <2>3. QED
        BY <1>5, <2>2
  <1>17. Keeps
      BY <1>7, <1>8, <1>9, <1>10, <1>11, <1>12, <1>13, <1>14, <1>15, <1>16 DEF Next
  <1>18. QED
      BY <1>4, <1>17

-----------------------------------------------------------------------------
(***************************************************************************)
(* The strengthening holds of the rows there are at the beginning.         *)
(***************************************************************************)
LEMMA InitIInv == Init => IInv
  <1> SUFFICES ASSUME Init PROVE IInv
      OBVIOUS
  <1>1. TypeOK
      BY InitType
  <1>2. \A c \in Callers : pc[c] \in {"new", "done"}
      BY DEF Init
  <1>3. \A i \in Interviews : Stored(i) => sessions[i].last_activity_at = 1
      BY DEF Init, Session, NoSession, Stored
  <1>4. CallInv /\ ListingInv
      BY <1>2, CallersAssumption DEF Init, CallInv, ListingInv
  <1>5. LockInv
      BY <1>2 DEF Init, LockInv
  <1>6. StartInv
      BY <1>2, CallersAssumption DEF Init, StartInv, Live, Unstarted
  <1>7. ErasedLeavesNoTrace
      BY DEF Init, ErasedLeavesNoTrace
  <1>8. SessionHasCandidate
    <2>1. ASSUME NEW i \in Interviews, Stored(i)
          PROVE  [interview_id |-> i, created_at |-> 1] \in CandidatesOf(i)
        BY <2>1 DEF Init, CandidatesOf
    <2>2. QED
        BY <2>1 DEF SessionHasCandidate
  <1>9. ReportInv /\ OneReportPerInterview
      BY <1>2 DEF Init, ReportInv, OneReportPerInterview
  <1>10. SweepInv
      BY <1>3 DEF Init, SweepInv, Covered
  <1>11. QED
      BY <1>1, <1>4, <1>5, <1>6, <1>7, <1>8, <1>9, <1>10 DEF IInv

(***************************************************************************)
(* Each part is kept with the help of those before it.                     *)
(***************************************************************************)
LEMMA StepIInv == IInv /\ [Next]_vars => IInv'
  <1> SUFFICES ASSUME IInv, [Next]_vars PROVE IInv'
      OBVIOUS
  <1>1. TypeOK' /\ CallInv' /\ LockInv' /\ StartInv'
      BY StepType, StepCall, StepLock, StepStart DEF IInv
  <1>2. ErasedLeavesNoTrace' /\ SessionHasCandidate'
      BY StepErased, StepCandidate DEF IInv
  <1>3. ReportInv' /\ OneReportPerInterview'
      BY StepReport, StepOneReport DEF IInv
  <1>4. SweepInv'
    <2>1. (sweep = "erasing" => cutoff + Retention <= clock)'
        BY StepCutoff DEF IInv, SweepInv
    <2>2. \A i \in Interviews : Stored(i)' => Covered(i)'
        BY StepCovered DEF IInv, SweepInv
    <2>3. QED
        BY <2>1, <2>2 DEF SweepInv
  <1>5. ListingInv'
      BY StepListing DEF IInv
  <1>6. QED
      BY <1>1, <1>2, <1>3, <1>4, <1>5 DEF IInv

(***************************************************************************)
(* The state of interviews, calls and the sweep always has its type.       *)
(***************************************************************************)
THEOREM LifecycleTypes == Spec => []TypeOK
  <1>1. IInv => TypeOK
      BY DEF IInv
  <1>2. QED
      BY <1>1, InitIInv, StepIInv, PTL DEF Spec

(***************************************************************************)
(* An erased interview leaves no trace for good, a stored one keeps its    *)
(* candidate, and there is one report of it, for any number of interviews  *)
(* and calls (interviews.py, sql.py, retention.py).                        *)
(***************************************************************************)
THEOREM KeepsItsRows == Spec => []InterviewKeepsItsRows
  <1>1. IInv => InterviewKeepsItsRows
      BY DEF IInv, InterviewKeepsItsRows
  <1>2. QED
      BY <1>1, InitIInv, StepIInv, PTL DEF Spec

(***************************************************************************)
(* list_job_interviews answers "not found" only if an interview it was to  *)
(* show has been erased meanwhile.                                         *)
(***************************************************************************)
THEOREM ListingNeedsErasure == Spec => []ListingFailsOnlyByErasure
  <1>1. IInv => ListingFailsOnlyByErasure
      BY DEF IInv, ListingInv, ListingFailsOnlyByErasure
  <1>2. QED
      BY <1>1, InitIInv, StepIInv, PTL DEF Spec

(***************************************************************************)
(* purge_expired_interviews erases only what was last answered, recorded   *)
(* or reported on more than a retention period ago.                        *)
(***************************************************************************)
THEOREM SweepSpares == Spec => SweepSparesTheRecent
  <1> DEFINE Spares == sweep = "erasing" /\ ids' # ids =>
                          \A i \in erased' \ erased : touched[i] + Retention < clock
  <1>1. IInv /\ [Next]_vars => [Spares]_vars
    <2> SUFFICES ASSUME IInv, [Next]_vars, sweep = "erasing", ids' # ids,
                        NEW i \in erased' \ erased
                 PROVE  touched[i] + Retention < clock
        OBVIOUS
    <2>1. i \in Interviews /\ i \notin erased /\ Stored(i)
        BY StepType, StepRows DEF IInv, TypeOK
    <2>2. PurgeSelected(i)
      <3>1. \E j \in Interviews : PurgeSelected(j)
        <4>1. ASSUME NEW j \in Interviews, BeginStart(j) \/ StoreCandidate(j) \/ StoreSession(j)
              PROVE  ids' = ids
            BY <4>1 DEF BeginStart, StoreCandidate, StoreSession
        <4>2. ASSUME NEW c \in Callers, AnswerLocks(c) \/ AnswerCommits(c) \/ ReadBack(c)
                                        \/ MakeEvent(c) \/ NothingToFeed(c)
              PROVE  ids' = ids
            BY <4>2 DEF AnswerLocks, AnswerCommits, ReadBack, MakeEvent, NothingToFeed
        <4>3. ASSUME NEW c \in Callers, AddEvent(c) \/ AskReport(c) \/ AskListing(c)
                                        \/ ListRow(c) \/ ListDone(c)
              PROVE  ids' = ids
            BY <4>3 DEF AddEvent, AskReport, AskListing, ListRow, ListDone
        <4>4. ASSUME NEW c \in Callers, LockForReport(c) \/ StoreReport(c) \/ ReleaseReport(c)
                                        \/ DeleteOwned(c) \/ Cancel(c)
              PROVE  ids' = ids
            BY <4>4 DEF LockForReport, StoreReport, ReleaseReport, DeleteOwned, Cancel
        <4>5. ~ SelectExpired /\ (PurgeOrphans \/ Tick \/ UNCHANGED vars => ids' = ids)
            BY DEF SelectExpired, PurgeOrphans, Tick, vars
        <4>6. QED
            BY <4>1, <4>2, <4>3, <4>4, <4>5 DEF Next
      <3>2. PICK j \in Interviews : PurgeSelected(j)
          BY <3>1
      <3>3. erased' \subseteq erased \cup {j}
          BY <3>2 DEF PurgeSelected, Erase
      <3>4. QED
          BY <3>2, <3>3
    <2>3. Expired(i, cutoff)
        BY <2>2 DEF PurgeSelected
    <2>4. cutoff + Retention <= clock /\ Covered(i)
        BY <2>1 DEF IInv, SweepInv
    <2>5. /\ touched[i] \in Nat /\ cutoff \in Int /\ clock \in Nat
          /\ sessions[i].last_activity_at \in Nat /\ \A r \in reports : r.created_at \in Nat
        BY <2>1 DEF IInv, TypeOK, SessionRow, Report
    <2>6. touched[i] < cutoff
        BY <2>3, <2>4, <2>5 DEF Expired, Covered, ReportsOf
    <2>7. QED
        BY <2>4, <2>5, <2>6, RetentionAssumption
  <1>2. QED
      BY <1>1, InitIInv, StepIInv, PTL DEF Spec, SweepSparesTheRecent
=============================================================================
