--------------------------- MODULE InterviewSession ---------------------------
(***************************************************************************)
(* Starting an interview and accepting its answers: the service of         *)
(* services/interview_session.py over the SQL repositories, run by several *)
(* processes that share one PostgreSQL.                                    *)
(*                                                                         *)
(* The interview's own graph (InterviewLoop) shows here only through what  *)
(* the service sees of it: the answers it has taken in, and whether it     *)
(* waits for another.  The turn ids are uuid4 values, here a counter.  A   *)
(* request is one HTTP request: a retry, a double click or an old tab is   *)
(* another request that carries a turn already seen.                       *)
(***************************************************************************)
EXTENDS Naturals, Sequences, FiniteSets

CONSTANTS Interviews,
          Requests,    \* the answers submitted, to any interview
          Processes,
          Permits      \* InterviewLockRegistry.transactions

ASSUME PermitsAssumption == Permits \in Nat \ {0}

VARIABLES
    \* PostgreSQL
    row,         \* the session row: does it exist, accepted answers, open turn
    candidates,  \* the interviews whose candidate row exists
    row_locks,   \* the requests whose transaction holds their session row
    turns,       \* how many turn ids have been drawn
    \* memory of the processes
    locks,       \* the requests that hold their process's lock for their interview
    permits,     \* the requests that hold one of their process's transactions
    thread,      \* the graph threads in each process's checkpointer
    \* the calls
    starting,    \* where each interview's start() is
    start_at,    \* the process that runs it
    pc,          \* where each request's submit_answer() is, then its outcome
    at,          \* the process each request is routed to
    about,       \* the interview it addresses
    turn,        \* the turn it answers
    session      \* the record it read from the row and works on

database == <<row, candidates, row_locks, turns>>
memory == <<locks, permits, thread>>
routes == <<start_at, at, about>>
vars == <<row, candidates, row_locks, turns, locks, permits, thread,
          starting, start_at, pc, at, about, turn, session>>

NoTurn == 0
Entry == [request : Requests, turn : Nat]
Row == [published : BOOLEAN, log : Seq(Entry), open : Nat]
NoRow == [published |-> FALSE, log |-> <<>>, open |-> NoTurn]

\* The steps of submit_answer before its commit, and the ones inside its try block.
Uncommitted == {"lock", "permit", "row", "restore", "advance"}
InGraph == {"restore", "advance"}
Live == Uncommitted \cup {"commit", "respond"}
Outcomes == {"accepted", "stale", "completed", "error", "unknown"}

StartLive == {"generating", "store_candidate", "store_session"}

Init ==
    /\ row = [i \in Interviews |-> NoRow]
    /\ candidates = {}
    /\ row_locks = {}
    /\ turns = 0
    /\ locks = {}
    /\ permits = {}
    /\ thread = [p \in Processes |-> [i \in Interviews |-> {}]]
    /\ starting = [i \in Interviews |-> "idle"]
    /\ start_at \in [Interviews -> Processes]
    /\ pc = [r \in Requests |-> "new"]
    /\ at \in [Requests -> Processes]
    /\ about \in [Requests -> Interviews]
    /\ turn = [r \in Requests |-> NoTurn]
    /\ session = [r \in Requests |-> NoRow]

-----------------------------------------------------------------------------
(***************************************************************************)
(* start(): the first question is generated, then the candidate row and    *)
(* the session row are inserted, each in a transaction of its own.         *)
(***************************************************************************)
BeginStart(i) ==
    /\ starting[i] = "idle"
    /\ starting' = [starting EXCEPT ![i] = "generating"]
    /\ UNCHANGED <<database, memory, routes, pc, turn, session>>

FirstQuestionReady(i) ==
    /\ starting[i] = "generating"
    /\ starting' = [starting EXCEPT ![i] = "store_candidate"]
    /\ UNCHANGED <<database, memory, routes, pc, turn, session>>

\* Variant: the candidate row is inserted by a task nobody waits for.
StoreCandidateUnawaited(i) ==
    /\ starting[i] = "store_candidate"
    /\ starting' = [starting EXCEPT ![i] = "store_session"]
    /\ candidates' \in {candidates, candidates \cup {i}}
    /\ UNCHANGED <<row, row_locks, turns, memory, routes, pc, turn, session>>

StoreCandidate(i) ==
    /\ starting[i] = "store_candidate"
    /\ starting' = [starting EXCEPT ![i] = "store_session"]
    /\ candidates' = candidates \cup {i}
    /\ UNCHANGED <<row, row_locks, turns, memory, routes, pc, turn, session>>

\* Variant: the first turn's id is not drawn, so that it comes up again.
StoreSessionUndrawn(i) ==
    /\ starting[i] = "store_session"
    /\ starting' = [starting EXCEPT ![i] = "published"]
    /\ \E open \in {NoTurn, turns + 1} :
          row' = [row EXCEPT ![i] = [published |-> TRUE, log |-> <<>>, open |-> open]]
    /\ UNCHANGED <<candidates, row_locks, turns, memory, routes, pc, turn, session>>

(***************************************************************************)
(* The row carries the snapshot: the turn to answer first, or none when    *)
(* the plan has nothing to ask about.                                      *)
(***************************************************************************)
StoreSession(i) ==
    /\ starting[i] = "store_session"
    /\ starting' = [starting EXCEPT ![i] = "published"]
    /\ \E open \in {NoTurn, turns + 1} :
          row' = [row EXCEPT ![i] = [published |-> TRUE, log |-> <<>>, open |-> open]]
    /\ turns' = turns + 1
    /\ UNCHANGED <<candidates, row_locks, memory, routes, pc, turn, session>>

\* A model call, an insert or the request's deadline fails it.
StartFails(i) ==
    /\ starting[i] \in StartLive
    /\ starting' = [starting EXCEPT ![i] = "failed"]
    /\ UNCHANGED <<database, memory, routes, pc, turn, session>>

Start(i) == BeginStart(i) \/ FirstQuestionReady(i) \/ StoreCandidate(i) \/ StoreSession(i)

-----------------------------------------------------------------------------
(***************************************************************************)
(* submit_answer().                                                        *)
(***************************************************************************)
Turns(i) == {row[i].log[k].turn : k \in DOMAIN row[i].log}

\* The turns a client can name: those a response or a GET has ever shown it.
Shown(i) == (Turns(i) \cup {row[i].open}) \ {NoTurn}

Goto(r, step) == pc' = [pc EXCEPT ![r] = step]

\* Leaving the `async with` blocks of submit_answer, by whatever exit.
Release(R) ==
    /\ row_locks' = row_locks \ R
    /\ locks' = locks \ R
    /\ permits' = permits \ R

\* The `finally` that deletes the graph thread, for those that have entered its try.
DeleteThreads(R) ==
    thread' = [p \in Processes |-> [i \in Interviews |->
                  IF \E r \in R : pc[r] \in InGraph /\ at[r] = p /\ about[r] = i
                  THEN {} ELSE thread[p][i]]]

Send(r) ==
    /\ pc[r] = "new"
    /\ \E t \in Shown(about[r]) : turn' = [turn EXCEPT ![r] = t]
    /\ Goto(r, "lock")
    /\ UNCHANGED <<database, memory, routes, starting, session>>

SameInterview(r, h) == about[h] = about[r]
SameProcess(r, h) == at[h] = at[r]

TakeLock(r) ==
    /\ pc[r] = "lock"
    /\ \A h \in locks : ~(SameProcess(r, h) /\ SameInterview(r, h))
    /\ locks' = locks \cup {r}
    /\ Goto(r, "permit")
    /\ UNCHANGED <<database, permits, thread, routes, starting, turn, session>>

\* Variant: every request gets a lock registry, and so a semaphore, of its own.
TakePermitOfItsOwn(r) ==
    /\ pc[r] = "permit"
    /\ permits' = permits \cup {r}
    /\ Goto(r, "row")
    /\ UNCHANGED <<database, locks, thread, routes, starting, turn, session>>

TakePermit(r) ==
    /\ pc[r] = "permit"
    /\ Cardinality({h \in permits : SameProcess(r, h)}) < Permits
    /\ permits' = permits \cup {r}
    /\ Goto(r, "row")
    /\ UNCHANGED <<database, locks, thread, routes, starting, turn, session>>

\* Variant: the row is read without locking it.
RowFreeUnlocked(r) == TRUE

\* SELECT ... FOR NO KEY UPDATE returns.
RowFree(r) == \A h \in row_locks : ~SameInterview(r, h)

\* Variant: the submitted turn is not compared with the open one.
IsCurrentUnchecked(r) == row[about[r]].open # NoTurn

IsCurrent(r) == row[about[r]].open # NoTurn /\ row[about[r]].open = turn[r]

LockRow(r) ==
    /\ pc[r] = "row"
    /\ RowFree(r)
    /\ IsCurrent(r)
    /\ row_locks' = row_locks \cup {r}
    /\ session' = [session EXCEPT ![r] = row[about[r]]]
    /\ Goto(r, "restore")
    /\ UNCHANGED <<row, candidates, turns, memory, routes, starting, turn>>

\* InterviewAlreadyCompleted (409) is raised before StaleInterviewTurn (412).
Reject(r) ==
    /\ pc[r] = "row"
    /\ RowFree(r)
    /\ ~IsCurrent(r)
    /\ Goto(r, IF row[about[r]].open = NoTurn THEN "completed" ELSE "stale")
    /\ Release({r})
    /\ UNCHANGED <<row, candidates, turns, thread, routes, starting, turn, session>>

\* _restore: whatever thread there was is dropped and rebuilt from the snapshot.
Restore(r) ==
    /\ pc[r] = "restore"
    /\ thread' = [thread EXCEPT ![at[r]][about[r]] = {session[r].log}]
    /\ Goto(r, "advance")
    /\ UNCHANGED <<database, locks, permits, routes, starting, turn, session>>

\* Variant: the snapshot keeps the turn id it was restored with.
NextTurnsKept(r) == {NoTurn, session[r].open}

NextTurns(r) == {NoTurn, turns + 1}

(***************************************************************************)
(* The graph takes the answer in and comes to its next interrupt or its    *)
(* end; _snapshot copies its state into the record under a new turn id,    *)
(* and the thread is deleted.                                              *)
(***************************************************************************)
Advance(r) ==
    /\ pc[r] = "advance"
    /\ \E taken \in thread[at[r]][about[r]], open \in NextTurns(r) :
          session' = [session EXCEPT ![r] =
                         [published |-> TRUE,
                          log |-> Append(taken, [request |-> r, turn |-> turn[r]]),
                          open |-> open]]
    /\ turns' = turns + 1
    /\ DeleteThreads({r})
    /\ Goto(r, "commit")
    /\ UNCHANGED <<row, candidates, row_locks, locks, permits, routes, starting, turn>>

Commit(r) ==
    /\ pc[r] = "commit"
    /\ row' = [row EXCEPT ![about[r]] = session[r]]
    /\ Goto(r, "respond")
    /\ Release({r})
    /\ UNCHANGED <<candidates, turns, thread, routes, starting, turn, session>>

\* The commit is applied, but the connection, the deadline or the process gives out first.
CommitUnacknowledged(r) ==
    /\ pc[r] = "commit"
    /\ row' = [row EXCEPT ![about[r]] = session[r]]
    /\ Goto(r, "unknown")
    /\ Release({r})
    /\ UNCHANGED <<candidates, turns, thread, routes, starting, turn, session>>

CommitFails(r) ==
    /\ pc[r] = "commit"
    /\ Goto(r, "unknown")
    /\ Release({r})
    /\ UNCHANGED <<row, candidates, turns, thread, routes, starting, turn, session>>

\* The rest of the route: the candidate's name and the activity feed are read and written.
Respond(r) ==
    /\ pc[r] = "respond"
    /\ Goto(r, "accepted")
    /\ UNCHANGED <<database, memory, routes, starting, turn, session>>

\* The deadline expires, or a read fails, once the answer is already committed.
RespondFails(r) ==
    /\ pc[r] = "respond"
    /\ Goto(r, "unknown")
    /\ UNCHANGED <<database, memory, routes, starting, turn, session>>

\* Variant: a failed attempt leaves its transaction permit taken.
FailKeepingPermit(r) ==
    /\ pc[r] \in InGraph
    /\ row_locks' = row_locks \ {r}
    /\ locks' = locks \ {r}
    /\ DeleteThreads({r})
    /\ Goto(r, "error")
    /\ UNCHANGED <<row, candidates, turns, permits, routes, starting, turn, session>>

\* Variant: a failed attempt leaves its graph thread behind.
FailKeepingThread(r) ==
    /\ pc[r] \in InGraph
    /\ Release({r})
    /\ Goto(r, "error")
    /\ UNCHANGED <<row, candidates, turns, thread, routes, starting, turn, session>>

(***************************************************************************)
(* Restoring or advancing the graph raises: a model call failed, or the    *)
(* state it left is not an interview's.  The transaction rolls back.       *)
(***************************************************************************)
Fail(r) ==
    /\ pc[r] \in InGraph
    /\ Release({r})
    /\ DeleteThreads({r})
    /\ Goto(r, "error")
    /\ UNCHANGED <<row, candidates, turns, routes, starting, turn, session>>

(***************************************************************************)
(* RequestDeadlineMiddleware cancels the handler wherever it is waiting.   *)
(***************************************************************************)
DeadlineExpires(r) ==
    /\ pc[r] \in Uncommitted
    /\ Release({r})
    /\ DeleteThreads({r})
    /\ Goto(r, "error")
    /\ UNCHANGED <<row, candidates, turns, routes, starting, turn, session>>

(***************************************************************************)
(* A process dies and is started again: its memory and its transactions go *)
(* with it, and its callers never hear how their calls ended.              *)
(***************************************************************************)
Crash(p) ==
    LET R == {r \in Requests : at[r] = p /\ pc[r] \in Live}
        I == {i \in Interviews : start_at[i] = p /\ starting[i] \in StartLive}
    IN  /\ R # {} \/ I # {}
        /\ pc' = [r \in Requests |-> IF r \in R THEN "unknown" ELSE pc[r]]
        /\ starting' = [i \in Interviews |-> IF i \in I THEN "failed" ELSE starting[i]]
        /\ Release(R)
        /\ thread' = [thread EXCEPT ![p] = [i \in Interviews |-> {}]]
        /\ UNCHANGED <<row, candidates, turns, routes, turn, session>>

-----------------------------------------------------------------------------
\* What the code does of itself once the request is in, as opposed to what befalls it.
Step(r) ==
    \/ TakeLock(r) \/ TakePermit(r) \/ LockRow(r) \/ Reject(r)
    \/ Restore(r) \/ Advance(r) \/ Fail(r) \/ Commit(r) \/ Respond(r)

Fault(r) == DeadlineExpires(r) \/ CommitUnacknowledged(r) \/ CommitFails(r) \/ RespondFails(r)

Next ==
    \/ \E i \in Interviews : Start(i) \/ StartFails(i)
    \/ \E r \in Requests : Send(r) \/ Step(r) \/ Fault(r)
    \/ \E p \in Processes : Crash(p)

Spec == Init /\ [][Next]_vars

(***************************************************************************)
(* The event loop resumes a task whose lock, permit, row or model answer   *)
(* has come; model calls carry their own timeout.  No failure is fair.     *)
(***************************************************************************)
FairSpec == Spec /\ \A r \in Requests : WF_vars(Step(r))

-----------------------------------------------------------------------------
TypeOK ==
    /\ row \in [Interviews -> Row]
    /\ \A i \in Interviews : row[i].open <= turns
    /\ \A r \in Requests : session[r].open <= turns
    /\ candidates \subseteq Interviews
    /\ row_locks \subseteq Requests
    /\ turns \in Nat
    /\ locks \subseteq Requests
    /\ permits \subseteq Requests
    /\ thread \in [Processes -> [Interviews -> SUBSET Seq(Entry)]]
    /\ starting \in [Interviews -> {"idle", "published", "failed"} \cup StartLive]
    /\ start_at \in [Interviews -> Processes]
    /\ pc \in [Requests -> {"new"} \cup Live \cup Outcomes]
    /\ at \in [Requests -> Processes]
    /\ about \in [Requests -> Interviews]
    /\ turn \in [Requests -> Nat]
    /\ session \in [Requests -> Row]

(***************************************************************************)
(* No turn is ever answered twice, by whatever mix of retries, double      *)
(* submissions and processes.                                              *)
(***************************************************************************)
TurnConsumedOnce ==
    \A i \in Interviews : \A j, k \in DOMAIN row[i].log :
        row[i].log[j].turn = row[i].log[k].turn => j = k

OnRecord(r) ==
    \E k \in DOMAIN row[about[r]].log :
        row[about[r]].log[k] = [request |-> r, turn |-> turn[r]]

InSomeLog(r) ==
    \E i \in Interviews : \E k \in DOMAIN row[i].log : row[i].log[k].request = r

(***************************************************************************)
(* The response tells the truth about the record: an acknowledged answer   *)
(* is on it under the turn it named, and stays; a rejected or failed one   *)
(* is not, on any interview.  Only a lost response leaves it open.         *)
(***************************************************************************)
OutcomeMatchesRecord ==
    \A r \in Requests :
        /\ pc[r] \in {"respond", "accepted"} => OnRecord(r)
        /\ pc[r] \in {"stale", "completed", "error"} => ~InSomeLog(r)

(***************************************************************************)
(* A process's checkpointer holds a thread only for the request that is    *)
(* advancing it, and never any other state than the committed one: a       *)
(* failed, cancelled or crashed attempt leaves nothing to build on.        *)
(***************************************************************************)
ThreadsHoldCommitted ==
    \A p \in Processes, i \in Interviews :
        thread[p][i] # {} =>
            /\ thread[p][i] = {row[i].log}
            /\ \E r \in Requests : at[r] = p /\ about[r] = i /\ pc[r] = "advance"

(***************************************************************************)
(* A process never has more transactions under way than it has permits,    *)
(* nor two for one interview: a burst of submissions to one interview      *)
(* cannot use up the database connections of the others.                   *)
(***************************************************************************)
InTransaction(p) ==
    {r \in Requests : at[r] = p /\ pc[r] \in {"row", "restore", "advance", "commit"}}

TransactionsBounded ==
    \A p \in Processes :
        /\ Cardinality(InTransaction(p)) <= Permits
        /\ \A r, h \in InTransaction(p) : r # h => about[r] # about[h]

(***************************************************************************)
(* An interview a candidate can open has its candidate, whenever start()   *)
(* fails or its process dies.                                              *)
(***************************************************************************)
PublishedHasCandidate ==
    \A i \in Interviews : row[i].published => i \in candidates

(***************************************************************************)
(* Every answer submitted is answered in the end, whatever failed before.  *)
(***************************************************************************)
EveryRequestAnswered ==
    \A r \in Requests : pc[r] \in Live ~> pc[r] \in Outcomes

(***************************************************************************)
(* The service implements the turn log, with the session rows for its      *)
(* state: everything the processes do besides a commit is invisible there. *)
(***************************************************************************)
Log == INSTANCE TurnLog
          WITH published <- {i \in Interviews : row[i].published},
               log <- [i \in Interviews |-> row[i].log],
               open <- [i \in Interviews |-> row[i].open]

ImplementsTurnLog == Log!LogSpec
=============================================================================
