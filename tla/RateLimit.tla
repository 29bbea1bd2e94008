------------------------------- MODULE RateLimit -------------------------------
(***************************************************************************)
(* Admission control: the rolling windows of core/rate_limit.py (counters  *)
(* in the memory of one process) and core/sql_rate_limit.py (rows shared   *)
(* by several), charged by the helpers of api/abuse.py.                    *)
(*                                                                         *)
(* Time is a counter of seconds.  The limiter in memory reads its clock    *)
(* under its lock; the one over PostgreSQL reads it before it waits for    *)
(* the advisory lock, so that it may decide at a time that has passed.     *)
(***************************************************************************)
EXTENDS Integers, FiniteSets

CONSTANTS Requests,
          Identities,   \* accounts and interviews a request proves
          Limits,       \* for each budget, how many admissions per window
          MaxTracked,   \* MAX_TRACKED_KEYS
          MaxEvents,    \* _MAX_EVENTS
          Deadline,     \* what a request may spend waiting for the advisory lock
          MaxTime       \* bound on the clock

Names == DOMAIN Limits
Windows == UNION {DOMAIN Limits[name] : name \in Names}

ASSUME LimitsAssumption ==
    \A name \in Names : \A seconds \in DOMAIN Limits[name] :
        seconds \in Nat \ {0} /\ Limits[name][seconds] \in Nat \ {0}

\* Of the windows configured one is the longest.
ASSUME WindowsAssumption ==
    /\ \A name \in Names : IsFiniteSet(DOMAIN Limits[name])
    /\ \E s \in Windows : \A t \in Windows : t <= s

ASSUME BoundsAssumption ==
    IsFiniteSet(Requests) /\ MaxTracked \in Nat /\ MaxEvents \in Nat /\ Deadline \in Nat

VARIABLES
    limiter,      \* which of the two the deployment runs
    clock,
    events,       \* the admissions on record
    pc,           \* where each request's check is, then its outcome
    charge,       \* the budgets the request names
    now,          \* the time its check has read
    retry_after,  \* what a refused request was told
    decided       \* history: the requests admitted when it was refused

vars == <<limiter, clock, events, pc, charge, now, retry_after, decided>>

Longest == CHOOSE s \in Windows : \A t \in Windows : t <= s

TableRetry == 60

-----------------------------------------------------------------------------
(***************************************************************************)
(* What each operation charges.  Those a caller is known for are charged   *)
(* to the caller, most of them to the deployment as well.                  *)
(***************************************************************************)
All == "all"

Charges(identity) ==
    { {<<"signup_global", All>>},
      {<<"login_global", All>>},
      {<<"job_recruiter", identity>>, <<"job_global", All>>},
      {<<"plan_recruiter", identity>>, <<"plan_global", All>>},
      {<<"invite_recruiter", identity>>},
      {<<"report_recruiter", identity>>},
      {<<"answer_interview", identity>>, <<"answer_global", All>>},
      {<<"speech_interview", identity>>, <<"speech_global", All>>} }

\* The charges all of whose budgets the instance configures.
Configured == {c \in UNION {Charges(i) : i \in Identities} : \A b \in c : b[1] \in Names}

\* One key per window of every budget named.
Keys(budgets) ==
    UNION {{[name |-> b[1], identity |-> b[2], seconds |-> s] : s \in DOMAIN Limits[b[1]]}
              : b \in budgets}

Ceiling(key) == Limits[key.name][key.seconds]

Init ==
    /\ limiter \in {"memory", "sql"}
    /\ clock = 0
    /\ events = {}
    /\ pc = [r \in Requests |-> "new"]
    /\ charge \in [Requests -> Configured]
    /\ now = [r \in Requests |-> 0]
    /\ retry_after = [r \in Requests |-> 0]
    /\ decided = [r \in Requests |-> {}]

-----------------------------------------------------------------------------
\* Expired records go: by their own window in memory, by the longest one in SQL.
Swept(t) ==
    {e \in events : e.at > t - (IF limiter = "memory" THEN e.key.seconds ELSE Longest)}

\* Variant: an admission is forgotten one second early.
InWindowShort(key, t) == {e \in Swept(t) : e.key = key /\ e.at > t - key.seconds + 1}

\* The admissions that count against a key at time t.
InWindow(key, t) == {e \in Swept(t) : e.key = key /\ e.at > t - key.seconds}

Exhausted(r, t) == {key \in Keys(charge[r]) : Cardinality(InWindow(key, t)) >= Ceiling(key)}

\* When the oldest admission of a window leaves it.
Leaves(key, t) ==
    LET times == {e.at : e \in InWindow(key, t)}
        oldest == CHOOSE a \in times : \A b \in times : a <= b
    IN  oldest + key.seconds

\* Variant: the wait for the first exhausted window to open.
RetryAfterLeast(r, t) ==
    LET waits == {Leaves(key, t) - t : key \in Exhausted(r, t)}
    IN  CHOOSE w \in waits : \A v \in waits : v >= w

\* The wait for the most constrained of the exhausted windows.
RetryAfter(r, t) ==
    LET waits == {Leaves(key, t) - t : key \in Exhausted(r, t)}
    IN  CHOOSE w \in waits : \A v \in waits : v <= w

Tracked == {e.key : e \in events}

\* The backstop: no key beyond the ones tracked, or no row beyond the last.
TableFull(r, t) ==
    \/ /\ limiter = "memory"
       /\ Cardinality({e.key : e \in Swept(t)}) >= MaxTracked
       /\ ~ Keys(charge[r]) \subseteq {e.key : e \in Swept(t)}
    \/ /\ limiter = "sql"
       /\ Cardinality(Swept(t)) + Cardinality(Keys(charge[r])) > MaxEvents

Admissible(r, t) == Exhausted(r, t) = {} /\ ~ TableFull(r, t)

Recorded(r, t) == {[key |-> key, at |-> t, request |-> r] : key \in Keys(charge[r])}

Counted == {r \in Requests : pc[r] \in {"admitted", "lost"}}

\* Variant: each budget is consumed as it is checked.
DecideOneByOne(r, t) ==
    /\ now' = [now EXCEPT ![r] = t]
    /\ \/ /\ Admissible(r, t)
          /\ events' = Swept(t) \cup Recorded(r, t)
          /\ pc' = [pc EXCEPT ![r] = "admitted"]
          /\ UNCHANGED <<retry_after, decided>>
       \/ /\ Exhausted(r, t) # {}
          /\ events' = Swept(t) \cup {e \in Recorded(r, t) : e.key \notin Exhausted(r, t)}
          /\ pc' = [pc EXCEPT ![r] = "refused"]
          /\ retry_after' = [retry_after EXCEPT ![r] = RetryAfter(r, t)]
          /\ decided' = [decided EXCEPT ![r] = Counted]
       \/ /\ Exhausted(r, t) = {} /\ TableFull(r, t)
          /\ events' = Swept(t)
          /\ pc' = [pc EXCEPT ![r] = "table_full"]
          /\ retry_after' = [retry_after EXCEPT ![r] = TableRetry]
          /\ UNCHANGED decided
    /\ UNCHANGED <<limiter, clock, charge>>

(***************************************************************************)
(* The critical section of check, at the time its clock has read: prune,   *)
(* then consume every budget named or refuse and consume none.             *)
(***************************************************************************)
Decide(r, t) ==
    /\ now' = [now EXCEPT ![r] = t]
    /\ \/ /\ Admissible(r, t)
          /\ events' = Swept(t) \cup Recorded(r, t)
          /\ pc' = [pc EXCEPT ![r] = "admitted"]
          /\ UNCHANGED <<retry_after, decided>>
       \/ /\ Exhausted(r, t) # {}
          /\ events' = Swept(t)
          /\ pc' = [pc EXCEPT ![r] = "refused"]
          /\ retry_after' = [retry_after EXCEPT ![r] = RetryAfter(r, t)]
          /\ decided' = [decided EXCEPT ![r] = Counted]
       \/ /\ Exhausted(r, t) = {} /\ TableFull(r, t)
          /\ events' = Swept(t)
          /\ pc' = [pc EXCEPT ![r] = "table_full"]
          /\ retry_after' = [retry_after EXCEPT ![r] = TableRetry]
          /\ UNCHANGED decided
    /\ UNCHANGED <<limiter, clock, charge>>

\* RateLimiter.check: one step, the clock is read with the lock held.
Check(r) ==
    /\ limiter = "memory"
    /\ pc[r] = "new"
    /\ Decide(r, clock)

\* SqlRateLimiter.check reads the clock, then waits for the advisory lock.
ReadClock(r) ==
    /\ limiter = "sql"
    /\ pc[r] = "new"
    /\ pc' = [pc EXCEPT ![r] = "waiting"]
    /\ now' = [now EXCEPT ![r] = clock]
    /\ UNCHANGED <<limiter, clock, events, charge, retry_after, decided>>

\* The lock is held from here to the commit, so this is one step to the others.
CheckLocked(r) ==
    /\ pc[r] = "waiting"
    /\ Decide(r, now[r])

\* A database call fails or the request is cancelled: nothing is admitted.
Fail(r) ==
    /\ pc[r] = "waiting"
    /\ pc' = [pc EXCEPT ![r] = "failed"]
    /\ UNCHANGED <<limiter, clock, events, charge, now, retry_after, decided>>

\* The commit takes effect but the caller never hears of it.
FailAfterCommit(r) ==
    /\ pc[r] = "waiting"
    /\ Admissible(r, now[r])
    /\ events' = Swept(now[r]) \cup Recorded(r, now[r])
    /\ pc' = [pc EXCEPT ![r] = "lost"]
    /\ UNCHANGED <<limiter, clock, charge, now, retry_after, decided>>

\* The deadline of a request cuts its wait.
Tick ==
    /\ clock < MaxTime
    /\ \A r \in Requests : pc[r] = "waiting" => clock < now[r] + Deadline
    /\ clock' = clock + 1
    /\ UNCHANGED <<limiter, events, pc, charge, now, retry_after, decided>>

Next ==
    \/ \E r \in Requests :
          Check(r) \/ ReadClock(r) \/ CheckLocked(r) \/ Fail(r) \/ FailAfterCommit(r)
    \/ Tick

Spec == Init /\ [][Next]_vars

-----------------------------------------------------------------------------
\* Where a request's check may be.
Outcomes == {"new", "waiting", "admitted", "refused", "table_full", "failed", "lost"}

\* The types of the limiter's state.
TypeOK ==
    /\ limiter \in {"memory", "sql"}
    /\ clock \in Nat
    /\ charge \in [Requests -> Configured]
    /\ pc \in [Requests -> Outcomes]
    /\ now \in [Requests -> Nat]

(***************************************************************************)
(* No window of a budget ever holds more admissions than its ceiling, in   *)
(* whatever order and at whatever reading of the clock they were decided.  *)
(* The rows of the longest window are pruned by the newest clock, so that  *)
(* for SQL it is claimed of windows a stale reading cannot look beyond.    *)
(***************************************************************************)
WindowNeverOverdrawn ==
    \A key \in UNION {Keys(charge[r]) : r \in Requests} :
        limiter = "memory" \/ key.seconds + Deadline <= Longest =>
            \A t \in 0..clock :
                Cardinality({r \in Counted : /\ key \in Keys(charge[r])
                                             /\ now[r] \in (t - key.seconds + 1)..t})
                    <= Ceiling(key)

(***************************************************************************)
(* Every budget a request names is consumed, or none: an admission is on   *)
(* record under each of its windows until it leaves that window, and a     *)
(* request refused or failed is on record nowhere.  Nor does a flood of    *)
(* identities grow the record: the table in memory exceeds its limit by    *)
(* less than one request's keys, the table in SQL never.                   *)
(***************************************************************************)
RecordIsTheAdmissions ==
    /\ \A r \in Requests :
          IF r \in Counted
          THEN \A key \in Keys(charge[r]) :
                  clock < now[r] + key.seconds => [key |-> key, at |-> now[r], request |-> r] \in events
          ELSE \A e \in events : e.request # r
    /\ IF limiter = "sql" THEN Cardinality(events) <= MaxEvents
       ELSE \/ Cardinality(Tracked) <= MaxTracked
            \/ \E r \in Counted : Cardinality(Tracked \ Keys(charge[r])) < MaxTracked

(***************************************************************************)
(* A caller told by the limiter in memory to come back later, who does,    *)
(* finds every exhausted window open again, unless somebody has been       *)
(* admitted to one of them since.                                          *)
(***************************************************************************)
RetryAfterIsEnough ==
    \A r \in Requests :
        /\ limiter = "memory" /\ pc[r] = "refused"
        /\ clock >= now[r] + retry_after[r]
        /\ \A other \in Counted \ decided[r] :
              Keys(charge[other]) \cap Keys(charge[r]) = {}
        => Exhausted(r, clock) = {}
=============================================================================
