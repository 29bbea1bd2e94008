---------------------------- MODULE RecruiterAccess ----------------------------
(***************************************************************************)
(* Accounts, browser sessions and what they open: sign-up, sign-in and     *)
(* sign-out (api/routes/auth.py over api/recruiter_session.py), the access *)
(* boundary of api/auth.py, and the owner-scoped job and plan endpoints    *)
(* behind it (api/routes/jobs.py, api/routes/interview_plans.py).          *)
(*                                                                         *)
(* Sessions live in the process or, shared, in PostgreSQL; everything else *)
(* is in PostgreSQL.  A random identifier is the name of the call that     *)
(* makes it.  Every await on the database is a point where the calls may   *)
(* interleave.                                                             *)
(***************************************************************************)
EXTENDS Integers, FiniteSets

CONSTANTS Seeds,     \* recruiters already there, each with a session, a job and an interview
          Emails,    \* addresses without an account; a seed's address is the seed
          Calls,
          Asks,      \* the kinds of request each call may be
          Ttl,       \* recruiter_session_ttl_seconds
          MaxTime    \* bound on the clock

ASSUME TtlAssumption == Ttl \in Nat \ {0}

CONSTANT Nobody
ASSUME NobodyAssumption == Nobody \notin Seeds \cup Calls \cup Emails
ASSUME FreshAssumption == Seeds \cap Calls = {}

VARIABLES
    session_store,   \* "memory" or "sql"
    clock,
    recruiters,      \* RecruiterRow
    sessions,        \* live sessions: RecruiterSession or RecruiterSessionRow
    jobs,            \* JobRow
    plans,           \* InterviewPlanRow: each job's plan, Nobody for none
    \* the calls
    pc, args,
    recruiter_id,    \* whom a call acts for, once it is known
    existing_plan,   \* what SqlInterviewPlanRepository.add has read
    got,             \* what the call has been given, or has made
    \* history
    minted,          \* whom each session token was made for, and until when
    stale,           \* the calls whose cookie was signed out or expired when they began
    looked_at        \* the plan a create call found

tables == <<recruiters, sessions, jobs, plans>>
call == <<args, recruiter_id, existing_plan, got>>
history == <<minted, stale, looked_at>>
vars == <<session_store, clock, tables, pc, call, history>>

Names == Seeds \cup Calls
OwnerKinds == {"create_job", "list_jobs", "job_detail", "create_plan"}
TokenKinds == {"get_plan", "interview"}
NoArgs == [kind |-> "none", email |-> Nobody, cookie |-> Nobody,
           bearer |-> Nobody, about |-> Nobody]

Over == {"done", "denied", "not_found", "email_taken", "refused", "failed"}
Live(c) == pc[c] \notin Over \cup {"new"}
Goto(c, label) == pc' = [pc EXCEPT ![c] = label]

Init ==
    /\ session_store \in {"memory", "sql"}
    /\ clock = 0
    /\ recruiters = {[id |-> s, email |-> s] : s \in Seeds}
    /\ sessions = {[token |-> s, recruiter_id |-> s, expires_at |-> Ttl] : s \in Seeds}
    /\ jobs = {[id |-> s, recruiter_id |-> s] : s \in Seeds}
    /\ plans = [j \in Names |-> Nobody]
    /\ pc = [c \in Calls |-> "new"]
    /\ args = [c \in Calls |-> NoArgs]
    /\ recruiter_id = [c \in Calls |-> Nobody]
    /\ existing_plan = [c \in Calls |-> Nobody]
    /\ got = [c \in Calls |-> {}]
    /\ minted = [t \in Names |-> IF t \in Seeds THEN [to |-> t, until |-> Ttl]
                                               ELSE [to |-> Nobody, until |-> 0]]
    /\ stale = {}
    /\ looked_at = [c \in Calls |-> Nobody]

-----------------------------------------------------------------------------
\* The cookies browsers hold: those of answered sign-ups and sign-ins.
Cookies == Seeds \cup {c \in Calls : pc[c] = "done" /\ args[c].kind \in {"signup", "login"}}

Requests ==
    [kind : {"signup", "login"}, email : Seeds \cup Emails,
     cookie : {Nobody}, bearer : {Nobody}, about : {Nobody}]
    \cup [kind : {"logout", "create_job", "list_jobs"}, email : {Nobody},
          cookie : Cookies \cup {Nobody}, bearer : {Nobody}, about : {Nobody}]
    \cup [kind : {"job_detail", "create_plan"}, email : {Nobody},
          cookie : Cookies, bearer : {Nobody}, about : {j.id : j \in jobs}]
    \cup [kind : TokenKinds, email : {Nobody},
          cookie : Cookies \cup {Nobody}, bearer : Seeds \cup {Nobody}, about : Seeds]

SignedOut(token) ==
    \E c \in Calls : args[c].kind = "logout" /\ pc[c] = "done" /\ args[c].cookie = token

Begin(c) ==
    /\ pc[c] = "new"
    /\ \E request \in {r \in Requests : r.kind \in Asks[c]} :
          /\ args' = [args EXCEPT ![c] = request]
          /\ stale' = IF /\ request.cookie # Nobody
                         /\ SignedOut(request.cookie) \/ clock >= minted[request.cookie].until
                      THEN stale \cup {c} ELSE stale
          /\ Goto(c, CASE request.kind \in OwnerKinds -> "session"
                       [] request.kind \in TokenKinds -> "token"
                       [] OTHER -> request.kind)
    /\ UNCHANGED <<session_store, clock, tables, recruiter_id, existing_plan, got,
                   minted, looked_at>>

\* A call that fails before it is given anything is forgotten.
Forget(c, label) ==
    /\ Goto(c, label)
    /\ args' = [args EXCEPT ![c] = NoArgs]
    /\ recruiter_id' = [recruiter_id EXCEPT ![c] = Nobody]
    /\ existing_plan' = [existing_plan EXCEPT ![c] = Nobody]
    /\ looked_at' = [looked_at EXCEPT ![c] = Nobody]
    /\ stale' = stale \ {c}
    /\ UNCHANGED <<session_store, clock, tables, got, minted>>

\* A budget is spent, an address or a password not accepted, before anything is written.
Refuse(c) ==
    /\ pc[c] \in {"signup", "login", "analyze", "generate"}
    /\ Forget(c, "refused")

-----------------------------------------------------------------------------
(***************************************************************************)
(* The two stores.  What has expired is dropped whenever a session is      *)
(* made and, in memory, when it is looked for.                             *)
(***************************************************************************)
Pruned == {s \in sessions : clock < s.expires_at}

MintedFor(c, id) == [token |-> c, recruiter_id |-> id, expires_at |-> clock + Ttl]

Create(c, id) ==
    /\ sessions' = Pruned \cup {MintedFor(c, id)}
    /\ minted' = [minted EXCEPT ![c] = [to |-> id, until |-> clock + Ttl]]

\* Variant: an expired session still names its recruiter.
ResolveExpired(token) ==
    IF \E s \in sessions : s.token = token
    THEN (CHOOSE s \in sessions : s.token = token).recruiter_id
    ELSE Nobody

Alive(token) == \E s \in sessions : s.token = token /\ clock < s.expires_at

Resolve(token) ==
    IF Alive(token)
    THEN (CHOOSE s \in sessions : s.token = token).recruiter_id
    ELSE Nobody

DropExpired(token) ==
    sessions' = IF session_store = "memory" /\ ~ Alive(token)
                THEN {s \in sessions : s.token # token} ELSE sessions

Revoke(token) == sessions' = {s \in sessions : s.token # token}

-----------------------------------------------------------------------------
EmailTaken(email) == \E r \in recruiters : r.email = email
AddRecruiter(c) == recruiters' = recruiters \cup {[id |-> c, email |-> args[c].email]}

\* Variant: the account is committed first and the session made afterwards.
CreateWithRecruiterInTwo(c) ==
    /\ pc[c] = "signup" /\ session_store = "sql"
    /\ \/ /\ EmailTaken(args[c].email)
          /\ Goto(c, "email_taken")
          /\ UNCHANGED <<recruiters, recruiter_id>>
       \/ /\ ~ EmailTaken(args[c].email)
          /\ AddRecruiter(c)
          /\ recruiter_id' = [recruiter_id EXCEPT ![c] = c]
          /\ Goto(c, "create")
    /\ UNCHANGED <<session_store, clock, sessions, jobs, plans, args, existing_plan, got, history>>

\* recruiter_signup over PostgreSQL: the account and its first session commit together.
CreateWithRecruiter(c) ==
    /\ pc[c] = "signup" /\ session_store = "sql"
    /\ \/ /\ EmailTaken(args[c].email)
          /\ Goto(c, "email_taken")
          /\ UNCHANGED <<recruiters, sessions, recruiter_id, minted>>
       \/ /\ ~ EmailTaken(args[c].email)
          /\ AddRecruiter(c)
          /\ Create(c, c)
          /\ recruiter_id' = [recruiter_id EXCEPT ![c] = c]
          /\ Goto(c, "respond")
    /\ UNCHANGED <<session_store, clock, jobs, plans, args, existing_plan, got, stale, looked_at>>

\* recruiter_signup over the store in memory: the account, then the session.
Add(c) ==
    /\ pc[c] = "signup" /\ session_store = "memory"
    /\ \/ /\ EmailTaken(args[c].email)
          /\ Goto(c, "email_taken")
          /\ UNCHANGED <<recruiters, recruiter_id>>
       \/ /\ ~ EmailTaken(args[c].email)
          /\ AddRecruiter(c)
          /\ recruiter_id' = [recruiter_id EXCEPT ![c] = c]
          /\ Goto(c, "create")
    /\ UNCHANGED <<session_store, clock, sessions, jobs, plans, args, existing_plan, got, history>>

\* recruiter_login: the account by its address, and its password or another.
GetByEmail(c) ==
    /\ pc[c] = "login"
    /\ \/ /\ Goto(c, "denied") /\ UNCHANGED recruiter_id
       \/ \E r \in recruiters :
             /\ r.email = args[c].email
             /\ recruiter_id' = [recruiter_id EXCEPT ![c] = r.id]
             /\ Goto(c, "create")
    /\ UNCHANGED <<session_store, clock, tables, args, existing_plan, got, history>>

CreateSession(c) ==
    /\ pc[c] = "create"
    /\ Create(c, recruiter_id[c])
    /\ Goto(c, "respond")
    /\ UNCHANGED <<session_store, clock, recruiters, jobs, plans, call, stale, looked_at>>

\* recruiter_logout
Logout(c) ==
    /\ pc[c] = "logout"
    /\ Revoke(args[c].cookie)
    /\ Goto(c, "respond")
    /\ UNCHANGED <<session_store, clock, recruiters, jobs, plans, call, history>>

Respond(c) ==
    /\ pc[c] = "respond"
    /\ Goto(c, "done")
    /\ UNCHANGED <<session_store, clock, tables, call, history>>

-----------------------------------------------------------------------------
(***************************************************************************)
(* The boundary.  A bearer token is tried first, against the interview of  *)
(* the request or those of its job; then the cookie, and what it names     *)
(* must be the recruiter's own.                                            *)
(***************************************************************************)
MatchToken(c) ==
    /\ pc[c] = "token"
    /\ IF args[c].bearer # Nobody /\ args[c].bearer = args[c].about
       THEN Goto(c, IF args[c].kind = "get_plan" THEN "candidate_plan" ELSE "candidate")
       ELSE Goto(c, "session")
    /\ UNCHANGED <<session_store, clock, tables, call, history>>

ResolveSession(c) ==
    /\ pc[c] = "session"
    /\ DropExpired(args[c].cookie)
    /\ \/ /\ Resolve(args[c].cookie) = Nobody
          /\ Goto(c, "denied") /\ UNCHANGED recruiter_id
       \/ /\ Resolve(args[c].cookie) # Nobody
          /\ recruiter_id' = [recruiter_id EXCEPT ![c] = Resolve(args[c].cookie)]
          /\ Goto(c, CASE args[c].kind = "create_job" -> "analyze"
                       [] args[c].kind = "list_jobs" -> "list"
                       [] OTHER -> "owned")
    /\ UNCHANGED <<session_store, clock, recruiters, jobs, plans, args, existing_plan, got, history>>

\* get_for_recruiter, of a job or, through its job, of an interview.
Owned(job, id) == \E j \in jobs : j.id = job /\ j.recruiter_id = id

GetForRecruiter(c) ==
    /\ pc[c] = "owned"
    /\ IF Owned(args[c].about, recruiter_id[c])
       THEN /\ Goto(c, CASE args[c].kind = "create_plan" -> "look"
                         [] args[c].kind = "get_plan" -> "recruiter_plan"
                         [] OTHER -> "done")
            /\ got' = IF args[c].kind \in {"job_detail", "interview"}
                      THEN [got EXCEPT ![c] = {[what |-> args[c].kind, of |-> args[c].about]}]
                      ELSE got
       ELSE Goto(c, "not_found") /\ UNCHANGED got
    /\ UNCHANGED <<session_store, clock, tables, args, recruiter_id, existing_plan, history>>

\* The candidate's own interview.
ServeCandidate(c) ==
    /\ pc[c] = "candidate"
    /\ got' = [got EXCEPT ![c] = {[what |-> "interview", of |-> args[c].about]}]
    /\ Goto(c, "done")
    /\ UNCHANGED <<session_store, clock, tables, args, recruiter_id, existing_plan, history>>

-----------------------------------------------------------------------------
\* create_job: the analysis, then the insert.
CreateJob(c) ==
    /\ pc[c] = "analyze"
    /\ jobs' = jobs \cup {[id |-> c, recruiter_id |-> recruiter_id[c]]}
    /\ got' = [got EXCEPT ![c] = {[what |-> "job_detail", of |-> c]}]
    /\ Goto(c, "done")
    /\ UNCHANGED <<session_store, clock, recruiters, sessions, plans, args, recruiter_id,
                   existing_plan, history>>

ListJobs(c) ==
    /\ pc[c] = "list"
    /\ got' = [got EXCEPT ![c] = {[what |-> "job_detail", of |-> j.id] :
                                     j \in {k \in jobs : k.recruiter_id = recruiter_id[c]}}]
    /\ Goto(c, "done")
    /\ UNCHANGED <<session_store, clock, tables, args, recruiter_id, existing_plan, history>>

\* get_interview_plan, in the shape the credential earns.
GetPlan(c) ==
    /\ pc[c] \in {"candidate_plan", "recruiter_plan"}
    /\ IF plans[args[c].about] = Nobody
       THEN Goto(c, "not_found") /\ UNCHANGED got
       ELSE /\ got' = [got EXCEPT ![c] = {[what |-> pc[c], of |-> args[c].about]}]
            /\ Goto(c, "done")
    /\ UNCHANGED <<session_store, clock, tables, args, recruiter_id, existing_plan, history>>

\* Variant: a plan is made on every call.
LookForPlanNever(c) ==
    /\ pc[c] = "look"
    /\ looked_at' = [looked_at EXCEPT ![c] = plans[args[c].about]]
    /\ Goto(c, "generate")
    /\ UNCHANGED <<session_store, clock, tables, call, minted, stale>>

\* create_interview_plan returns the plan it finds, or makes one.
LookForPlan(c) ==
    /\ pc[c] = "look"
    /\ looked_at' = [looked_at EXCEPT ![c] = plans[args[c].about]]
    /\ IF plans[args[c].about] # Nobody
       THEN /\ got' = [got EXCEPT ![c] = {[what |-> "recruiter_plan", of |-> args[c].about]}]
            /\ Goto(c, "done")
       ELSE Goto(c, "generate") /\ UNCHANGED got
    /\ UNCHANGED <<session_store, clock, tables, args, recruiter_id, existing_plan, minted, stale>>

\* SqlInterviewPlanRepository.add reads the row, then inserts or overwrites it.
AddPlan(c) ==
    /\ pc[c] = "generate"
    /\ existing_plan' = [existing_plan EXCEPT ![c] = plans[args[c].about]]
    /\ Goto(c, "commit_plan")
    /\ UNCHANGED <<session_store, clock, tables, args, recruiter_id, got, history>>

\* An insert that comes second violates the primary key.
CommitPlan(c) ==
    /\ pc[c] = "commit_plan"
    /\ LET job == args[c].about IN
       IF existing_plan[c] = Nobody /\ plans[job] # Nobody
       THEN Goto(c, "failed") /\ UNCHANGED <<plans, got>>
       ELSE /\ plans' = [plans EXCEPT ![job] = c]
            /\ got' = [got EXCEPT ![c] = {[what |-> "recruiter_plan", of |-> job]}]
            /\ Goto(c, "done")
    /\ UNCHANGED <<session_store, clock, recruiters, sessions, jobs, args, recruiter_id,
                   existing_plan, history>>

-----------------------------------------------------------------------------
\* The client goes away, the deadline passes or the database fails between two steps.
Cancel(c) ==
    /\ Live(c)
    /\ Forget(c, "failed")

Tick ==
    /\ clock < MaxTime
    /\ clock' = clock + 1
    /\ UNCHANGED <<session_store, tables, pc, call, history>>

Next ==
    \/ \E c \in Calls :
          \/ Begin(c) \/ Refuse(c) \/ Cancel(c) \/ Respond(c)
          \/ CreateWithRecruiter(c) \/ Add(c) \/ GetByEmail(c) \/ CreateSession(c) \/ Logout(c)
          \/ MatchToken(c) \/ ResolveSession(c) \/ GetForRecruiter(c) \/ ServeCandidate(c)
          \/ CreateJob(c) \/ ListJobs(c) \/ GetPlan(c)
          \/ LookForPlan(c) \/ AddPlan(c) \/ CommitPlan(c)
    \/ Tick

Spec == Init /\ [][Next]_vars

-----------------------------------------------------------------------------
(***************************************************************************)
(* What a request is given in full belongs to the recruiter its cookie was *)
(* made for, and the rest it owes to the token of that very interview.  A  *)
(* cookie that was signed out or has expired gives nothing to a request    *)
(* that begins afterwards, whichever store is asked and whatever else      *)
(* prunes or drops sessions meanwhile.                                     *)
(***************************************************************************)
OnlyWhatTheCallerMayHave ==
    /\ \A c \in stale : recruiter_id[c] = Nobody
    /\ \A c \in Calls : \A item \in got[c] :
          \/ /\ args[c].cookie # Nobody
             /\ [id |-> item.of, recruiter_id |-> minted[args[c].cookie].to] \in jobs
          \/ item.what \in {"candidate_plan", "interview"} /\ item.of = args[c].bearer

(***************************************************************************)
(* With the shared store a sign-up that fails leaves no account without    *)
(* the browser session its response promises; with either, an address has  *)
(* one account.                                                            *)
(***************************************************************************)
SignupAllOrNothing ==
    /\ session_store = "sql" => \A r \in recruiters : minted[r.id].to = r.id
    /\ \A r, s \in recruiters : r.email = s.email => r = s

(***************************************************************************)
(* A plan that is there is replaced only by a call that looked before it   *)
(* was: calling again does not make another.                               *)
(***************************************************************************)
PlanReplacedOnlyByRace ==
    [][\A c \in Calls : pc[c] = "commit_plan" /\ plans' # plans => looked_at[c] = Nobody]_vars
=============================================================================
