------------------------- MODULE RecruiterAccessProofs -------------------------
(***************************************************************************)
(* What RecruiterAccess guarantees for any recruiters, calls, addresses    *)
(* and lifetime of a session, over either store.                           *)
(***************************************************************************)
EXTENDS RecruiterAccess, TLAPS

Labels == {"new", "signup", "login", "logout", "create", "respond", "token", "session",
           "candidate", "candidate_plan", "recruiter_plan", "owned", "analyze", "list",
           "look", "generate", "commit_plan",
           "done", "denied", "not_found", "email_taken", "refused", "failed"}
Kinds == {"none", "signup", "login", "logout"} \cup OwnerKinds \cup TokenKinds
Someone == Names \cup {Nobody}

TypeInv ==
    /\ session_store \in {"memory", "sql"}
    /\ clock \in Nat
    /\ recruiters \subseteq [id : Names, email : Seeds \cup Emails]
    /\ sessions \subseteq [token : Names, recruiter_id : Names, expires_at : Nat]
    /\ jobs \subseteq [id : Names, recruiter_id : Names]
    /\ plans \in [Names -> Someone]
    /\ pc \in [Calls -> Labels]
    /\ args \in [Calls -> [kind : Kinds, email : Seeds \cup Emails \cup {Nobody}, cookie : Someone,
                           bearer : Someone, about : Someone]]
    /\ recruiter_id \in [Calls -> Someone]
    /\ existing_plan \in [Calls -> Someone]
    /\ got \in [Calls -> SUBSET [what : {"job_detail", "interview", "candidate_plan", "recruiter_plan"},
                                 of : Names]]
    /\ minted \in [Names -> [to : Someone, until : Nat]]
    /\ stale \subseteq Calls
    /\ looked_at \in [Calls -> Someone]

(***************************************************************************)
(* A session is what was made for its token; a token has its recruiter     *)
(* from before the browser holds it, and for good.                         *)
(***************************************************************************)
SessionInv ==
    \A s \in sessions : minted[s.token] = [to |-> s.recruiter_id, until |-> s.expires_at]

AccountInv ==
    /\ session_store = "sql" => \A r \in recruiters : minted[r.id].to = r.id
    /\ \A r, s \in recruiters : r.email = s.email => r = s

Settled(t) == t \in Seeds \/ (t \in Calls /\ pc[t] = "done")
Gone(t) == \A s \in sessions : s.token # t
Dead(t) == Gone(t) \/ clock >= minted[t].until
Belongs(job, t) == [id |-> job, recruiter_id |-> minted[t].to] \in jobs

\* Where a call acts for the recruiter its cookie names, and where for the owner of a job.
Known == {"owned", "analyze", "list", "look", "generate", "commit_plan", "recruiter_plan"}
AsOwner == {"look", "generate", "commit_plan", "recruiter_plan"}

\* What is true of a call's credentials, from its start to its answer.
CredentialInv(c) ==
    /\ pc[c] = "new" => recruiter_id[c] = Nobody /\ c \notin stale
    /\ args[c].cookie # Nobody => Settled(args[c].cookie)
    /\ minted[c].to # Nobody => pc[c] \in {"respond", "done", "failed"}
    /\ pc[c] \in {"signup", "login", "create"} =>
          args[c].cookie = Nobody /\ args[c].kind \in {"signup", "login"}
    /\ args[c].kind \in {"signup", "login"} => args[c].email \in Seeds \cup Emails
    /\ pc[c] = "create" => recruiter_id[c] \in Names
    /\ pc[c] = "logout" => args[c].kind = "logout"
    /\ args[c].kind = "logout" /\ pc[c] \in {"respond", "done"} => Gone(args[c].cookie)
    /\ pc[c] = "token" => args[c].kind \in TokenKinds /\ args[c].about \in Names
    /\ pc[c] = "session" => args[c].kind \in OwnerKinds \cup TokenKinds
    /\ c \in stale => args[c].cookie # Nobody /\ recruiter_id[c] = Nobody /\ Dead(args[c].cookie)

\* What is true of what it may be given.
AccessInv(c) ==
    /\ pc[c] \in {"candidate", "candidate_plan"} =>
          /\ args[c].kind \in TokenKinds /\ args[c].about \in Names
          /\ args[c].bearer = args[c].about
    /\ pc[c] \in Known =>
          /\ args[c].kind \in OwnerKinds \cup TokenKinds
          /\ args[c].cookie # Nobody /\ recruiter_id[c] \in Names
          /\ recruiter_id[c] = minted[args[c].cookie].to
    /\ pc[c] \in AsOwner => args[c].about \in Names /\ Belongs(args[c].about, args[c].cookie)
    /\ pc[c] \in {"generate", "commit_plan"} => looked_at[c] = Nobody
    /\ pc[c] # "done" => got[c] = {}
    /\ \A item \in got[c] :
          \/ args[c].cookie # Nobody /\ Belongs(item.of, args[c].cookie)
          \/ item.what \in {"candidate_plan", "interview"} /\ item.of = args[c].bearer

IInv == TypeInv /\ SessionInv /\ AccountInv /\ \A c \in Calls : CredentialInv(c) /\ AccessInv(c)

-----------------------------------------------------------------------------
(***************************************************************************)
(* Types.                                                                  *)
(***************************************************************************)
LEMMA InitIInv == Init => IInv
  <1> SUFFICES ASSUME Init PROVE IInv
      OBVIOUS
  <1>1. TypeInv
      BY TtlAssumption DEF Init, TypeInv, Names, Someone, Labels, Kinds, NoArgs
  <1>2. SessionInv
      BY DEF Init, SessionInv, Names
  <1>3. AccountInv
      BY DEF Init, AccountInv, Names
  <1>4. ASSUME NEW c \in Calls PROVE CredentialInv(c) /\ AccessInv(c)
    <2>1. minted[c].to = Nobody
        BY FreshAssumption DEF Init, Names
    <2>2. QED
        BY <2>1 DEF Init, CredentialInv, AccessInv, NoArgs, TokenKinds, Known, AsOwner
  <1>5. QED
      BY <1>1, <1>2, <1>3, <1>4 DEF IInv

\* A request, whatever it is, is of the kinds and about the names there are.
LEMMA RequestTypes ==
    ASSUME TypeInv, NEW request \in Requests
    PROVE  /\ request \in [kind : Kinds, email : Seeds \cup Emails \cup {Nobody}, cookie : Someone,
                           bearer : Someone, about : Someone]
           /\ request.cookie # Nobody => Settled(request.cookie)
           /\ request.kind # "none"
           /\ request.kind \in {"signup", "login"} => request.cookie = Nobody
           /\ request.kind \in {"signup", "login"} => request.email \in Seeds \cup Emails
           /\ request.kind \in TokenKinds => request.about \in Names
  <1>1. Cookies \subseteq Names /\ \A t \in Cookies : Settled(t)
      BY DEF Cookies, Names, Settled
  <1>2. {j.id : j \in jobs} \subseteq Names
      BY DEF TypeInv
  <1>3. QED
      BY <1>1, <1>2 DEF Requests, Kinds, OwnerKinds, TokenKinds, Someone, Names

LEMMA BeginTypes == ASSUME TypeInv, NEW c \in Calls, Begin(c) PROVE TypeInv'
  <1>1. PICK request \in Requests :
          /\ args' = [args EXCEPT ![c] = request]
          /\ stale' \in SUBSET (stale \cup {c})
          /\ pc' = [pc EXCEPT ![c] = CASE request.kind \in OwnerKinds -> "session"
                                       [] request.kind \in TokenKinds -> "token"
                                       [] OTHER -> request.kind]
      BY DEF Begin, Goto
  <1>2. args' \in [Calls -> [kind : Kinds, email : Seeds \cup Emails \cup {Nobody}, cookie : Someone,
                             bearer : Someone, about : Someone]]
      BY <1>1, RequestTypes DEF TypeInv
  <1>3. pc' \in [Calls -> Labels]
    <2>1. request.kind \in Kinds /\ request.kind # "none"
        BY RequestTypes
    <2>2. QED
        BY <1>1, <2>1 DEF TypeInv, Labels, Kinds
  <1>4. UNCHANGED <<session_store, clock, tables, recruiter_id, existing_plan, got, minted, looked_at>>
      BY DEF Begin
  <1>5. QED
      BY <1>1, <1>2, <1>3, <1>4 DEF TypeInv, tables

LEMMA ForgetTypes ==
    ASSUME TypeInv, NEW c \in Calls, NEW label \in Labels, Forget(c, label) PROVE TypeInv'
  <1>1. NoArgs \in [kind : Kinds, email : Seeds \cup Emails \cup {Nobody}, cookie : Someone,
                    bearer : Someone, about : Someone]
      BY DEF NoArgs, Kinds, Someone
  <1>2. Nobody \in Someone
      BY DEF Someone
  <1>3. QED
      BY <1>1, <1>2 DEF Forget, Goto, TypeInv, tables

LEMMA CreateTypes ==
    ASSUME TypeInv, NEW c \in Calls, NEW id \in Names, Create(c, id)
    PROVE  /\ sessions' \subseteq [token : Names, recruiter_id : Names, expires_at : Nat]
           /\ minted' \in [Names -> [to : Someone, until : Nat]]
  BY TtlAssumption DEF TypeInv, Create, Pruned, MintedFor, Names, Someone

LEMMA SigningTypes ==
    ASSUME TypeInv, NEW c \in Calls, CredentialInv(c),
           CreateWithRecruiter(c) \/ Add(c) \/ GetByEmail(c) \/ CreateSession(c)
             \/ Logout(c) \/ Respond(c)
    PROVE  TypeInv'
  <1>1. /\ c \in Names /\ c \in Someone /\ Names \subseteq Someone
        /\ pc[c] = "create" => recruiter_id[c] \in Names
        /\ pc[c] \in {"signup", "login", "create"} => args[c].email \in Seeds \cup Emails
      BY DEF Names, Someone, CredentialInv
  <1>2. \A label \in Labels : [pc EXCEPT ![c] = label] \in [Calls -> Labels]
      BY DEF TypeInv
  <1>3. {"signup", "email_taken", "respond", "create", "denied", "done"} \subseteq Labels
      BY DEF Labels
  <1>4. CASE CreateWithRecruiter(c)
    <2>1. pc' \in [Calls -> Labels]
        BY <1>2, <1>3, <1>4 DEF CreateWithRecruiter, Goto
    <2>2. CASE UNCHANGED <<recruiters, sessions, recruiter_id, minted>>
        BY <1>4, <2>1, <2>2 DEF CreateWithRecruiter, TypeInv
    <2>3. CASE AddRecruiter(c) /\ Create(c, c) /\ recruiter_id' = [recruiter_id EXCEPT ![c] = c]
      <3>1. [id |-> c, email |-> args[c].email] \in [id : Names, email : Seeds \cup Emails]
          BY <1>1, <1>4 DEF CreateWithRecruiter
      <3>2. QED
          BY <1>1, <1>4, <2>1, <2>3, <3>1, CreateTypes DEF CreateWithRecruiter, AddRecruiter, TypeInv
    <2>4. QED
        BY <1>4, <2>2, <2>3 DEF CreateWithRecruiter
  <1>5. CASE Add(c)
    <2>1. pc' \in [Calls -> Labels]
        BY <1>2, <1>3, <1>5 DEF Add, Goto
    <2>2. [id |-> c, email |-> args[c].email] \in [id : Names, email : Seeds \cup Emails]
        BY <1>1, <1>5 DEF Add
    <2>3. recruiter_id' \in [Calls -> Someone]
        BY <1>1, <1>5 DEF Add, TypeInv
    <2>4. QED
        BY <1>5, <2>1, <2>2, <2>3 DEF Add, AddRecruiter, TypeInv, history
  <1>6. CASE GetByEmail(c)
    <2>1. pc' \in [Calls -> Labels]
        BY <1>2, <1>3, <1>6 DEF GetByEmail, Goto
    <2>2. recruiter_id' \in [Calls -> Someone]
        BY <1>1, <1>6 DEF GetByEmail, TypeInv
    <2>3. QED
        BY <1>6, <2>1, <2>2 DEF GetByEmail, TypeInv, history, tables
  <1>7. CASE CreateSession(c)
    <2>1. pc' \in [Calls -> Labels]
        BY <1>2, <1>3, <1>7 DEF CreateSession, Goto
    <2>2. QED
        BY <1>1, <1>7, <2>1, CreateTypes DEF CreateSession, TypeInv, call
  <1>8. CASE Logout(c)
    <2>1. pc' \in [Calls -> Labels]
        BY <1>2, <1>3, <1>8 DEF Logout, Goto
    <2>2. QED
        BY <1>8, <2>1 DEF Logout, Revoke, TypeInv, call, history
  <1>9. CASE Respond(c)
    <2>1. pc' \in [Calls -> Labels]
        BY <1>2, <1>3, <1>9 DEF Respond, Goto
    <2>2. QED
        BY <1>9, <2>1 DEF Respond, TypeInv, call, history, tables
  <1>10. QED
      BY <1>4, <1>5, <1>6, <1>7, <1>8, <1>9

LEMMA ServingTypes ==
    ASSUME TypeInv, NEW c \in Calls, CredentialInv(c), AccessInv(c),
           MatchToken(c) \/ ResolveSession(c) \/ GetForRecruiter(c) \/ ServeCandidate(c)
             \/ CreateJob(c) \/ ListJobs(c) \/ GetPlan(c)
             \/ LookForPlan(c) \/ AddPlan(c) \/ CommitPlan(c)
    PROVE  TypeInv'
  <1>1. c \in Names /\ Names \subseteq Someone /\ Nobody \in Someone
      BY DEF Names, Someone
  <1>2. \A label \in Labels : [pc EXCEPT ![c] = label] \in [Calls -> Labels]
      BY DEF TypeInv
  <1>3. {"candidate", "candidate_plan", "recruiter_plan", "session", "denied", "analyze", "list",
         "owned", "look", "done", "not_found", "generate", "commit_plan", "failed"} \subseteq Labels
      BY DEF Labels
  <1> DEFINE Items == [what : {"job_detail", "interview", "candidate_plan", "recruiter_plan"}, of : Names]
  <1>4. \A items \in SUBSET Items : [got EXCEPT ![c] = items] \in [Calls -> SUBSET Items]
      BY DEF TypeInv
  <1>5. \A what \in {"job_detail", "interview", "candidate_plan", "recruiter_plan"} :
           \A n \in Names : {[what |-> what, of |-> n]} \in SUBSET Items
      OBVIOUS
  <1>6. /\ pc[c] \in AsOwner \cup {"candidate", "candidate_plan"} => args[c].about \in Names
        /\ pc[c] \in Known => recruiter_id[c] \in Names
        /\ pc[c] = "owned" => args[c].kind \in OwnerKinds \cup TokenKinds
      BY DEF AccessInv, Known, AsOwner
  <1>7. CASE MatchToken(c)
    <2>1. pc' \in [Calls -> Labels]
        BY <1>2, <1>3, <1>7 DEF MatchToken, Goto
    <2>2. QED
        BY <1>7, <2>1 DEF MatchToken, TypeInv, tables, call, history
  <1>8. CASE ResolveSession(c)
    <2>1. pc' \in [Calls -> Labels]
        BY <1>2, <1>3, <1>8 DEF ResolveSession, Goto
    <2>2. Resolve(args[c].cookie) \in Someone
      <3>1. CASE Alive(args[c].cookie)
        <4>1. PICK s \in sessions : s = (CHOOSE x \in sessions : x.token = args[c].cookie)
            BY <3>1 DEF Alive
        <4>2. QED
            BY <1>1, <3>1, <4>1 DEF Resolve, TypeInv
      <3>2. CASE ~ Alive(args[c].cookie)
          BY <1>1, <3>2 DEF Resolve
      <3>3. QED
          BY <3>1, <3>2
    <2>3. recruiter_id' \in [Calls -> Someone]
        BY <1>8, <2>2 DEF ResolveSession, TypeInv
    <2>4. sessions' \subseteq sessions
        BY <1>8 DEF ResolveSession, DropExpired
    <2>5. QED
        BY <1>8, <2>1, <2>3, <2>4 DEF ResolveSession, TypeInv, history
  <1>9. CASE GetForRecruiter(c)
    <2>1. pc' \in [Calls -> Labels]
        BY <1>2, <1>3, <1>9 DEF GetForRecruiter, Goto
    <2>2. got' \in [Calls -> SUBSET Items]
      <3>1. CASE Owned(args[c].about, recruiter_id[c]) /\ args[c].kind \in {"job_detail", "interview"}
        <4>1. args[c].about \in Names
            BY <3>1 DEF Owned, TypeInv
        <4>2. got' = [got EXCEPT ![c] = {[what |-> args[c].kind, of |-> args[c].about]}]
            BY <1>9, <3>1 DEF GetForRecruiter
        <4>3. {[what |-> args[c].kind, of |-> args[c].about]} \in SUBSET Items
            BY <1>5, <3>1, <4>1
        <4>4. QED
            BY <1>4, <4>2, <4>3
      <3>2. CASE got' = got
          BY <3>2 DEF TypeInv
      <3>3. QED
          BY <1>9, <3>1, <3>2 DEF GetForRecruiter
    <2>3. QED
        BY <1>9, <2>1, <2>2 DEF GetForRecruiter, TypeInv, tables, history
  <1>10. CASE ServeCandidate(c)
    <2>1. pc' \in [Calls -> Labels]
        BY <1>2, <1>3, <1>10 DEF ServeCandidate, Goto
    <2>2. got' \in [Calls -> SUBSET Items]
        BY <1>4, <1>5, <1>6, <1>10 DEF ServeCandidate
    <2>3. QED
        BY <1>10, <2>1, <2>2 DEF ServeCandidate, TypeInv, tables, history
  <1>11. CASE CreateJob(c)
    <2>1. pc' \in [Calls -> Labels]
        BY <1>2, <1>3, <1>11 DEF CreateJob, Goto
    <2>2. got' \in [Calls -> SUBSET Items]
        BY <1>1, <1>4, <1>5, <1>11 DEF CreateJob
    <2>3. [id |-> c, recruiter_id |-> recruiter_id[c]] \in [id : Names, recruiter_id : Names]
        BY <1>1, <1>6, <1>11 DEF CreateJob, Known
    <2>4. QED
        BY <1>11, <2>1, <2>2, <2>3 DEF CreateJob, TypeInv, history
  <1>12. CASE ListJobs(c)
    <2>1. pc' \in [Calls -> Labels]
        BY <1>2, <1>3, <1>12 DEF ListJobs, Goto
    <2>2. {[what |-> "job_detail", of |-> j.id] : j \in {k \in jobs : k.recruiter_id = recruiter_id[c]}}
             \in SUBSET Items
        BY DEF TypeInv
    <2>3. got' \in [Calls -> SUBSET Items]
        BY <1>4, <1>12, <2>2 DEF ListJobs
    <2>4. QED
        BY <1>12, <2>1, <2>3 DEF ListJobs, TypeInv, tables, history
  <1>13. CASE GetPlan(c)
    <2>1. pc' \in [Calls -> Labels]
        BY <1>2, <1>3, <1>13 DEF GetPlan, Goto
    <2>2. args[c].about \in Names
        BY <1>6, <1>13 DEF GetPlan, AsOwner
    <2>3. got' \in [Calls -> SUBSET Items]
      <3>1. CASE got' = got
          BY <3>1 DEF TypeInv
      <3>2. CASE got' = [got EXCEPT ![c] = {[what |-> pc[c], of |-> args[c].about]}]
        <4>1. {[what |-> pc[c], of |-> args[c].about]} \in SUBSET Items
            BY <1>5, <1>13, <2>2 DEF GetPlan
        <4>2. QED
            BY <1>4, <3>2, <4>1
      <3>3. QED
          BY <1>13, <3>1, <3>2 DEF GetPlan
    <2>4. QED
        BY <1>13, <2>1, <2>3 DEF GetPlan, TypeInv, tables, history
  <1>14. CASE LookForPlan(c)
    <2>1. pc' \in [Calls -> Labels]
        BY <1>2, <1>3, <1>14 DEF LookForPlan, Goto
    <2>2. args[c].about \in Names
        BY <1>6, <1>14 DEF LookForPlan, AsOwner
    <2>3. got' \in [Calls -> SUBSET Items]
      <3>1. {[what |-> "recruiter_plan", of |-> args[c].about]} \in SUBSET Items
          BY <1>5, <2>2
      <3>2. [got EXCEPT ![c] = {[what |-> "recruiter_plan", of |-> args[c].about]}] \in [Calls -> SUBSET Items]
          BY <1>4, <3>1
      <3>3. QED
          BY <1>14, <3>2 DEF LookForPlan, TypeInv
    <2>4. looked_at' \in [Calls -> Someone]
        BY <1>14, <2>2 DEF LookForPlan, TypeInv
    <2>5. QED
        BY <1>14, <2>1, <2>3, <2>4 DEF LookForPlan, TypeInv, tables
  <1>15. CASE AddPlan(c)
    <2>1. pc' \in [Calls -> Labels]
        BY <1>2, <1>3, <1>15 DEF AddPlan, Goto
    <2>2. existing_plan' \in [Calls -> Someone]
        BY <1>6, <1>15 DEF AddPlan, TypeInv, AsOwner
    <2>3. QED
        BY <1>15, <2>1, <2>2 DEF AddPlan, TypeInv, tables, history
  <1>16. CASE CommitPlan(c)
    <2>1. pc' \in [Calls -> Labels]
        BY <1>2, <1>3, <1>16 DEF CommitPlan, Goto
    <2>2. args[c].about \in Names
        BY <1>6, <1>16 DEF CommitPlan, AsOwner
    <2>3. {[what |-> "recruiter_plan", of |-> args[c].about]} \in SUBSET Items
        BY <1>5, <2>2
    <2>4. [got EXCEPT ![c] = {[what |-> "recruiter_plan", of |-> args[c].about]}] \in [Calls -> SUBSET Items]
        BY <1>4, <2>3
    <2>5. got' \in [Calls -> SUBSET Items]
        BY <1>16, <2>4 DEF CommitPlan, TypeInv
    <2>6. plans' \in [Names -> Someone]
        BY <1>1, <1>16 DEF CommitPlan, TypeInv
    <2>7. QED
        BY <1>16, <2>1, <2>5, <2>6 DEF CommitPlan, TypeInv, history
  <1>17. QED
      BY <1>7, <1>8, <1>9, <1>10, <1>11, <1>12, <1>13, <1>14, <1>15, <1>16

LEMMA StepTypes == IInv /\ [Next]_vars => TypeInv'
  <1> SUFFICES ASSUME IInv, [Next]_vars PROVE TypeInv'
      OBVIOUS
  <1>1. {"refused", "failed"} \subseteq Labels
      BY DEF Labels
  <1>2. ASSUME NEW c \in Calls, Refuse(c) \/ Cancel(c) PROVE TypeInv'
      BY <1>1, <1>2, ForgetTypes DEF Refuse, Cancel, IInv
  <1>3. CASE Tick
      BY <1>3 DEF Tick, IInv, TypeInv, tables, call, history
  <1>4. CASE UNCHANGED vars
      BY <1>4 DEF vars, IInv, TypeInv, tables, call, history
  <1>5. QED
      BY <1>2, <1>3, <1>4, BeginTypes, SigningTypes, ServingTypes DEF Next, IInv

-----------------------------------------------------------------------------
(***************************************************************************)
(* What the step of one call does to the others: it touches none of theirs *)
(* and makes no session for a token a browser holds.                       *)
(***************************************************************************)
World(C) ==
    /\ \A t \in C : ~Settled(t)
    /\ \A s \in sessions' : s \in sessions \/ s.token \in C
    /\ \A t \in Names \ C : minted'[t] = minted[t]
    /\ jobs \subseteq jobs' /\ clock <= clock'
    /\ \A d \in Calls \ C :
          /\ pc'[d] = pc[d] /\ args'[d] = args[d] /\ recruiter_id'[d] = recruiter_id[d]
          /\ got'[d] = got[d] /\ looked_at'[d] = looked_at[d] /\ (d \in stale' <=> d \in stale)

LEMMA HeldTokensKeep ==
    ASSUME TypeInv, TypeInv', NEW C \in SUBSET Calls, World(C), NEW t \in Names, Settled(t)
    PROVE  /\ Settled(t)' /\ minted'[t] = minted[t]
           /\ Gone(t) => Gone(t)'
           /\ Dead(t) => Dead(t)'
           /\ \A job : Belongs(job, t) => Belongs(job, t)'
  <1>1. t \notin C
      BY DEF World
  <1>2. Settled(t)' /\ minted'[t] = minted[t]
      BY <1>1, FreshAssumption DEF World, Settled
  <1>3. Gone(t) => Gone(t)'
      BY <1>1 DEF World, Gone
  <1>4. clock \in Nat /\ clock' \in Nat /\ clock <= clock' /\ minted[t].until \in Nat
      BY DEF World, TypeInv
  <1>5. Dead(t) => Dead(t)'
      BY <1>2, <1>3, <1>4 DEF Dead
  <1>6. \A job : Belongs(job, t) => Belongs(job, t)'
      BY <1>2 DEF World, Belongs
  <1>7. QED
      BY <1>2, <1>3, <1>5, <1>6

LEMMA OthersKeep ==
    ASSUME IInv, TypeInv', NEW C \in SUBSET Calls, World(C), NEW d \in Calls \ C
    PROVE  CredentialInv(d)' /\ AccessInv(d)'
  <1>0. CredentialInv(d) /\ AccessInv(d) /\ TypeInv
      BY DEF IInv
  <1> PICK t : t = args[d].cookie
      OBVIOUS
  <1>1. /\ pc'[d] = pc[d] /\ args'[d] = args[d] /\ recruiter_id'[d] = recruiter_id[d]
        /\ got'[d] = got[d] /\ looked_at'[d] = looked_at[d] /\ (d \in stale' <=> d \in stale)
        /\ minted'[d] = minted[d]
      BY DEF World, Names
  <1>2. t # Nobody => /\ t \in Names /\ Settled(t) /\ Settled(t)' /\ minted'[t] = minted[t]
                      /\ Gone(t) => Gone(t)'
                      /\ Dead(t) => Dead(t)'
                      /\ \A job : Belongs(job, t) => Belongs(job, t)'
    <2>1. t # Nobody => t \in Names /\ Settled(t)
      <3>1. t # Nobody => Settled(t)
          BY <1>0 DEF CredentialInv
      <3>2. Settled(t) => t \in Names
          BY DEF Settled, Names
      <3>3. QED
          BY <3>1, <3>2
    <2>2. QED
        BY <1>0, <2>1, HeldTokensKeep
  <1>3. Gone(Nobody)'
      BY NobodyAssumption DEF Gone, TypeInv, Names
  <1>4. CredentialInv(d)'
      BY <1>0, <1>1, <1>2, <1>3 DEF CredentialInv
  <1>5. AccessInv(d)'
      BY <1>0, <1>1, <1>2 DEF AccessInv, Known, AsOwner
  <1>6. QED
      BY <1>4, <1>5

LEMMA CookieKeeps ==
    ASSUME TypeInv, TypeInv', NEW c \in Calls, World({c}), CredentialInv(c),
           NEW t, t = args[c].cookie
    PROVE  t # Nobody => /\ t \in Names /\ Settled(t) /\ Settled(t)' /\ minted'[t] = minted[t]
                         /\ Gone(t) => Gone(t)'
                         /\ Dead(t) => Dead(t)'
                         /\ \A job : Belongs(job, t) => Belongs(job, t)'
  <1>1. t # Nobody => Settled(t)
      BY DEF CredentialInv
  <1>2. Settled(t) => t \in Names
      BY DEF Settled, Names
  <1>3. QED
      BY <1>1, <1>2, HeldTokensKeep

(***************************************************************************)
(* The steps of one call: those that only serve it, those that sign it in  *)
(* or out, and the others.                                                 *)
(***************************************************************************)
Serves(c) ==
    \/ MatchToken(c) \/ GetForRecruiter(c) \/ ServeCandidate(c) \/ ListJobs(c) \/ GetPlan(c)
    \/ LookForPlan(c) \/ AddPlan(c) \/ CommitPlan(c) \/ Respond(c) \/ GetByEmail(c)

LEMMA ServesWorld ==
    ASSUME IInv, NEW c \in Calls, Serves(c)
    PROVE  /\ UNCHANGED <<session_store, clock, recruiters, sessions, jobs, args, minted, stale>>
           /\ World({c})
  <1>1. /\ UNCHANGED <<session_store, clock, recruiters, sessions, jobs, args, minted, stale>>
        /\ pc[c] # "done"
        /\ \E label \in Labels : pc' = [pc EXCEPT ![c] = label]
        /\ recruiter_id' = recruiter_id \/ \E id : recruiter_id' = [recruiter_id EXCEPT ![c] = id]
        /\ got' = got \/ \E items : got' = [got EXCEPT ![c] = items]
        /\ looked_at' = looked_at \/ \E plan : looked_at' = [looked_at EXCEPT ![c] = plan]
    <2>1. CASE MatchToken(c)
        BY <2>1 DEF MatchToken, Goto, tables, call, history, Labels
    <2>2. CASE GetForRecruiter(c)
        BY <2>2 DEF GetForRecruiter, Goto, tables, history, Labels
    <2>3. CASE ServeCandidate(c)
        BY <2>3 DEF ServeCandidate, Goto, tables, history, Labels
    <2>4. CASE ListJobs(c)
        BY <2>4 DEF ListJobs, Goto, tables, history, Labels
    <2>5. CASE GetPlan(c)
        BY <2>5 DEF GetPlan, Goto, tables, history, Labels
    <2>6. CASE LookForPlan(c)
        BY <2>6 DEF LookForPlan, Goto, tables, Labels
    <2>7. CASE AddPlan(c)
        BY <2>7 DEF AddPlan, Goto, tables, history, Labels
    <2>8. CASE CommitPlan(c)
        BY <2>8 DEF CommitPlan, Goto, history, Labels
    <2>9. CASE Respond(c)
        BY <2>9 DEF Respond, Goto, tables, call, history, Labels
    <2>10. CASE GetByEmail(c)
        BY <2>10 DEF GetByEmail, Goto, tables, history, Labels
    <2>11. QED
        BY <2>1, <2>2, <2>3, <2>4, <2>5, <2>6, <2>7, <2>8, <2>9, <2>10 DEF Serves
  <1>2. /\ ~Settled(c)
        /\ \A d \in Calls \ {c} : /\ pc'[d] = pc[d] /\ args'[d] = args[d]
                                  /\ recruiter_id'[d] = recruiter_id[d]
                                  /\ got'[d] = got[d] /\ looked_at'[d] = looked_at[d]
      BY <1>1, FreshAssumption DEF Settled, IInv, TypeInv
  <1>3. clock <= clock'
      BY <1>1 DEF IInv, TypeInv
  <1>4. QED
      BY <1>1, <1>2, <1>3 DEF World

LEMMA ServesItself ==
    ASSUME IInv, TypeInv', NEW c \in Calls, Serves(c) PROVE CredentialInv(c)' /\ AccessInv(c)'
  <1> PICK t : t = args[c].cookie
      OBVIOUS
  <1>0. TypeInv /\ CredentialInv(c) /\ AccessInv(c)
      BY DEF IInv
  <1>1. /\ UNCHANGED <<session_store, clock, recruiters, sessions, jobs, args, minted, stale>>
        /\ World({c})
      BY ServesWorld
  <1>2. t # Nobody => /\ t \in Names /\ Settled(t) /\ Settled(t)' /\ minted'[t] = minted[t]
                      /\ Gone(t) => Gone(t)'
                      /\ Dead(t) => Dead(t)'
                      /\ \A job : Belongs(job, t) => Belongs(job, t)'
      BY <1>0, <1>1, CookieKeeps
  <1>3. Gone(t)' <=> Gone(t)
      BY <1>1 DEF Gone
  <1>4. CASE MatchToken(c)
    <2>1. /\ pc'[c] \in {"candidate_plan", "candidate", "session"} /\ pc[c] = "token"
          /\ pc'[c] # "session" => args[c].bearer = args[c].about
          /\ recruiter_id' = recruiter_id /\ got' = got /\ looked_at' = looked_at
        BY <1>0, <1>4 DEF MatchToken, Goto, call, history, TypeInv
    <2>2. CredentialInv(c)'
        BY <1>0, <1>1, <1>2, <1>3, <2>1 DEF CredentialInv
    <2>3. AccessInv(c)'
        BY <1>0, <1>1, <1>2, <2>1 DEF CredentialInv, AccessInv, Known, AsOwner
    <2>4. QED
        BY <2>2, <2>3
  <1>5. CASE GetForRecruiter(c)
    <2>1. /\ pc[c] = "owned" /\ recruiter_id' = recruiter_id /\ looked_at' = looked_at
          /\ \/ pc'[c] = "not_found" /\ got' = got
             \/ /\ Owned(args[c].about, recruiter_id[c])
                /\ \/ pc'[c] \in {"look", "recruiter_plan"} /\ got'[c] = got[c]
                   \/ /\ pc'[c] = "done"
                      /\ \/ got'[c] = got[c]
                         \/ got'[c] = {[what |-> args[c].kind, of |-> args[c].about]}
      <3>1. /\ pc[c] = "owned" /\ recruiter_id' = recruiter_id /\ looked_at' = looked_at
            /\ got'[c] \in {got[c], {[what |-> args[c].kind, of |-> args[c].about]}}
          BY <1>0, <1>5 DEF GetForRecruiter, history, TypeInv
      <3>2. CASE Owned(args[c].about, recruiter_id[c])
        <4>1. /\ pc'[c] \in {"look", "recruiter_plan", "done"}
              /\ pc'[c] \in {"look", "recruiter_plan"} => got' = got
            BY <1>0, <1>5, <3>2 DEF GetForRecruiter, Goto, TypeInv
        <4>2. QED
            BY <3>1, <3>2, <4>1
      <3>3. CASE ~ Owned(args[c].about, recruiter_id[c])
          BY <1>0, <1>5, <3>1, <3>3 DEF GetForRecruiter, Goto, TypeInv
      <3>4. QED
          BY <3>2, <3>3
    <2>2. /\ t # Nobody /\ recruiter_id[c] = minted[t].to
          /\ args[c].kind \in OwnerKinds \cup TokenKinds
        BY <1>0, <2>1 DEF AccessInv, Known
    <2>3. Owned(args[c].about, recruiter_id[c]) => args[c].about \in Names /\ Belongs(args[c].about, t)
      <3>1. ASSUME NEW j \in jobs, j.id = args[c].about, j.recruiter_id = recruiter_id[c]
            PROVE  args[c].about \in Names /\ [id |-> args[c].about, recruiter_id |-> minted[t].to] \in jobs
        <4>1. j \in [id : Names, recruiter_id : Names]
            BY <1>0 DEF TypeInv
        <4>2. j = [id |-> args[c].about, recruiter_id |-> minted[t].to]
            BY <2>2, <3>1, <4>1
        <4>3. QED
            BY <3>1, <4>1, <4>2
      <3>2. QED
          BY <3>1 DEF Owned, Belongs
    <2>4. CredentialInv(c)'
        BY <1>0, <1>1, <1>2, <1>3, <2>1, <2>2 DEF CredentialInv, OwnerKinds, TokenKinds
    <2>5. AccessInv(c)'
        BY <1>0, <1>1, <1>2, <2>1, <2>2, <2>3 DEF CredentialInv, AccessInv, Known, AsOwner
    <2>6. QED
        BY <2>4, <2>5
  <1>6. CASE ServeCandidate(c)
    <2>1. /\ pc'[c] = "done" /\ pc[c] = "candidate"
          /\ recruiter_id' = recruiter_id /\ looked_at' = looked_at
          /\ got'[c] = {[what |-> "interview", of |-> args[c].bearer]}
          /\ args[c].kind \in TokenKinds
        BY <1>0, <1>6 DEF ServeCandidate, Goto, history, TypeInv, AccessInv
    <2>2. CredentialInv(c)'
        BY <1>0, <1>1, <1>2, <1>3, <2>1 DEF CredentialInv, TokenKinds
    <2>3. AccessInv(c)'
        BY <1>0, <1>1, <1>2, <2>1 DEF CredentialInv, AccessInv, Known, AsOwner
    <2>4. QED
        BY <2>2, <2>3
  <1>7. CASE ListJobs(c)
    <2>1. /\ pc'[c] = "done" /\ pc[c] = "list"
          /\ recruiter_id' = recruiter_id /\ looked_at' = looked_at
          /\ got'[c] = {[what |-> "job_detail", of |-> j.id] : j \in {k \in jobs : k.recruiter_id = recruiter_id[c]}}
        BY <1>0, <1>7 DEF ListJobs, Goto, history, TypeInv
    <2>2. /\ t # Nobody /\ recruiter_id[c] = minted[t].to
          /\ args[c].kind \in OwnerKinds \cup TokenKinds
        BY <1>0, <2>1 DEF AccessInv, Known
    <2>3. ASSUME NEW item \in got'[c] PROVE Belongs(item.of, t)
      <3>1. PICK j \in jobs : j.recruiter_id = recruiter_id[c] /\ item.of = j.id
          BY <2>1
      <3>2. j \in [id : Names, recruiter_id : Names]
          BY <1>0 DEF TypeInv
      <3>3. j = [id |-> item.of, recruiter_id |-> minted[t].to]
          BY <2>2, <3>1, <3>2
      <3>4. QED
          BY <3>3 DEF Belongs
    <2>4. CredentialInv(c)'
        BY <1>0, <1>1, <1>2, <1>3, <2>1, <2>2 DEF CredentialInv, OwnerKinds, TokenKinds
    <2>5. AccessInv(c)'
        BY <1>0, <1>1, <1>2, <2>1, <2>2, <2>3 DEF CredentialInv, AccessInv, Known, AsOwner
    <2>6. QED
        BY <2>4, <2>5
  <1>8. CASE GetPlan(c)
    <2>1. /\ recruiter_id' = recruiter_id /\ looked_at' = looked_at
          /\ pc[c] \in {"candidate_plan", "recruiter_plan"}
          /\ \/ pc'[c] = "not_found" /\ got'[c] = got[c]
             \/ pc'[c] = "done" /\ got'[c] = {[what |-> pc[c], of |-> args[c].about]}
        BY <1>0, <1>8 DEF GetPlan, Goto, history, TypeInv
    <2>2. /\ args[c].kind \in OwnerKinds \cup TokenKinds
          /\ pc[c] = "candidate_plan" => args[c].bearer = args[c].about
          /\ pc[c] = "recruiter_plan" => t # Nobody /\ Belongs(args[c].about, t)
        BY <1>0, <2>1 DEF AccessInv, Known, AsOwner
    <2>3. CredentialInv(c)'
        BY <1>0, <1>1, <1>2, <1>3, <2>1, <2>2 DEF CredentialInv, OwnerKinds, TokenKinds
    <2>4. AccessInv(c)'
        BY <1>0, <1>1, <1>2, <2>1, <2>2 DEF CredentialInv, AccessInv, Known, AsOwner
    <2>5. QED
        BY <2>3, <2>4
  <1>9. ASSUME LookForPlan(c) \/ AddPlan(c) \/ CommitPlan(c)
        PROVE  CredentialInv(c)' /\ AccessInv(c)'
    <2>1. /\ recruiter_id' = recruiter_id /\ pc[c] \in {"look", "generate", "commit_plan"}
          /\ \/ /\ pc'[c] \in {"generate", "commit_plan"} /\ got'[c] = got[c]
                /\ looked_at'[c] = Nobody \/ (pc[c] = "generate" /\ looked_at' = looked_at)
             \/ pc'[c] = "failed" /\ got'[c] = got[c]
             \/ pc'[c] = "done" /\ got'[c] = {[what |-> "recruiter_plan", of |-> args[c].about]}
      <3>1. CASE LookForPlan(c)
          BY <1>0, <3>1 DEF LookForPlan, Goto, TypeInv
      <3>2. CASE AddPlan(c)
          BY <1>0, <3>2 DEF AddPlan, Goto, TypeInv, history
      <3>3. CASE CommitPlan(c)
          BY <1>0, <3>3 DEF CommitPlan, Goto, TypeInv, history
      <3>4. QED
          BY <1>9, <3>1, <3>2, <3>3
    <2>2. /\ t # Nobody /\ recruiter_id[c] = minted[t].to /\ recruiter_id[c] \in Names
          /\ args[c].kind \in OwnerKinds \cup TokenKinds
          /\ args[c].about \in Names /\ Belongs(args[c].about, t)
          /\ pc[c] = "generate" => looked_at[c] = Nobody
        BY <1>0, <2>1 DEF AccessInv, Known, AsOwner
    <2>3. CredentialInv(c)'
        BY <1>0, <1>1, <1>2, <1>3, <2>1, <2>2 DEF CredentialInv, OwnerKinds, TokenKinds
    <2>4. AccessInv(c)'
        BY <1>0, <1>1, <1>2, <2>1, <2>2 DEF CredentialInv, AccessInv, Known, AsOwner
    <2>5. QED
        BY <2>3, <2>4
  <1>10. CASE Respond(c)
    <2>1. /\ recruiter_id' = recruiter_id /\ looked_at' = looked_at /\ got' = got
          /\ pc[c] = "respond" /\ pc'[c] = "done"
        BY <1>0, <1>10 DEF Respond, Goto, call, history, TypeInv
    <2>2. CredentialInv(c)'
        BY <1>0, <1>1, <1>2, <1>3, <2>1 DEF CredentialInv
    <2>3. AccessInv(c)'
        BY <1>0, <1>1, <1>2, <2>1 DEF CredentialInv, AccessInv, Known, AsOwner
    <2>4. QED
        BY <2>2, <2>3
  <1>11. CASE GetByEmail(c)
    <2>1. /\ looked_at' = looked_at /\ got' = got /\ pc[c] = "login"
          /\ \/ pc'[c] = "denied" /\ recruiter_id' = recruiter_id
             \/ pc'[c] = "create" /\ recruiter_id'[c] \in Names
      <3>1. \A r \in recruiters : r.id \in Names
          BY <1>0 DEF TypeInv
      <3>2. QED
          BY <1>0, <1>11, <3>1 DEF GetByEmail, Goto, history, TypeInv
    <2>2. t = Nobody /\ c \notin stale /\ args[c].kind \in {"signup", "login"}
        BY <1>0, <2>1 DEF CredentialInv
    <2>3. CredentialInv(c)'
        BY <1>0, <1>1, <1>3, <2>1, <2>2 DEF CredentialInv
    <2>4. AccessInv(c)'
        BY <1>0, <1>1, <2>1, <2>2 DEF CredentialInv, AccessInv, Known, AsOwner
    <2>5. QED
        BY <2>3, <2>4
  <1>12. QED
      BY <1>4, <1>5, <1>6, <1>7, <1>8, <1>9, <1>10, <1>11 DEF Serves

(***************************************************************************)
(* Beginning: the cookie is one a browser holds.  One that was signed out  *)
(* has no session, because no other is ever made for its token.            *)
(***************************************************************************)
LEMMA BeginKeeps == ASSUME IInv, TypeInv', NEW c \in Calls, Begin(c) PROVE IInv'
  <1>0. TypeInv /\ CredentialInv(c) /\ AccessInv(c)
      BY DEF IInv
  <1>1. PICK request \in Requests :
          /\ args' = [args EXCEPT ![c] = request]
          /\ stale' = IF /\ request.cookie # Nobody
                         /\ SignedOut(request.cookie) \/ clock >= minted[request.cookie].until
                      THEN stale \cup {c} ELSE stale
          /\ pc' = [pc EXCEPT ![c] = CASE request.kind \in OwnerKinds -> "session"
                                       [] request.kind \in TokenKinds -> "token"
                                       [] OTHER -> request.kind]
      BY DEF Begin, Goto
  <1>2. /\ pc[c] = "new" /\ clock' = clock
        /\ UNCHANGED <<session_store, recruiters, sessions, jobs, recruiter_id, got, minted, looked_at>>
      BY DEF Begin, tables
  <1>3. /\ request.kind \in Kinds /\ request.kind # "none" /\ request.cookie \in Someone
        /\ request.cookie # Nobody => Settled(request.cookie)
        /\ request.kind \in {"signup", "login"} => request.cookie = Nobody /\ request.email \in Seeds \cup Emails
        /\ request.kind \in TokenKinds => request.about \in Names
      BY <1>0, RequestTypes
  <1>4. /\ args'[c] = request
        /\ \/ pc'[c] = "session" /\ request.kind \in OwnerKinds
           \/ pc'[c] = "token" /\ request.kind \in TokenKinds
           \/ pc'[c] = request.kind /\ request.kind \in {"signup", "login", "logout"}
    <2>1. args'[c] = request
        BY <1>0, <1>1 DEF TypeInv
    <2>2. pc'[c] = CASE request.kind \in OwnerKinds -> "session"
                     [] request.kind \in TokenKinds -> "token"
                     [] OTHER -> request.kind
        BY <1>0, <1>1 DEF TypeInv
    <2>3. request.kind \in OwnerKinds \/ request.kind \in TokenKinds
            \/ request.kind \in {"signup", "login", "logout"}
        BY <1>3 DEF Kinds
    <2>4. OwnerKinds \cap TokenKinds = {} /\ "signup" \notin OwnerKinds \cup TokenKinds
          /\ "login" \notin OwnerKinds \cup TokenKinds /\ "logout" \notin OwnerKinds \cup TokenKinds
        BY DEF OwnerKinds, TokenKinds
    <2>5. QED
        BY <2>1, <2>2, <2>3, <2>4
  <1>5. World({c})
    <2>1. clock <= clock'
        BY <1>0, <1>2 DEF TypeInv
    <2>2. ~Settled(c)
        BY <1>2, FreshAssumption DEF Settled
    <2>3. \A d \in Calls \ {c} : pc'[d] = pc[d] /\ args'[d] = args[d] /\ (d \in stale' <=> d \in stale)
        BY <1>0, <1>1 DEF TypeInv
    <2>4. QED
        BY <1>2, <2>1, <2>2, <2>3 DEF World
  <1>6. request.cookie # Nobody => Settled(request.cookie)'
    <2> PICK t : t = request.cookie
        OBVIOUS
    <2>1. t # Nobody => Settled(t) /\ t \in Names
        BY <1>3 DEF Settled, Names
    <2>2. t # Nobody => Settled(t)'
        BY <1>0, <1>5, <2>1, HeldTokensKeep
    <2>3. QED
        BY <2>2 DEF Settled
  <1>7. SignedOut(request.cookie) => Gone(request.cookie)
    <2>1. ASSUME NEW d \in Calls, args[d].kind = "logout", pc[d] = "done", args[d].cookie = request.cookie
          PROVE  Gone(request.cookie)
      <3>1. CredentialInv(d)
          BY DEF IInv
      <3>2. QED
          BY <2>1, <3>1 DEF CredentialInv
    <2>2. QED
        BY <2>1 DEF SignedOut
  <1>8. recruiter_id[c] = Nobody /\ c \notin stale
      BY <1>0, <1>2 DEF CredentialInv
  <1>10. CredentialInv(c)'
    <2>1. c \in stale' => Gone(request.cookie) \/ clock >= minted[request.cookie].until
        BY <1>1, <1>7, <1>8
    <2>2. c \in stale' => args'[c].cookie # Nobody /\ Dead(args[c].cookie)'
        BY <1>1, <1>2, <1>4, <1>8, <2>1 DEF Dead, Gone
    <2>3. args'[c].cookie # Nobody => Settled(args[c].cookie)'
        BY <1>4, <1>6 DEF Settled
    <2>4. QED
        BY <1>0, <1>2, <1>3, <1>4, <1>8, <2>2, <2>3 DEF CredentialInv, OwnerKinds, TokenKinds
  <1>11. AccessInv(c)'
    <2>1. got'[c] = {} /\ pc'[c] \in {"session", "token", "signup", "login", "logout"}
        BY <1>0, <1>2, <1>4 DEF AccessInv
    <2>2. QED
        BY <2>1 DEF AccessInv, Known, AsOwner
  <1>12. SessionInv' /\ AccountInv'
      BY <1>2 DEF IInv, SessionInv, AccountInv
  <1>13. QED
      BY <1>5, <1>10, <1>11, <1>12, OthersKeep DEF IInv

LEMMA ForgetKeeps ==
    ASSUME IInv, TypeInv', NEW c \in Calls, pc[c] # "done", NEW label \in {"refused", "failed"},
           Forget(c, label), label = "failed" \/ pc[c] \notin {"respond", "failed"}
    PROVE  IInv'
  <1>0. TypeInv /\ CredentialInv(c) /\ AccessInv(c)
      BY DEF IInv
  <1>1. /\ pc' = [pc EXCEPT ![c] = label] /\ args' = [args EXCEPT ![c] = NoArgs]
        /\ recruiter_id' = [recruiter_id EXCEPT ![c] = Nobody]
        /\ looked_at' = [looked_at EXCEPT ![c] = Nobody]
        /\ stale' = stale \ {c}
        /\ UNCHANGED <<session_store, clock, recruiters, sessions, jobs, got, minted>>
      BY DEF Forget, Goto, tables
  <1>2. /\ pc'[c] = label /\ args'[c] = NoArgs /\ got'[c] = {} /\ c \notin stale'
        /\ minted'[c].to # Nobody => label = "failed"
      BY <1>0, <1>1 DEF TypeInv, AccessInv, CredentialInv
  <1>3. World({c})
    <2>1. clock <= clock' /\ ~Settled(c)
        BY <1>0, <1>1, FreshAssumption DEF TypeInv, Settled
    <2>2. \A d \in Calls \ {c} : /\ pc'[d] = pc[d] /\ args'[d] = args[d] /\ recruiter_id'[d] = recruiter_id[d]
                                 /\ looked_at'[d] = looked_at[d] /\ (d \in stale' <=> d \in stale)
        BY <1>0, <1>1 DEF TypeInv
    <2>3. QED
        BY <1>1, <2>1, <2>2 DEF World
  <1>4. CredentialInv(c)' /\ AccessInv(c)'
      BY <1>2 DEF CredentialInv, AccessInv, NoArgs, Known, AsOwner, TokenKinds
  <1>5. SessionInv' /\ AccountInv'
      BY <1>1 DEF IInv, SessionInv, AccountInv
  <1>6. QED
      BY <1>3, <1>4, <1>5, OthersKeep DEF IInv

(***************************************************************************)
(* Signing up or in makes a session for a token nobody holds yet.          *)
(***************************************************************************)
LEMMA CreateKeepsSessions ==
    ASSUME IInv, NEW c \in Calls, pc[c] \notin {"respond", "done", "failed"}, NEW id \in Names,
           Create(c, id)
    PROVE  /\ SessionInv' /\ minted'[c].to = id
           /\ \A t \in Names \ {c} : minted'[t] = minted[t]
           /\ \A s \in sessions' : s \in sessions \/ s.token = c
           /\ \A r \in recruiters : minted[r.id].to = r.id => minted'[r.id].to = r.id
  <1>0. TypeInv /\ CredentialInv(c) /\ SessionInv /\ c \in Names
      BY DEF IInv, Names
  <1>1. minted[c].to = Nobody
      BY <1>0 DEF CredentialInv
  <1>2. /\ sessions' = Pruned \cup {MintedFor(c, id)}
        /\ minted'[c] = [to |-> id, until |-> clock + Ttl]
        /\ \A t \in Names \ {c} : minted'[t] = minted[t]
      BY <1>0 DEF Create, TypeInv
  <1>3. ASSUME NEW s \in sessions PROVE minted'[s.token] = [to |-> s.recruiter_id, until |-> s.expires_at]
    <2>1. s.token \in Names /\ s.recruiter_id \in Names /\ s.recruiter_id # Nobody
        BY <1>0, NobodyAssumption DEF TypeInv, Names
    <2>2. minted[s.token] = [to |-> s.recruiter_id, until |-> s.expires_at]
        BY <1>0 DEF SessionInv
    <2>3. s.token # c
        BY <1>1, <2>1, <2>2
    <2>4. QED
        BY <1>2, <2>1, <2>2, <2>3
  <1>4. SessionInv'
    <2>1. ASSUME NEW s \in sessions'
          PROVE  minted'[s.token] = [to |-> s.recruiter_id, until |-> s.expires_at]
      <3>1. CASE s \in sessions
          BY <1>3, <3>1
      <3>2. CASE s = [token |-> c, recruiter_id |-> id, expires_at |-> clock + Ttl]
        <4>1. s.token = c /\ s.recruiter_id = id /\ s.expires_at = clock + Ttl
            BY <3>2
        <4>2. QED
            BY <1>2, <4>1
      <3>3. QED
          BY <1>2, <3>1, <3>2 DEF Pruned, MintedFor
    <2>2. QED
        BY <2>1 DEF SessionInv
  <1>5. \A r \in recruiters : minted[r.id].to = r.id => minted'[r.id].to = r.id
      BY <1>0, <1>1, <1>2, NobodyAssumption DEF TypeInv, Names
  <1>6. QED
      BY <1>2, <1>4, <1>5 DEF Pruned, MintedFor

LEMMA SignsUp ==
    ASSUME IInv, TypeInv', NEW c \in Calls, CreateWithRecruiter(c) \/ Add(c) PROVE IInv'
  <1>0. TypeInv /\ CredentialInv(c) /\ AccessInv(c) /\ c \in Names
      BY DEF IInv, Names
  <1>1. /\ pc[c] = "signup" /\ UNCHANGED <<session_store, clock, jobs, args, got, stale, looked_at>>
        /\ got[c] = {} /\ args[c].cookie = Nobody /\ c \notin stale /\ args[c].kind \in {"signup", "login"}
        /\ args[c].email \in Seeds \cup Emails /\ minted[c].to = Nobody
      BY <1>0 DEF CreateWithRecruiter, Add, history, CredentialInv, AccessInv
  <1>2. clock <= clock' /\ ~Settled(c)
      BY <1>0, <1>1, FreshAssumption DEF TypeInv, Settled
  <1>3. CASE UNCHANGED <<recruiters, sessions, recruiter_id, minted>> /\ pc' = [pc EXCEPT ![c] = "email_taken"]
    <2>1. World({c})
        BY <1>0, <1>1, <1>2, <1>3 DEF World, TypeInv
    <2>2. pc'[c] = "email_taken"
        BY <1>0, <1>3 DEF TypeInv
    <2>3. CredentialInv(c)' /\ AccessInv(c)'
        BY <1>0, <1>1, <1>3, <2>2 DEF CredentialInv, AccessInv, Known, AsOwner
    <2>4. SessionInv' /\ AccountInv'
        BY <1>1, <1>3 DEF IInv, SessionInv, AccountInv
    <2>5. QED
        BY <2>1, <2>3, <2>4, OthersKeep DEF IInv
  <1>4. ASSUME ~ EmailTaken(args[c].email), AddRecruiter(c), recruiter_id' = [recruiter_id EXCEPT ![c] = c],
               \/ /\ session_store = "sql" /\ Create(c, c) /\ pc' = [pc EXCEPT ![c] = "respond"]
               \/ /\ session_store = "memory" /\ UNCHANGED <<sessions, minted>>
                  /\ pc' = [pc EXCEPT ![c] = "create"]
        PROVE  IInv'
    <2>1. /\ SessionInv' /\ (session_store = "sql" => minted'[c].to = c)
          /\ session_store = "memory" => minted' = minted
          /\ \A t \in Names \ {c} : minted'[t] = minted[t]
          /\ \A s \in sessions' : s \in sessions \/ s.token = c
          /\ \A r \in recruiters : minted[r.id].to = r.id => minted'[r.id].to = r.id
      <3>1. CASE session_store = "sql"
          BY <1>0, <1>1, <1>4, <3>1, CreateKeepsSessions
      <3>2. CASE session_store # "sql"
          BY <1>4, <3>2 DEF IInv, SessionInv
      <3>3. QED
          BY <3>1, <3>2
    <2>2. World({c})
        BY <1>0, <1>1, <1>2, <1>4, <2>1 DEF World, TypeInv
    <2>3. /\ recruiter_id'[c] = c
          /\ \/ session_store = "sql" /\ pc'[c] = "respond"
             \/ session_store = "memory" /\ pc'[c] = "create" /\ minted' = minted
        BY <1>0, <1>4 DEF TypeInv
    <2>4. CredentialInv(c)' /\ AccessInv(c)'
        BY <1>0, <1>1, <2>3 DEF CredentialInv, AccessInv, Known, AsOwner
    <2>5. AccountInv'
      <3>1. recruiters' = recruiters \cup {[id |-> c, email |-> args[c].email]}
          BY <1>4 DEF AddRecruiter
      <3>2. session_store' = session_store /\ \A r \in recruiters : r.email # args[c].email
          BY <1>1, <1>4 DEF EmailTaken
      <3>3. (session_store = "sql" => \A r \in recruiters : minted[r.id].to = r.id)
              /\ \A r, s \in recruiters : r.email = s.email => r = s
          BY DEF IInv, AccountInv
      <3>4. session_store = "sql" => \A r \in recruiters' : minted'[r.id].to = r.id
          BY <2>1, <3>1, <3>3
      <3>5. \A r, s \in recruiters' : r.email = s.email => r = s
          BY <3>1, <3>2, <3>3
      <3>6. QED
          BY <3>2, <3>4, <3>5 DEF AccountInv
    <2>6. QED
        BY <2>1, <2>2, <2>4, <2>5, OthersKeep DEF IInv
  <1>5. QED
    <2>1. CASE CreateWithRecruiter(c)
        BY <1>3, <1>4, <2>1 DEF CreateWithRecruiter, Goto
    <2>2. CASE Add(c)
        BY <1>3, <1>4, <2>2 DEF Add, Goto, history
    <2>3. QED
        BY <2>1, <2>2

LEMMA CreateSessionKeeps == ASSUME IInv, TypeInv', NEW c \in Calls, CreateSession(c) PROVE IInv'
  <1>0. TypeInv /\ CredentialInv(c) /\ AccessInv(c) /\ c \in Names
      BY DEF IInv, Names
  <1>1. /\ pc[c] = "create" /\ pc' = [pc EXCEPT ![c] = "respond"] /\ Create(c, recruiter_id[c])
        /\ UNCHANGED <<session_store, clock, recruiters, jobs, args, recruiter_id, got, stale, looked_at>>
        /\ got[c] = {} /\ args[c].cookie = Nobody /\ c \notin stale
        /\ args[c].kind \in {"signup", "login"} /\ recruiter_id[c] \in Names
      BY <1>0 DEF CreateSession, Goto, call, CredentialInv, AccessInv
  <1>2. /\ SessionInv'
        /\ \A t \in Names \ {c} : minted'[t] = minted[t]
        /\ \A s \in sessions' : s \in sessions \/ s.token = c
        /\ \A r \in recruiters : minted[r.id].to = r.id => minted'[r.id].to = r.id
      BY <1>1, CreateKeepsSessions
  <1>3. clock <= clock' /\ ~Settled(c) /\ pc'[c] = "respond"
      BY <1>0, <1>1, FreshAssumption DEF TypeInv, Settled
  <1>4. World({c})
      BY <1>0, <1>1, <1>2, <1>3 DEF World, TypeInv
  <1>5. CredentialInv(c)' /\ AccessInv(c)'
      BY <1>0, <1>1, <1>3 DEF CredentialInv, AccessInv, Known, AsOwner
  <1>6. AccountInv'
      BY <1>1, <1>2 DEF IInv, AccountInv
  <1>7. QED
      BY <1>2, <1>4, <1>5, <1>6, OthersKeep DEF IInv

LEMMA LogoutKeeps == ASSUME IInv, TypeInv', NEW c \in Calls, Logout(c) PROVE IInv'
  <1> PICK t : t = args[c].cookie
      OBVIOUS
  <1>0. TypeInv /\ CredentialInv(c) /\ AccessInv(c) /\ c \in Names
      BY DEF IInv, Names
  <1>1. /\ pc[c] = "logout" /\ pc' = [pc EXCEPT ![c] = "respond"]
        /\ sessions' = {s \in sessions : s.token # t}
        /\ UNCHANGED <<session_store, clock, recruiters, jobs, args, recruiter_id, got, minted, stale, looked_at>>
        /\ got[c] = {} /\ args[c].kind = "logout" /\ minted[c].to = Nobody
      BY <1>0 DEF Logout, Revoke, Goto, call, history, CredentialInv, AccessInv
  <1>2. clock <= clock' /\ ~Settled(c) /\ pc'[c] = "respond"
      BY <1>0, <1>1, FreshAssumption DEF TypeInv, Settled
  <1>3. World({c})
      BY <1>0, <1>1, <1>2 DEF World, TypeInv
  <1>4. t # Nobody => Settled(t)' /\ (Dead(t) => Dead(t)')
      BY <1>0, <1>3, CookieKeeps
  <1>5. Gone(t)'
      BY <1>1 DEF Gone
  <1>6. CredentialInv(c)'
      BY <1>0, <1>1, <1>2, <1>4, <1>5 DEF CredentialInv
  <1>7. AccessInv(c)'
      BY <1>0, <1>1, <1>2 DEF AccessInv, Known, AsOwner
  <1>8. SessionInv' /\ AccountInv'
      BY <1>1 DEF IInv, SessionInv, AccountInv
  <1>9. QED
      BY <1>3, <1>6, <1>7, <1>8, OthersKeep DEF IInv

(***************************************************************************)
(* The cookie resolves to the recruiter it was made for, and a dead one to *)
(* nobody.                                                                 *)
(***************************************************************************)
LEMMA ResolvesToItsRecruiter ==
    ASSUME TypeInv, SessionInv, NEW t, Resolve(t) # Nobody
    PROVE  t \in Names /\ t # Nobody /\ ~Dead(t) /\ Resolve(t) = minted[t].to /\ Resolve(t) \in Names
  <1>1. PICK live \in sessions : live.token = t /\ clock < live.expires_at
      BY DEF Resolve, Alive
  <1>2. PICK s \in sessions : s.token = t /\ Resolve(t) = s.recruiter_id
    <2>1. \E s \in sessions : s.token = t
        BY <1>1
    <2>2. Resolve(t) = (CHOOSE s \in sessions : s.token = t).recruiter_id
        BY DEF Resolve
    <2>3. QED
        BY <2>1, <2>2
  <1>3. /\ minted[t] = [to |-> s.recruiter_id, until |-> s.expires_at]
        /\ minted[t] = [to |-> live.recruiter_id, until |-> live.expires_at]
      BY <1>1, <1>2 DEF SessionInv
  <1>4. minted[t].until = live.expires_at /\ minted[t].to = s.recruiter_id
      BY <1>3
  <1>5. /\ t \in Names /\ t # Nobody /\ s.recruiter_id \in Names
        /\ clock \in Nat /\ live.expires_at \in Nat
      BY <1>1, <1>2, NobodyAssumption DEF TypeInv, Names
  <1>6. ~Dead(t)
      BY <1>1, <1>4, <1>5 DEF Dead, Gone
  <1>7. QED
      BY <1>2, <1>4, <1>5, <1>6

LEMMA ResolveSessionKeeps == ASSUME IInv, TypeInv', NEW c \in Calls, ResolveSession(c) PROVE IInv'
  <1> PICK t : t = args[c].cookie
      OBVIOUS
  <1>0. TypeInv /\ CredentialInv(c) /\ AccessInv(c) /\ c \in Names /\ SessionInv
      BY DEF IInv, Names
  <1>1. /\ pc[c] = "session" /\ sessions' \subseteq sessions
        /\ UNCHANGED <<session_store, clock, recruiters, jobs, args, got, minted, stale, looked_at>>
        /\ got[c] = {} /\ args[c].kind \in OwnerKinds \cup TokenKinds
      BY <1>0 DEF ResolveSession, DropExpired, history, CredentialInv, AccessInv
  <1>2. \/ pc'[c] = "denied" /\ recruiter_id'[c] = recruiter_id[c]
        \/ /\ pc'[c] \in {"analyze", "list", "owned"}
           /\ recruiter_id'[c] = Resolve(t) /\ Resolve(t) # Nobody
      BY <1>0 DEF ResolveSession, Goto, TypeInv
  <1>3. \A d \in Calls \ {c} : pc'[d] = pc[d] /\ recruiter_id'[d] = recruiter_id[d]
      BY <1>0 DEF ResolveSession, Goto, TypeInv
  <1>4. clock <= clock' /\ ~Settled(c)
      BY <1>0, <1>1, FreshAssumption DEF TypeInv, Settled
  <1>5. World({c})
      BY <1>1, <1>3, <1>4 DEF World
  <1>6. t # Nobody => Settled(t)' /\ (Dead(t) => Dead(t)')
      BY <1>0, <1>5, CookieKeeps
  <1>7. Resolve(t) # Nobody => t # Nobody /\ ~Dead(t) /\ Resolve(t) = minted[t].to /\ Resolve(t) \in Names
      BY <1>0, ResolvesToItsRecruiter
  <1>8. CredentialInv(c)'
      BY <1>0, <1>1, <1>2, <1>6, <1>7 DEF CredentialInv, OwnerKinds, TokenKinds
  <1>9. AccessInv(c)'
      BY <1>0, <1>1, <1>2, <1>7 DEF AccessInv, Known, AsOwner
  <1>10. SessionInv' /\ AccountInv'
      BY <1>1 DEF IInv, SessionInv, AccountInv
  <1>11. QED
      BY <1>5, <1>8, <1>9, <1>10, OthersKeep DEF IInv

LEMMA CreateJobKeeps == ASSUME IInv, TypeInv', NEW c \in Calls, CreateJob(c) PROVE IInv'
  <1> PICK t : t = args[c].cookie
      OBVIOUS
  <1>0. TypeInv /\ CredentialInv(c) /\ AccessInv(c) /\ c \in Names
      BY DEF IInv, Names
  <1>1. /\ pc[c] = "analyze" /\ jobs' = jobs \cup {[id |-> c, recruiter_id |-> recruiter_id[c]]}
        /\ pc'[c] = "done" /\ got'[c] = {[what |-> "job_detail", of |-> c]}
        /\ UNCHANGED <<session_store, clock, recruiters, sessions, args, recruiter_id, minted, stale, looked_at>>
        /\ \A d \in Calls \ {c} : pc'[d] = pc[d] /\ got'[d] = got[d]
      BY <1>0 DEF CreateJob, Goto, history, TypeInv
  <1>2. /\ t # Nobody /\ recruiter_id[c] = minted[t].to /\ recruiter_id[c] \in Names
        /\ args[c].kind \in OwnerKinds \cup TokenKinds
      BY <1>0, <1>1 DEF AccessInv, Known
  <1>3. clock <= clock' /\ ~Settled(c)
      BY <1>0, <1>1, FreshAssumption DEF TypeInv, Settled
  <1>4. World({c})
      BY <1>1, <1>3 DEF World
  <1>5. /\ t # Nobody => Settled(t)' /\ (Dead(t) => Dead(t)')
        /\ Belongs(c, t)'
      BY <1>0, <1>1, <1>2, <1>4, CookieKeeps DEF Belongs
  <1>6. CredentialInv(c)'
      BY <1>0, <1>1, <1>2, <1>5 DEF CredentialInv, OwnerKinds, TokenKinds
  <1>7. AccessInv(c)'
      BY <1>0, <1>1, <1>2, <1>5 DEF AccessInv, Known, AsOwner
  <1>8. SessionInv' /\ AccountInv'
      BY <1>1 DEF IInv, SessionInv, AccountInv
  <1>9. QED
      BY <1>4, <1>6, <1>7, <1>8, OthersKeep DEF IInv

LEMMA StepIInv == IInv /\ [Next]_vars => IInv'
  <1> SUFFICES ASSUME IInv, [Next]_vars PROVE IInv'
      OBVIOUS
  <1>1. TypeInv'
      BY StepTypes
  <1>2. ASSUME NEW c \in Calls, Serves(c) PROVE IInv'
    <2>1. /\ UNCHANGED <<session_store, clock, recruiters, sessions, jobs, args, minted, stale>>
          /\ World({c})
        BY <1>2, ServesWorld
    <2>2. SessionInv' /\ AccountInv'
        BY <2>1 DEF IInv, SessionInv, AccountInv
    <2>3. CredentialInv(c)' /\ AccessInv(c)'
        BY <1>1, <1>2, ServesItself
    <2>4. QED
        BY <1>1, <2>1, <2>2, <2>3, OthersKeep DEF IInv
  <1>3. ASSUME NEW c \in Calls, Refuse(c) \/ Cancel(c) PROVE IInv'
      BY <1>1, <1>3, ForgetKeeps DEF Refuse, Cancel, Live, Over
  <1>4. CASE Tick \/ UNCHANGED vars
    <2>1. /\ UNCHANGED <<session_store, tables, pc, call, history>> /\ clock <= clock'
        BY <1>4 DEF Tick, vars, IInv, TypeInv
    <2>2. World({})
        BY <2>1 DEF World, tables, call, history
    <2>3. SessionInv' /\ AccountInv'
        BY <2>1 DEF IInv, SessionInv, AccountInv, tables, history
    <2>4. QED
        BY <1>1, <2>2, <2>3, OthersKeep DEF IInv
  <1>5. QED
      BY <1>1, <1>2, <1>3, <1>4, BeginKeeps, SignsUp, CreateSessionKeeps, LogoutKeeps,
         ResolveSessionKeeps, CreateJobKeeps DEF Next, Serves

LEMMA IInvHolds == Spec => []IInv
  BY InitIInv, StepIInv, PTL DEF Spec

-----------------------------------------------------------------------------
(***************************************************************************)
(* A request is given only what belongs to the recruiter its cookie was    *)
(* made for, or the interview its token opens; a cookie signed out or      *)
(* expired before it began gives nothing, over either store and whatever   *)
(* other calls do between its steps.                                       *)
(***************************************************************************)
THEOREM AccessHolds == Spec => []OnlyWhatTheCallerMayHave
  <1>1. ASSUME IInv PROVE OnlyWhatTheCallerMayHave
    <2>1. \A c \in stale : recruiter_id[c] = Nobody
        BY <1>1 DEF IInv, TypeInv, CredentialInv
    <2>2. \A c \in Calls : AccessInv(c)
        BY <1>1 DEF IInv
    <2>3. QED
        BY <2>1, <2>2 DEF OnlyWhatTheCallerMayHave, AccessInv, Belongs
  <1>2. QED
      BY <1>1, IInvHolds, PTL

(***************************************************************************)
(* Over PostgreSQL an account is never there without the session its       *)
(* sign-up promised; over either store an address has one account.         *)
(***************************************************************************)
THEOREM SignupsHold == Spec => []SignupAllOrNothing
  <1>1. IInv => SignupAllOrNothing
      BY DEF IInv, AccountInv, SignupAllOrNothing
  <1>2. QED
      BY <1>1, IInvHolds, PTL

(***************************************************************************)
(* create_interview_plan replaces a plan only when it had looked for one   *)
(* before there was any.                                                   *)
(***************************************************************************)
THEOREM PlansHold == Spec => PlanReplacedOnlyByRace
  <1>1. IInv => \A c \in Calls : pc[c] = "commit_plan" => looked_at[c] = Nobody
      BY DEF IInv, AccessInv
  <1>2. IInv /\ [Next]_vars =>
          [\A c \in Calls : pc[c] = "commit_plan" /\ plans' # plans => looked_at[c] = Nobody]_vars
      BY <1>1
  <1>3. QED
      BY <1>2, IInvHolds, PTL DEF Spec, PlanReplacedOnlyByRace
================================================================================
