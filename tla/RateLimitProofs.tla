---------------------------- MODULE RateLimitProofs ----------------------------
(***************************************************************************)
(* What RateLimit guarantees for any budgets, any number of requests and   *)
(* identities, any clock and any bounds of the tables.                     *)
(***************************************************************************)
EXTENDS RateLimit, FiniteSetTheorems, WellFoundedInduction, TLAPS

(***************************************************************************)
(* A clock reading is not of the future, and one that still waits for the  *)
(* advisory lock is no older than the deadline.                            *)
(***************************************************************************)
TimeInv ==
    /\ \A r \in Requests : now[r] <= clock
    /\ \A r \in Requests : pc[r] = "waiting" => limiter = "sql" /\ clock <= now[r] + Deadline

Event(key, r) == [key |-> key, at |-> now[r], request |-> r]

\* How long an admission stays on record at least.
Kept(key) == IF limiter = "memory" THEN key.seconds ELSE Longest

(***************************************************************************)
(* What is on record is what was admitted, under every window of what it   *)
(* was charged to, until that window has passed.                           *)
(***************************************************************************)
RecordInv ==
    /\ IsFiniteSet(events)
    /\ \A e \in events : /\ e.request \in Counted /\ e.key \in Keys(charge[e.request])
                         /\ e = Event(e.key, e.request)
    /\ \A r \in Counted : \A key \in Keys(charge[r]) :
          clock < now[r] + Kept(key) => Event(key, r) \in events

SizeInv ==
    IF limiter = "sql" THEN Cardinality(events) <= MaxEvents
    ELSE \/ Cardinality(Tracked) <= MaxTracked
         \/ \E r \in Counted : Cardinality(Tracked \ Keys(charge[r])) < MaxTracked

IInv == TypeOK /\ TimeInv /\ RecordInv /\ SizeInv /\ WindowNeverOverdrawn

-----------------------------------------------------------------------------
(***************************************************************************)
(* The keys of a charge: finitely many, each a window of a budget.         *)
(***************************************************************************)
LEMMA LongestIsLongest == Longest \in Windows /\ \A t \in Windows : t <= Longest
  BY WindowsAssumption DEF Longest

LEMMA KeyType ==
    ASSUME NEW budgets \in Configured, NEW key \in Keys(budgets)
    PROVE  /\ key.name \in Names /\ key.seconds \in DOMAIN Limits[key.name]
           /\ key.seconds \in Nat \ {0} /\ key.seconds <= Longest /\ Longest \in Nat
           /\ Ceiling(key) \in Nat \ {0}
  <1>0. PICK b \in budgets : \E s \in DOMAIN Limits[b[1]] :
           key = [name |-> b[1], identity |-> b[2], seconds |-> s]
      BY DEF Keys
  <1>1. PICK s \in DOMAIN Limits[b[1]] : key = [name |-> b[1], identity |-> b[2], seconds |-> s]
      BY <1>0
  <1>2. b[1] \in Names
      BY DEF Configured
  <1>3. key.name = b[1] /\ key.seconds = s
      BY <1>1
  <1>4. s \in Windows
      BY <1>2 DEF Windows
  <1>5. \A t \in Windows : t \in Nat
      BY LimitsAssumption DEF Windows
  <1>6. QED
      BY <1>2, <1>3, <1>4, <1>5, LongestIsLongest, LimitsAssumption DEF Ceiling

LEMMA KeysFinite == ASSUME NEW budgets \in Configured PROVE IsFiniteSet(Keys(budgets))
  <1> DEFINE Of(b) == {[name |-> b[1], identity |-> b[2], seconds |-> s] : s \in DOMAIN Limits[b[1]]}
             All2 == {Of(b) : b \in budgets}
  <1>1. IsFiniteSet(budgets)
    <2>1. \E x, y : budgets = {x} \/ budgets = {x, y}
      <3>1. PICK i \in Identities : budgets \in Charges(i)
          BY DEF Configured
      <3>2. ASSUME NEW x, budgets = {x} PROVE \E u, v : budgets = {u} \/ budgets = {u, v}
          BY <3>2
      <3>3. ASSUME NEW x, NEW y, budgets = {x, y} PROVE \E u, v : budgets = {u} \/ budgets = {u, v}
          BY <3>3
      <3>4. QED
          BY <3>1, <3>2, <3>3 DEF Charges
    <2>2. PICK x, y : budgets = {x} \/ budgets = {x, y}
        BY <2>1
    <2>3. IsFiniteSet({x})
        BY FS_Singleton
    <2>4. IsFiniteSet({x} \cup {y}) /\ {x, y} = {x} \cup {y}
        BY <2>3, FS_AddElement
    <2>5. QED
        BY <2>2, <2>3, <2>4
  <1>2. ASSUME NEW b \in budgets PROVE IsFiniteSet(Of(b))
    <2>1. IsFiniteSet(DOMAIN Limits[b[1]])
        BY WindowsAssumption DEF Configured
    <2> DEFINE f == [s \in DOMAIN Limits[b[1]] |-> [name |-> b[1], identity |-> b[2], seconds |-> s]]
    <2>2. f \in Surjection(DOMAIN Limits[b[1]], Of(b))
        BY DEF Surjection
    <2> HIDE DEF f, Of
    <2>3. QED
        BY <2>1, <2>2, FS_Surjection
  <1>3. IsFiniteSet(All2)
    <2> DEFINE g == [b \in budgets |-> Of(b)]
    <2> HIDE DEF Of
    <2>1. g \in Surjection(budgets, All2)
        BY DEF Surjection
    <2> HIDE DEF g, All2
    <2>2. QED
        BY <1>1, <2>1, FS_Surjection
  <1>4. IsFiniteSet(UNION All2)
      BY <1>2, <1>3, FS_UNION
  <1>5. Keys(budgets) = UNION All2
      BY DEF Keys
  <1>6. QED
      BY <1>4, <1>5

-----------------------------------------------------------------------------
(***************************************************************************)
(* The four things a step can do: admit a request, prune the record for    *)
(* one that is refused, leave the record alone, or let time pass.  Every   *)
(* decision is timely: in memory it is made at the time of the clock, in   *)
(* SQL at most a deadline later.                                           *)
(***************************************************************************)
Timely(t) ==
    t \in Nat /\ t <= clock /\ (IF limiter = "memory" THEN t = clock ELSE clock <= t + Deadline)

Decides(r, t) ==
    /\ r \notin Counted /\ Timely(t)
    /\ now' = [now EXCEPT ![r] = t]
    /\ UNCHANGED <<limiter, clock, charge>>

Admits(r, t) ==
    /\ Decides(r, t) /\ Admissible(r, t)
    /\ events' = Swept(t) \cup Recorded(r, t)
    /\ Counted' = Counted \cup {r}

Refuses(r, t) == Decides(r, t) /\ events' = Swept(t) /\ Counted' = Counted

Waits(r) ==
    /\ r \notin Counted /\ (now' = now \/ now' = [now EXCEPT ![r] = clock])
    /\ UNCHANGED <<limiter, clock, charge, events>> /\ Counted' = Counted

Passes ==
    clock' \in {clock, clock + 1} /\ UNCHANGED <<limiter, charge, events, now>> /\ Counted' = Counted

LEMMA CountedMoves ==
    ASSUME TypeOK, NEW r \in Requests, NEW label, pc' = [pc EXCEPT ![r] = label]
    PROVE  /\ label \in {"admitted", "lost"} => Counted' = Counted \cup {r}
           /\ label \notin {"admitted", "lost"} /\ r \notin Counted => Counted' = Counted
  BY DEF Counted, TypeOK

LEMMA DecideMoves ==
    ASSUME TypeOK, NEW r \in Requests, NEW t, Decide(r, t), r \notin Counted, Timely(t)
    PROVE  Admits(r, t) \/ Refuses(r, t)
  <1>1. \/ /\ Admissible(r, t) /\ events' = Swept(t) \cup Recorded(r, t)
           /\ pc' = [pc EXCEPT ![r] = "admitted"]
        \/ /\ events' = Swept(t)
           /\ \E label \in {"refused", "table_full"} : pc' = [pc EXCEPT ![r] = label]
      BY DEF Decide
  <1>2. Decides(r, t)
      BY DEF Decide, Decides
  <1>3. QED
      BY <1>1, <1>2, CountedMoves DEF Admits, Refuses

LEMMA Moves ==
    ASSUME TypeOK, TimeInv, [Next]_vars
    PROVE  \/ \E r \in Requests, t \in Nat : Admits(r, t) \/ Refuses(r, t)
           \/ \E r \in Requests : Waits(r)
           \/ Passes
  <1>1. ASSUME NEW r \in Requests, Check(r) PROVE Admits(r, clock) \/ Refuses(r, clock)
    <2>1. r \notin Counted /\ Timely(clock)
        BY <1>1 DEF Check, Counted, Timely, TypeOK
    <2>2. QED
        BY <1>1, <2>1, DecideMoves DEF Check
  <1>2. ASSUME NEW r \in Requests, CheckLocked(r) PROVE Admits(r, now[r]) \/ Refuses(r, now[r])
    <2>1. r \notin Counted /\ Timely(now[r])
        BY <1>2 DEF CheckLocked, Counted, Timely, TypeOK, TimeInv
    <2>2. QED
        BY <1>2, <2>1, DecideMoves DEF CheckLocked
  <1>3. ASSUME NEW r \in Requests, FailAfterCommit(r) PROVE Admits(r, now[r])
    <2>1. r \notin Counted /\ Timely(now[r])
        BY <1>3 DEF FailAfterCommit, Counted, Timely, TypeOK, TimeInv
    <2>2. now' = [now EXCEPT ![r] = now[r]]
        BY <1>3 DEF FailAfterCommit, TypeOK
    <2>3. Counted' = Counted \cup {r}
        BY <1>3, CountedMoves DEF FailAfterCommit
    <2>4. QED
        BY <1>3, <2>1, <2>2, <2>3 DEF FailAfterCommit, Admits, Decides
  <1>4. ASSUME NEW r \in Requests, ReadClock(r) \/ Fail(r) PROVE Waits(r)
    <2>1. r \notin Counted /\ \E label \in {"waiting", "failed"} : pc' = [pc EXCEPT ![r] = label]
        BY <1>4 DEF ReadClock, Fail, Counted
    <2>2. Counted' = Counted
        BY <2>1, CountedMoves
    <2>3. QED
        BY <1>4, <2>1, <2>2 DEF ReadClock, Fail, Waits
  <1>5. CASE Tick \/ UNCHANGED vars
      BY <1>5 DEF Tick, vars, Passes, Counted
  <1>6. \A r \in Requests : clock \in Nat /\ now[r] \in Nat
      BY DEF TypeOK
  <1>7. QED
      BY <1>1, <1>2, <1>3, <1>4, <1>5, <1>6 DEF Next

(***************************************************************************)
(* Types and the times of the checks.                                      *)
(***************************************************************************)
LEMMA StepTypes == TypeOK /\ TimeInv /\ [Next]_vars => TypeOK' /\ TimeInv'
  <1> SUFFICES ASSUME TypeOK, TimeInv, [Next]_vars PROVE TypeOK' /\ TimeInv'
      OBVIOUS
  <1> USE DEF TypeOK, TimeInv
  <1>1. ASSUME NEW r \in Requests, NEW t \in Nat, t <= clock, NEW label \in Outcomes \ {"waiting"},
               now' = [now EXCEPT ![r] = t], pc' = [pc EXCEPT ![r] = label],
               UNCHANGED <<limiter, clock, charge>>
        PROVE  TypeOK' /\ TimeInv'
      BY <1>1
  <1>2. ASSUME NEW r \in Requests, NEW t \in Nat, t <= clock, Decide(r, t)
        PROVE  TypeOK' /\ TimeInv'
    <2>1. \E label \in {"admitted", "refused", "table_full"} : pc' = [pc EXCEPT ![r] = label]
        BY <1>2 DEF Decide
    <2>2. QED
        BY <1>1, <1>2, <2>1 DEF Decide, Outcomes
  <1>3. ASSUME NEW r \in Requests, Check(r) \/ CheckLocked(r) PROVE TypeOK' /\ TimeInv'
      BY <1>2, <1>3 DEF Check, CheckLocked
  <1>4. ASSUME NEW r \in Requests, Fail(r) \/ FailAfterCommit(r) PROVE TypeOK' /\ TimeInv'
      BY <1>4 DEF Fail, FailAfterCommit, Outcomes
  <1>5. ASSUME NEW r \in Requests, ReadClock(r) PROVE TypeOK' /\ TimeInv'
      BY <1>5, BoundsAssumption DEF ReadClock, Outcomes
  <1>6. CASE Tick
      BY <1>6, BoundsAssumption DEF Tick
  <1>7. CASE UNCHANGED vars
      BY <1>7 DEF vars
  <1>8. QED
      BY <1>3, <1>4, <1>5, <1>6, <1>7 DEF Next

-----------------------------------------------------------------------------
(***************************************************************************)
(* What a decision prunes has left its windows: all of them in SQL, where  *)
(* rows go by the longest.                                                 *)
(***************************************************************************)
LEMMA SweptKeeps ==
    ASSUME TypeOK, RecordInv, NEW t, Timely(t), NEW e \in events
    PROVE  clock < e.at + Kept(e.key) => e \in Swept(t)
  <1>1. e.request \in Requests /\ e.key \in Keys(charge[e.request]) /\ e.at \in Nat
      BY DEF RecordInv, TypeOK, Event, Counted
  <1>2. e.key.seconds \in Nat /\ Longest \in Nat
      BY <1>1, KeyType DEF TypeOK
  <1>3. QED
      BY <1>1, <1>2 DEF Timely, Swept, Kept, TypeOK

LEMMA RecordedFinite ==
    ASSUME TypeOK, NEW r \in Requests, NEW t
    PROVE  /\ IsFiniteSet(Recorded(r, t)) /\ IsFiniteSet(Keys(charge[r]))
           /\ Cardinality(Recorded(r, t)) <= Cardinality(Keys(charge[r]))
  <1>1. IsFiniteSet(Keys(charge[r]))
      BY KeysFinite DEF TypeOK
  <1> DEFINE f == [key \in Keys(charge[r]) |-> [key |-> key, at |-> t, request |-> r]]
  <1>2. f \in Surjection(Keys(charge[r]), Recorded(r, t))
      BY DEF Recorded, Surjection
  <1> HIDE DEF f
  <1>3. QED
      BY <1>1, <1>2, FS_Surjection

LEMMA SweptFinite ==
    ASSUME RecordInv, NEW t
    PROVE  IsFiniteSet(Swept(t)) /\ Cardinality(Swept(t)) <= Cardinality(events)
  BY FS_Subset DEF RecordInv, Swept

LEMMA StepRecord == TypeOK /\ TimeInv /\ RecordInv /\ [Next]_vars => RecordInv'
  <1> SUFFICES ASSUME TypeOK, TimeInv, RecordInv, [Next]_vars PROVE RecordInv'
      OBVIOUS
  <1>1. ASSUME NEW r \in Requests, NEW t \in Nat, Decides(r, t),
               Swept(t) \subseteq events',
               \A e \in events' : e \in Swept(t) \/ (r \in Counted' /\ e \in Recorded(r, t)),
               IsFiniteSet(events'),
               \/ Counted' = Counted
               \/ Counted' = Counted \cup {r} /\ Recorded(r, t) \subseteq events'
        PROVE  RecordInv'
    <2>1. now'[r] = t /\ \A s \in Requests \ {r} : now'[s] = now[s]
        BY <1>1 DEF Decides, TypeOK
    <2>2. ASSUME NEW e \in events'
          PROVE  /\ e.request \in Counted' /\ e.key \in Keys(charge[e.request])'
                 /\ e = Event(e.key, e.request)'
      <3>1. CASE e \in Swept(t)
        <4>1. e \in events /\ e.request \in Counted /\ e.request \in Requests \ {r}
            BY <1>1, <3>1 DEF Swept, RecordInv, Decides, Counted
        <4>2. e = Event(e.key, e.request) /\ e.key \in Keys(charge[e.request])
            BY <4>1 DEF RecordInv
        <4>3. e = Event(e.key, e.request)'
            BY <2>1, <4>1, <4>2 DEF Event
        <4>4. QED
            BY <1>1, <4>1, <4>2, <4>3 DEF Decides, Keys
      <3>2. CASE r \in Counted' /\ e \in Recorded(r, t)
        <4>1. PICK key \in Keys(charge[r]) : e = [key |-> key, at |-> t, request |-> r]
            BY <3>2 DEF Recorded
        <4>2. QED
            BY <1>1, <2>1, <3>2, <4>1 DEF Decides, Keys, Event
      <3>3. QED
          BY <1>1, <3>1, <3>2
    <2>3. ASSUME NEW s \in Counted', NEW key \in Keys(charge[s])', clock' < now'[s] + Kept(key)'
          PROVE  Event(key, s)' \in events'
      <3>1. charge' = charge /\ limiter' = limiter /\ clock' = clock /\ Keys(charge[s])' = Keys(charge[s])
          BY <1>1 DEF Decides, Keys
      <3>2. CASE s \in Counted
        <4>1. s \in Requests \ {r} /\ now'[s] = now[s]
            BY <1>1, <2>1, <3>2 DEF Decides, Counted
        <4>2. clock < now[s] + Kept(key)
            BY <2>3, <3>1, <4>1 DEF Kept
        <4>3. Event(key, s) \in events
            BY <3>1, <3>2, <4>2 DEF RecordInv
        <4>4. Event(key, s).at = now[s] /\ Event(key, s).key = key /\ Event(key, s)' = Event(key, s)
            BY <4>1 DEF Event
        <4>5. Event(key, s) \in Swept(t)
            BY <1>1, <4>2, <4>3, <4>4, SweptKeeps DEF Decides
        <4>6. QED
            BY <1>1, <4>4, <4>5
      <3>3. CASE s = r /\ Recorded(r, t) \subseteq events'
          BY <2>1, <3>1, <3>3 DEF Recorded, Event
      <3>4. QED
          BY <1>1, <3>2, <3>3
    <2>4. QED
        BY <1>1, <2>2, <2>3 DEF RecordInv
  <1>2. ASSUME NEW r \in Requests, NEW t \in Nat, Admits(r, t) PROVE RecordInv'
    <2>1. IsFiniteSet(events')
        BY <1>2, SweptFinite, RecordedFinite, FS_Union DEF Admits
    <2>2. QED
        BY <1>1, <1>2, <2>1 DEF Admits
  <1>3. ASSUME NEW r \in Requests, NEW t \in Nat, Refuses(r, t) PROVE RecordInv'
      BY <1>1, <1>3, SweptFinite DEF Refuses
  <1>4. ASSUME NEW r \in Requests, Waits(r) PROVE RecordInv'
    <2>1. \A s \in Counted : s \in Requests /\ now'[s] = now[s]
        BY <1>4 DEF Waits, TypeOK, Counted
    <2>2. \A s \in Counted : \A key : Event(key, s)' = Event(key, s)
        BY <2>1 DEF Event
    <2>3. QED
        BY <1>4, <2>1, <2>2 DEF Waits, RecordInv, Keys, Kept
  <1>5. CASE Passes
    <2>1. /\ charge' = charge /\ events' = events /\ now' = now /\ limiter' = limiter
          /\ Counted' = Counted /\ clock <= clock' /\ clock \in Nat /\ clock' \in Nat
        BY <1>5 DEF Passes, TypeOK
    <2>2. \A key, s : Event(key, s)' = Event(key, s) /\ Kept(key)' = Kept(key)
        BY <2>1 DEF Event, Kept
    <2>3. \A s \in Counted : \A key \in Keys(charge[s]) : now[s] \in Nat /\ Kept(key) \in Nat
        BY KeyType DEF Kept, TypeOK, Counted
    <2>4. \A s \in Counted : \A key \in Keys(charge[s]) :
             clock' < now[s] + Kept(key) => Event(key, s) \in events
        BY <2>1, <2>3 DEF RecordInv
    <2>5. \A s : Keys(charge[s])' = Keys(charge[s])
        BY <2>1 DEF Keys
    <2>6. QED
        BY <2>1, <2>2, <2>4, <2>5 DEF RecordInv
  <1>6. QED
      BY <1>2, <1>3, <1>4, <1>5, Moves

-----------------------------------------------------------------------------
(***************************************************************************)
(* Who was admitted to a window of a budget.  When another request is      *)
(* admitted, all of them are still on record and counted against it.       *)
(***************************************************************************)
AdmittedIn(key, t) ==
    {r \in Counted : key \in Keys(charge[r]) /\ now[r] \in (t - key.seconds + 1)..t}

\* The windows the ceiling is claimed of.
Claimed(key) == limiter = "memory" \/ key.seconds + Deadline <= Longest

LEMMA AdmittedFinite ==
    ASSUME NEW key, NEW t
    PROVE  IsFiniteSet(AdmittedIn(key, t))
  BY FS_Subset, BoundsAssumption DEF AdmittedIn, Counted

LEMMA AdmittedOnRecord ==
    ASSUME TypeOK, TimeInv, RecordInv, NEW t \in Nat, Timely(t),
           NEW budgets \in Configured, NEW key \in Keys(budgets), Claimed(key),
           NEW u \in 0..clock, t \in (u - key.seconds + 1)..u
    PROVE  Cardinality(AdmittedIn(key, u)) <= Cardinality(InWindow(key, t))
  <1>1. key.seconds \in Nat /\ Longest \in Nat /\ key.seconds <= Longest /\ clock \in Nat
      BY KeyType DEF TypeOK
  <1>2. ASSUME NEW r \in AdmittedIn(key, u) PROVE Event(key, r) \in InWindow(key, t)
    <2>1. r \in Counted /\ key \in Keys(charge[r]) /\ now[r] \in Nat /\ now[r] > u - key.seconds
        BY <1>1 DEF AdmittedIn, Counted, TypeOK
    <2>2. now[r] > t - key.seconds
        BY <1>1, <2>1
    <2>3. clock < now[r] + Kept(key)
      <3>1. CASE limiter = "memory"
          BY <1>1, <2>1, <3>1 DEF Timely, Kept
      <3>2. CASE limiter # "memory"
          BY <1>1, <2>1, <2>2, <3>2, BoundsAssumption DEF Timely, Kept, Claimed
      <3>3. QED
          BY <3>1, <3>2
    <2>4. Event(key, r) \in events
        BY <2>1, <2>3 DEF RecordInv
    <2>5. Event(key, r).key = key /\ Event(key, r).at = now[r]
        BY DEF Event
    <2>6. Event(key, r) \in Swept(t)
        BY <2>3, <2>4, <2>5, SweptKeeps
    <2>7. QED
        BY <2>2, <2>5, <2>6 DEF InWindow
  <1> DEFINE f == [r \in AdmittedIn(key, u) |-> Event(key, r)]
  <1>3. f \in Injection(AdmittedIn(key, u), InWindow(key, t))
    <2>1. f \in [AdmittedIn(key, u) -> InWindow(key, t)]
        BY <1>2
    <2>2. \A r, s \in AdmittedIn(key, u) : f[r] = f[s] => r = s
        BY DEF Event
    <2> HIDE DEF f
    <2>3. QED
        BY <2>1, <2>2 DEF Injection, IsInjective
  <1>4. IsFiniteSet(InWindow(key, t))
      BY SweptFinite, FS_Subset DEF InWindow
  <1> HIDE DEF f
  <1>5. QED
      BY <1>3, <1>4, FS_Injection

LEMMA StepWindow ==
    TypeOK /\ TimeInv /\ RecordInv /\ WindowNeverOverdrawn /\ [Next]_vars => WindowNeverOverdrawn'
  <1> SUFFICES ASSUME TypeOK, TimeInv, RecordInv, WindowNeverOverdrawn, [Next]_vars,
                      NEW owner \in Requests, NEW key \in Keys(charge[owner])', Claimed(key)',
                      NEW u \in 0..clock'
               PROVE  Cardinality(AdmittedIn(key, u)') <= Ceiling(key)
      BY DEF WindowNeverOverdrawn, Claimed, AdmittedIn, Ceiling
  <1>1. charge' = charge /\ limiter' = limiter
      BY Moves DEF Admits, Refuses, Decides, Waits, Passes
  <1>2. key \in Keys(charge[owner]) /\ charge[owner] \in Configured /\ Claimed(key)
      BY <1>1 DEF Keys, Claimed, TypeOK
  <1>3. key.seconds \in Nat \ {0} /\ Ceiling(key) \in Nat /\ clock \in Nat
      BY <1>2, KeyType DEF TypeOK
  <1>4. \A t \in 0..clock : Cardinality(AdmittedIn(key, t)) <= Ceiling(key)
      BY <1>2 DEF WindowNeverOverdrawn, Claimed, AdmittedIn
  \* Whoever was in the window, and no one else, still is.
  <1>5. ASSUME NEW t \in 0..clock, AdmittedIn(key, u)' \subseteq AdmittedIn(key, t)
        PROVE  Cardinality(AdmittedIn(key, u)') <= Ceiling(key)
    <2>1. /\ Cardinality(AdmittedIn(key, u)') <= Cardinality(AdmittedIn(key, t))
          /\ Cardinality(AdmittedIn(key, u)') \in Nat /\ Cardinality(AdmittedIn(key, t)) \in Nat
        BY <1>5, AdmittedFinite, FS_Subset, FS_CardinalityType
    <2>2. QED
        BY <1>3, <1>4, <2>1
  <1>6. ASSUME NEW r \in Requests, NEW t \in Nat, Decides(r, t), Counted' = Counted
        PROVE  AdmittedIn(key, u)' \subseteq AdmittedIn(key, u) /\ u \in 0..clock
      BY <1>1, <1>6 DEF Decides, AdmittedIn, Keys, TypeOK, Counted
  <1>7. ASSUME NEW r \in Requests, NEW t \in Nat, Admits(r, t)
        PROVE  Cardinality(AdmittedIn(key, u)') <= Ceiling(key)
    <2>1. u \in 0..clock /\ now'[r] = t /\ \A s \in Requests \ {r} : now'[s] = now[s]
        BY <1>7 DEF Admits, Decides, TypeOK
    <2>2. AdmittedIn(key, u)' \subseteq AdmittedIn(key, u) \cup {r}
      <3>1. \A s \in AdmittedIn(key, u)' : s # r =>
               s \in Counted /\ key \in Keys(charge[s]) /\ now'[s] = now[s]
          BY <1>1, <1>7, <2>1 DEF Admits, AdmittedIn, Keys, Counted
      <3>2. \A s \in AdmittedIn(key, u)' : now'[s] \in (u - key.seconds + 1)..u
          BY DEF AdmittedIn
      <3>3. QED
          BY <3>1, <3>2 DEF AdmittedIn
    <2>3. CASE r \notin AdmittedIn(key, u)'
        BY <1>5, <2>1, <2>2, <2>3
    <2>4. CASE r \in AdmittedIn(key, u)'
      <3>1. key \in Keys(charge[r]) /\ t \in (u - key.seconds + 1)..u
          BY <1>1, <2>1, <2>4 DEF AdmittedIn, Keys
      <3>2. Cardinality(AdmittedIn(key, u)) <= Cardinality(InWindow(key, t))
          BY <1>2, <1>7, <2>1, <3>1, AdmittedOnRecord DEF Admits, Decides
      <3>3. ~ (Cardinality(InWindow(key, t)) >= Ceiling(key))
          BY <1>7, <3>1 DEF Admits, Admissible, Exhausted
      <3>4. IsFiniteSet(InWindow(key, t))
          BY SweptFinite, FS_Subset DEF InWindow
      <3>5. /\ IsFiniteSet(AdmittedIn(key, u) \cup {r})
            /\ Cardinality(AdmittedIn(key, u) \cup {r}) <= Cardinality(AdmittedIn(key, u)) + 1
        <4>1. IsFiniteSet(AdmittedIn(key, u)) /\ Cardinality(AdmittedIn(key, u)) \in Nat
            BY AdmittedFinite, FS_CardinalityType
        <4>2. /\ IsFiniteSet(AdmittedIn(key, u) \cup {r})
              /\ \/ Cardinality(AdmittedIn(key, u) \cup {r}) = Cardinality(AdmittedIn(key, u))
                 \/ Cardinality(AdmittedIn(key, u) \cup {r}) = Cardinality(AdmittedIn(key, u)) + 1
          <5> DEFINE S == AdmittedIn(key, u)
          <5>1. IsFiniteSet(S)
              BY <4>1
          <5> HIDE DEF S
          <5>2. /\ IsFiniteSet(S \cup {r})
                /\ Cardinality(S \cup {r}) = IF r \in S THEN Cardinality(S) ELSE Cardinality(S) + 1
              BY <5>1, FS_AddElement
          <5>3. QED
              BY <5>2 DEF S
        <4>3. QED
            BY <4>1, <4>2
      <3>6. Cardinality(AdmittedIn(key, u)') <= Cardinality(AdmittedIn(key, u) \cup {r})
          BY <2>2, <3>5, FS_Subset
      <3>7. /\ Cardinality(InWindow(key, t)) \in Nat /\ Cardinality(AdmittedIn(key, u)) \in Nat
            /\ Cardinality(AdmittedIn(key, u) \cup {r}) \in Nat
            /\ Cardinality(AdmittedIn(key, u)') \in Nat
          BY <2>2, <3>4, <3>5, AdmittedFinite, FS_CardinalityType, FS_Subset
      <3>8. QED
          BY <1>3, <3>2, <3>3, <3>5, <3>6, <3>7
    <2>5. QED
        BY <2>3, <2>4
  <1>8. ASSUME NEW r \in Requests, Waits(r)
        PROVE  AdmittedIn(key, u)' \subseteq AdmittedIn(key, u) /\ u \in 0..clock
      BY <1>1, <1>8 DEF Waits, AdmittedIn, Keys, TypeOK, Counted
  <1>9. CASE Passes
    <2>1. \A s \in AdmittedIn(key, u)' :
             /\ s \in Counted /\ key \in Keys(charge[s]) /\ now[s] \in Nat
             /\ now[s] \in (u - key.seconds + 1)..u /\ now[s] <= clock
        BY <1>9 DEF Passes, AdmittedIn, Keys, TypeOK, TimeInv, Counted
    <2>2. CASE u \in 0..clock
      <3>1. AdmittedIn(key, u)' \subseteq AdmittedIn(key, u)
          BY <2>1 DEF AdmittedIn
      <3>2. QED
          BY <1>5, <2>2, <3>1
    <2>3. CASE u = clock + 1
      <3>1. AdmittedIn(key, u)' \subseteq AdmittedIn(key, clock)
          BY <1>3, <2>1, <2>3 DEF AdmittedIn
      <3>2. QED
          BY <1>3, <1>5, <3>1
    <2>4. QED
        BY <1>3, <1>9, <2>2, <2>3 DEF Passes
  <1>10. QED
      BY <1>5, <1>6, <1>7, <1>8, <1>9, Moves DEF Refuses

-----------------------------------------------------------------------------
(***************************************************************************)
(* The size of the record.                                                 *)
(***************************************************************************)
LEMMA KeysOfFinite ==
    ASSUME NEW S, IsFiniteSet(S)
    PROVE  IsFiniteSet({e.key : e \in S})
  <1> DEFINE f == [e \in S |-> e.key]
             T == {e.key : e \in S}
  <1>1. f \in Surjection(S, T)
      BY DEF Surjection
  <1> HIDE DEF f, T
  <1>2. IsFiniteSet(T)
      BY <1>1, FS_Surjection
  <1>3. QED
      BY <1>2 DEF T

\* A record in memory that tracks no new key stays within its size.
LEMMA NoNewKey ==
    ASSUME TypeOK, TypeOK', RecordInv, SizeInv, limiter = "memory", limiter' = "memory",
           charge' = charge, Counted \subseteq Counted', Tracked' \subseteq Tracked
    PROVE  SizeInv'
  <1>1. IsFiniteSet(Tracked)
      BY KeysOfFinite DEF RecordInv, Tracked
  <1>2. IsFiniteSet(Tracked') /\ Cardinality(Tracked') <= Cardinality(Tracked)
      BY <1>1, FS_Subset
  <1>3. CASE Cardinality(Tracked) <= MaxTracked
    <2>1. Cardinality(Tracked) \in Nat /\ Cardinality(Tracked') \in Nat /\ MaxTracked \in Nat
        BY <1>1, <1>2, FS_CardinalityType, BoundsAssumption
    <2>2. QED
        BY <1>2, <1>3, <2>1 DEF SizeInv
  <1>4. ASSUME NEW r \in Counted, Cardinality(Tracked \ Keys(charge[r])) < MaxTracked
        PROVE  SizeInv'
    <2> DEFINE S == Tracked \ Keys(charge[r])
               T == Tracked' \ Keys(charge[r])
    <2>1. IsFiniteSet(S) /\ T \subseteq S
        BY <1>1, FS_Subset
    <2>2. Cardinality(S) \in Nat /\ Cardinality(T) \in Nat /\ Cardinality(T) <= Cardinality(S)
      <3> HIDE DEF S, T
      <3>1. IsFiniteSet(T) /\ Cardinality(T) <= Cardinality(S)
          BY <2>1, FS_Subset
      <3>2. QED
          BY <2>1, <3>1, FS_CardinalityType
    <2>3. Cardinality(T) < MaxTracked
        BY <1>4, <2>2, BoundsAssumption
    <2>4. T = (Tracked \ Keys(charge[r]))'
        BY DEF Keys
    <2>5. QED
        BY <2>3, <2>4 DEF SizeInv
  <1>5. QED
      BY <1>3, <1>4 DEF SizeInv

LEMMA StepSize == TypeOK /\ TimeInv /\ RecordInv /\ SizeInv /\ [Next]_vars => SizeInv'
  <1> SUFFICES ASSUME TypeOK, TimeInv, RecordInv, SizeInv, [Next]_vars PROVE SizeInv'
      OBVIOUS
  <1>0. TypeOK' /\ RecordInv' /\ MaxEvents \in Nat /\ MaxTracked \in Nat
      BY StepTypes, StepRecord, BoundsAssumption
  <1>1. limiter' = limiter /\ charge' = charge /\ Counted \subseteq Counted'
      BY Moves DEF Admits, Refuses, Decides, Waits, Passes
  \* The record gains nothing.
  <1>2. ASSUME events' \subseteq events PROVE SizeInv'
    <2>1. CASE limiter = "sql"
      <3>1. /\ Cardinality(events') <= Cardinality(events)
            /\ Cardinality(events') \in Nat /\ Cardinality(events) \in Nat
          BY <1>0, <1>2, FS_Subset, FS_CardinalityType DEF RecordInv
      <3>2. QED
          BY <1>0, <1>1, <2>1, <3>1 DEF SizeInv
    <2>2. CASE limiter # "sql"
      <3>1. limiter = "memory" /\ Tracked' \subseteq Tracked
          BY <1>2, <2>2 DEF TypeOK, Tracked
      <3>2. QED
          BY <1>0, <1>1, <3>1, NoNewKey
    <2>3. QED
        BY <2>1, <2>2
  <1>3. ASSUME NEW r \in Requests, NEW t \in Nat, Admits(r, t) PROVE SizeInv'
    <2> DEFINE kept == {e.key : e \in Swept(t)}
    <2>1. /\ ~ TableFull(r, t) /\ events' = Swept(t) \cup Recorded(r, t) /\ r \in Counted'
          /\ Swept(t) \subseteq events /\ IsFiniteSet(Swept(t)) /\ IsFiniteSet(kept)
        BY <1>3, SweptFinite, KeysOfFinite DEF Admits, Admissible, Swept
    <2>2. \A e \in Recorded(r, t) : e.key \in Keys(charge[r])
        BY DEF Recorded
    <2>3. CASE limiter = "sql"
      <3>1. Cardinality(Swept(t)) + Cardinality(Keys(charge[r])) <= MaxEvents
        <4>1. Cardinality(Swept(t)) \in Nat /\ Cardinality(Keys(charge[r])) \in Nat
            BY <2>1, RecordedFinite, FS_CardinalityType
        <4>2. QED
            BY <1>0, <2>1, <2>3, <4>1 DEF TableFull
      <3>2. /\ Cardinality(Recorded(r, t)) <= Cardinality(Keys(charge[r]))
            /\ Cardinality(Recorded(r, t)) \in Nat /\ Cardinality(Keys(charge[r])) \in Nat
            /\ Cardinality(Swept(t)) \in Nat
            /\ Cardinality(Swept(t) \cap Recorded(r, t)) \in Nat
          BY <2>1, RecordedFinite, FS_CardinalityType, FS_Intersection
      <3>3. Cardinality(events') = Cardinality(Swept(t)) + Cardinality(Recorded(r, t))
                                     - Cardinality(Swept(t) \cap Recorded(r, t))
          BY <2>1, RecordedFinite, FS_Union
      <3>4. Cardinality(events') <= MaxEvents
          BY <1>0, <3>1, <3>2, <3>3
      <3>5. QED
          BY <1>1, <2>3, <3>4 DEF SizeInv
    <2>4. CASE limiter # "sql" /\ Keys(charge[r]) \subseteq kept
      <3>1. Tracked' \subseteq Tracked
          BY <2>1, <2>2, <2>4 DEF Tracked
      <3>2. limiter = "memory" /\ limiter' = "memory"
          BY <1>1, <2>4 DEF TypeOK
      <3>3. QED
          BY <1>0, <1>1, <3>1, <3>2, NoNewKey
    <2>5. CASE limiter # "sql" /\ ~ Keys(charge[r]) \subseteq kept
      <3>1. limiter = "memory"
          BY <2>5 DEF TypeOK
      <3>2. ~ (Cardinality(kept) >= MaxTracked)
          BY <2>1, <2>5, <3>1 DEF TableFull
      <3>3. Cardinality(kept) \in Nat
          BY <2>1, FS_CardinalityType
      <3>4. (Tracked \ Keys(charge[r]))' \subseteq kept
          BY <1>1, <2>1, <2>2 DEF Tracked, Keys
      <3>5. /\ Cardinality((Tracked \ Keys(charge[r]))') <= Cardinality(kept)
            /\ Cardinality((Tracked \ Keys(charge[r]))') \in Nat
        <4> DEFINE S == (Tracked \ Keys(charge[r]))'
        <4>1. S \subseteq kept
            BY <3>4
        <4> HIDE DEF S, kept
        <4>2. IsFiniteSet(S) /\ Cardinality(S) <= Cardinality(kept)
            BY <2>1, <4>1, FS_Subset
        <4>3. Cardinality(S) \in Nat
            BY <4>2, FS_CardinalityType
        <4>4. QED
            BY <4>2, <4>3 DEF S
      <3>6. Cardinality((Tracked \ Keys(charge[r]))') < MaxTracked
          BY <1>0, <3>2, <3>3, <3>5
      <3>7. QED
          BY <1>1, <2>1, <2>5, <3>6 DEF SizeInv
    <2>6. QED
        BY <2>3, <2>4, <2>5
  <1>4. ASSUME NEW r \in Requests, NEW t \in Nat, Refuses(r, t) PROVE SizeInv'
      BY <1>2, <1>4 DEF Refuses, Swept
  <1>5. ASSUME NEW r \in Requests, Waits(r) PROVE SizeInv'
      BY <1>2, <1>5 DEF Waits
  <1>6. CASE Passes
      BY <1>2, <1>6 DEF Passes
  <1>7. QED
      BY <1>3, <1>4, <1>5, <1>6, Moves

-----------------------------------------------------------------------------
LEMMA InitIInv == Init => IInv
  <1> SUFFICES ASSUME Init PROVE IInv
      OBVIOUS
  <1>1. TypeOK
      BY DEF Init, TypeOK, Outcomes
  <1>2. Counted = {} /\ events = {} /\ Tracked = {}
      BY DEF Init, Counted, Tracked
  <1>3. TimeInv
      BY DEF Init, TimeInv
  <1>4. RecordInv
      BY <1>2, FS_EmptySet DEF RecordInv
  <1>5. SizeInv
      BY <1>2, FS_EmptySet, BoundsAssumption DEF SizeInv
  <1>6. ASSUME NEW r \in Requests, NEW key \in Keys(charge[r]), NEW t \in 0..clock
        PROVE  Cardinality(AdmittedIn(key, t)) <= Ceiling(key)
    <2>1. Ceiling(key) \in Nat
        BY <1>1, KeyType DEF TypeOK
    <2>2. AdmittedIn(key, t) = {}
        BY <1>2 DEF AdmittedIn
    <2>3. QED
        BY <2>1, <2>2, FS_EmptySet
  <1>7. WindowNeverOverdrawn
      BY <1>6 DEF WindowNeverOverdrawn, AdmittedIn
  <1>8. QED
      BY <1>1, <1>3, <1>4, <1>5, <1>7 DEF IInv

LEMMA StepIInv == IInv /\ [Next]_vars => IInv'
  BY StepTypes, StepRecord, StepSize, StepWindow DEF IInv

LEMMA IInvHolds == Spec => []IInv
  BY InitIInv, StepIInv, PTL DEF Spec

(***************************************************************************)
(* RateLimiter and SqlRateLimiter keep their ceilings: no rolling window   *)
(* of a budget holds more admissions than it may, in whatever order they   *)
(* were decided and however long the calls waited for the advisory lock,   *)
(* as long as the window is shorter than the longest by the deadline.      *)
(***************************************************************************)
THEOREM WindowsHold == Spec => []WindowNeverOverdrawn
  <1>1. IInv => WindowNeverOverdrawn
      BY DEF IInv
  <1>2. QED
      BY <1>1, IInvHolds, PTL

(***************************************************************************)
(* A request consumes all of the budgets it names or none, and the record  *)
(* does not outgrow its table: the rows of SqlRateLimiter never, the keys  *)
(* of RateLimiter by less than those of one request.                       *)
(***************************************************************************)
THEOREM RecordHolds == Spec => []RecordIsTheAdmissions
  <1>1. ASSUME IInv PROVE RecordIsTheAdmissions
    <2> USE <1>1 DEF IInv
    <2>1. ASSUME NEW r \in Counted, NEW key \in Keys(charge[r]), clock < now[r] + key.seconds
          PROVE  [key |-> key, at |-> now[r], request |-> r] \in events
      <3>1. r \in Requests /\ now[r] \in Nat /\ clock \in Nat /\ charge[r] \in Configured
          BY DEF TypeOK, Counted
      <3>2. key.seconds \in Nat /\ Longest \in Nat /\ key.seconds <= Longest
          BY <3>1, KeyType
      <3>3. clock < now[r] + Kept(key)
          BY <2>1, <3>1, <3>2 DEF Kept
      <3>4. QED
          BY <3>3 DEF RecordInv, Event
    <2>2. \A r \in Requests : r \notin Counted => \A e \in events : e.request # r
        BY DEF RecordInv
    <2>3. QED
        BY <2>1, <2>2 DEF SizeInv, RecordIsTheAdmissions
  <1>2. QED
      BY <1>1, IInvHolds, PTL

-----------------------------------------------------------------------------
(***************************************************************************)
(* Coming back.  A finite set of integers has a least and a greatest       *)
(* element: of the sets of those beyond each, one is least.                *)
(***************************************************************************)
LEMMA FiniteHasMax ==
    ASSUME NEW S, IsFiniteSet(S), S \subseteq Int, S # {}
    PROVE  \E m \in S : \A v \in S : v <= m
  <1> DEFINE Above(m) == {v \in S : v > m}
             family == {Above(m) : m \in S}
  <1>1. family \subseteq FiniteSubsetsOf(S) /\ family # {}
    <2>1. \A m \in S : Above(m) \in SUBSET S /\ IsFiniteSet(Above(m))
        BY FS_Subset
    <2>2. QED
        BY <2>1 DEF FiniteSubsetsOf
  <1>2. PICK least \in family : \A other \in family : ~(<<other, least>> \in StrictSubsetOrdering(S))
    <2> HIDE DEF family
    <2>1. QED
        BY <1>1, FS_StrictSubsetOrderingWellFounded, WFMin
  <1>3. PICK m \in S : least = Above(m)
      BY <1>2
  <1>4. ASSUME NEW v \in S, v > m PROVE FALSE
    <2>0. m \in Int /\ v \in Int /\ ~(v > v) /\ \A w \in S : w > v => w > m
        BY <1>4
    <2>1. Above(v) \subseteq Above(m) /\ v \in Above(m) /\ v \notin Above(v)
        BY <1>4, <2>0
    <2>2. <<Above(v), Above(m)>> \in StrictSubsetOrdering(S)
        BY <2>1 DEF StrictSubsetOrdering
    <2>3. QED
        BY <1>2, <1>3, <2>2
  <1>5. QED
      BY <1>4

LEMMA FiniteHasMin ==
    ASSUME NEW S, IsFiniteSet(S), S \subseteq Int, S # {}
    PROVE  \E m \in S : \A v \in S : m <= v
  <1> DEFINE Below(m) == {v \in S : v < m}
             family == {Below(m) : m \in S}
  <1>1. family \subseteq FiniteSubsetsOf(S) /\ family # {}
    <2>1. \A m \in S : Below(m) \in SUBSET S /\ IsFiniteSet(Below(m))
        BY FS_Subset
    <2>2. QED
        BY <2>1 DEF FiniteSubsetsOf
  <1>2. PICK least \in family : \A other \in family : ~(<<other, least>> \in StrictSubsetOrdering(S))
    <2> HIDE DEF family
    <2>1. QED
        BY <1>1, FS_StrictSubsetOrderingWellFounded, WFMin
  <1>3. PICK m \in S : least = Below(m)
      BY <1>2
  <1>4. ASSUME NEW v \in S, v < m PROVE FALSE
    <2>0. m \in Int /\ v \in Int /\ ~(v < v) /\ \A w \in S : w < v => w < m
        BY <1>4
    <2>1. Below(v) \subseteq Below(m) /\ v \in Below(m) /\ v \notin Below(v)
        BY <1>4, <2>0
    <2>2. <<Below(v), Below(m)>> \in StrictSubsetOrdering(S)
        BY <2>1 DEF StrictSubsetOrdering
    <2>3. QED
        BY <1>2, <1>3, <2>2
  <1>5. QED
      BY <1>4

(***************************************************************************)
(* The admissions a refusal was decided on that still count at a time.     *)
(***************************************************************************)
StillIn(admissions, key, t) ==
    {q \in admissions : key \in Keys(charge[q]) /\ now[q] > t - key.seconds}

(***************************************************************************)
(* From the time it was told, whoever was refused in memory finds each of  *)
(* its windows short of the ceiling, of those admissions.                  *)
(***************************************************************************)
RetryInv ==
    /\ DOMAIN retry_after = Requests /\ DOMAIN decided = Requests
    /\ limiter = "memory" =>
          \A r \in Requests : pc[r] = "refused" =>
             /\ decided[r] \subseteq Counted
             /\ \A key \in Keys(charge[r]) : \A t \in Nat :
                   now[r] + retry_after[r] <= t => Cardinality(StillIn(decided[r], key, t)) < Ceiling(key)

\* The oldest admission of an exhausted window, and when it leaves.
LEMMA OldestLeaves ==
    ASSUME IInv, NEW budgets \in Configured, NEW key \in Keys(budgets),
           Cardinality(InWindow(key, clock)) >= Ceiling(key)
    PROVE  \E q \in AdmittedIn(key, clock) :
              Leaves(key, clock) = now[q] + key.seconds /\ Leaves(key, clock) > clock
  <1> DEFINE times == {e.at : e \in InWindow(key, clock)}
  <1>1. key.seconds \in Nat /\ Ceiling(key) \in Nat \ {0} /\ clock \in Nat
      BY KeyType DEF IInv, TypeOK
  <1>2. IsFiniteSet(InWindow(key, clock))
      BY SweptFinite, FS_Subset DEF InWindow, IInv
  <1>3. InWindow(key, clock) # {}
      BY <1>1, FS_EmptySet
  <1>4. \A e \in InWindow(key, clock) :
           /\ e.request \in Counted /\ e.key = key /\ key \in Keys(charge[e.request])
           /\ e.at = now[e.request] /\ e.at \in Nat /\ e.at <= clock /\ e.at > clock - key.seconds
    <2> SUFFICES ASSUME NEW e \in InWindow(key, clock)
                 PROVE  /\ e.request \in Counted /\ e.key = key /\ key \in Keys(charge[e.request])
                        /\ e.at = now[e.request] /\ e.at \in Nat /\ e.at <= clock
                        /\ e.at > clock - key.seconds
        OBVIOUS
    <2>1. e \in events /\ e.key = key /\ e.at > clock - key.seconds
        BY DEF InWindow, Swept
    <2>2. e.request \in Counted /\ e.key \in Keys(charge[e.request]) /\ e = Event(e.key, e.request)
        BY <2>1 DEF IInv, RecordInv
    <2>3. e.at = now[e.request]
        BY <2>2 DEF Event
    <2>4. now[e.request] \in Nat /\ now[e.request] <= clock
        BY <2>2 DEF IInv, TypeOK, TimeInv, Counted
    <2>5. QED
        BY <2>1, <2>2, <2>3, <2>4
  <1>5. times # {} /\ times \subseteq Int
      BY <1>3, <1>4
  <1>6. IsFiniteSet(times)
    <2> DEFINE f == [e \in InWindow(key, clock) |-> e.at]
    <2>1. f \in Surjection(InWindow(key, clock), times)
        BY DEF Surjection
    <2> HIDE DEF f, times
    <2>2. QED
        BY <1>2, <2>1, FS_Surjection
  <1>7. PICK a : a = CHOOSE m \in times : \A v \in times : m <= v
      OBVIOUS
  <1>8. a \in times
    <2> HIDE DEF times
    <2>1. \E m \in times : \A v \in times : m <= v
        BY <1>5, <1>6, FiniteHasMin
    <2>2. QED
        BY <1>7, <2>1
  <1>9. Leaves(key, clock) = a + key.seconds
      BY <1>7 DEF Leaves
  <1>10. PICK e \in InWindow(key, clock) : a = e.at
      BY <1>8
  <1>11. e.request \in AdmittedIn(key, clock)
      BY <1>1, <1>4, <1>10 DEF AdmittedIn
  <1>12. a + key.seconds > clock
      BY <1>1, <1>4, <1>10
  <1>13. QED
      BY <1>4, <1>9, <1>10, <1>11, <1>12

LEMMA RetryAfterCovers ==
    ASSUME IInv, NEW r \in Requests, Exhausted(r, clock) # {}
    PROVE  /\ RetryAfter(r, clock) \in Int /\ RetryAfter(r, clock) > 0
           /\ \A key \in Exhausted(r, clock) : Leaves(key, clock) - clock <= RetryAfter(r, clock)
  <1> DEFINE waits == {Leaves(key, clock) - clock : key \in Exhausted(r, clock)}
  <1>1. charge[r] \in Configured /\ clock \in Nat
      BY DEF IInv, TypeOK
  <1>2. \A key \in Exhausted(r, clock) :
           Leaves(key, clock) \in Int /\ Leaves(key, clock) > clock
    <2> SUFFICES ASSUME NEW key \in Exhausted(r, clock)
                 PROVE  Leaves(key, clock) \in Int /\ Leaves(key, clock) > clock
        OBVIOUS
    <2>1. key \in Keys(charge[r]) /\ Cardinality(InWindow(key, clock)) >= Ceiling(key)
        BY DEF Exhausted
    <2>2. PICK q \in AdmittedIn(key, clock) :
             Leaves(key, clock) = now[q] + key.seconds /\ Leaves(key, clock) > clock
        BY <1>1, <2>1, OldestLeaves
    <2>3. now[q] \in Nat /\ key.seconds \in Nat
        BY <1>1, <2>1, KeyType DEF AdmittedIn, Counted, IInv, TypeOK
    <2>4. QED
        BY <2>2, <2>3
  <1>3. waits # {} /\ waits \subseteq Int /\ \A w \in waits : w > 0
      BY <1>1, <1>2
  <1>4. IsFiniteSet(waits)
    <2>1. IsFiniteSet(Exhausted(r, clock))
        BY <1>1, KeysFinite, FS_Subset DEF Exhausted
    <2> DEFINE f == [key \in Exhausted(r, clock) |-> Leaves(key, clock) - clock]
    <2>2. f \in Surjection(Exhausted(r, clock), waits)
        BY DEF Surjection
    <2> HIDE DEF f, waits
    <2>3. QED
        BY <2>1, <2>2, FS_Surjection
  <1>5. RetryAfter(r, clock) = CHOOSE w \in waits : \A v \in waits : v <= w
      BY DEF RetryAfter
  <1>6. RetryAfter(r, clock) \in waits /\ \A v \in waits : v <= RetryAfter(r, clock)
    <2> HIDE DEF waits
    <2>1. \E w \in waits : \A v \in waits : v <= w
        BY <1>3, <1>4, FiniteHasMax
    <2>2. QED
        BY <1>5, <2>1
  <1>7. QED
      BY <1>3, <1>6

\* A refusal in memory tells its caller long enough.
LEMMA RefusalTells ==
    ASSUME IInv, limiter = "memory", NEW r \in Requests, Exhausted(r, clock) # {},
           NEW key \in Keys(charge[r]), NEW t \in Nat, clock + RetryAfter(r, clock) <= t
    PROVE  Cardinality(StillIn(Counted, key, t)) < Ceiling(key)
  <1>1. /\ charge[r] \in Configured /\ clock \in Nat /\ key.seconds \in Nat \ {0}
        /\ Ceiling(key) \in Nat
      BY KeyType DEF IInv, TypeOK
  <1>2. clock <= t
      BY <1>1, RetryAfterCovers
  <1>3. StillIn(Counted, key, t) \subseteq AdmittedIn(key, clock)
    <2> SUFFICES ASSUME NEW q \in StillIn(Counted, key, t)
                 PROVE  q \in AdmittedIn(key, clock)
        OBVIOUS
    <2>1. q \in Counted /\ q \in Requests /\ key \in Keys(charge[q]) /\ now[q] > t - key.seconds
        BY DEF StillIn, Counted
    <2>2. now[q] \in Nat /\ now[q] <= clock
        BY <2>1 DEF IInv, TypeOK, TimeInv
    <2>3. QED
        BY <1>1, <1>2, <2>1, <2>2 DEF AdmittedIn
  <1>4. IsFiniteSet(AdmittedIn(key, clock)) /\ Cardinality(AdmittedIn(key, clock)) \in Nat
      BY AdmittedFinite, FS_CardinalityType
  <1>5. CASE key \notin Exhausted(r, clock)
    <2>1. ~(Cardinality(InWindow(key, clock)) >= Ceiling(key))
        BY <1>5 DEF Exhausted
    <2>2. Cardinality(InWindow(key, clock)) \in Nat
        BY SweptFinite, FS_Subset, FS_CardinalityType DEF InWindow, IInv
    <2>3. Timely(clock) /\ Claimed(key) /\ clock \in 0..clock /\ clock \in (clock - key.seconds + 1)..clock
        BY <1>1 DEF Timely, Claimed
    <2>4. Cardinality(AdmittedIn(key, clock)) <= Cardinality(InWindow(key, clock))
        BY <1>1, <2>3, AdmittedOnRecord DEF IInv
    <2>5. /\ Cardinality(StillIn(Counted, key, t)) <= Cardinality(AdmittedIn(key, clock))
          /\ Cardinality(StillIn(Counted, key, t)) \in Nat
        BY <1>3, <1>4, FS_Subset, FS_CardinalityType
    <2>6. QED
        BY <1>1, <1>4, <2>1, <2>2, <2>4, <2>5
  <1>6. CASE key \in Exhausted(r, clock)
    <2>1. Cardinality(InWindow(key, clock)) >= Ceiling(key)
        BY <1>6 DEF Exhausted
    <2>2. PICK q \in AdmittedIn(key, clock) :
             Leaves(key, clock) = now[q] + key.seconds /\ Leaves(key, clock) > clock
        BY <1>1, <2>1, OldestLeaves
    <2>3. now[q] \in Nat
        BY DEF AdmittedIn, Counted, IInv, TypeOK
    <2>4. RetryAfter(r, clock) \in Int /\ Leaves(key, clock) - clock <= RetryAfter(r, clock)
        BY <1>6, RetryAfterCovers
    <2>5. now[q] + key.seconds <= t
        BY <1>1, <2>2, <2>3, <2>4
    <2>6. q \notin StillIn(Counted, key, t)
        BY <1>1, <2>3, <2>5 DEF StillIn
    <2> DEFINE others == AdmittedIn(key, clock) \ {q}
    <2>7. IsFiniteSet(others) /\ Cardinality(others) = Cardinality(AdmittedIn(key, clock)) - 1
        BY <1>4, FS_RemoveElement
    <2>8. StillIn(Counted, key, t) \subseteq others
        BY <1>3, <2>6
    <2>9. Cardinality(AdmittedIn(key, clock)) <= Ceiling(key)
        BY <1>1 DEF IInv, WindowNeverOverdrawn, AdmittedIn
    <2> HIDE DEF others
    <2>10. /\ Cardinality(StillIn(Counted, key, t)) <= Cardinality(others)
           /\ Cardinality(StillIn(Counted, key, t)) \in Nat
        BY <2>7, <2>8, FS_Subset, FS_CardinalityType
    <2>11. QED
        BY <1>1, <1>4, <2>7, <2>9, <2>10
  <1>7. QED
      BY <1>5, <1>6

LEMMA RetryInitial == Init => RetryInv
  BY DEF Init, RetryInv

(***************************************************************************)
(* In memory a request decides once, at the time of the clock, and the     *)
(* admissions it was decided on stay as they are.                          *)
(***************************************************************************)
LEMMA StillInStays ==
    ASSUME IInv, [Next]_vars, NEW admissions \in SUBSET Counted, NEW key, NEW t
    PROVE  /\ StillIn(admissions, key, t)' = StillIn(admissions, key, t)
           /\ admissions \subseteq Counted'
  <1>1. charge' = charge /\ Counted \subseteq Counted'
      BY Moves DEF Admits, Refuses, Decides, Waits, Passes, IInv
  <1>2. \A q \in Counted : now'[q] = now[q]
    <2>1. ASSUME NEW r \in Requests, r \notin Counted,
                 \E t2 : now' = [now EXCEPT ![r] = t2]
          PROVE  \A q \in Counted : now'[q] = now[q]
        BY <2>1 DEF IInv, TypeOK, Counted
    <2>2. QED
        BY <2>1, Moves DEF Admits, Refuses, Decides, Waits, Passes, IInv
  <1>3. QED
      BY <1>1, <1>2 DEF StillIn, Keys

LEMMA RetryStep == IInv /\ RetryInv /\ [Next]_vars => RetryInv'
  <1> SUFFICES ASSUME IInv, RetryInv, [Next]_vars PROVE RetryInv'
      OBVIOUS
  <1>1. limiter' = limiter /\ charge' = charge /\ (\A budgets : Keys(budgets)' = Keys(budgets))
      BY Moves DEF Admits, Refuses, Decides, Waits, Passes, IInv, Keys
  <1>2. DOMAIN retry_after' = Requests /\ DOMAIN decided' = Requests
    <2>1. ASSUME NEW r \in Requests, NEW t, Decide(r, t)
          PROVE  DOMAIN retry_after' = Requests /\ DOMAIN decided' = Requests
        BY <2>1 DEF Decide, RetryInv
    <2>2. CASE UNCHANGED <<retry_after, decided>>
        BY <2>2 DEF RetryInv
    <2>3. QED
        BY <2>1, <2>2 DEF Next, vars, Check, CheckLocked, ReadClock, Fail, FailAfterCommit, Tick
  <1>3. ASSUME limiter = "memory", NEW r \in Requests, pc'[r] = "refused"
        PROVE  /\ decided'[r] \subseteq Counted'
               /\ \A key \in Keys(charge[r]) : \A t \in Nat :
                     now'[r] + retry_after'[r] <= t
                        => Cardinality(StillIn(decided[r], key, t))' < Ceiling(key)
    <2>1. ASSUME pc[r] = "refused", now'[r] = now[r], retry_after'[r] = retry_after[r],
                 decided'[r] = decided[r]
          PROVE  /\ decided'[r] \subseteq Counted'
                 /\ \A key \in Keys(charge[r]) : \A t \in Nat :
                       now'[r] + retry_after'[r] <= t
                          => Cardinality(StillIn(decided[r], key, t))' < Ceiling(key)
      <3>1. PICK admissions : admissions = decided[r]
          OBVIOUS
      <3>2. /\ admissions \in SUBSET Counted
            /\ \A key \in Keys(charge[r]) : \A t \in Nat :
                  now[r] + retry_after[r] <= t => Cardinality(StillIn(admissions, key, t)) < Ceiling(key)
          BY <1>3, <2>1, <3>1 DEF RetryInv
      <3>3. /\ admissions \subseteq Counted'
            /\ \A key, t : StillIn(admissions, key, t)' = StillIn(admissions, key, t)
          BY <3>2, StillInStays
      <3>4. \A key, t : StillIn(decided[r], key, t)' = StillIn(admissions, key, t)'
          BY <2>1, <3>1 DEF StillIn
      <3>5. QED
          BY <2>1, <3>1, <3>2, <3>3, <3>4
    <2>2. CASE UNCHANGED <<pc, now, retry_after, decided>>
        BY <1>3, <2>1, <2>2
    <2>3. ASSUME NEW s \in Requests, Check(s)
          PROVE  /\ decided'[r] \subseteq Counted'
                 /\ \A key \in Keys(charge[r]) : \A t \in Nat :
                       now'[r] + retry_after'[r] <= t
                          => Cardinality(StillIn(decided[r], key, t))' < Ceiling(key)
      <3>1. pc[s] = "new" /\ Decide(s, clock)
          BY <2>3 DEF Check
      <3>2. CASE s # r
        <4>1. pc[r] = "refused" /\ now'[r] = now[r]
            BY <1>3, <3>1, <3>2 DEF Decide, IInv, TypeOK
        <4>2. retry_after'[r] = retry_after[r] /\ decided'[r] = decided[r]
            BY <3>1, <3>2 DEF Decide, RetryInv
        <4>3. QED
            BY <2>1, <4>1, <4>2
      <3>3. CASE s = r
        <4>1. /\ Exhausted(r, clock) # {} /\ pc' = [pc EXCEPT ![r] = "refused"]
              /\ retry_after' = [retry_after EXCEPT ![r] = RetryAfter(r, clock)]
              /\ decided' = [decided EXCEPT ![r] = Counted]
              /\ now' = [now EXCEPT ![r] = clock]
            BY <1>3, <3>1, <3>3 DEF Decide, IInv, TypeOK
        <4>2. /\ retry_after'[r] = RetryAfter(r, clock) /\ decided'[r] = Counted /\ now'[r] = clock
            BY <4>1 DEF RetryInv, IInv, TypeOK
        <4>3. \A key \in Keys(charge[r]) : \A t \in Nat :
                 clock + RetryAfter(r, clock) <= t
                    => Cardinality(StillIn(Counted, key, t)) < Ceiling(key)
            BY <1>3, <4>1, RefusalTells
        <4>4. PICK admissions \in SUBSET Counted : admissions = Counted
            OBVIOUS
        <4>5. /\ admissions \subseteq Counted'
              /\ \A key, t : StillIn(admissions, key, t)' = StillIn(admissions, key, t)
            BY StillInStays
        <4>6. \A key, t : /\ StillIn(decided[r], key, t)' = StillIn(admissions, key, t)'
                          /\ StillIn(admissions, key, t) = StillIn(Counted, key, t)
            BY <4>2, <4>4 DEF StillIn
        <4>7. QED
            BY <4>2, <4>3, <4>4, <4>5, <4>6
      <3>4. QED
          BY <3>2, <3>3
    <2>4. ASSUME NEW s \in Requests, ReadClock(s) \/ CheckLocked(s) \/ Fail(s) \/ FailAfterCommit(s)
          PROVE  FALSE
        BY <1>3, <2>4 DEF ReadClock, CheckLocked, Fail, FailAfterCommit, IInv, TimeInv
    <2>5. QED
        BY <2>2, <2>3, <2>4 DEF Next, vars, Tick
  <1>4. QED
      BY <1>1, <1>2, <1>3 DEF RetryInv, Ceiling

LEMMA RetryEnough == IInv /\ RetryInv => RetryAfterIsEnough
  <1> SUFFICES ASSUME IInv, RetryInv, NEW r \in Requests,
                      limiter = "memory", pc[r] = "refused", clock >= now[r] + retry_after[r],
                      \A other \in Counted \ decided[r] : Keys(charge[other]) \cap Keys(charge[r]) = {},
                      NEW key \in Exhausted(r, clock)
               PROVE  FALSE
      BY DEF RetryAfterIsEnough
  <1>1. key \in Keys(charge[r]) /\ Cardinality(InWindow(key, clock)) >= Ceiling(key)
      BY DEF Exhausted
  <1>2. clock \in Nat /\ charge[r] \in Configured
      BY DEF IInv, TypeOK
  <1>3. Ceiling(key) \in Nat
      BY <1>1, <1>2, KeyType
  <1> DEFINE S == StillIn(decided[r], key, clock)
             f == [e \in InWindow(key, clock) |-> e.request]
  <1>4. decided[r] \subseteq Counted /\ Cardinality(S) < Ceiling(key)
    <2>1. now[r] + retry_after[r] <= clock
        OBVIOUS
    <2>2. QED
        BY <1>1, <1>2, <2>1 DEF RetryInv
  <1>5. ASSUME NEW e \in InWindow(key, clock)
        PROVE  e.request \in S /\ e = Event(key, e.request)
    <2>1. e \in events /\ e.key = key /\ e.at > clock - key.seconds
        BY DEF InWindow, Swept
    <2>2. e.request \in Counted /\ key \in Keys(charge[e.request]) /\ e = Event(key, e.request)
        BY <2>1 DEF IInv, RecordInv
    <2>3. e.at = now[e.request]
        BY <2>2 DEF Event
    <2>4. e.request \in decided[r]
        BY <1>1, <2>2
    <2>5. QED
        BY <2>1, <2>2, <2>3, <2>4 DEF StillIn
  <1>6. f \in Injection(InWindow(key, clock), S)
    <2>1. f \in [InWindow(key, clock) -> S]
        BY <1>5
    <2>2. \A d, e \in InWindow(key, clock) : f[d] = f[e] => d = e
      <3>1. \A d, e \in InWindow(key, clock) : d.request = e.request => d = e
          BY <1>5
      <3>2. QED
          BY <3>1
    <2> HIDE DEF f, S
    <2>3. QED
        BY <2>1, <2>2 DEF Injection, IsInjective
  <1>7. IsFiniteSet(S)
    <2>1. S \subseteq Requests
        BY <1>4 DEF StillIn, Counted
    <2>2. QED
        BY <2>1, FS_Subset, BoundsAssumption
  <1>8. IsFiniteSet(InWindow(key, clock))
      BY SweptFinite, FS_Subset DEF InWindow, IInv
  <1> HIDE DEF f, S
  <1>9. Cardinality(InWindow(key, clock)) <= Cardinality(S)
      BY <1>6, <1>7, FS_Injection
  <1>10. Cardinality(InWindow(key, clock)) \in Nat /\ Cardinality(S) \in Nat
      BY <1>7, <1>8, FS_CardinalityType
  <1>11. QED
      BY <1>1, <1>3, <1>4, <1>9, <1>10

(***************************************************************************)
(* The Retry-After of RateLimiter is enough: a caller who waits as long as *)
(* it was told finds every exhausted window open again, unless somebody    *)
(* was admitted to one of them in the meantime.                            *)
(***************************************************************************)
THEOREM RetryHolds == Spec => []RetryAfterIsEnough
  <1>1. Spec => []RetryInv
      BY IInvHolds, RetryInitial, RetryStep, PTL DEF Spec
  <1>2. QED
      BY <1>1, IInvHolds, RetryEnough, PTL
=============================================================================
