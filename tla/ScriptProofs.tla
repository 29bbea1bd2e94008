------------------------------ MODULE ScriptProofs ------------------------------
(***************************************************************************)
(* What the scripts run by hand guarantee, whoever runs them, in whatever  *)
(* order, and wherever one stops.                                          *)
(*                                                                         *)
(* First, those that move the database to its new provider, for any number *)
(* of terminals, smoke runs, passwords, backups and writes of the old      *)
(* site: what the new backend is configured with was compared with the old *)
(* rows, the runtime role fits the schema it runs on, and a cleanup leaves *)
(* the originals only.  The argument: what one script relies on is never   *)
(* undone by another (Progress): a manifest once written stays, the rows   *)
(* of a database that has a schema stay, a migrated database stays         *)
(* migrated, a role keeps its password, a setting made safe stays safe.    *)
(* So what a script has checked (Checked) holds until it acts on it,       *)
(* whatever the other terminals do.                                        *)
(*                                                                         *)
(* Then the two evaluations, the paid one and the review of reports, for   *)
(* any number of cases, jobs, runs, operators and edits.                   *)
(***************************************************************************)
EXTENDS ProductionCutover, ReviewStudy, PaidEvaluation,
        SequenceTheorems, FiniteSetTheorems, TLAPS

Restoring == {"empty", "restore", "restored", "migrate", "migrated"}
Granting == {"absent", "create", "login", "safe", "url"}
Cleaning == {"inspect", "erase"}
Retaining == {"staging migrate", "staging grant", "staging inspect"}

\* The rows were compared with the fingerprints of some manifest.
Compared(rows) == \E s \in Stamps : manifests[s] # Nil /\ manifests[s].rows = rows

\* The fields every record has; nothing is said of what they hold.
JobShape ==
  /\ job = [t \in Terminals |-> job[t]]
  /\ \A t \in Terminals :
       job[t] = [at |-> job[t].at, mode |-> job[t].mode, rows |-> job[t].rows,
                 stamp |-> job[t].stamp, secret |-> job[t].secret,
                 markers |-> job[t].markers, found |-> job[t].found]

Shape ==
  /\ JobShape
  /\ manifests = [s \in Stamps |-> manifests[s]]
  /\ neon = [head |-> neon.head, rows |-> neon.rows, role |-> neon.role,
             deletes |-> neon.deletes]
  /\ neon.deletes \in BOOLEAN
  /\ smoked = [m \in Markers |-> smoked[m]]
  /\ \A m \in Markers : smoked[m] = [used |-> smoked[m].used, holds |-> smoked[m].holds]
  /\ vercel = [safe |-> vercel.safe, url |-> vercel.url]
  /\ vercel.safe \in BOOLEAN

\* What the script in a terminal has checked, and still holds.
Checked(t) ==
  /\ job[t].at \in Restoring =>
       /\ env = "production"
       /\ Compared(job[t].rows)
  /\ job[t].at = "migrate" => neon.head # Nil /\ neon.rows = job[t].rows
  /\ job[t].at \in Granting => env = "production" /\ job[t].secret \in Passwords
  /\ job[t].at = "create" => neon.head = "new"
  /\ job[t].at \in {"safe", "url"} => neon.role = job[t].secret
  /\ job[t].at = "url" => vercel.safe
  /\ job[t].at \in Cleaning => Compared(job[t].rows)
  /\ job[t].at = "staging role" => env = "staging" /\ job[t].secret \in Passwords
  /\ job[t].at \in Retaining => env = "staging" /\ neon.role # Nil

\* What the databases and the backend hold.
Outcome ==
  /\ env \in {"production", "staging"}
  /\ RoleFitsSchema
  /\ env = "production" => (neon.head = "new" => Compared(neon.rows))
  /\ vercel.url # Nil => env = "production" /\ vercel.safe
                          /\ neon.role = vercel.url

CutoverIInv == Shape /\ Outcome /\ \A t \in Terminals : Checked(t)

\* What no step undoes.
Progress ==
  /\ env' = env
  /\ \A s \in Stamps : manifests[s] # Nil => manifests'[s] = manifests[s]
  /\ neon.head # Nil => neon'.head # Nil /\ neon'.rows = neon.rows
  /\ neon.head = "new" => neon'.head = "new"
  /\ neon.role # Nil => neon'.role = neon.role
  /\ vercel.safe => vercel'.safe

----------------------------------------------------------------------------
\* A script that goes on, or ends, changes its own record only.
LEMMA Going ==
  ASSUME JobShape, NEW t \in Terminals, NEW place, Proceeds(t, place)
  PROVE  /\ JobShape'
         /\ \A u \in Terminals \ {t} : job'[u] = job[u]
         /\ job'[t].at = place
         /\ job'[t].rows = job[t].rows /\ job'[t].stamp = job[t].stamp
         /\ job'[t].secret = job[t].secret /\ job'[t].mode = job[t].mode
<1>1. \A u \in Terminals :
        job'[u] = IF u = t
                  THEN [at |-> place, mode |-> job[t].mode, rows |-> job[t].rows,
                        stamp |-> job[t].stamp, secret |-> job[t].secret,
                        markers |-> job[t].markers, found |-> job[t].found]
                  ELSE job[u]
  BY DEF JobShape, Proceeds
<1>2. job' = [u \in Terminals |-> job'[u]]
  BY DEF JobShape, Proceeds
<1> QED BY <1>1, <1>2 DEF JobShape

LEMMA Ending ==
  ASSUME JobShape, NEW t \in Terminals, Finishes(t)
  PROVE  /\ JobShape'
         /\ \A u \in Terminals \ {t} : job'[u] = job[u]
         /\ job'[t].at = "idle"
<1>1. \A u \in Terminals : job'[u] = IF u = t THEN NoScript ELSE job[u]
  BY DEF JobShape, Finishes
<1>2. job' = [u \in Terminals |-> job'[u]]
  BY DEF JobShape, Finishes
<1> QED BY <1>1, <1>2 DEF JobShape, NoScript

\* What was compared stays compared.
LEMMA ComparedStays ==
  ASSUME Progress
  PROVE  \A rows : Compared(rows) => \E s \in Stamps : manifests'[s] # Nil
                                                    /\ manifests'[s].rows = rows
BY DEF Progress, Compared

\* The other terminals' checks still hold.
LEMMA OthersKeep ==
  ASSUME Progress, NEW u \in Terminals, Checked(u), job'[u] = job[u], CutoverAssumption
  PROVE  Checked(u)'
<1>1. Compared(job[u].rows) => Compared(job[u].rows)'
  BY ComparedStays DEF Compared
<1>2. job[u].secret \in Passwords => job[u].secret # Nil
  BY DEF CutoverAssumption
<1>3. /\ env' = env
      /\ neon.head # Nil => neon'.head # Nil /\ neon'.rows = neon.rows
      /\ neon.head = "new" => neon'.head = "new"
      /\ neon.role # Nil => neon'.role = neon.role
      /\ vercel.safe => vercel'.safe
  BY DEF Progress
<1>4. job[u].at \in {"safe", "url"} => neon'.role = job[u].secret
  BY <1>2, <1>3 DEF Checked, Granting
<1>5. job[u].at \in Retaining => env' = "staging" /\ neon'.role # Nil
  BY <1>3 DEF Checked
<1>6. job[u].at \in Restoring \cup Cleaning => Compared(job[u].rows)'
  BY <1>1 DEF Checked
<1> QED BY <1>3, <1>4, <1>5, <1>6 DEF Checked

\* What an action of the script in terminal t establishes.
Keeps(t) ==
  /\ Progress
  /\ Shape'
  /\ Outcome'
  /\ Checked(t)'
  /\ \A u \in Terminals \ {t} : job'[u] = job[u]

\* A step that leaves databases, manifests and settings alone.
LEMMA SameWorld ==
  ASSUME Outcome, UNCHANGED <<env, manifests, neon, vercel>>
  PROVE  Progress /\ Outcome'
BY DEF Outcome, Progress, RoleFitsSchema, Compared

LEMMA SameShape ==
  ASSUME Shape, JobShape', UNCHANGED <<manifests, neon, vercel, smoked>>
  PROVE  Shape'
<1>1. /\ (manifests = [s \in Stamps |-> manifests[s]])'
      /\ (smoked = [m \in Markers |-> smoked[m]])'
  BY DEF Shape
<1>2. (\A m \in Markers : smoked[m] = [used |-> smoked[m].used, holds |-> smoked[m].holds])'
  BY DEF Shape
<1>3. /\ (neon = [head |-> neon.head, rows |-> neon.rows, role |-> neon.role,
                  deletes |-> neon.deletes])'
      /\ (neon.deletes \in BOOLEAN)'
      /\ (vercel = [safe |-> vercel.safe, url |-> vercel.url])'
      /\ (vercel.safe \in BOOLEAN)'
  BY DEF Shape
<1> QED BY <1>1, <1>2, <1>3 DEF Shape

\* A script that ends has nothing left to hold.
LEMMA EndsKeeps ==
  ASSUME CutoverIInv, NEW t \in Terminals, Finishes(t), UNCHANGED <<env, manifests, neon, smoked, vercel>>
  PROVE  Keeps(t)
<1>1. JobShape' /\ job'[t].at = "idle" /\ \A u \in Terminals \ {t} : job'[u] = job[u]
  BY Ending DEF CutoverIInv, Shape
<1>2. Progress /\ Outcome' /\ Shape'
  BY <1>1, SameWorld, SameShape DEF CutoverIInv
<1>3. Checked(t)'
  BY <1>1 DEF Checked, Restoring, Granting, Cleaning, Retaining
<1> QED BY <1>1, <1>2, <1>3 DEF Keeps

\* Nor has one that is where it checks nothing yet.
Unchecked == {"idle", "site", "snapshot", "dump", "record", "signed up", "planned",
              "starting", "storing", "interviewed"}

LEMMA UncheckedHolds ==
  ASSUME NEW t \in Terminals, job[t].at \in Unchecked
  PROVE  Checked(t)
BY DEF Checked, Unchecked, Restoring, Granting, Cleaning, Retaining

\* A script that goes on and touches nothing else.
LEMMA GoesKeeps ==
  ASSUME CutoverIInv, NEW t \in Terminals, NEW place, Proceeds(t, place),
         UNCHANGED <<env, manifests, neon, smoked, vercel>>, Checked(t)'
  PROVE  Keeps(t)
<1>1. JobShape' /\ \A u \in Terminals \ {t} : job'[u] = job[u]
  BY Going DEF CutoverIInv, Shape
<1>2. Progress /\ Outcome' /\ Shape'
  BY <1>1, SameWorld, SameShape DEF CutoverIInv
<1> QED BY <1>1, <1>2 DEF Keeps

\* A new record in terminal t.
Whole(rec) ==
  rec = [at |-> rec.at, mode |-> rec.mode, rows |-> rec.rows, stamp |-> rec.stamp,
         secret |-> rec.secret, markers |-> rec.markers, found |-> rec.found]

LEMMA IdleRecord == Whole(NoScript)
BY DEF Whole, NoScript

\* q differs from r in the named field only.
Differs(q, r, field) ==
  /\ field # "at" => q.at = r.at
  /\ field # "rows" => q.rows = r.rows
  /\ field # "secret" => q.secret = r.secret

\* Changing one field of a record leaves the others.
LEMMA OneField ==
  ASSUME NEW STATE r, Whole(r)
  PROVE  /\ \A x : LET q == [r EXCEPT !.at = x]
                  IN Whole(q) /\ Differs(q, r, "at") /\ q.at = x
         /\ \A x : LET q == [r EXCEPT !.mode = x] IN Whole(q) /\ Differs(q, r, "mode")
         /\ \A x : LET q == [r EXCEPT !.rows = x]
                  IN Whole(q) /\ Differs(q, r, "rows") /\ q.rows = x
         /\ \A x : LET q == [r EXCEPT !.stamp = x] IN Whole(q) /\ Differs(q, r, "stamp")
         /\ \A x : LET q == [r EXCEPT !.secret = x]
                  IN Whole(q) /\ Differs(q, r, "secret") /\ q.secret = x
         /\ \A x : LET q == [r EXCEPT !.markers = x] IN Whole(q) /\ Differs(q, r, "markers")
         /\ \A x : LET q == [r EXCEPT !.found = x] IN Whole(q) /\ Differs(q, r, "found")
<1>1. \A x : LET q == [r EXCEPT !.at = x] IN Whole(q) /\ Differs(q, r, "at") /\ q.at = x
  BY DEF Whole, Differs
<1>2. \A x : LET q == [r EXCEPT !.mode = x] IN Whole(q) /\ Differs(q, r, "mode")
  BY DEF Whole, Differs
<1>3. \A x : LET q == [r EXCEPT !.rows = x] IN Whole(q) /\ Differs(q, r, "rows") /\ q.rows = x
  BY DEF Whole, Differs
<1>4. \A x : LET q == [r EXCEPT !.stamp = x] IN Whole(q) /\ Differs(q, r, "stamp")
  BY DEF Whole, Differs
<1>5. \A x : LET q == [r EXCEPT !.secret = x]
            IN Whole(q) /\ Differs(q, r, "secret") /\ q.secret = x
  BY DEF Whole, Differs
<1>6. \A x : LET q == [r EXCEPT !.markers = x] IN Whole(q) /\ Differs(q, r, "markers")
  BY DEF Whole, Differs
<1>7. \A x : LET q == [r EXCEPT !.found = x] IN Whole(q) /\ Differs(q, r, "found")
  BY DEF Whole, Differs
<1> QED BY <1>1, <1>2, <1>3, <1>4, <1>5, <1>6, <1>7

LEMMA NewRecord ==
  ASSUME JobShape, NEW t \in Terminals, NEW STATE rec, Whole(rec),
         job' = [job EXCEPT ![t] = rec]
  PROVE  /\ JobShape'
         /\ \A u \in Terminals \ {t} : job'[u] = job[u]
         /\ job'[t] = rec
<1>1. \A u \in Terminals : job'[u] = IF u = t THEN rec ELSE job[u]
  BY DEF JobShape
<1>2. job' = [u \in Terminals |-> job'[u]]
  BY DEF JobShape
<1>3. \A u \in Terminals : Whole(job'[u])
  BY <1>1 DEF JobShape, Whole
<1> QED BY <1>1, <1>2, <1>3 DEF JobShape, Whole

\* The same, of a record that holds what the script checked.
LEMMA RecordKeeps ==
  ASSUME CutoverIInv, NEW t \in Terminals, JobShape',
         \A u \in Terminals \ {t} : job'[u] = job[u],
         UNCHANGED <<env, manifests, neon, smoked, vercel>>, Checked(t)'
  PROVE  Keeps(t)
<1>1. Progress /\ Outcome' /\ Shape'
  BY SameWorld, SameShape DEF CutoverIInv
<1> QED BY <1>1 DEF Keeps

----------------------------------------------------------------------------
(* The old site and its backup.                                            *)

LEMMA SiteKeeps ==
  ASSUME CutoverIInv, NEW t \in Terminals, SiteNext(t)
  PROVE  Keeps(t)
<1>1. CASE BeginSiteControl(t)
  <2>1. job'[t].at = "site"
    BY <1>1, Going DEF CutoverIInv, Shape, BeginSiteControl
  <2>2. Checked(t)'
    BY <2>1 DEF Checked, Restoring, Granting, Cleaning, Retaining
  <2> QED BY <1>1, <2>2, GoesKeeps DEF BeginSiteControl
<1>2. CASE SiteConfirmed(t)
  BY <1>2, EndsKeeps DEF SiteConfirmed
<1> QED BY <1>1, <1>2 DEF SiteNext

\* A manifest is only ever written where there is none.
LEMMA BackupRecordKeeps ==
  ASSUME CutoverIInv, NEW t \in Terminals, BackupRecord(t)
  PROVE  Keeps(t)
<1>1. /\ JobShape'
      /\ \A u \in Terminals \ {t} : job'[u] = job[u]
      /\ job'[t].at = "idle"
  BY Ending DEF CutoverIInv, Shape, BackupRecord
<1>2. /\ manifests' = [s \in Stamps |-> manifests'[s]]
      /\ \A s \in Stamps : manifests[s] # Nil => manifests'[s] = manifests[s]
  BY DEF CutoverIInv, Shape, BackupRecord
<1>3. Progress
  BY <1>2 DEF Progress, BackupRecord
<1>4. Outcome'
  <2>1. Compared(neon.rows) => Compared(neon.rows)'
    BY <1>3, ComparedStays DEF Compared, BackupRecord
  <2> QED BY <2>1 DEF CutoverIInv, Outcome, RoleFitsSchema, BackupRecord
<1>5. Shape'
  <2>1. (\A m \in Markers : smoked[m] = [used |-> smoked[m].used, holds |-> smoked[m].holds])'
    BY DEF CutoverIInv, Shape, BackupRecord
  <2>2. /\ (smoked = [m \in Markers |-> smoked[m]])'
        /\ (neon = [head |-> neon.head, rows |-> neon.rows, role |-> neon.role,
                    deletes |-> neon.deletes])'
        /\ (neon.deletes \in BOOLEAN)'
        /\ (vercel = [safe |-> vercel.safe, url |-> vercel.url])'
        /\ (vercel.safe \in BOOLEAN)'
    BY DEF CutoverIInv, Shape, BackupRecord
  <2> QED BY <1>1, <1>2, <2>1, <2>2 DEF Shape
<1>6. Checked(t)'
  BY <1>1 DEF Checked, Restoring, Granting, Cleaning, Retaining
<1> QED BY <1>1, <1>3, <1>4, <1>5, <1>6 DEF Keeps

LEMMA BackupKeeps ==
  ASSUME CutoverIInv, NEW t \in Terminals, BackupNext(t)
  PROVE  Keeps(t)
<1>1. ASSUME NEW mode, BeginBackup(t, mode) PROVE Keeps(t)
  <2> DEFINE first == [NoScript EXCEPT !.at = "snapshot"]
             rec == [first EXCEPT !.mode = mode]
  <2>1. job' = [job EXCEPT ![t] = rec]
    BY <1>1 DEF BeginBackup
  <2>a. Whole(first) /\ first.at = "snapshot"
    BY IdleRecord, OneField
  <2> HIDE DEF first
  <2>b. Whole(rec) /\ rec.at = "snapshot"
    BY <2>a, OneField DEF Differs
  <2> HIDE DEF rec
  <2>2. /\ JobShape'
        /\ \A u \in Terminals \ {t} : job'[u] = job[u]
        /\ job'[t].at = "snapshot"
    BY <2>1, <2>b, NewRecord DEF CutoverIInv, Shape
  <2>3. Checked(t)'
    BY <2>2 DEF Checked, Restoring, Granting, Cleaning, Retaining
  <2> QED BY <1>1, <2>2, <2>3, RecordKeeps DEF BeginBackup
<1>2. ASSUME NEW s \in Stamps, BackupSnapshot(t, s) PROVE Keeps(t)
  <2> DEFINE next == IF job[t].mode = "backup" THEN "dump" ELSE "record"
             first == [job[t] EXCEPT !.at = next]
             second == [first EXCEPT !.rows = azure]
             rec == [second EXCEPT !.stamp = s]
  <2>1. job' = [job EXCEPT ![t] = rec]
    BY <1>2 DEF BackupSnapshot, CutoverIInv, Shape, JobShape
  <2>a. Whole(job[t])
    BY DEF Whole, CutoverIInv, Shape, JobShape
  <2>b. Whole(first) /\ first.at = next
    BY <2>a, OneField
  <2> HIDE DEF first
  <2>c. Whole(second) /\ second.at = next
    BY <2>b, OneField DEF Differs
  <2> HIDE DEF second
  <2>2. Whole(rec) /\ rec.at = next
    BY <2>c, OneField DEF Differs
  <2>3. next \in {"dump", "record"}
    OBVIOUS
  <2> HIDE DEF rec, next
  <2>4. /\ JobShape'
        /\ \A u \in Terminals \ {t} : job'[u] = job[u]
        /\ job'[t].at \in {"dump", "record"}
    BY <2>1, <2>2, <2>3, NewRecord DEF CutoverIInv, Shape
  <2>5. Checked(t)'
    BY <2>4 DEF Checked, Restoring, Granting, Cleaning, Retaining
  <2> QED BY <1>2, <2>4, <2>5, RecordKeeps DEF BackupSnapshot
<1>3. CASE BackupDump(t)
  <2>1. PICK place \in {"record", "idle"} :
          \/ place = "record" /\ Proceeds(t, place)
          \/ place = "idle" /\ Finishes(t)
    BY <1>3 DEF BackupDump
  <2>2. job'[t].at \in Unchecked
    BY <2>1, Going, Ending DEF CutoverIInv, Shape, Unchecked
  <2>3. Checked(t)'
    BY <2>2 DEF Checked, Unchecked, Restoring, Granting, Cleaning, Retaining
  <2>4. UNCHANGED <<env, manifests, neon, smoked, vercel>>
    BY <1>3 DEF BackupDump
  <2>5. CASE Finishes(t)
    BY <2>4, <2>5, EndsKeeps
  <2>6. CASE Proceeds(t, "record")
    BY <2>3, <2>4, <2>6, GoesKeeps
  <2> QED BY <2>1, <2>5, <2>6
<1>4. CASE BackupRecord(t)
  BY <1>4, BackupRecordKeeps
<1> QED BY <1>1, <1>2, <1>3, <1>4 DEF BackupNext

----------------------------------------------------------------------------
(* Restore and migration.                                                  *)

\* Changes of the new database.
LEMMA NeonFields ==
  ASSUME Shape
  PROVE  /\ \A x, y : LET n == [neon EXCEPT !.head = x, !.rows = y]
                      IN n = [head |-> x, rows |-> y, role |-> neon.role,
                              deletes |-> neon.deletes]
         /\ \A x : LET n == [neon EXCEPT !.head = x]
                   IN n = [head |-> x, rows |-> neon.rows, role |-> neon.role,
                           deletes |-> neon.deletes]
         /\ \A x : LET n == [neon EXCEPT !.role = x]
                   IN n = [head |-> neon.head, rows |-> neon.rows, role |-> x,
                           deletes |-> neon.deletes]
         /\ \A x, y : LET n == [neon EXCEPT !.role = x, !.deletes = y]
                      IN n = [head |-> neon.head, rows |-> neon.rows, role |-> x,
                              deletes |-> y]
         /\ \A x : LET n == [neon EXCEPT !.deletes = x]
                   IN n = [head |-> neon.head, rows |-> neon.rows, role |-> neon.role,
                           deletes |-> x]
<1> DEFINE Neon(n) == n = [head |-> n.head, rows |-> n.rows, role |-> n.role,
                           deletes |-> n.deletes]
<1>1. ASSUME NEW n, Neon(n), NEW x
      PROVE  /\ [n EXCEPT !.head = x] = [head |-> x, rows |-> n.rows, role |-> n.role,
                                         deletes |-> n.deletes]
             /\ [n EXCEPT !.rows = x] = [head |-> n.head, rows |-> x, role |-> n.role,
                                         deletes |-> n.deletes]
             /\ [n EXCEPT !.role = x] = [head |-> n.head, rows |-> n.rows, role |-> x,
                                         deletes |-> n.deletes]
             /\ [n EXCEPT !.deletes = x] = [head |-> n.head, rows |-> n.rows,
                                            role |-> n.role, deletes |-> x]
  BY <1>1
<1>2. Neon(neon)
  BY DEF Shape
<1>3. \A x, y : [neon EXCEPT !.head = x, !.rows = y]
                  = [[head |-> x, rows |-> neon.rows, role |-> neon.role,
                      deletes |-> neon.deletes] EXCEPT !.rows = y]
  BY <1>1, <1>2
<1>4. \A x, y : [neon EXCEPT !.role = x, !.deletes = y]
                  = [[head |-> neon.head, rows |-> neon.rows, role |-> x,
                      deletes |-> neon.deletes] EXCEPT !.deletes = y]
  BY <1>1, <1>2
<1>5. \A x, y : [[head |-> x, rows |-> neon.rows, role |-> neon.role,
                  deletes |-> neon.deletes] EXCEPT !.rows = y]
                = [head |-> x, rows |-> y, role |-> neon.role, deletes |-> neon.deletes]
  OBVIOUS
<1>6. \A x, y : [[head |-> neon.head, rows |-> neon.rows, role |-> x,
                  deletes |-> neon.deletes] EXCEPT !.deletes = y]
                = [head |-> neon.head, rows |-> neon.rows, role |-> x, deletes |-> y]
  OBVIOUS
<1>7. \A x, y : [neon EXCEPT !.head = x, !.rows = y]
                  = [head |-> x, rows |-> y, role |-> neon.role, deletes |-> neon.deletes]
  BY <1>3, <1>5, Zenon
<1>8. \A x, y : [neon EXCEPT !.role = x, !.deletes = y]
                  = [head |-> neon.head, rows |-> neon.rows, role |-> x, deletes |-> y]
  BY <1>4, <1>6, Zenon
<1> QED BY <1>1, <1>2, <1>7, <1>8, Zenon

\* A change of the new database alone.
LEMMA NeonChanges ==
  ASSUME Shape, NEW t \in Terminals, JobShape', \A u \in Terminals \ {t} : job'[u] = job[u],
         UNCHANGED <<env, manifests, smoked, vercel>>,
         neon' = [head |-> neon'.head, rows |-> neon'.rows, role |-> neon'.role,
                  deletes |-> neon'.deletes],
         neon'.deletes \in BOOLEAN
  PROVE  Shape'
<1>1. /\ (manifests = [s \in Stamps |-> manifests[s]])'
      /\ (smoked = [m \in Markers |-> smoked[m]])'
  BY DEF Shape
<1>2. (\A m \in Markers : smoked[m] = [used |-> smoked[m].used, holds |-> smoked[m].holds])'
  BY DEF Shape
<1>3. /\ (vercel = [safe |-> vercel.safe, url |-> vercel.url])'
      /\ (vercel.safe \in BOOLEAN)'
  BY DEF Shape
<1> QED BY <1>1, <1>2, <1>3 DEF Shape

LEMMA RestoreArchiveKeeps ==
  ASSUME CutoverIInv, CutoverAssumption, NEW t \in Terminals, RestoreArchive(t)
  PROVE  Keeps(t)
<1>1. /\ JobShape'
      /\ \A u \in Terminals \ {t} : job'[u] = job[u]
      /\ job'[t].at = "restored" /\ job'[t].rows = job[t].rows
  BY Going DEF CutoverIInv, Shape, RestoreArchive
<1>2. PICK r : neon' = [neon EXCEPT !.head = "old", !.rows = r]
  BY DEF RestoreArchive
<1>3. neon' = [head |-> "old", rows |-> r, role |-> neon.role, deletes |-> neon.deletes]
  BY <1>2, NeonFields DEF CutoverIInv
<1>4. UNCHANGED <<env, manifests, smoked, vercel>> /\ neon.head = Nil
  BY DEF RestoreArchive
<1>5. Shape'
  BY <1>1, <1>3, <1>4, NeonChanges DEF CutoverIInv, Shape
<1>6. env = "production" /\ Compared(job[t].rows)
  BY DEF CutoverIInv, Checked, RestoreArchive, Stands, Restoring
<1>7. Nil # "new" /\ Nil # "old"
  BY DEF CutoverAssumption
<1>8. Progress
  BY <1>3, <1>4, <1>7 DEF Progress
<1>9. neon.role = Nil /\ ~ neon.deletes /\ vercel.url = Nil
  BY <1>4, <1>6, <1>7 DEF CutoverIInv, Outcome, RoleFitsSchema
<1>10. Outcome'
  BY <1>3, <1>4, <1>6, <1>9 DEF Outcome, RoleFitsSchema
<1>11. Compared(job[t].rows)'
  BY <1>1, <1>4, <1>6 DEF Compared
<1>12. Checked(t)'
  BY <1>1, <1>4, <1>6, <1>11 DEF Checked, Restoring, Granting, Cleaning, Retaining
<1> QED BY <1>1, <1>5, <1>8, <1>10, <1>12 DEF Keeps

\* The migration comes after the comparison.
LEMMA RestoreMigratesKeeps ==
  ASSUME CutoverIInv, CutoverAssumption, NEW t \in Terminals, RestoreMigrates(t)
  PROVE  Keeps(t)
<1>1. /\ JobShape'
      /\ \A u \in Terminals \ {t} : job'[u] = job[u]
      /\ job'[t].at = "migrated" /\ job'[t].rows = job[t].rows
  BY Going DEF CutoverIInv, Shape, RestoreMigrates
<1>2. neon' = [head |-> "new", rows |-> neon.rows, role |-> neon.role, deletes |-> neon.deletes]
  BY NeonFields DEF CutoverIInv, RestoreMigrates
<1>3. UNCHANGED <<env, manifests, smoked, vercel>>
  BY DEF RestoreMigrates
<1>4. Shape'
  BY <1>1, <1>2, <1>3, NeonChanges DEF CutoverIInv, Shape
<1>5. /\ env = "production" /\ Compared(job[t].rows)
      /\ neon.head # Nil /\ neon.rows = job[t].rows
  BY DEF CutoverIInv, Checked, RestoreMigrates, Stands, Restoring
<1>6. Nil # "new"
  BY DEF CutoverAssumption
<1>7. Progress
  BY <1>2, <1>3, <1>6 DEF Progress
<1>8. Compared(neon.rows)' /\ Compared(job[t].rows)'
  BY <1>1, <1>2, <1>3, <1>5 DEF Compared
<1>9. Outcome'
  BY <1>2, <1>3, <1>5, <1>8 DEF CutoverIInv, Outcome, RoleFitsSchema
<1>10. Checked(t)'
  BY <1>1, <1>3, <1>5, <1>8 DEF Checked, Restoring, Granting, Cleaning, Retaining
<1> QED BY <1>1, <1>4, <1>7, <1>9, <1>10 DEF Keeps

LEMMA RestoreKeeps ==
  ASSUME CutoverIInv, CutoverAssumption, NEW t \in Terminals, RestoreNext(t)
  PROVE  Keeps(t)
<1>1. ASSUME NEW s \in Stamps, BeginRestore(t, s) PROVE Keeps(t)
  <2> DEFINE first == [NoScript EXCEPT !.at = "empty"]
             second == [first EXCEPT !.stamp = s]
             rec == [second EXCEPT !.rows = manifests[s].rows]
  <2>1. job' = [job EXCEPT ![t] = rec]
    BY <1>1 DEF BeginRestore
  <2>2. Whole(first) /\ first.at = "empty"
    BY IdleRecord, OneField
  <2> HIDE DEF first
  <2>3. Whole(second) /\ second.at = "empty"
    BY <2>2, OneField DEF Differs
  <2> HIDE DEF second
  <2>4. Whole(rec) /\ rec.at = "empty" /\ rec.rows = manifests[s].rows
    BY <2>3, OneField DEF Differs
  <2> HIDE DEF rec
  <2>a. JobShape' /\ job'[t] = rec /\ \A u \in Terminals \ {t} : job'[u] = job[u]
    BY <2>1, <2>4, NewRecord DEF CutoverIInv, Shape
  <2>5. job'[t].at = "empty" /\ job'[t].rows = manifests[s].rows
    BY <2>4, <2>a
  <2>6. manifests[s] # Nil
    BY <1>1 DEF BeginRestore, TheManifest, Manifests
  <2>7. UNCHANGED <<env, manifests, neon, smoked, vercel>> /\ env = "production"
    BY <1>1 DEF BeginRestore
  <2>8. Compared(job[t].rows)'
    BY <2>5, <2>6, <2>7 DEF Compared
  <2>9. Checked(t)'
    BY <2>5, <2>7, <2>8 DEF Checked, Granting, Cleaning, Retaining
  <2> QED BY <2>a, <2>7, <2>9, RecordKeeps
<1>2. ASSUME NEW place \in {"restore", "migrate"}, Proceeds(t, place), job[t].at \in Restoring,
             UNCHANGED <<env, manifests, neon, smoked, vercel>>,
             place = "migrate" => neon.head # Nil /\ neon.rows = job[t].rows
      PROVE  Keeps(t)
  <2>1. job'[t].at = place /\ job'[t].rows = job[t].rows
    BY <1>2, Going DEF CutoverIInv, Shape
  <2>2. env = "production" /\ Compared(job[t].rows)
    BY <1>2 DEF CutoverIInv, Checked
  <2>3. Compared(job[t].rows)'
    BY <1>2, <2>1, <2>2 DEF Compared
  <2>4. Checked(t)'
    BY <1>2, <2>1, <2>2, <2>3 DEF Checked, Granting, Cleaning, Retaining
  <2> QED BY <1>2, <2>4, GoesKeeps
<1>3. CASE RestoreChecksEmpty(t)
  BY <1>2, <1>3 DEF RestoreChecksEmpty, Stands, Restoring
<1>4. CASE RestoreArchive(t)
  BY <1>4, RestoreArchiveKeeps
<1>5. CASE RestoreChecksRestored(t)
  <2>1. Nil # "old"
    BY DEF CutoverAssumption
  <2> QED BY <1>2, <1>5, <2>1 DEF RestoreChecksRestored, Stands, Restoring
<1>6. CASE RestoreMigrates(t)
  BY <1>6, RestoreMigratesKeeps
<1>7. CASE RestoreChecksMigrated(t)
  BY <1>7, EndsKeeps DEF RestoreChecksMigrated
<1> QED BY <1>1, <1>3, <1>4, <1>5, <1>6, <1>7 DEF RestoreNext

----------------------------------------------------------------------------
(* The runtime role and the backend's variables.                           *)

LEMMA CreateRoleKeeps ==
  ASSUME CutoverIInv, CutoverAssumption, NEW t \in Terminals, CreateRole(t)
  PROVE  Keeps(t)
<1>1. /\ JobShape'
      /\ \A u \in Terminals \ {t} : job'[u] = job[u]
      /\ job'[t].at = "login" /\ job'[t].secret = job[t].secret
  BY Going DEF CutoverIInv, Shape, CreateRole
<1>2. neon' = [head |-> neon.head, rows |-> neon.rows, role |-> job[t].secret, deletes |-> TRUE]
  BY NeonFields DEF CutoverIInv, CreateRole
<1>3. UNCHANGED <<env, manifests, smoked, vercel>> /\ neon.role = Nil
  BY DEF CreateRole
<1>4. Shape'
  BY <1>1, <1>2, <1>3, NeonChanges DEF CutoverIInv, Shape
<1>5. env = "production" /\ job[t].secret \in Passwords /\ neon.head = "new"
  BY DEF CutoverIInv, Checked, CreateRole, Stands, Granting
<1>6. job[t].secret # Nil
  BY <1>5 DEF CutoverAssumption
<1>7. Progress
  BY <1>2, <1>3 DEF Progress
<1>8. vercel.url = Nil
  BY <1>3 DEF CutoverIInv, Outcome
<1>9. Compared(neon.rows)'
  BY <1>2, <1>3, <1>5 DEF CutoverIInv, Outcome, Compared
<1>10. Outcome'
  BY <1>2, <1>3, <1>5, <1>6, <1>8, <1>9 DEF Outcome, RoleFitsSchema
<1>11. Checked(t)'
  BY <1>1, <1>3, <1>5 DEF Checked, Restoring, Granting, Cleaning, Retaining
<1> QED BY <1>1, <1>4, <1>7, <1>10, <1>11 DEF Keeps

\* A setting changes; the database it names is the one whose role is known.
LEMMA ConfigureKeeps ==
  ASSUME CutoverIInv, NEW t \in Terminals, ConfigureSafe(t) \/ ConfigureUrl(t)
  PROVE  Keeps(t)
<1>1. job[t].at \in {"safe", "url"}
  BY DEF ConfigureSafe, ConfigureUrl, Stands
<1>2. env = "production" /\ job[t].secret \in Passwords /\ neon.role = job[t].secret
  BY <1>1 DEF CutoverIInv, Checked, Granting
<1>3. UNCHANGED <<env, manifests, neon, smoked>>
  BY DEF ConfigureSafe, ConfigureUrl
<1>4. /\ JobShape' /\ \A u \in Terminals \ {t} : job'[u] = job[u]
      /\ \/ job'[t].at = "idle"
         \/ /\ job'[t].at = "url" /\ job'[t].secret = job[t].secret
            /\ ConfigureSafe(t)
  <2>1. JobShape
    BY DEF CutoverIInv, Shape
  <2>2. CASE ConfigureSafe(t)
    <3>1. Proceeds(t, "url")
      BY <2>2 DEF ConfigureSafe
    <3>2. JobShape' /\ job'[t].at = "url" /\ job'[t].secret = job[t].secret
          /\ \A u \in Terminals \ {t} : job'[u] = job[u]
      BY <2>1, <3>1, Going
    <3> QED BY <2>2, <3>2
  <2>3. CASE ConfigureUrl(t)
    BY <2>1, <2>3, Ending DEF ConfigureUrl
  <2> QED BY <2>2, <2>3
<1>5. /\ vercel' = [safe |-> vercel'.safe, url |-> vercel'.url]
      /\ vercel'.safe \in BOOLEAN
      /\ vercel.safe => vercel'.safe
      /\ ConfigureSafe(t) => vercel'.safe /\ vercel'.url = vercel.url
      /\ ConfigureUrl(t) => vercel'.safe /\ vercel'.url = job[t].secret
  <2>1. vercel = [safe |-> vercel.safe, url |-> vercel.url] /\ vercel.safe \in BOOLEAN
    BY DEF CutoverIInv, Shape
  <2>2. CASE ConfigureSafe(t)
    <3>1. vercel' = [safe |-> TRUE, url |-> vercel.url]
      BY <2>1, <2>2 DEF ConfigureSafe
    <3>2. ~ ConfigureUrl(t)
      BY <2>2 DEF ConfigureSafe, ConfigureUrl, Stands
    <3> QED BY <3>1, <3>2
  <2>3. CASE ConfigureUrl(t)
    <3>1. vercel' = [safe |-> vercel.safe, url |-> job[t].secret]
      BY <2>1, <2>3 DEF ConfigureUrl
    <3>2. ~ ConfigureSafe(t)
      BY <2>3 DEF ConfigureSafe, ConfigureUrl, Stands
    <3>3. vercel.safe
      BY <2>3 DEF ConfigureUrl, Stands, CutoverIInv, Checked
    <3> QED BY <3>1, <3>2, <3>3
  <2> QED BY <2>2, <2>3
<1>6. Shape'
  <2>1. /\ (manifests = [s \in Stamps |-> manifests[s]])'
        /\ (smoked = [m \in Markers |-> smoked[m]])'
        /\ (neon = [head |-> neon.head, rows |-> neon.rows, role |-> neon.role,
                    deletes |-> neon.deletes])'
        /\ (neon.deletes \in BOOLEAN)'
    BY <1>3 DEF CutoverIInv, Shape
  <2>2. (\A m \in Markers : smoked[m] = [used |-> smoked[m].used, holds |-> smoked[m].holds])'
    BY <1>3 DEF CutoverIInv, Shape
  <2> QED BY <1>4, <1>5, <2>1, <2>2 DEF Shape
<1>7. Progress
  BY <1>3, <1>5 DEF Progress
<1>8. Compared(neon.rows) => Compared(neon.rows)'
  BY <1>3 DEF Compared
<1>9. Outcome'
  BY <1>2, <1>3, <1>5, <1>8 DEF CutoverIInv, Outcome, RoleFitsSchema
<1>10. Checked(t)'
  BY <1>2, <1>3, <1>4, <1>5 DEF Checked, Restoring, Granting, Cleaning, Retaining
<1> QED BY <1>4, <1>6, <1>7, <1>9, <1>10 DEF Keeps

LEMMA RoleKeeps ==
  ASSUME CutoverIInv, CutoverAssumption, NEW t \in Terminals, RoleNext(t)
  PROVE  Keeps(t)
<1>1. ASSUME NEW mode, NEW p \in Passwords, BeginRole(t, mode, p) PROVE Keeps(t)
  <2> DEFINE next == IF mode = "configure_only" THEN "login" ELSE "absent"
             first == [NoScript EXCEPT !.mode = mode]
             second == [first EXCEPT !.secret = p]
             rec == [second EXCEPT !.at = next]
  <2>1. job' = [job EXCEPT ![t] = rec]
    BY <1>1 DEF BeginRole
  <2>2. Whole(first)
    BY IdleRecord, OneField
  <2> HIDE DEF first
  <2>3. Whole(second) /\ second.secret = p
    BY <2>2, OneField
  <2> HIDE DEF second
  <2>4. next \in {"login", "absent"}
    OBVIOUS
  <2> HIDE DEF next
  <2>5. Whole(rec) /\ rec.at = next /\ rec.secret = p
    BY <2>3, OneField DEF Differs
  <2> HIDE DEF rec
  <2>6. JobShape' /\ job'[t] = rec /\ \A u \in Terminals \ {t} : job'[u] = job[u]
    BY <2>1, <2>5, NewRecord DEF CutoverIInv, Shape
  <2>7. job'[t].at \in {"login", "absent"} /\ job'[t].secret = p
    BY <2>4, <2>5, <2>6
  <2>8. UNCHANGED <<env, manifests, neon, smoked, vercel>> /\ env = "production"
    BY <1>1 DEF BeginRole
  <2>9. Checked(t)'
    BY <2>7, <2>8 DEF Checked, Restoring, Granting, Cleaning, Retaining
  <2> QED BY <2>6, <2>8, <2>9, RecordKeeps
<1>2. ASSUME NEW place \in {"create", "safe"}, Proceeds(t, place), job[t].at \in Granting,
             UNCHANGED <<env, manifests, neon, smoked, vercel>>,
             place = "create" => neon.head = "new",
             place = "safe" => neon.role = job[t].secret
      PROVE  Keeps(t)
  <2>1. job'[t].at = place /\ job'[t].secret = job[t].secret
    BY <1>2, Going DEF CutoverIInv, Shape
  <2>2. env = "production" /\ job[t].secret \in Passwords
    BY <1>2 DEF CutoverIInv, Checked
  <2>3. Checked(t)'
    BY <1>2, <2>1, <2>2 DEF Checked, Restoring, Cleaning, Retaining
  <2> QED BY <1>2, <2>3, GoesKeeps
<1>3. CASE RolePreflight(t)
  BY <1>2, <1>3 DEF RolePreflight, Stands, Granting
<1>4. CASE CreateRole(t)
  BY <1>4, CreateRoleKeeps
<1>5. CASE VerifyLogin(t)
  <2>1. UNCHANGED <<env, manifests, neon, smoked, vercel>>
    BY <1>5 DEF VerifyLogin
  <2>2. CASE Finishes(t)
    BY <2>1, <2>2, EndsKeeps
  <2>3. CASE Proceeds(t, "safe")
    BY <1>2, <1>5, <2>1, <2>3 DEF VerifyLogin, Stands, Granting
  <2> QED BY <1>5, <2>2, <2>3 DEF VerifyLogin
<1>6. CASE ConfigureSafe(t) \/ ConfigureUrl(t)
  BY <1>6, ConfigureKeeps
<1> QED BY <1>1, <1>3, <1>4, <1>5, <1>6 DEF RoleNext

----------------------------------------------------------------------------
(* The smoke test and its cleanup.                                         *)

\* What smoke runs left behind changes, and it still has its fields.
LEMMA LeavesShape ==
  ASSUME Shape, NEW t \in Terminals, NEW STATE m, NEW gone, NEW come,
         Leaves(t, m, gone, come)
  PROVE  /\ smoked' = [x \in Markers |-> smoked'[x]]
         /\ \A x \in Markers : smoked'[x] =
              [used |-> smoked[x].used,
               holds |-> IF x = m THEN (smoked[x].holds \ gone) \cup come ELSE smoked[x].holds]
<1>1. smoked = [x \in Markers |-> smoked[x]]
  BY DEF Shape
<1>2. \A x \in Markers : smoked[x] = [used |-> smoked[x].used, holds |-> smoked[x].holds]
  BY DEF Shape
<1>3. /\ smoked' = [x \in Markers |-> smoked'[x]]
      /\ \A x \in Markers : smoked'[x] =
           IF x = m THEN [smoked[x] EXCEPT !.holds = (@ \ gone) \cup come] ELSE smoked[x]
  BY <1>1 DEF Leaves
<1>4. \A x \in Markers : [smoked[x] EXCEPT !.holds = (@ \ gone) \cup come]
                           = [used |-> smoked[x].used, holds |-> (smoked[x].holds \ gone) \cup come]
  <2>1. ASSUME NEW r, r = [used |-> r.used, holds |-> r.holds]
        PROVE  \A h : [r EXCEPT !.holds = h] = [used |-> r.used, holds |-> h]
    BY <2>1
  <2> QED BY <1>2, <2>1
<1> QED BY <1>2, <1>3, <1>4

\* A smoke run's own record, then the marks it leaves.
LEMMA MarksKeep ==
  ASSUME CutoverIInv, NEW t \in Terminals, JobShape',
         \A u \in Terminals \ {t} : job'[u] = job[u], job'[t].at \in Unchecked,
         UNCHANGED <<env, manifests, neon, vercel>>,
         smoked' = [m \in Markers |-> smoked'[m]],
         \A m \in Markers : smoked'[m] = [used |-> smoked'[m].used, holds |-> smoked'[m].holds]
  PROVE  Keeps(t)
<1>1. Progress /\ Outcome'
  BY SameWorld DEF CutoverIInv
<1>2. Shape'
  <2>1. /\ (manifests = [s \in Stamps |-> manifests[s]])'
        /\ (neon = [head |-> neon.head, rows |-> neon.rows, role |-> neon.role,
                    deletes |-> neon.deletes])'
        /\ (neon.deletes \in BOOLEAN)'
        /\ (vercel = [safe |-> vercel.safe, url |-> vercel.url])'
        /\ (vercel.safe \in BOOLEAN)'
    BY DEF CutoverIInv, Shape
  <2> QED BY <2>1 DEF Shape
<1>3. Checked(t)'
  BY DEF Checked, Unchecked, Restoring, Granting, Cleaning, Retaining
<1> QED BY <1>1, <1>2, <1>3 DEF Keeps

\* No step of a smoke run takes a recruiter away.
LEMMA SmokeKeeps ==
  ASSUME CutoverIInv, NEW t \in Terminals, SmokeNext(t)
  PROVE  /\ Keeps(t)
         /\ \A x \in Markers : Holds(x, "recruiter") => "recruiter" \in smoked'[x].holds
<1>1. JobShape /\ Shape
  BY DEF CutoverIInv, Shape
<1>2. ASSUME NEW m \in Markers, BeginSmoke(t, m)
      PROVE  /\ Keeps(t)
             /\ \A x \in Markers : Holds(x, "recruiter") => "recruiter" \in smoked'[x].holds
  <2> DEFINE first == [NoScript EXCEPT !.at = "signed up"]
             rec == [first EXCEPT !.markers = {m}]
  <2>1. job' = [job EXCEPT ![t] = rec]
    BY <1>2 DEF BeginSmoke
  <2>2. Whole(first) /\ first.at = "signed up"
    BY IdleRecord, OneField
  <2> HIDE DEF first
  <2>3. Whole(rec) /\ rec.at = "signed up"
    BY <2>2, OneField, ZenonT(60) DEF Differs
  <2> HIDE DEF rec
  <2>4. JobShape' /\ job'[t] = rec /\ \A u \in Terminals \ {t} : job'[u] = job[u]
    BY <1>1, <2>1, <2>3, NewRecord
  <2>5. job'[t].at \in Unchecked
    BY <2>3, <2>4 DEF Unchecked
  <2>6. /\ smoked' = [x \in Markers |-> smoked'[x]]
        /\ \A x \in Markers : smoked'[x] = IF x = m THEN [used |-> TRUE, holds |-> {"recruiter"}]
                                           ELSE smoked[x]
    BY <1>1, <1>2 DEF BeginSmoke, Shape
  <2>7. \A x \in Markers : smoked'[x] = [used |-> smoked'[x].used, holds |-> smoked'[x].holds]
    BY <1>1, <2>6 DEF Shape
  <2>8. UNCHANGED <<env, manifests, neon, vercel>>
    BY <1>2 DEF BeginSmoke
  <2> QED BY <2>4, <2>5, <2>6, <2>7, <2>8, MarksKeep DEF Holds
<1>3. ASSUME NEW place \in {"planned", "storing", "interviewed"}, Proceeds(t, place),
             NEW kind, Leaves(t, Marker(t), {}, {kind}),
             UNCHANGED <<env, manifests, neon, vercel>>
      PROVE  /\ Keeps(t)
             /\ \A x \in Markers : Holds(x, "recruiter") => "recruiter" \in smoked'[x].holds
  <2>1. JobShape' /\ job'[t].at = place /\ \A u \in Terminals \ {t} : job'[u] = job[u]
    BY <1>1, <1>3, Going
  <2>2. /\ smoked' = [x \in Markers |-> smoked'[x]]
        /\ \A x \in Markers : smoked'[x] =
             [used |-> smoked[x].used,
              holds |-> IF x = Marker(t) THEN (smoked[x].holds \ {}) \cup {kind}
                        ELSE smoked[x].holds]
    BY <1>1, <1>3, LeavesShape
  <2>3. \A x \in Markers : /\ smoked'[x] = [used |-> smoked'[x].used, holds |-> smoked'[x].holds]
                           /\ smoked[x].holds \subseteq smoked'[x].holds
    BY <2>2
  <2> QED BY <1>3, <2>1, <2>2, <2>3, MarksKeep DEF Holds, Unchecked
<1>4. CASE SmokeCreatesJob(t)
  BY <1>3, <1>4 DEF SmokeCreatesJob
<1>5. CASE SmokeStarts(t)
  <2>1. job'[t].at = "starting"
    BY <1>1, <1>5, Going DEF SmokeStarts
  <2>2. Checked(t)'
    BY <2>1 DEF Checked, Restoring, Granting, Cleaning, Retaining
  <2>3. UNCHANGED <<env, manifests, neon, smoked, vercel>>
    BY <1>5 DEF SmokeStarts
  <2> QED BY <1>5, <2>2, <2>3, GoesKeeps DEF SmokeStarts, Holds
<1>6. CASE SmokeStoresCandidate(t)
  BY <1>3, <1>6 DEF SmokeStoresCandidate
<1>7. CASE SmokeStoresInterview(t)
  BY <1>3, <1>7 DEF SmokeStoresInterview
<1>8. CASE SmokeErases(t)
  <2>1. JobShape' /\ job'[t].at = "idle" /\ \A u \in Terminals \ {t} : job'[u] = job[u]
    BY <1>1, <1>8, Ending DEF SmokeErases
  <2>2. /\ smoked' = [x \in Markers |-> smoked'[x]]
        /\ \A x \in Markers : smoked'[x] =
             [used |-> smoked[x].used,
              holds |-> IF x = Marker(t) THEN (smoked[x].holds \ {"interview", "candidate"}) \cup {}
                        ELSE smoked[x].holds]
    BY <1>1, <1>8, LeavesShape DEF SmokeErases
  <2>3. \A x \in Markers :
          /\ smoked'[x] = [used |-> smoked'[x].used, holds |-> smoked'[x].holds]
          /\ "recruiter" \in smoked[x].holds => "recruiter" \in smoked'[x].holds
    BY <2>2
  <2>4. UNCHANGED <<env, manifests, neon, vercel>>
    BY <1>8 DEF SmokeErases
  <2> QED BY <2>1, <2>2, <2>3, <2>4, MarksKeep DEF Holds, Unchecked
<1> QED BY <1>2, <1>4, <1>5, <1>6, <1>7, <1>8 DEF SmokeNext

\* A cleanup has a manifest to compare with, and erases only if what remains
\* is what the manifest describes.
LEMMA CleanupKeeps ==
  ASSUME CutoverIInv, NEW t \in Terminals, CleanupNext(t)
  PROVE  /\ Keeps(t)
         /\ \/ smoked' = smoked
            \/ /\ \A x \in Markers : smoked'[x].holds = {}
               /\ Compared(neon.rows)
<1>1. JobShape /\ Shape
  BY DEF CutoverIInv, Shape
<1>2. ASSUME NEW s \in Stamps, NEW ms \in SUBSET Markers, BeginCleanup(t, s, ms)
      PROVE  Keeps(t) /\ smoked' = smoked
  <2> DEFINE first == [NoScript EXCEPT !.at = "inspect"]
             second == [first EXCEPT !.markers = ms]
             rec == [second EXCEPT !.rows = manifests[s].rows]
  <2>1. job' = [job EXCEPT ![t] = rec]
    BY <1>2 DEF BeginCleanup
  <2>2. Whole(first) /\ first.at = "inspect"
    BY IdleRecord, OneField
  <2> HIDE DEF first
  <2>3. Whole(second) /\ second.at = "inspect"
    BY <2>2, OneField DEF Differs
  <2> HIDE DEF second
  <2>4. Whole(rec) /\ rec.at = "inspect" /\ rec.rows = manifests[s].rows
    BY <2>3, OneField, SMTT(60) DEF Differs
  <2> HIDE DEF rec
  <2>5. JobShape' /\ job'[t] = rec /\ \A u \in Terminals \ {t} : job'[u] = job[u]
    BY <1>1, <2>1, <2>4, NewRecord
  <2>6. job'[t].at = "inspect" /\ job'[t].rows = manifests[s].rows
    BY <2>4, <2>5
  <2>7. UNCHANGED <<env, manifests, neon, smoked, vercel>> /\ manifests[s] # Nil
    BY <1>2 DEF BeginCleanup, TheManifest, Manifests
  <2>8. Compared(job[t].rows)'
    BY <2>6, <2>7 DEF Compared
  <2>9. Checked(t)'
    BY <2>6, <2>8 DEF Checked, Restoring, Granting, Retaining
  <2> QED BY <2>5, <2>7, <2>9, RecordKeeps
<1>3. CASE CleanupInspects(t)
  <2> DEFINE first == [job[t] EXCEPT !.at = "erase"]
             rec == [first EXCEPT !.found = Inventory(job[t].markers)]
  <2>1. job' = [job EXCEPT ![t] = rec]
    BY <1>1, <1>3 DEF CleanupInspects, JobShape
  <2>2. Whole(job[t])
    BY <1>1 DEF Whole, JobShape
  <2>3. Whole(first) /\ first.at = "erase" /\ first.rows = job[t].rows
    BY <2>2, OneField DEF Differs
  <2> HIDE DEF first
  <2>4. Whole(rec) /\ rec.at = "erase" /\ rec.rows = job[t].rows
    BY <2>3, OneField DEF Differs
  <2> HIDE DEF rec
  <2>5. JobShape' /\ job'[t] = rec /\ \A u \in Terminals \ {t} : job'[u] = job[u]
    BY <1>1, <2>1, <2>4, NewRecord
  <2>6. job'[t].at = "erase" /\ job'[t].rows = job[t].rows
    BY <2>4, <2>5
  <2>7. UNCHANGED <<env, manifests, neon, smoked, vercel>>
    BY <1>3 DEF CleanupInspects
  <2>8. Compared(job[t].rows)
    BY <1>3 DEF CleanupInspects, Stands, CutoverIInv, Checked, Cleaning
  <2>9. Compared(job[t].rows)'
    BY <2>6, <2>7, <2>8 DEF Compared
  <2>10. Checked(t)'
    BY <2>6, <2>9 DEF Checked, Restoring, Granting, Retaining
  <2> QED BY <2>5, <2>7, <2>10, RecordKeeps
<1>4. CASE CleanupErases(t)
  <2> DEFINE left == [m \in Markers |-> IF m \in job[t].markers
                                        THEN [smoked[m] EXCEPT !.holds = {}] ELSE smoked[m]]
  <2>1. JobShape' /\ job'[t].at = "idle" /\ \A u \in Terminals \ {t} : job'[u] = job[u]
    BY <1>1, <1>4, Ending DEF CleanupErases
  <2>2. /\ smoked' = left /\ neon.rows = job[t].rows
        /\ \A m \in Markers : left[m].holds = {}
    BY <1>4 DEF CleanupErases, OriginalsRemain
  <2>3. \A m \in Markers : left[m] = [used |-> left[m].used, holds |-> left[m].holds]
    BY <1>1 DEF Shape
  <2>4. left = [m \in Markers |-> left[m]]
    OBVIOUS
  <2>5. UNCHANGED <<env, manifests, neon, vercel>>
    BY <1>4 DEF CleanupErases
  <2>6. Compared(job[t].rows)
    BY <1>4 DEF CleanupErases, Stands, CutoverIInv, Checked, Cleaning
  <2> HIDE DEF left
  <2>7. Keeps(t)
    BY <2>1, <2>2, <2>3, <2>4, <2>5, MarksKeep DEF Unchecked
  <2> QED BY <2>2, <2>6, <2>7
<1> QED BY <1>2, <1>3, <1>4 DEF CleanupNext, CleanupInspects

----------------------------------------------------------------------------
(* Staging.                                                                *)

LEMMA CreateStagingRoleKeeps ==
  ASSUME CutoverIInv, CutoverAssumption, NEW t \in Terminals, CreateStagingRole(t)
  PROVE  Keeps(t)
<1>1. JobShape' /\ job'[t].at = "idle" /\ \A u \in Terminals \ {t} : job'[u] = job[u]
  BY Ending DEF CutoverIInv, Shape, CreateStagingRole
<1>2. neon' = [head |-> neon.head, rows |-> neon.rows, role |-> job[t].secret,
               deletes |-> neon.deletes]
  BY NeonFields DEF CutoverIInv, CreateStagingRole
<1>3. UNCHANGED <<env, manifests, smoked, vercel>> /\ neon.role = Nil
  BY DEF CreateStagingRole
<1>4. Shape'
  BY <1>1, <1>2, <1>3, NeonChanges DEF CutoverIInv, Shape
<1>5. env = "staging" /\ job[t].secret \in Passwords
  BY DEF CutoverIInv, Checked, CreateStagingRole, Stands
<1>6. job[t].secret # Nil
  BY <1>5 DEF CutoverAssumption
<1>7. Progress
  BY <1>2, <1>3 DEF Progress
<1>8. Outcome'
  BY <1>2, <1>3, <1>5, <1>6 DEF CutoverIInv, Outcome, RoleFitsSchema
<1>9. Checked(t)'
  BY <1>1 DEF Checked, Restoring, Granting, Cleaning, Retaining
<1> QED BY <1>1, <1>4, <1>7, <1>8, <1>9 DEF Keeps

\* The migration, then the grants, of a database that has its role.
LEMMA RetentionStepKeeps ==
  ASSUME CutoverIInv, CutoverAssumption, NEW t \in Terminals,
         RetentionMigrates(t) \/ RetentionGrants(t)
  PROVE  Keeps(t)
<1>1. env = "staging" /\ neon.role # Nil
  BY DEF CutoverIInv, Checked, RetentionMigrates, RetentionGrants, Stands, Retaining
<1>2. /\ JobShape' /\ job'[t].at \in Retaining
      /\ \A u \in Terminals \ {t} : job'[u] = job[u]
  BY Going DEF CutoverIInv, Shape, RetentionMigrates, RetentionGrants, Retaining
<1>3. /\ neon' = [head |-> "new", rows |-> neon.rows, role |-> neon.role,
                  deletes |-> neon'.deletes]
      /\ neon'.deletes \in BOOLEAN
  <2>1. CASE RetentionMigrates(t)
    <3>1. neon' = [head |-> "new", rows |-> neon.rows, role |-> neon.role,
                   deletes |-> neon.deletes]
      BY <2>1, NeonFields DEF CutoverIInv, RetentionMigrates
    <3> QED BY <3>1 DEF CutoverIInv, Shape
  <2>2. CASE RetentionGrants(t)
    <3>1. neon' = [head |-> neon.head, rows |-> neon.rows, role |-> neon.role,
                   deletes |-> TRUE]
      BY <2>2, NeonFields DEF CutoverIInv, RetentionGrants
    <3>2. neon.head = "new"
      BY <2>2 DEF RetentionGrants
    <3> QED BY <3>1, <3>2
  <2> QED BY <2>1, <2>2
<1>4. UNCHANGED <<env, manifests, smoked, vercel>>
  BY DEF RetentionMigrates, RetentionGrants
<1>5. Shape'
  BY <1>2, <1>3, <1>4, NeonChanges DEF CutoverIInv, Shape
<1>6. Nil # "new"
  BY DEF CutoverAssumption
<1>7. Progress
  BY <1>3, <1>4, <1>6 DEF Progress
<1>8. Outcome'
  <2>1. neon'.head = "new" /\ neon'.role = neon.role
    BY <1>3
  <2>2. vercel.url = Nil
    BY <1>1 DEF CutoverIInv, Outcome
  <2>3. env' = "staging" /\ vercel'.url = Nil
    BY <1>1, <1>4, <2>2
  <2> QED BY <1>1, <2>1, <2>3 DEF Outcome, RoleFitsSchema
<1>9. Checked(t)'
  <2>1. neon'.role # Nil /\ env' = "staging"
    BY <1>1, <1>3, <1>4
  <2> QED BY <1>2, <2>1 DEF Checked, Restoring, Granting, Cleaning, Retaining
<1> QED BY <1>2, <1>5, <1>7, <1>8, <1>9 DEF Keeps

LEMMA StagingKeeps ==
  ASSUME CutoverIInv, CutoverAssumption, NEW t \in Terminals, StagingNext(t)
  PROVE  Keeps(t)
<1>1. ASSUME NEW p \in Passwords, BeginStagingRole(t, p) PROVE Keeps(t)
  <2> DEFINE first == [NoScript EXCEPT !.at = "staging role"]
             rec == [first EXCEPT !.secret = p]
  <2>1. job' = [job EXCEPT ![t] = rec]
    BY <1>1 DEF BeginStagingRole
  <2>2. Whole(first) /\ first.at = "staging role"
    BY IdleRecord, OneField
  <2> HIDE DEF first
  <2>a. Whole(rec) /\ rec.secret = p /\ Differs(rec, first, "secret")
    BY <2>2, OneField
  <2>3. Whole(rec) /\ rec.at = "staging role" /\ rec.secret = p
    BY <2>2, <2>a DEF Differs
  <2> HIDE DEF rec
  <2>4. JobShape' /\ job'[t] = rec /\ \A u \in Terminals \ {t} : job'[u] = job[u]
    BY <2>1, <2>3, NewRecord DEF CutoverIInv, Shape
  <2>5. UNCHANGED <<env, manifests, neon, smoked, vercel>> /\ env = "staging"
    BY <1>1 DEF BeginStagingRole
  <2>6. Checked(t)'
    BY <2>3, <2>4, <2>5 DEF Checked, Restoring, Granting, Cleaning, Retaining
  <2> QED BY <2>4, <2>5, <2>6, RecordKeeps
<1>2. CASE CreateStagingRole(t)
  BY <1>2, CreateStagingRoleKeeps
<1>3. CASE BeginRetention(t)
  <2>1. job'[t].at = "staging migrate"
    BY <1>3, Going DEF BeginRetention, CutoverIInv, Shape
  <2>2. /\ UNCHANGED <<env, manifests, neon, smoked, vercel>>
        /\ env = "staging" /\ neon.role # Nil
    BY <1>3 DEF BeginRetention, StagingReady
  <2>3. Checked(t)'
    BY <2>1, <2>2 DEF Checked, Restoring, Granting, Cleaning, Retaining
  <2> QED BY <1>3, <2>2, <2>3, GoesKeeps DEF BeginRetention
<1>4. CASE RetentionMigrates(t) \/ RetentionGrants(t)
  BY <1>4, RetentionStepKeeps
<1>5. CASE RetentionInspects(t)
  BY <1>5, EndsKeeps DEF RetentionInspects
<1> QED BY <1>1, <1>2, <1>3, <1>4, <1>5 DEF StagingNext

----------------------------------------------------------------------------
(* The inductive invariant.                                                *)

LEMMA CutoverInitEstablishes == CutoverAssumption /\ CutoverInit => CutoverIInv
<1> SUFFICES ASSUME CutoverAssumption, CutoverInit PROVE CutoverIInv
  OBVIOUS
<1>1. \A t \in Terminals : job[t] = NoScript
  BY DEF CutoverInit
<1>2. JobShape
  BY <1>1 DEF CutoverInit, JobShape, NoScript
<1>3. /\ manifests = [s \in Stamps |-> manifests[s]]
      /\ smoked = [m \in Markers |-> smoked[m]]
      /\ \A m \in Markers : smoked[m] = [used |-> smoked[m].used, holds |-> smoked[m].holds]
  BY DEF CutoverInit
<1>4. /\ neon = [head |-> neon.head, rows |-> neon.rows, role |-> neon.role,
                 deletes |-> neon.deletes]
      /\ neon.deletes \in BOOLEAN
      /\ vercel = [safe |-> vercel.safe, url |-> vercel.url]
      /\ vercel.safe \in BOOLEAN
  BY DEF CutoverInit
<1>5. Shape
  BY <1>2, <1>3, <1>4 DEF Shape
<1>6. Outcome
  <2>1. /\ neon.head # "new" /\ ~ neon.deletes /\ neon.role = Nil
        /\ vercel.url = Nil /\ env \in {"production", "staging"}
    BY DEF CutoverInit, CutoverAssumption
  <2> QED BY <2>1 DEF Outcome, RoleFitsSchema
<1>7. \A t \in Terminals : Checked(t)
  <2>1. NoScript.at \in Unchecked
    BY DEF NoScript, Unchecked
  <2>2. \A t \in Terminals : job[t].at \in Unchecked
    BY <1>1, <2>1
  <2> QED BY <2>2, UncheckedHolds
<1> QED BY <1>5, <1>6, <1>7 DEF CutoverIInv

\* A step of one terminal's script keeps everybody's checks.
LEMMA KeepsInvariant ==
  ASSUME CutoverIInv, CutoverAssumption, NEW t \in Terminals, Keeps(t)
  PROVE  CutoverIInv'
<1>1. ASSUME NEW u \in Terminals PROVE Checked(u)'
  <2>1. CASE u = t
    BY <2>1 DEF Keeps
  <2>2. CASE u # t
    BY <2>2, OthersKeep DEF Keeps, CutoverIInv
  <2> QED BY <2>1, <2>2
<1> QED BY <1>1 DEF Keeps, CutoverIInv

\* What a step of the environment changes, no script has looked at.
LEMMA OutsideKeeps ==
  ASSUME CutoverIInv, UNCHANGED <<env, manifests, neon, smoked, vercel, job>>
  PROVE  CutoverIInv'
<1>1. JobShape'
  BY DEF CutoverIInv, Shape, JobShape
<1>2. Shape' /\ Outcome'
  BY <1>1, SameShape, SameWorld DEF CutoverIInv
<1>3. \A t \in Terminals : Checked(t)'
  BY DEF CutoverIInv, Checked, Compared
<1> QED BY <1>2, <1>3 DEF CutoverIInv

LEMMA CutoverStepPreserves == CutoverAssumption /\ CutoverIInv /\ [CutoverNext]_cutoverVars => CutoverIInv'
<1> SUFFICES ASSUME CutoverAssumption, CutoverIInv, [CutoverNext]_cutoverVars PROVE CutoverIInv'
  OBVIOUS
<1>1. CASE UNCHANGED cutoverVars
  BY <1>1, OutsideKeeps DEF cutoverVars
<1>2. CASE AzureWrite \/ SiteChanges
  BY <1>2, OutsideKeeps DEF AzureWrite, SiteChanges
<1>3. ASSUME NEW t \in Terminals, Abandon(t) PROVE Keeps(t)
  BY <1>3, EndsKeeps DEF Abandon
<1>4. ASSUME NEW t \in Terminals,
             \/ SiteNext(t) \/ BackupNext(t) \/ RestoreNext(t) \/ RoleNext(t)
             \/ SmokeNext(t) \/ CleanupNext(t) \/ StagingNext(t) \/ Abandon(t)
      PROVE  Keeps(t)
  BY <1>3, <1>4, SiteKeeps, BackupKeeps, RestoreKeeps, RoleKeeps, SmokeKeeps, CleanupKeeps,
     StagingKeeps
<1> QED BY <1>1, <1>2, <1>4, KeepsInvariant DEF CutoverNext

\* The inductive invariant: no script undoes what another has checked.
THEOREM CutoverInductive == CutoverSpec => []CutoverIInv
<1>1. CutoverAssumption
  BY CutoverAssumption
<1> QED BY <1>1, CutoverInitEstablishes, CutoverStepPreserves, PTL DEF CutoverSpec

\* Whatever the order in which the scripts are run, stopped and run again, a
\* backend that has been given a database has a migrated one it can log in to,
\* whose rows were compared with the old site's.
THEOREM ConfiguredIsVerified == CutoverSpec => []ConfiguredCopyIsVerified
<1>1. CutoverAssumption /\ CutoverIInv => ConfiguredCopyIsVerified
  <2> SUFFICES ASSUME CutoverAssumption, CutoverIInv, vercel.url # Nil
               PROVE  /\ vercel.safe
                      /\ neon.head = "new" /\ neon.role = vercel.url
                      /\ \E s \in Manifests : manifests[s].rows = neon.rows
    BY DEF ConfiguredCopyIsVerified
  <2>1. env = "production" /\ vercel.safe /\ neon.role = vercel.url
    BY DEF CutoverIInv, Outcome
  <2>2. neon.head = "new"
    BY <2>1 DEF CutoverIInv, Outcome, RoleFitsSchema
  <2>3. Compared(neon.rows)
    BY <2>1, <2>2 DEF CutoverIInv, Outcome
  <2> QED BY <2>1, <2>2, <2>3 DEF Compared, Manifests
<1>2. CutoverAssumption
  BY CutoverAssumption
<1> QED BY <1>1, <1>2, CutoverInductive, PTL

\* The runtime role is never granted more than the schema it runs on allows,
\* in production and in staging.
THEOREM RoleFits == CutoverSpec => []RoleFitsSchema
<1>1. CutoverIInv => RoleFitsSchema
  BY DEF CutoverIInv, Outcome
<1> QED BY <1>1, CutoverInductive, PTL

\* A cleanup that erases a smoke account leaves the originals and nothing else.
THEOREM CleanupLeaves == CutoverSpec => CleanupLeavesOnlyOriginals
<1> DEFINE Cleaned == (\E m \in Markers : Holds(m, "recruiter") /\ "recruiter" \notin smoked'[m].holds)
                        => /\ \A m \in Markers : smoked'[m].holds = {}
                           /\ \E s \in Manifests : manifests[s].rows = neon.rows
<1>1. CutoverAssumption /\ CutoverIInv /\ [CutoverNext]_cutoverVars => [Cleaned]_cutoverVars
  <2> SUFFICES ASSUME CutoverAssumption, CutoverIInv, CutoverNext PROVE Cleaned
    OBVIOUS
  <2>1. CASE smoked' = smoked
    BY <2>1 DEF Holds
  <2>2. ASSUME NEW t \in Terminals, SmokeNext(t) PROVE Cleaned
    BY <2>2, SmokeKeeps
  <2>3. ASSUME NEW t \in Terminals, CleanupNext(t) PROVE Cleaned
    <3>1. \/ smoked' = smoked
          \/ (\A x \in Markers : smoked'[x].holds = {}) /\ Compared(neon.rows)
      BY <2>3, CleanupKeeps
    <3>2. CASE (\A x \in Markers : smoked'[x].holds = {}) /\ Compared(neon.rows)
      BY <3>2 DEF Compared, Manifests
    <3> QED BY <2>1, <3>1, <3>2
  <2>4. ASSUME NEW t \in Terminals, SiteNext(t) \/ BackupNext(t) \/ StagingNext(t) \/ Abandon(t)
        PROVE  smoked' = smoked
    BY <2>4 DEF SiteNext, BeginSiteControl, SiteConfirmed, BackupNext, BeginBackup,
       BackupSnapshot, BackupDump, BackupRecord, StagingNext, BeginStagingRole,
       CreateStagingRole, BeginRetention, RetentionMigrates, RetentionGrants,
       RetentionInspects, Abandon
  <2>5. ASSUME NEW t \in Terminals, RestoreNext(t) \/ RoleNext(t)
        PROVE  smoked' = smoked
    BY <2>5 DEF RestoreNext, BeginRestore, RestoreChecksEmpty, RestoreArchive,
       RestoreChecksRestored, RestoreMigrates, RestoreChecksMigrated, RoleNext, BeginRole,
       RolePreflight, CreateRole, VerifyLogin, ConfigureSafe, ConfigureUrl
  <2>6. CASE AzureWrite \/ SiteChanges
    BY <2>1, <2>6 DEF AzureWrite, SiteChanges
  <2> QED BY <2>1, <2>2, <2>3, <2>4, <2>5, <2>6 DEF CutoverNext
<1>2. CutoverAssumption
  BY CutoverAssumption
<1> QED BY <1>1, <1>2, CutoverInductive, PTL DEF CutoverSpec, CleanupLeavesOnlyOriginals

-----------------------------------------------------------------------------
(***************************************************************************)
(* Sequences of whatever elements.                                         *)
(***************************************************************************)
Listed(s) == Len(s) \in Nat /\ s = [i \in 1..Len(s) |-> s[i]]

LEMMA ListedIsSeq ==
    ASSUME NEW s, Listed(s), NEW S, \A i \in 1..Len(s) : s[i] \in S
    PROVE  s \in Seq(S)
  <1>1. s \in [1..Len(s) -> S]
      BY DEF Listed
  <1>2. QED
      BY <1>1 DEF Listed

LEMMA SeqIsListed ==
    ASSUME NEW S, NEW s \in Seq(S)
    PROVE  Listed(s) /\ DOMAIN s = 1..Len(s)
  <1>1. s \in [1..Len(s) -> S] /\ Len(s) \in Nat
      BY LenProperties
  <1>2. QED
      BY <1>1 DEF Listed

LEMMA ListedAppend ==
    ASSUME NEW s, NEW e, Listed(s)
    PROVE  /\ Listed(Append(s, e)) /\ Len(Append(s, e)) = Len(s) + 1
           /\ DOMAIN s = 1..Len(s) /\ DOMAIN Append(s, e) = 1..Len(s) + 1
           /\ \A i \in 1..Len(s) : Append(s, e)[i] = s[i]
           /\ Append(s, e)[Len(s) + 1] = e
  <1> DEFINE S == {s[i] : i \in 1..Len(s)} \cup {e}
  <1>1. \A i \in 1..Len(s) : s[i] \in S
      OBVIOUS
  <1>2. e \in S
      OBVIOUS
  <1> HIDE DEF S
  <1>3. s \in Seq(S)
      BY <1>1, ListedIsSeq
  <1>4. Append(s, e) \in Seq(S)
      BY <1>2, <1>3, AppendProperties
  <1>5. /\ Len(Append(s, e)) = Len(s) + 1
        /\ \A i \in 1..Len(s) : Append(s, e)[i] = s[i]
        /\ Append(s, e)[Len(s) + 1] = e
      BY <1>2, <1>3, AppendProperties
  <1>6. QED
      BY <1>3, <1>4, <1>5, SeqIsListed

LEMMA ListedExcept ==
    ASSUME NEW s, NEW e, Listed(s), NEW d \in 1..Len(s)
    PROVE  /\ Listed([s EXCEPT ![d] = e]) /\ Len([s EXCEPT ![d] = e]) = Len(s)
           /\ DOMAIN s = 1..Len(s) /\ DOMAIN [s EXCEPT ![d] = e] = 1..Len(s)
           /\ [s EXCEPT ![d] = e][d] = e
           /\ \A i \in 1..Len(s) : i # d => [s EXCEPT ![d] = e][i] = s[i]
  <1> DEFINE S == {s[i] : i \in 1..Len(s)} \cup {e}
  <1>1. \A i \in 1..Len(s) : s[i] \in S
      OBVIOUS
  <1>2. e \in S
      OBVIOUS
  <1> HIDE DEF S
  <1>3. s \in Seq(S)
      BY <1>1, ListedIsSeq
  <1>4. [s EXCEPT ![d] = e] \in Seq(S)
      BY <1>2, <1>3, ExceptSeq
  <1>5. /\ Len([s EXCEPT ![d] = e]) = Len(s)
        /\ \A j \in 1..Len(s) : [s EXCEPT ![d] = e][j] = IF j = d THEN e ELSE s[j]
      BY <1>2, <1>3, ExceptSeq
  <1>6. QED
      BY <1>3, <1>4, <1>5, SeqIsListed

-----------------------------------------------------------------------------
(***************************************************************************)
(* The paid evaluation.  A file that was frozen stays as it is,            *)
(* and a directory changes only while its run is the command at work and   *)
(* its status "incomplete", but for its metrics; so what was true of a     *)
(* finished run, or when a run began, still is when it is used.            *)
(***************************************************************************)
Unfrozen == protocol_lock = NoLock

FilesInv ==
    /\ labels \in Nat
    /\ frozen = [copy |-> frozen.copy, lock |-> frozen.lock]
    /\ frozen.copy \in 0..labels
    /\ frozen.lock \in {Absent, frozen.copy}
    /\ Doing("freeze", "read") => frozen.copy = Absent
    /\ Doing("freeze", "copied") => frozen.lock = Absent
    /\ protocol_lock = [files |-> protocol_lock.files, labels |-> protocol_lock.labels]
    /\ ~Unfrozen => protocol_lock.labels = frozen.lock /\ frozen.lock # Absent

(***************************************************************************)
(* The fields of a directory, whatever they hold.                          *)
(***************************************************************************)
PoolShape(r) ==
    r = [kind |-> r.kind, status |-> r.status, under |-> r.under, rows |-> r.rows,
         sessions |-> r.sessions, usable |-> r.usable, calls |-> r.calls,
         metadata |-> r.metadata, metrics |-> r.metrics]

PaidShape(r) ==
    /\ r = [kind |-> r.kind, status |-> r.status, region |-> r.region, protocol |-> r.protocol,
            rows |-> r.rows, started |-> r.started, ledger |-> r.ledger, sent |-> r.sent]
    /\ r.ledger = [attempted |-> r.ledger.attempted, completed |-> r.ledger.completed,
                   failed |-> r.ledger.failed]
    /\ {r.ledger.attempted, r.ledger.completed, r.ledger.failed, r.sent} \subseteq Nat
    /\ Listed(r.rows)

Frozen == [labels |-> frozen.lock, protocol |-> protocol_lock.files]

PoolInv(r) ==
    /\ PoolShape(r)
    /\ ~Unfrozen
    /\ r.under = Frozen
    /\ r.metrics # Unwritten =>
          r.kind = "final" /\ r.status = "complete" /\ r.rows = Cases + Personas /\ r.metrics = Frozen

Errors(r) == {i \in DOMAIN r.rows : r.rows[i].path = "error"}

PaidInv(r) ==
    /\ PaidShape(r)
    /\ r.ledger.completed + r.ledger.failed <= r.ledger.attempted
    /\ r.sent <= r.ledger.attempted
    /\ r.ledger.attempted <= CallLimit(r.kind)
    /\ r.started \in Len(r.rows)..Len(r.rows) + 1
    /\ r.started = Len(r.rows) => Unknown(r.ledger) <= Cardinality(Errors(r))
    /\ Len(r.rows) <= Limit(r.kind)
    /\ r.kind = "latency" => \A i \in 1..Len(r.rows) : r.rows[i].warmup = (i <= Warmups)
    /\ r.kind = "latency" /\ r.status = "complete" => Balanced(r)
    /\ r.kind = "preflight" /\ r.status = "complete" => Len(r.rows) = Limit("preflight")

Cleared(r, region) ==
    /\ r.kind = "preflight" /\ r.status = "complete" /\ r.region = region
    /\ r.ledger.completed = r.ledger.attempted

RunInv(k) ==
    /\ IsPool(runs[k].kind) \/ IsPaid(runs[k].kind)
    /\ IsPool(runs[k].kind) => PoolInv(runs[k])
    /\ IsPaid(runs[k].kind) => PaidInv(runs[k])
    /\ runs[k].kind = "latency" => \E i \in 1..k - 1 : Cleared(runs[i], runs[k].region)

RunsInv == Listed(runs) /\ \A k \in 1..Len(runs) : RunInv(k)

(***************************************************************************)
(* The command at work.                                                    *)
(***************************************************************************)
AtRun(pcs) ==
    /\ doing.pc \in pcs
    /\ doing.run \in 1..Len(runs)

PoolDoing ==
    /\ AtRun({"working", "writing"})
    /\ doing = [name |-> doing.name, pc |-> doing.pc, run |-> doing.run]
    /\ Current.kind = doing.name /\ Current.status = "incomplete" /\ Current.metrics = Unwritten

AggregateDoing ==
    /\ AtRun({"read", "check", "score"})
    /\ doing.pc = "read" => doing = [name |-> doing.name, pc |-> doing.pc, run |-> doing.run]
    /\ doing.pc # "read" => doing = [name |-> doing.name, pc |-> doing.pc, run |-> doing.run,
                                    labels |-> doing.labels]
    /\ Current.kind = "final" /\ Current.status = "complete"
    /\ doing.pc # "read" => doing.labels \in frozen.lock..labels
    /\ doing.pc = "score" => /\ doing.labels = frozen.lock /\ Current.metadata = Frozen
                             /\ Current.rows = Cases + Personas

PaidWork(d, r) ==
    /\ d.pc \in {"working", "call", "sent"}
    /\ d.pc = "working" => d = [name |-> d.name, pc |-> d.pc, run |-> d.run]
    /\ d.pc # "working" => d = [name |-> d.name, pc |-> d.pc, run |-> d.run, job |-> d.job,
                                asking |-> d.asking, retried |-> d.retried]
    /\ r.kind = d.name /\ r.status = "incomplete"
    /\ d.pc = "working" => r.started = Len(r.rows)
    /\ d.pc # "working" => r.started = Len(r.rows) + 1 /\ Len(r.rows) < Limit(r.kind)
    /\ d.pc = "call" => Unknown(r.ledger) <= Cardinality(Errors(r))
    /\ d.pc = "sent" => Unknown(r.ledger) \in 1..Cardinality(Errors(r)) + 1

PaidDoing == doing.run \in 1..Len(runs) /\ PaidWork(doing, Current)

DoingInv ==
    /\ Running("none") => doing = Nothing
    /\ Running("freeze") => doing = [name |-> "freeze", pc |-> doing.pc]
    /\ doing.name \in {"none", "freeze", "pilot", "final", "aggregate", "preflight", "latency"}
    /\ IsPool(doing.name) => PoolDoing
    /\ Running("aggregate") => AggregateDoing
    /\ IsPaid(doing.name) => PaidDoing

PaidIInv == FilesInv /\ RunsInv /\ DoingInv

-----------------------------------------------------------------------------
(***************************************************************************)
(* Directories that a step leaves alone, replaces or adds.                 *)
(***************************************************************************)
LEMMA LeftAlone ==
    ASSUME RunsInv,
           ~Unfrozen => protocol_lock' = protocol_lock /\ frozen'.lock = frozen.lock,
           NEW k \in 1..Len(runs), runs'[k] = runs[k],
           \A i \in 1..Len(runs) : Cleared(runs[i], runs[i].region) => runs'[i] = runs[i]
    PROVE  RunInv(k)'
  <1>1. RunInv(k)
      BY DEF RunsInv
  <1>2. IsPool(runs[k].kind) => PoolInv(runs[k])'
      BY <1>1 DEF RunInv, PoolInv, Unfrozen, Frozen
  <1>3. runs[k].kind = "latency" => \E i \in 1..k - 1 : Cleared(runs'[i], runs'[k].region)
    <2> SUFFICES ASSUME runs[k].kind = "latency"
                 PROVE  \E i \in 1..k - 1 : Cleared(runs'[i], runs'[k].region)
        OBVIOUS
    <2>1. PICK i \in 1..k - 1 : Cleared(runs[i], runs[k].region)
        BY <1>1 DEF RunInv
    <2>2. i \in 1..Len(runs) /\ runs'[i] = runs[i]
        BY <2>1 DEF Cleared, RunsInv, Listed
    <2>3. QED
        BY <2>1, <2>2
  <1>4. IsPaid(runs'[k].kind) => PaidInv(runs'[k])
      BY <1>1 DEF RunInv
  <1>5. QED
      BY <1>1, <1>2, <1>3, <1>4 DEF RunInv

LEMMA LeftAsTheyAre ==
    ASSUME RunsInv, UNCHANGED runs,
           ~Unfrozen => protocol_lock' = protocol_lock /\ frozen'.lock = frozen.lock
    PROVE  RunsInv'
  <1>1. \A k \in 1..Len(runs) : RunInv(k)'
      BY LeftAlone
  <1>2. QED
      BY <1>1 DEF RunsInv

LEMMA Replaced ==
    ASSUME RunsInv, UNCHANGED <<frozen, protocol_lock>>,
           NEW d \in 1..Len(runs), runs[d].kind = "final" \/ runs[d].status = "incomplete",
           NEW r, runs' = [runs EXCEPT ![d] = r],
           r.kind = runs[d].kind,
           IsPool(r.kind) => PoolInv(r),
           IsPaid(r.kind) => PaidInv(r) /\ r.region = runs[d].region
    PROVE  RunsInv' /\ Len(runs') = Len(runs) /\ runs'[d] = r
  <1>1. /\ Listed(runs') /\ Len(runs') = Len(runs) /\ runs'[d] = r
        /\ \A i \in 1..Len(runs) : i # d => runs'[i] = runs[i]
      BY ListedExcept DEF RunsInv
  <1>2. \A i \in 1..Len(runs) : Cleared(runs[i], runs[i].region) => runs'[i] = runs[i]
      BY <1>1 DEF Cleared
  <1>3. \A k \in 1..Len(runs) : k # d => RunInv(k)'
      BY <1>1, <1>2, LeftAlone
  <1>4. RunInv(d)'
    <2>1. RunInv(d)
        BY DEF RunsInv
    <2>2. IsPool(r.kind) => PoolInv(r)'
        BY DEF PoolInv, Unfrozen, Frozen
    <2>3. r.kind = "latency" => \E i \in 1..d - 1 : Cleared(runs'[i], r.region)
      <3> SUFFICES ASSUME r.kind = "latency"
                   PROVE  \E i \in 1..d - 1 : Cleared(runs'[i], r.region)
          OBVIOUS
      <3>1. PICK i \in 1..d - 1 : Cleared(runs[i], runs[d].region)
          BY <2>1 DEF RunInv
      <3>2. i \in 1..Len(runs) /\ runs'[i] = runs[i]
          BY <1>2, <3>1 DEF Cleared, RunsInv, Listed
      <3>3. r.region = runs[d].region
          BY DEF IsPaid
      <3>4. QED
          BY <3>1, <3>2, <3>3
    <2>4. QED
        BY <1>1, <2>1, <2>2, <2>3 DEF RunInv
  <1>5. QED
      BY <1>1, <1>3, <1>4 DEF RunsInv

LEMMA Added ==
    ASSUME RunsInv, UNCHANGED <<frozen, protocol_lock>>,
           NEW r, runs' = Append(runs, r),
           IsPool(r.kind) \/ IsPaid(r.kind),
           IsPool(r.kind) => PoolInv(r),
           IsPaid(r.kind) => PaidInv(r),
           r.kind = "latency" => \E i \in 1..Len(runs) : Cleared(runs[i], r.region)
    PROVE  RunsInv' /\ Len(runs') = Len(runs) + 1 /\ runs'[Len(runs) + 1] = r
  <1>1. /\ Listed(runs') /\ Len(runs') = Len(runs) + 1 /\ runs'[Len(runs) + 1] = r
        /\ \A i \in 1..Len(runs) : runs'[i] = runs[i]
        /\ Len(runs) \in Nat
      BY ListedAppend DEF RunsInv, Listed
  <1>2. \A k \in 1..Len(runs) : RunInv(k)'
      BY <1>1, LeftAlone
  <1>3. ASSUME NEW k \in Nat, k = Len(runs) + 1 PROVE RunInv(k)'
    <2>1. IsPool(r.kind) => PoolInv(r)'
        BY DEF PoolInv, Unfrozen, Frozen
    <2>2. r.kind = "latency" => \E i \in 1..k - 1 : Cleared(runs'[i], r.region)
        BY <1>1, <1>3
    <2>3. runs'[k] = r
        BY <1>1, <1>3
    <2>4. QED
        BY <2>1, <2>2, <2>3 DEF RunInv
  <1>4. \A k \in 1..Len(runs') : k \in 1..Len(runs) \/ (k \in Nat /\ k = Len(runs) + 1)
      BY <1>1
  <1>5. QED
      BY <1>1, <1>2, <1>3, <1>4 DEF RunsInv

-----------------------------------------------------------------------------
(***************************************************************************)
(* The steps that leave the directories alone.                             *)
(***************************************************************************)
LEMMA FirstVersion ==
    ASSUME PaidAssumption
    PROVE  Min(Versions) \in Versions
  <1> DEFINE upto == {1..v : v \in Versions}
  <1>1. Versions \subseteq Nat /\ Versions # {}
      BY DEF PaidAssumption
  <1>2. upto # {} /\ upto \subseteq FiniteSubsetsOf(Nat)
    <2>1. \A v \in Versions : IsFiniteSet(1..v) /\ 1..v \in SUBSET Nat
        BY <1>1, FS_Interval
    <2>2. QED
        BY <1>1, <2>1 DEF FiniteSubsetsOf
  <1>3. PICK least \in upto : \A other \in upto : ~(<<other, least>> \in StrictSubsetOrdering(Nat))
    <2> HIDE DEF upto
    <2>1. QED
        BY <1>2, FS_StrictSubsetOrderingWellFounded, WFMin
  <1>4. PICK x \in Versions : least = 1..x
      BY <1>3
  <1>5. ASSUME NEW y \in Versions PROVE x <= y
    <2>1. ~(<<1..y, 1..x>> \in StrictSubsetOrdering(Nat))
        BY <1>3, <1>4
    <2>2. SUFFICES ASSUME y < x PROVE FALSE
        BY <1>1
    <2>3. 1..y \subseteq 1..x /\ x \in 1..x /\ ~(x \in 1..y)
        BY <1>1, <2>2
    <2>4. 1..y \in SUBSET Nat /\ 1..x \in SUBSET Nat /\ 1..y # 1..x
        BY <1>1, <2>3, SMTT(60)
    <2>5. QED
        BY <2>1, <2>3, <2>4 DEF StrictSubsetOrdering
  <1>6. QED
      BY <1>5 DEF Min

LEMMA PeopleKeep ==
    ASSUME PaidAssumption, PaidIInv, People
    PROVE  PaidIInv'
  <1>1. UNCHANGED <<frozen, protocol_lock, runs, doing>>
      BY DEF People, ExportLabels, EditLabels, EditProtocol
  <1>2. labels' \in Nat /\ labels <= labels'
      BY FirstVersion DEF PaidIInv, FilesInv, PaidAssumption, People, ExportLabels, EditLabels,
         EditProtocol, Absent, BlankLabels
  <1>3. RunsInv'
      BY <1>1, LeftAsTheyAre DEF PaidIInv
  <1>4. FilesInv'
      BY <1>1, <1>2 DEF PaidIInv, FilesInv, Doing, Running, Unfrozen, Absent
  <1>5. IsPool(doing.name) => PoolDoing'
      BY <1>1 DEF PaidIInv, DoingInv, PoolDoing, AtRun, Current
  <1>6. IsPaid(doing.name) => PaidDoing'
      BY <1>1 DEF PaidIInv, DoingInv, PaidDoing, Current
  <1>7. Running("aggregate") => AggregateDoing'
    <2>1. frozen.lock \in Nat /\ labels \in Nat
        BY DEF PaidIInv, FilesInv, Absent
    <2>2. QED
        BY <1>1, <1>2, <2>1, SMTT(60) DEF PaidIInv, DoingInv, AggregateDoing, AtRun, Current, Frozen, Running
  <1>8. QED
      BY <1>1, <1>3, <1>4, <1>5, <1>6, <1>7 DEF PaidIInv, DoingInv, Running

LEMMA FreezingKeeps ==
    ASSUME PaidIInv, FreezeLabels \/ CopyLabels \/ LockLabels \/ FreezeProtocol \/ Die
    PROVE  PaidIInv'
  <1> USE DEF PaidIInv, FilesInv, DoingInv, Unfrozen, Running, Doing, Absent, Nothing, NoLock, IsPool, IsPaid
  <1>1. CASE FreezeLabels
    <2>1. RunsInv'
        BY <1>1, LeftAsTheyAre DEF FreezeLabels
    <2>2. QED
        BY <1>1, <2>1 DEF FreezeLabels
  <1>2. CASE CopyLabels
    <2>1. Unfrozen
        BY <1>2 DEF CopyLabels
    <2>2. RunsInv'
        BY <1>2, <2>1, LeftAsTheyAre DEF CopyLabels
    <2>3. QED
        BY <1>2, <2>1, <2>2 DEF CopyLabels
  <1>3. CASE LockLabels
    <2>1. Unfrozen
        BY <1>3 DEF LockLabels
    <2>2. RunsInv'
        BY <1>3, <2>1, LeftAsTheyAre DEF LockLabels
    <2>3. QED
        BY <1>3, <2>1, <2>2 DEF LockLabels
  <1>4. CASE FreezeProtocol
    <2>1. RunsInv'
        BY <1>4, LeftAsTheyAre DEF FreezeProtocol
    <2>2. QED
        BY <1>4, <2>1 DEF FreezeProtocol, RequireFrozenLabels, LabelsUnchanged
  <1>5. CASE Die
    <2>1. RunsInv'
        BY <1>5, LeftAsTheyAre DEF Die
    <2>2. QED
        BY <1>5, <2>1 DEF Die
  <1>6. QED
      BY <1>1, <1>2, <1>3, <1>4, <1>5

LEMMA AggregatingKeeps ==
    ASSUME PaidIInv,
           \/ \E run \in DOMAIN runs : BeginAggregate(run)
           \/ ReadLabels \/ CheckMetadata
    PROVE  PaidIInv'
  <1>1. UNCHANGED <<labels, frozen, protocol_lock, runs>>
      BY DEF BeginAggregate, ReadLabels, CheckMetadata
  <1>2. RunsInv' /\ FilesInv'
    <2>1. doing'.name = "aggregate"
        BY DEF BeginAggregate, ReadLabels, CheckMetadata, PaidIInv, DoingInv, AggregateDoing, Doing,
           Running
    <2>2. QED
        BY <1>1, <2>1, LeftAsTheyAre DEF PaidIInv, FilesInv, Unfrozen, Doing, Running
  <1>3. frozen.lock \in 0..labels /\ labels \in Nat /\ DOMAIN runs = 1..Len(runs)
      BY ListedExcept DEF PaidIInv, FilesInv, Absent, RunsInv, Listed
  <1> SUFFICES AggregateDoing' /\ doing'.name = "aggregate"
      BY <1>2 DEF PaidIInv, DoingInv, Running, IsPool, IsPaid
  <1>4. CASE \E run \in DOMAIN runs : BeginAggregate(run)
      BY <1>1, <1>3, <1>4 DEF BeginAggregate, AggregateDoing, AtRun, Current
  <1>5. CASE ReadLabels
      BY <1>1, <1>3, <1>5 DEF ReadLabels, Doing, Running, PaidIInv, DoingInv, AggregateDoing, AtRun,
         Current
  <1>6. CASE CheckMetadata
    <2>1. /\ AggregateDoing /\ doing.pc = "check" /\ doing.name = "aggregate"
        BY <1>6 DEF CheckMetadata, Doing, Running, PaidIInv, DoingInv
    <2>2. labels = frozen.lock
        BY <1>6 DEF CheckMetadata, RequireFrozenProtocol, PaidIInv, FilesInv, Unfrozen
    <2>3. doing.labels = frozen.lock
        BY <1>3, <2>1, <2>2 DEF AggregateDoing
    <2>4. doing' = [doing EXCEPT !.pc = "score"]
        BY <1>6 DEF CheckMetadata
    <2>5. /\ doing' = [name |-> doing.name, pc |-> "score", run |-> doing.run, labels |-> doing.labels]
        BY <2>1, <2>4 DEF AggregateDoing
    <2>6. Current.metadata = Frozen /\ Current.rows = Cases + Personas
        BY <1>6, <2>2 DEF CheckMetadata, Frozen
    <2>7. QED
        BY <1>1, <1>3, <2>1, <2>2, <2>3, <2>5, <2>6 DEF AggregateDoing, AtRun, Current, Frozen
  <1>7. QED
      BY <1>4, <1>5, <1>6

-----------------------------------------------------------------------------
(***************************************************************************)
(* A run of a pool.                                                        *)
(***************************************************************************)
LEMMA FilesStay ==
    ASSUME FilesInv, UNCHANGED <<labels, frozen, protocol_lock>>, doing'.name # "freeze"
    PROVE  FilesInv'
BY DEF FilesInv, Unfrozen, Doing, Running

LEMMA BeginRunKeeps ==
    ASSUME PaidIInv, NEW pool \in {"pilot", "final"}, BeginRun(pool)
    PROVE  PaidIInv'
  <1> DEFINE r == [kind |-> pool, status |-> "incomplete", under |-> Settings,
                   rows |-> 0, sessions |-> 0, usable |-> 0, calls |-> 0,
                   metadata |-> Unwritten, metrics |-> Unwritten]
  <1>1. /\ runs' = Append(runs, r)
        /\ doing' = [name |-> pool, pc |-> "working", run |-> Len(runs) + 1]
        /\ UNCHANGED <<labels, frozen, protocol, protocol_lock>>
      BY DEF BeginRun, Begin
  <1>2. ~Unfrozen /\ Settings = Frozen
      BY DEF BeginRun, RequireFrozenProtocol, Unfrozen, PaidIInv, FilesInv, Settings, Frozen
  <1>3. PoolInv(r)
      BY <1>2 DEF PoolInv, PoolShape
  <1>4. r.kind = pool
      OBVIOUS
  <1>5. r.status = "incomplete" /\ r.metrics = Unwritten
      OBVIOUS
  <1> HIDE DEF r
  <1>6. RunsInv' /\ Len(runs') = Len(runs) + 1 /\ runs'[Len(runs) + 1] = r
      BY <1>1, <1>3, <1>4, Added DEF PaidIInv, IsPool, IsPaid
  <1>7. FilesInv'
      BY <1>1, FilesStay DEF PaidIInv
  <1>8. Len(runs) \in Nat
      BY DEF PaidIInv, RunsInv, Listed
  <1>9. PoolDoing'
      BY <1>1, <1>4, <1>5, <1>6, <1>8 DEF PoolDoing, AtRun, Current
  <1>10. QED
      BY <1>1, <1>6, <1>7, <1>9 DEF PaidIInv, DoingInv, Running, IsPool, IsPaid

LEMMA PoolStep ==
    ASSUME PaidIInv, ~Running("none"), IsPool(doing.name),
           UNCHANGED <<labels, frozen, protocol_lock>>,
           NEW r, runs' = [runs EXCEPT ![doing.run] = r],
           r.kind = Current.kind, r.metrics = Unwritten, PoolShape(r), r.under = Current.under,
           \/ /\ doing' = doing /\ r.status = "incomplete" /\ doing.pc = "working"
           \/ doing' = [doing EXCEPT !.pc = "writing"] /\ r.status = "incomplete"
           \/ doing' = Nothing
    PROVE  PaidIInv'
  <1>1. /\ PoolDoing /\ doing.run \in 1..Len(runs) /\ IsPool(Current.kind) /\ ~IsPaid(Current.kind)
        /\ Current.status = "incomplete"
      BY DEF PaidIInv, DoingInv, PoolDoing, AtRun, IsPool, IsPaid
  <1>2. PoolInv(Current)
      BY <1>1 DEF PaidIInv, RunsInv, RunInv, Current
  <1>3. PoolInv(r)
      BY <1>2 DEF PoolInv
  <1>4. RunsInv' /\ Len(runs') = Len(runs) /\ runs'[doing.run] = r
      BY <1>1, <1>3, Replaced DEF PaidIInv, Current
  <1>5. doing'.name # "freeze"
      BY <1>1 DEF PoolDoing, IsPool, Nothing
  <1>6. FilesInv'
      BY <1>5, FilesStay DEF PaidIInv
  <1>7. CASE doing' = Nothing
      BY <1>4, <1>6, <1>7 DEF PaidIInv, DoingInv, Running, IsPool, IsPaid, Nothing
  <1>8. CASE doing' = doing /\ r.status = "incomplete" /\ doing.pc = "working"
    <2>1. PoolDoing'
        BY <1>1, <1>4, <1>8 DEF PoolDoing, AtRun, Current
    <2>2. QED
        BY <1>4, <1>6, <1>8, <2>1 DEF PaidIInv, DoingInv, Running, IsPool, IsPaid
  <1>9. CASE doing' = [doing EXCEPT !.pc = "writing"] /\ r.status = "incomplete"
    <2>1. doing' = [name |-> doing.name, pc |-> "writing", run |-> doing.run]
        BY <1>1, <1>9 DEF PoolDoing
    <2>2. PoolDoing'
        BY <1>1, <1>4, <1>9, <2>1 DEF PoolDoing, AtRun, Current
    <2>3. QED
        BY <1>4, <1>6, <2>1, <2>2 DEF PaidIInv, DoingInv, Running, IsPool, IsPaid
  <1>10. QED
      BY <1>7, <1>8, <1>9

LEMMA PoolKeeps ==
    ASSUME PaidIInv,
           \/ SaveRow \/ \E advanced \in BOOLEAN : SaveSession(advanced)
           \/ FailRun \/ WriteMetadata \/ CompleteRun
    PROVE  PaidIInv'
  <1>1. /\ ~Running("none") /\ IsPool(doing.name) /\ PoolDoing
        /\ UNCHANGED <<labels, frozen, protocol_lock>>
      BY DEF SaveRow, SaveSession, FailRun, WriteMetadata, CompleteRun, RunAt, PaidIInv, DoingInv
  <1>2. /\ PoolShape(Current) /\ Listed(runs) /\ doing.run \in 1..Len(runs)
        /\ Current.status = "incomplete" /\ Current.metrics = Unwritten
      BY <1>1 DEF PoolDoing, AtRun, PaidIInv, RunsInv, RunInv, Current, IsPool, PoolInv
  <1>3. CASE SaveRow
    <2>0. PICK r : r = [Current EXCEPT !.rows = @ + 1, !.calls = @ + 1]
        OBVIOUS
    <2>1. runs' = [runs EXCEPT ![doing.run] = r]
        BY <1>2, <1>3, <2>0 DEF SaveRow, Current
    <2>2. /\ r.kind = Current.kind /\ r.metrics = Unwritten /\ PoolShape(r)
          /\ r.under = Current.under /\ r.status = "incomplete"
      <3>1. r = [kind |-> Current.kind, status |-> Current.status, under |-> Current.under,
                 rows |-> Current.rows + 1, sessions |-> Current.sessions,
                 usable |-> Current.usable, calls |-> Current.calls + 1,
                 metadata |-> Current.metadata, metrics |-> Current.metrics]
          BY <1>2, <2>0 DEF PoolShape
      <3>2. QED
          BY <1>2, <3>1 DEF PoolShape
    <2>3. doing' = doing /\ doing.pc = "working"
        BY <1>3 DEF SaveRow, RunAt
    <2>4. QED
        BY <1>1, <2>1, <2>2, <2>3, PoolStep
  <1>4. CASE \E advanced \in BOOLEAN : SaveSession(advanced)
    <2>1. PICK advanced \in BOOLEAN : SaveSession(advanced)
        BY <1>4
    <2>0. PICK r : r = [Current EXCEPT !.sessions = @ + 1, !.calls = @ + 1,
                          !.usable = IF advanced /\ Current.sessions >= Warmups THEN @ + 1 ELSE @]
        OBVIOUS
    <2>2. runs' = [runs EXCEPT ![doing.run] = r]
        BY <1>2, <2>0, <2>1 DEF SaveSession, Current
    <2>3. /\ r.kind = Current.kind /\ r.metrics = Unwritten /\ PoolShape(r)
          /\ r.under = Current.under /\ r.status = "incomplete"
      <3>1. r = [kind |-> Current.kind, status |-> Current.status, under |-> Current.under,
                 rows |-> Current.rows, sessions |-> Current.sessions + 1, usable |-> r.usable,
                 calls |-> Current.calls + 1,
                 metadata |-> Current.metadata, metrics |-> Current.metrics]
          BY <1>2, <2>0 DEF PoolShape
      <3>2. QED
          BY <1>2, <3>1 DEF PoolShape
    <2>4. doing' = doing /\ doing.pc = "working"
        BY <2>1 DEF SaveSession, RunAt
    <2>5. QED
        BY <1>1, <2>2, <2>3, <2>4, PoolStep
  <1>5. CASE FailRun
    <2> DEFINE r == [Current EXCEPT !.status = "failed"]
    <2>1. runs' = [runs EXCEPT ![doing.run] = r] /\ doing' = Nothing
        BY <1>2, <1>5 DEF FailRun, Current
    <2>2. /\ r.kind = Current.kind /\ r.metrics = Unwritten /\ PoolShape(r)
          /\ r.under = Current.under
        BY <1>2 DEF PoolShape
    <2> HIDE DEF r
    <2>3. QED
        BY <1>1, <2>1, <2>2, PoolStep
  <1>6. CASE WriteMetadata
    <2> DEFINE m == [Settings EXCEPT !.labels = IF Running("final") THEN @ ELSE Absent]
               r == [Current EXCEPT !.metadata = m]
    <2>1. runs' = [runs EXCEPT ![doing.run] = r] /\ doing' = [doing EXCEPT !.pc = "writing"]
        BY <1>2, <1>6 DEF WriteMetadata, Current
    <2> HIDE DEF m
    <2>2. /\ r.kind = Current.kind /\ r.metrics = Unwritten /\ PoolShape(r)
          /\ r.under = Current.under /\ r.status = "incomplete"
        BY <1>2 DEF PoolShape
    <2> HIDE DEF r
    <2>3. QED
        BY <1>1, <2>1, <2>2, PoolStep
  <1>7. CASE CompleteRun
    <2> DEFINE r == [Current EXCEPT !.status = "complete"]
    <2>1. runs' = [runs EXCEPT ![doing.run] = r] /\ doing' = Nothing
        BY <1>2, <1>7 DEF CompleteRun, Current
    <2>2. /\ r.kind = Current.kind /\ r.metrics = Unwritten /\ PoolShape(r)
          /\ r.under = Current.under
        BY <1>2 DEF PoolShape
    <2> HIDE DEF r
    <2>3. QED
        BY <1>1, <2>1, <2>2, PoolStep
  <1>8. QED
      BY <1>3, <1>4, <1>5, <1>6, <1>7

LEMMA WriteMetricsKeeps ==
    ASSUME PaidIInv, WriteMetrics
    PROVE  PaidIInv'
  <1>1. /\ AggregateDoing /\ doing.pc = "score" /\ doing.run \in 1..Len(runs)
        /\ Current.kind = "final" /\ Current.status = "complete"
        /\ Current.rows = Cases + Personas /\ Current.metadata = Frozen
        /\ doing.labels = frozen.lock
        /\ UNCHANGED <<labels, frozen, protocol_lock>> /\ doing' = Nothing
      BY DEF WriteMetrics, Doing, Running, PaidIInv, DoingInv, AggregateDoing, AtRun
  <1>2. PoolInv(Current) /\ Listed(runs)
      BY <1>1 DEF PaidIInv, RunsInv, RunInv, IsPool, Current
  <1>3. PICK r : r = [Current EXCEPT !.metrics = Frozen]
      OBVIOUS
  <1>4. [labels |-> LabelsScored, protocol |-> Current.metadata.protocol] = Frozen
      BY <1>1 DEF LabelsScored, Frozen
  <1>5. runs' = [runs EXCEPT ![doing.run] = r]
      BY <1>2, <1>3, <1>4 DEF WriteMetrics, Current
  <1>6. /\ PoolShape(r) /\ r.kind = "final" /\ r.status = "complete" /\ r.metrics = Frozen
        /\ r.under = Current.under /\ r.rows = Cases + Personas
      BY <1>1, <1>2, <1>3 DEF PoolShape, PoolInv
  <1>7. PoolInv(r)
      BY <1>2, <1>6 DEF PoolInv
  <1>8. RunsInv'
      BY <1>1, <1>5, <1>6, <1>7, Replaced DEF PaidIInv, Current, IsPool, IsPaid
  <1>9. FilesInv'
      BY <1>1, FilesStay DEF PaidIInv, Nothing
  <1>10. QED
      BY <1>1, <1>8, <1>9 DEF PaidIInv, DoingInv, Running, IsPool, IsPaid, Nothing

-----------------------------------------------------------------------------
(***************************************************************************)
(* A paid run.                                                             *)
(***************************************************************************)
LEMMA Limits ==
    ASSUME PaidAssumption, NEW kind
    PROVE  Limit(kind) \in Nat /\ CallLimit(kind) \in Nat
  <1>1. {Jobs, PerJob, MaxRequests, MaxCalls, PreflightCalls} \subseteq Nat
      BY DEF PaidAssumption
  <1>2. Jobs * PerJob \in Nat
      BY <1>1
  <1>3. QED
      BY <1>1, <1>2 DEF Limit, CallLimit

LEMMA BeginPaidKeeps ==
    ASSUME PaidAssumption, PaidIInv,
           NEW phase \in {"preflight", "latency"}, NEW region \in Regions, BeginPaid(phase, region)
    PROVE  PaidIInv'
  <1>1. PICK r : r = [kind |-> phase, status |-> "incomplete", region |-> region,
                      protocol |-> protocol, rows |-> <<>>, started |-> 0,
                      ledger |-> EmptyLedger, sent |-> 0]
      OBVIOUS
  <1>2. /\ runs' = Append(runs, r)
        /\ doing' = [name |-> phase, pc |-> "working", run |-> Len(runs) + 1]
        /\ UNCHANGED <<labels, frozen, protocol, protocol_lock>>
      BY <1>1 DEF BeginPaid, Begin
  <1>3. PaidInv(r)
    <2>1. Listed(<<>>) /\ Len(<<>>) = 0
        BY DEF Listed
    <2>2. PaidShape(r)
        BY <1>1, <2>1 DEF PaidShape, EmptyLedger
    <2>3. Errors(r) = {} /\ Cardinality(Errors(r)) = 0
        BY <1>1, FS_EmptySet DEF Errors
    <2>4. QED
        BY <1>1, <2>1, <2>2, <2>3, Limits DEF PaidInv, EmptyLedger, Unknown
  <1>4. phase = "latency" => \E i \in 1..Len(runs) : Cleared(runs[i], region)
    <2>1. SUFFICES ASSUME phase = "latency" PROVE \E i \in 1..Len(runs) : Cleared(runs[i], region)
        OBVIOUS
    <2>2. PICK i \in DOMAIN runs : CleanPreflight(runs[i], region)
        BY <2>1 DEF BeginPaid, RequireSuccessfulPreflight
    <2>3. i \in 1..Len(runs)
        BY <2>2, ListedExcept DEF PaidIInv, RunsInv, Listed
    <2>4. QED
        BY <2>2, <2>3 DEF CleanPreflight, Cleared
  <1>5. RunsInv' /\ Len(runs') = Len(runs) + 1 /\ runs'[Len(runs) + 1] = r
      BY <1>1, <1>2, <1>3, <1>4, Added DEF PaidIInv, IsPool, IsPaid
  <1>6. FilesInv'
      BY <1>2, FilesStay DEF PaidIInv
  <1>7. Len(runs) \in Nat
      BY DEF PaidIInv, RunsInv, Listed
  <1>8. PaidDoing'
    <2>1. PaidWork(doing', r)
        BY <1>1, <1>2 DEF PaidWork
    <2>2. QED
        BY <1>2, <1>5, <1>7, <2>1, SMTT(60) DEF PaidDoing, Current
  <1>9. QED
      BY <1>2, <1>5, <1>6, <1>8 DEF PaidIInv, DoingInv, Running, IsPool, IsPaid

LEMMA AtWork ==
    ASSUME PaidIInv, IsPaid(doing.name)
    PROVE  /\ doing.run \in 1..Len(runs) /\ Listed(runs) /\ PaidWork(doing, Current)
           /\ IsPaid(Current.kind) /\ Current.kind = doing.name /\ PaidInv(Current)
           /\ Current.status = "incomplete"
  <1>1. PaidDoing
      BY DEF PaidIInv, DoingInv
  <1>2. Current.kind = doing.name /\ Current.status = "incomplete"
      BY <1>1 DEF PaidDoing, PaidWork
  <1>3. RunInv(doing.run)
      BY <1>1 DEF PaidDoing, PaidIInv, RunsInv
  <1>4. QED
      BY <1>1, <1>2, <1>3 DEF PaidDoing, RunInv, PaidIInv, RunsInv, Current

LEMMA PaidStep ==
    ASSUME PaidIInv, IsPaid(doing.name), UNCHANGED <<labels, frozen, protocol_lock>>,
           NEW r, runs' = [runs EXCEPT ![doing.run] = r],
           PaidInv(r), r.kind = Current.kind, r.region = Current.region,
           \/ doing' = Nothing
           \/ doing'.name = doing.name /\ doing'.run = doing.run /\ PaidWork(doing', r)
    PROVE  PaidIInv'
  <1>1. /\ doing.run \in 1..Len(runs) /\ IsPaid(Current.kind) /\ ~IsPool(Current.kind)
        /\ Current.status = "incomplete" /\ Current.kind = doing.name
      BY AtWork DEF IsPaid, IsPool
  <1>2. RunsInv' /\ Len(runs') = Len(runs) /\ runs'[doing.run] = r
      BY <1>1, Replaced DEF PaidIInv, Current
  <1>3. FilesInv'
      BY <1>1, FilesStay DEF PaidIInv, Nothing, IsPaid
  <1>4. CASE doing' = Nothing
      BY <1>2, <1>3, <1>4 DEF PaidIInv, DoingInv, Running, IsPool, IsPaid, Nothing
  <1>5. CASE doing'.name = doing.name /\ doing'.run = doing.run /\ PaidWork(doing', r)
    <2>1. PaidDoing'
        BY <1>1, <1>2, <1>5 DEF PaidDoing, Current
    <2>2. QED
        BY <1>1, <1>2, <1>3, <1>5, <2>1 DEF PaidIInv, DoingInv, Running, IsPool, IsPaid
  <1>6. QED
      BY <1>4, <1>5

(***************************************************************************)
(* A new ledger.                                                           *)
(***************************************************************************)
LedgerOf(r, ledger) ==
    /\ ledger = [attempted |-> ledger.attempted, completed |-> ledger.completed,
                 failed |-> ledger.failed]
    /\ {ledger.attempted, ledger.completed, ledger.failed} \subseteq Nat
    /\ ledger.completed + ledger.failed <= ledger.attempted
    /\ r.sent <= ledger.attempted
    /\ ledger.attempted <= CallLimit(r.kind)

LEMMA ErrorsFinite ==
    ASSUME NEW r, Listed(r.rows)
    PROVE  IsFiniteSet(Errors(r)) /\ Cardinality(Errors(r)) \in Nat
           /\ Errors(r) = {i \in 1..Len(r.rows) : r.rows[i].path = "error"}
  <1>1. DOMAIN r.rows = 1..Len(r.rows) /\ Len(r.rows) \in Nat
      BY ListedAppend DEF Listed
  <1>2. IsFiniteSet(1..Len(r.rows))
      BY <1>1, FS_Interval
  <1>3. Errors(r) = {i \in 1..Len(r.rows) : r.rows[i].path = "error"}
      BY <1>1 DEF Errors
  <1>4. IsFiniteSet(Errors(r))
      BY <1>2, <1>3, FS_Subset
  <1>5. QED
      BY <1>3, <1>4, FS_CardinalityType

LEMMA SettledLedger ==
    ASSUME PaidAssumption, PaidIInv, PaidAt("sent"), NEW outcome \in Outcomes
    PROVE  /\ LedgerOf(Current, Settled(Current.ledger, outcome))
           /\ outcome # "no_usage" =>
                Unknown(Settled(Current.ledger, outcome)) = Unknown(Current.ledger) - 1
           /\ outcome = "no_usage" =>
                Unknown(Settled(Current.ledger, outcome)) = Unknown(Current.ledger)
  <1> DEFINE before == Current.ledger
             after == Settled(before, outcome)
  <1>1. /\ PaidShape(Current) /\ Unknown(before) >= 1
        /\ Current.sent <= before.attempted /\ before.attempted <= CallLimit(Current.kind)
    <2>1. PaidWork(doing, Current) /\ PaidInv(Current) /\ doing.pc = "sent"
        BY AtWork DEF PaidAt
    <2>2. Cardinality(Errors(Current)) \in Nat
        BY <2>1, ErrorsFinite DEF PaidInv, PaidShape
    <2>3. QED
        BY <2>1, <2>2 DEF PaidWork, PaidInv
  <1>2. /\ before = [attempted |-> before.attempted, completed |-> before.completed,
                     failed |-> before.failed]
        /\ before.attempted \in Nat /\ before.completed \in Nat /\ before.failed \in Nat
        /\ before.attempted - before.completed - before.failed >= 1
      BY <1>1 DEF PaidShape, Unknown
  <1>3. CASE outcome = "completed"
    <2>1. after = [attempted |-> before.attempted, completed |-> before.completed + 1,
                   failed |-> before.failed]
        BY <1>2, <1>3 DEF Settled
    <2>2. QED
        BY <1>1, <1>2, <1>3, <2>1 DEF LedgerOf, Unknown
  <1>4. CASE outcome = "failed"
    <2>1. after = [attempted |-> before.attempted, completed |-> before.completed,
                   failed |-> before.failed + 1]
        BY <1>2, <1>4 DEF Settled
    <2>2. QED
        BY <1>1, <1>2, <1>4, <2>1 DEF LedgerOf, Unknown
  <1>5. CASE outcome = "no_usage"
    <2>1. after = before
        BY <1>5 DEF Settled
    <2>2. QED
        BY <1>1, <1>2, <1>5, <2>1 DEF LedgerOf, Unknown
  <1>6. QED
      BY <1>3, <1>4, <1>5 DEF Outcomes

LEMMA StartRequestKeeps ==
    ASSUME PaidAssumption, PaidIInv, StartRequest
    PROVE  PaidIInv'
  <1>1. /\ IsPaid(doing.name) /\ doing.pc = "working" /\ MoreToDo(Current)
        /\ UNCHANGED <<labels, frozen, protocol_lock>>
      BY DEF StartRequest, PaidAt
  <1>2. /\ doing.run \in 1..Len(runs) /\ Listed(runs) /\ PaidWork(doing, Current)
        /\ Current.kind = doing.name /\ PaidInv(Current) /\ Current.status = "incomplete"
      BY <1>1, AtWork
  <1>3. PICK r : r = [Current EXCEPT !.started = @ + 1]
      OBVIOUS
  <1>4. runs' = [runs EXCEPT ![doing.run] = r]
      BY <1>2, <1>3 DEF StartRequest, Current
  <1>5. r = [kind |-> Current.kind, status |-> Current.status, region |-> Current.region,
             protocol |-> Current.protocol, rows |-> Current.rows,
             started |-> Current.started + 1, ledger |-> Current.ledger, sent |-> Current.sent]
      BY <1>2, <1>3 DEF PaidInv, PaidShape
  <1>6. Current.started = Len(Current.rows) /\ Len(Current.rows) \in Nat
        /\ Len(Current.rows) < Limit(Current.kind) /\ Limit(Current.kind) \in Nat
      BY <1>1, <1>2, Limits DEF PaidWork, PaidInv, PaidShape, Listed, MoreToDo
  <1>7. PaidShape(r)
      BY <1>2, <1>5 DEF PaidInv, PaidShape
  <1>8. PaidInv(r)
      BY <1>2, <1>5, <1>6, <1>7 DEF PaidInv
  <1>9. PaidWork(doing', r)
    <2>1. Errors(r) = Errors(Current)
        BY <1>5 DEF Errors
    <2>2. Unknown(Current.ledger) <= Cardinality(Errors(Current))
        BY <1>2, <1>6 DEF PaidInv
    <2>3. QED
        BY <1>2, <1>5, <1>6, <2>1, <2>2 DEF StartRequest, PaidWork
  <1>10. QED
      BY <1>1, <1>2, <1>4, <1>5, <1>8, <1>9, PaidStep DEF StartRequest
LEMMA StartedRow ==
    ASSUME NEW l, l = [attempted |-> l.attempted, completed |-> l.completed, failed |-> l.failed]
    PROVE  StartRow(l) = [attempted |-> l.attempted + 1, completed |-> l.completed,
                          failed |-> l.failed]
  <1>1. PICK m : m = [l EXCEPT !.attempted = @ + 1]
      OBVIOUS
  <1>2. m = [attempted |-> l.attempted + 1, completed |-> l.completed, failed |-> l.failed]
      BY <1>1
  <1>3. QED
      BY <1>1, <1>2 DEF StartRow

LEMMA RunWithLedger ==
    ASSUME NEW r, PaidShape(r), NEW l, NEW n
    PROVE  /\ [r EXCEPT !.ledger = l] =
                 [kind |-> r.kind, status |-> r.status, region |-> r.region,
                  protocol |-> r.protocol, rows |-> r.rows, started |-> r.started,
                  ledger |-> l, sent |-> r.sent]
           /\ [r EXCEPT !.ledger = l, !.sent = n] =
                 [kind |-> r.kind, status |-> r.status, region |-> r.region,
                  protocol |-> r.protocol, rows |-> r.rows, started |-> r.started,
                  ledger |-> l, sent |-> n]
  <1>1. PICK q : q = [r EXCEPT !.ledger = l]
      OBVIOUS
  <1>2. PICK p : p = [r EXCEPT !.ledger = l, !.sent = n]
      OBVIOUS
  <1>3. r = [kind |-> r.kind, status |-> r.status, region |-> r.region, protocol |-> r.protocol,
             rows |-> r.rows, started |-> r.started, ledger |-> r.ledger, sent |-> r.sent]
      BY DEF PaidShape
  <1>4. q = [kind |-> r.kind, status |-> r.status, region |-> r.region, protocol |-> r.protocol,
             rows |-> r.rows, started |-> r.started, ledger |-> l, sent |-> r.sent]
      BY <1>1, <1>3
  <1>5. p = [kind |-> r.kind, status |-> r.status, region |-> r.region, protocol |-> r.protocol,
             rows |-> r.rows, started |-> r.started, ledger |-> l, sent |-> n]
      BY <1>2, <1>3
  <1>6. QED
      BY <1>1, <1>2, <1>4, <1>5

LEMMA LedgerNumbers ==
    ASSUME NEW r, PaidInv(r), PaidAssumption
    PROVE  /\ r.ledger.attempted \in Nat /\ r.ledger.completed \in Nat /\ r.ledger.failed \in Nat
           /\ r.sent \in Nat /\ Len(r.rows) \in Nat
           /\ Limit(r.kind) \in Nat /\ CallLimit(r.kind) \in Nat
           /\ r.ledger.completed + r.ledger.failed <= r.ledger.attempted
           /\ r.sent <= r.ledger.attempted /\ r.ledger.attempted <= CallLimit(r.kind)
           /\ IsFiniteSet(Errors(r)) /\ Cardinality(Errors(r)) \in Nat
  <1>1. PaidShape(r)
      BY DEF PaidInv
  <1>2. {r.ledger.attempted, r.ledger.completed, r.ledger.failed, r.sent} \subseteq Nat
        /\ Listed(r.rows)
      BY <1>1 DEF PaidShape
  <1>3. QED
      BY <1>2, Limits, ErrorsFinite DEF PaidInv, Listed

LEMMA SendCallKeeps ==
    ASSUME PaidAssumption, PaidIInv, SendCall
    PROVE  PaidIInv'
  <1>1. /\ IsPaid(doing.name) /\ doing.pc = "call"
        /\ Current.ledger.attempted < CallLimit(doing.name)
        /\ UNCHANGED <<labels, frozen, protocol_lock>>
      BY DEF SendCall, PaidAt
  <1>2. PICK c : c = Current
      OBVIOUS
  <1>3. /\ doing.run \in 1..Len(runs) /\ Listed(runs) /\ PaidWork(doing, c)
        /\ c.kind = doing.name /\ PaidInv(c) /\ c.status = "incomplete" /\ PaidShape(c)
      BY <1>1, <1>2, AtWork DEF PaidInv
  <1>4. PICK l : l = StartRow(c.ledger)
      OBVIOUS
  <1>5. PICK r : r = [c EXCEPT !.ledger = l, !.sent = c.sent + 1]
      OBVIOUS
  <1>6. runs' = [runs EXCEPT ![doing.run] = r]
    <2>1. runs[doing.run] = c
        BY <1>2 DEF Current
    <2>2. runs' = [runs EXCEPT ![doing.run] = [runs[doing.run] EXCEPT !.ledger = StartRow(@), !.sent = @ + 1]]
        BY <1>3 DEF SendCall
    <2>3. QED
        BY <1>3, <1>4, <1>5, <2>1, <2>2
  <1>7. l = [attempted |-> c.ledger.attempted + 1, completed |-> c.ledger.completed,
             failed |-> c.ledger.failed]
      BY <1>3, <1>4, StartedRow DEF PaidShape
  <1>8. r = [kind |-> c.kind, status |-> c.status, region |-> c.region, protocol |-> c.protocol,
             rows |-> c.rows, started |-> c.started, ledger |-> l, sent |-> c.sent + 1]
      BY <1>3, <1>5, RunWithLedger
  <1>9. /\ c.ledger.attempted \in Nat /\ c.ledger.completed \in Nat /\ c.ledger.failed \in Nat
        /\ c.sent \in Nat /\ CallLimit(c.kind) \in Nat
        /\ c.ledger.completed + c.ledger.failed <= c.ledger.attempted
        /\ c.sent <= c.ledger.attempted /\ c.ledger.attempted < CallLimit(c.kind)
      BY <1>1, <1>2, <1>3, LedgerNumbers
  <1>10. /\ l.attempted = c.ledger.attempted + 1 /\ l.completed = c.ledger.completed
        /\ l.failed = c.ledger.failed
      BY <1>7
  <1>11. PaidShape(r)
    <2>1. l.attempted \in Nat /\ l.completed \in Nat /\ l.failed \in Nat /\ c.sent + 1 \in Nat
        BY <1>9, <1>10
    <2>2. l = [attempted |-> l.attempted, completed |-> l.completed, failed |-> l.failed]
        BY <1>7
    <2>3. Listed(c.rows)
        BY <1>3 DEF PaidShape
    <2>4. QED
        BY <1>8, <2>1, <2>2, <2>3 DEF PaidShape
  <1>12. /\ Errors(r) = Errors(c) /\ Cardinality(Errors(c)) \in Nat
         /\ Unknown(c.ledger) <= Cardinality(Errors(c)) /\ Unknown(c.ledger) >= 0
         /\ Unknown(l) = Unknown(c.ledger) + 1
         /\ c.started = Len(c.rows) + 1 /\ Len(c.rows) \in Nat /\ Len(c.rows) < Limit(c.kind)
    <2>1. Errors(r) = Errors(c)
        BY <1>8 DEF Errors
    <2>2. Cardinality(Errors(c)) \in Nat
        BY <1>3, LedgerNumbers
    <2>3. Unknown(c.ledger) >= 0 /\ Unknown(l) = Unknown(c.ledger) + 1
        BY <1>9, <1>10 DEF Unknown
    <2>4. QED
        BY <1>1, <1>3, <2>1, <2>2, <2>3, LedgerNumbers DEF PaidWork
  <1>13. PaidInv(r)
    <2>1. /\ l.completed + l.failed <= l.attempted
          /\ c.sent + 1 <= l.attempted /\ l.attempted <= CallLimit(c.kind)
        BY <1>9, <1>10
    <2>2. QED
        BY <1>3, <1>8, <1>11, <1>12, <2>1, SMTT(60) DEF PaidInv
  <1>14. doing' = [name |-> doing.name, pc |-> "sent", run |-> doing.run, job |-> doing.job,
                   asking |-> doing.asking, retried |-> doing.retried]
    <2>1. PICK d : d = [doing EXCEPT !.pc = "sent"]
        OBVIOUS
    <2>2. doing = [name |-> doing.name, pc |-> doing.pc, run |-> doing.run, job |-> doing.job,
                   asking |-> doing.asking, retried |-> doing.retried]
        BY <1>1, <1>3 DEF PaidWork
    <2>3. d = [name |-> doing.name, pc |-> "sent", run |-> doing.run, job |-> doing.job,
               asking |-> doing.asking, retried |-> doing.retried]
        BY <2>1, <2>2
    <2>4. QED
        BY <2>1, <2>3 DEF SendCall
  <1>15. PaidWork(doing', r)
    <2>1. /\ r.kind = c.kind /\ r.status = "incomplete" /\ r.started = Len(r.rows) + 1
          /\ Len(r.rows) < Limit(r.kind) /\ r.ledger = l
        BY <1>3, <1>8, <1>12
    <2>2. Unknown(l) \in 1..Cardinality(Errors(r)) + 1
      <3> DEFINE n == Cardinality(Errors(c))
                 u == Unknown(c.ledger)
      <3>1. u \in Nat /\ Unknown(l) = u + 1
          BY <1>9, <1>10 DEF Unknown
      <3>2. Cardinality(Errors(r)) = n /\ n \in Nat /\ u <= n
          BY <1>12
      <3> HIDE DEF n, u
      <3>3. QED
          BY <3>1, <3>2
    <2>3. doing'.pc = "sent" /\ doing'.name = c.kind
        BY <1>3, <1>14
    <2>4. QED
        BY <1>14, <2>1, <2>2, <2>3 DEF PaidWork
  <1>16. QED
      BY <1>1, <1>2, <1>3, <1>6, <1>8, <1>13, <1>14, <1>15, PaidStep
LEMMA AskAgainKeeps ==
    ASSUME PaidAssumption, PaidIInv, NEW asking, NEW retried, AskAgain(asking, retried)
    PROVE  PaidIInv'
  <1>1. IsPaid(doing.name) /\ doing.pc = "sent" /\ UNCHANGED <<labels, frozen, protocol_lock>>
      BY DEF AskAgain, PaidAt
  <1>2. PICK c : c = Current
      OBVIOUS
  <1>3. /\ doing.run \in 1..Len(runs) /\ Listed(runs) /\ PaidWork(doing, c)
        /\ c.kind = doing.name /\ PaidInv(c) /\ c.status = "incomplete" /\ PaidShape(c)
      BY <1>1, <1>2, AtWork DEF PaidInv
  <1>4. PICK l : l = Settled(c.ledger, "completed")
      OBVIOUS
  <1>5. PICK r : r = [c EXCEPT !.ledger = l]
      OBVIOUS
  <1>6. runs' = [runs EXCEPT ![doing.run] = r]
    <2>1. runs[doing.run] = c
        BY <1>2 DEF Current
    <2>2. runs' = [runs EXCEPT ![doing.run] = [runs[doing.run] EXCEPT !.ledger = Settled(@, "completed")]]
        BY <1>3 DEF AskAgain
    <2>3. QED
        BY <1>3, <1>4, <1>5, <2>1, <2>2
  <1>7. LedgerOf(c, l) /\ Unknown(l) = Unknown(c.ledger) - 1
    <2>1. PaidAt("sent")
        BY DEF AskAgain
    <2>2. QED
        BY <1>2, <1>4, <2>1, SettledLedger DEF Outcomes
  <1>8. r = [kind |-> c.kind, status |-> c.status, region |-> c.region, protocol |-> c.protocol,
             rows |-> c.rows, started |-> c.started, ledger |-> l, sent |-> c.sent]
      BY <1>3, <1>5, RunWithLedger
  <1>9. Errors(r) = Errors(c) /\ c.started = Len(c.rows) + 1 /\ Len(c.rows) < Limit(c.kind)
        /\ Unknown(c.ledger) \in 1..Cardinality(Errors(c)) + 1
    <2>1. Errors(r) = Errors(c)
        BY <1>8 DEF Errors
    <2>2. QED
        BY <1>1, <1>3, <2>1 DEF PaidWork
  <1>10. Unknown(l) <= Cardinality(Errors(r)) /\ Cardinality(Errors(c)) \in Nat
    <2>1. Cardinality(Errors(c)) \in Nat
        BY <1>3, LedgerNumbers
    <2>2. Unknown(c.ledger) \in Int /\ Unknown(c.ledger) <= Cardinality(Errors(c)) + 1
        BY <1>9, <2>1
    <2>3. Cardinality(Errors(r)) = Cardinality(Errors(c))
        BY <1>9
    <2>4. QED
        BY <1>7, <2>1, <2>2, <2>3
  <1>11. PaidShape(r)
    <2>1. {l.attempted, l.completed, l.failed, c.sent} \subseteq Nat
        BY <1>3, <1>7 DEF PaidShape, LedgerOf
    <2>2. l = [attempted |-> l.attempted, completed |-> l.completed, failed |-> l.failed]
        BY <1>7 DEF LedgerOf
    <2>3. Listed(c.rows)
        BY <1>3 DEF PaidShape
    <2>4. QED
        BY <1>8, <2>1, <2>2, <2>3 DEF PaidShape
  <1>12. PaidInv(r)
    <2>1. /\ l.completed + l.failed <= l.attempted
          /\ c.sent <= l.attempted /\ l.attempted <= CallLimit(c.kind)
        BY <1>7 DEF LedgerOf
    <2>2. Len(c.rows) \in Nat
        BY <1>3, LedgerNumbers
    <2>3. QED
        BY <1>3, <1>8, <1>9, <1>11, <2>1, <2>2 DEF PaidInv
  <1>13. doing' = [name |-> doing.name, pc |-> "call", run |-> doing.run, job |-> doing.job,
                   asking |-> asking, retried |-> retried]
    <2>1. PICK d : d = [doing EXCEPT !.pc = "call", !.asking = asking, !.retried = retried]
        OBVIOUS
    <2>2. doing = [name |-> doing.name, pc |-> doing.pc, run |-> doing.run, job |-> doing.job,
                   asking |-> doing.asking, retried |-> doing.retried]
        BY <1>1, <1>3 DEF PaidWork
    <2>3. d = [name |-> doing.name, pc |-> "call", run |-> doing.run, job |-> doing.job,
               asking |-> asking, retried |-> retried]
        BY <2>1, <2>2
    <2>4. QED
        BY <2>1, <2>3 DEF AskAgain
  <1>14. PaidWork(doing', r)
    <2>1. /\ r.kind = c.kind /\ r.status = "incomplete" /\ r.started = Len(r.rows) + 1
          /\ Len(r.rows) < Limit(r.kind) /\ r.ledger = l
        BY <1>3, <1>8, <1>9
    <2>2. doing'.pc = "call" /\ doing'.name = c.kind
        BY <1>3, <1>13
    <2>3. QED
        BY <1>10, <1>13, <2>1, <2>2 DEF PaidWork
  <1>15. QED
      BY <1>1, <1>2, <1>3, <1>6, <1>8, <1>12, <1>13, <1>14, PaidStep
(***************************************************************************)
(* The end of a request: a row more, and one more error if it failed.      *)
(***************************************************************************)
RunOf(r, rows, ledger) ==
    [kind |-> r.kind, status |-> r.status, region |-> r.region, protocol |-> r.protocol,
     rows |-> rows, started |-> r.started, ledger |-> ledger, sent |-> r.sent]

LEMMA RunWithRow ==
    ASSUME NEW r, PaidShape(r), NEW row, NEW l
    PROVE  [[r EXCEPT !.rows = Append(@, row)] EXCEPT !.ledger = l] =
              RunOf(r, Append(r.rows, row), l)
  <1>1. PICK q : q = [r EXCEPT !.rows = Append(@, row)]
      OBVIOUS
  <1>2. PICK p : p = [q EXCEPT !.ledger = l]
      OBVIOUS
  <1>3. r = [kind |-> r.kind, status |-> r.status, region |-> r.region, protocol |-> r.protocol,
             rows |-> r.rows, started |-> r.started, ledger |-> r.ledger, sent |-> r.sent]
      BY DEF PaidShape
  <1>4. q = [kind |-> r.kind, status |-> r.status, region |-> r.region, protocol |-> r.protocol,
             rows |-> Append(r.rows, row), started |-> r.started, ledger |-> r.ledger,
             sent |-> r.sent]
      BY <1>1, <1>3
  <1>5. p = RunOf(r, Append(r.rows, row), l)
      BY <1>2, <1>4 DEF RunOf
  <1>6. QED
      BY <1>1, <1>2, <1>5

LEMMA ErrorsGrow ==
    ASSUME NEW r, Listed(r.rows), NEW row, NEW q, q.rows = Append(r.rows, row)
    PROVE  Cardinality(Errors(q)) =
              Cardinality(Errors(r)) + (IF row.path = "error" THEN 1 ELSE 0)
  <1>1. /\ Listed(q.rows) /\ Len(q.rows) = Len(r.rows) + 1
        /\ \A i \in 1..Len(r.rows) : q.rows[i] = r.rows[i]
        /\ q.rows[Len(r.rows) + 1] = row /\ Len(r.rows) \in Nat
      BY ListedAppend DEF Listed
  <1>2. /\ Errors(q) = {i \in 1..Len(q.rows) : q.rows[i].path = "error"}
        /\ Errors(r) = {i \in 1..Len(r.rows) : r.rows[i].path = "error"}
        /\ IsFiniteSet(Errors(r)) /\ Cardinality(Errors(r)) \in Nat
      BY <1>1, ErrorsFinite
  <1>3. ~(Len(r.rows) + 1 \in Errors(r))
      BY <1>1, <1>2
  <1>4. CASE row.path = "error"
    <2>1. Errors(q) = Errors(r) \cup {Len(r.rows) + 1}
        BY <1>1, <1>2, <1>4
    <2>2. QED
        BY <1>2, <1>3, <1>4, <2>1, FS_AddElement
  <1>5. CASE row.path # "error"
    <2>1. Errors(q) = Errors(r)
        BY <1>1, <1>2, <1>5
    <2>2. Cardinality(Errors(q)) = Cardinality(Errors(r)) + 0
      <3>1. Cardinality(Errors(r)) \in Nat
          BY <1>2
      <3>2. QED
          BY <2>1, <3>1
    <2>3. QED
        BY <1>5, <2>2
  <1>6. QED
      BY <1>4, <1>5

LEMMA WarmUpsFirst ==
    ASSUME NEW n \in Nat, NEW s, Listed(s), Len(s) = n + 1, Warmups \in Nat,
           \A i \in 1..n : s[i].warmup = (i <= Warmups),
           s[n + 1].warmup = (n < Warmups)
    PROVE  \A i \in 1..Len(s) : s[i].warmup = (i <= Warmups)
  <1>1. \A i \in 1..Len(s) : i \in 1..n \/ i = n + 1
      OBVIOUS
  <1>2. (n < Warmups) = (n + 1 <= Warmups)
      OBVIOUS
  <1>3. QED
      BY <1>1, <1>2, Zenon

LEMMA RowKeepsInv ==
    ASSUME PaidAssumption, NEW r, PaidInv(r), r.status = "incomplete",
           r.started = Len(r.rows) + 1, Len(r.rows) < Limit(r.kind),
           NEW row, row.warmup = WarmUp(r),
           NEW l, LedgerOf(r, l),
           Unknown(l) <= Cardinality(Errors(r)) + (IF row.path = "error" THEN 1 ELSE 0),
           NEW q, q = RunOf(r, Append(r.rows, row), l)
    PROVE  PaidInv(q)
  <1>1. /\ q.kind = r.kind /\ q.status = r.status /\ q.region = r.region
        /\ q.rows = Append(r.rows, row) /\ q.started = r.started /\ q.ledger = l
        /\ q.sent = r.sent
      BY DEF RunOf
  <1>2. Listed(r.rows) /\ r.sent \in Nat
      BY LedgerNumbers DEF PaidInv, PaidShape
  <1>3. /\ Listed(q.rows) /\ Len(q.rows) = Len(r.rows) + 1
        /\ \A i \in 1..Len(r.rows) : q.rows[i] = r.rows[i]
        /\ q.rows[Len(r.rows) + 1] = row /\ Len(r.rows) \in Nat
    <2>1. q.rows = Append(r.rows, row)
        BY <1>1
    <2>2. LET s == Append(r.rows, row)
          IN  /\ Listed(s) /\ Len(s) = Len(r.rows) + 1
              /\ \A i \in 1..Len(r.rows) : s[i] = r.rows[i]
              /\ s[Len(r.rows) + 1] = row
        BY <1>2, ListedAppend, SMTT(60)
    <2>3. Len(r.rows) \in Nat
        BY <1>2 DEF Listed
    <2>4. QED
        BY <2>1, <2>2, <2>3
  <1>4. Unknown(q.ledger) <= Cardinality(Errors(q))
    <2>1. Cardinality(Errors(q)) = Cardinality(Errors(r)) + (IF row.path = "error" THEN 1 ELSE 0)
        BY <1>1, <1>2, ErrorsGrow
    <2>2. QED
        BY <1>1, <2>1
  <1>5. PaidShape(q)
    <2>1. q = [kind |-> q.kind, status |-> q.status, region |-> q.region,
               protocol |-> q.protocol, rows |-> q.rows, started |-> q.started,
               ledger |-> q.ledger, sent |-> q.sent]
        BY DEF RunOf
    <2>2. /\ l = [attempted |-> l.attempted, completed |-> l.completed, failed |-> l.failed]
          /\ {l.attempted, l.completed, l.failed, q.sent} \subseteq Nat
        BY <1>1, <1>2 DEF LedgerOf
    <2>3. QED
        BY <1>1, <1>3, <2>1, <2>2 DEF PaidShape
  <1>6. r.kind = "latency" => \A i \in 1..Len(q.rows) : q.rows[i].warmup = (i <= Warmups)
    <2> SUFFICES ASSUME r.kind = "latency"
                 PROVE  \A i \in 1..Len(q.rows) : q.rows[i].warmup = (i <= Warmups)
        OBVIOUS
    <2>1. Warmups \in Nat
        BY DEF PaidAssumption
    <2>2. row.warmup = (Len(r.rows) < Warmups)
      <3>1. (r.kind = "latency" /\ Len(r.rows) < Warmups) = (Len(r.rows) < Warmups)
          BY SMT
      <3>2. QED
          BY <3>1, Zenon DEF WarmUp
    <2>3. \A i \in 1..Len(r.rows) : r.rows[i].warmup = (i <= Warmups)
        BY DEF PaidInv
    <2>4. \A i \in 1..Len(r.rows) : q.rows[i].warmup = (i <= Warmups)
        BY <1>3, <2>3, Zenon
    <2>5. q.rows[Len(r.rows) + 1].warmup = (Len(r.rows) < Warmups)
        BY <1>3, <2>2, Zenon
    <2>6. QED
      <3>1. Len(r.rows) \in Nat
          BY <1>3
      <3>2. Listed(q.rows) /\ Len(q.rows) = Len(r.rows) + 1
          BY <1>3
      <3>3. PICK n \in Nat : n = Len(r.rows)
          BY <3>1
      <3>4. PICK s : s = q.rows
          OBVIOUS
      <3>5. /\ Listed(s) /\ Len(s) = n + 1 /\ \A i \in 1..n : s[i].warmup = (i <= Warmups)
            /\ s[n + 1].warmup = (n < Warmups)
          BY <2>4, <2>5, <3>2, <3>3, <3>4, Zenon
      <3>6. \A i \in 1..Len(s) : s[i].warmup = (i <= Warmups)
          BY <2>1, <3>5, WarmUpsFirst, Zenon
      <3>7. QED
          BY <3>4, <3>6, Zenon
  <1>7. Limit(r.kind) \in Nat
      BY Limits
  <1>8. QED
    <2>1. /\ q.ledger.completed + q.ledger.failed <= q.ledger.attempted
          /\ q.sent <= q.ledger.attempted /\ q.ledger.attempted <= CallLimit(q.kind)
        BY <1>1 DEF LedgerOf
    <2>2. q.started = Len(q.rows) /\ Len(q.rows) \in Nat /\ Len(q.rows) <= Limit(q.kind)
        BY <1>1, <1>3, <1>7, SMTT(60)
    <2>3. q.kind = r.kind /\ q.status = "incomplete"
        BY <1>1
    <2>4. QED
        BY <1>4, <1>5, <1>6, <2>1, <2>2, <2>3 DEF PaidInv

LEMMA EndedInv ==
    ASSUME NEW r, PaidInv(r), NEW status,
           r.kind = "latency" /\ status = "complete" => Balanced(r),
           r.kind = "preflight" /\ status = "complete" => Len(r.rows) = Limit("preflight")
    PROVE  /\ PaidInv(Ended(r, status)) /\ Ended(r, status).kind = r.kind
           /\ Ended(r, status).region = r.region
  <1>1. PICK q : q = [r EXCEPT !.status = status, !.protocol = protocol]
      OBVIOUS
  <1>2. r = [kind |-> r.kind, status |-> r.status, region |-> r.region, protocol |-> r.protocol,
             rows |-> r.rows, started |-> r.started, ledger |-> r.ledger, sent |-> r.sent]
      BY DEF PaidInv, PaidShape
  <1>3. q = [kind |-> r.kind, status |-> status, region |-> r.region, protocol |-> protocol,
             rows |-> r.rows, started |-> r.started, ledger |-> r.ledger, sent |-> r.sent]
      BY <1>1, <1>2
  <1>4. /\ q.kind = r.kind /\ q.status = status /\ q.region = r.region /\ q.rows = r.rows
        /\ q.started = r.started /\ q.ledger = r.ledger /\ q.sent = r.sent
      BY <1>3
  <1>5. PaidShape(q)
    <2>1. PaidShape(r)
        BY DEF PaidInv
    <2>2. QED
        BY <1>3, <1>4, <2>1 DEF PaidShape
  <1>6. Errors(q) = Errors(r) /\ Balanced(q) = Balanced(r)
      BY <1>4 DEF Errors, Balanced, Count
  <1>7. PaidInv(q)
      BY <1>4, <1>5, <1>6 DEF PaidInv
  <1>8. QED
      BY <1>1, <1>4, <1>7 DEF Ended

LEMMA EndRequestKeeps ==
    ASSUME PaidAssumption, PaidIInv, IsPaid(doing.name), doing.pc # "working",
           NEW path, NEW l, LedgerOf(Current, l),
           Unknown(l) <= Cardinality(Errors(Current)) + (IF path = "error" THEN 1 ELSE 0),
           EndRequest(path, l)
    PROVE  PaidIInv'
  <1>1. PICK c : c = Current
      OBVIOUS
  <1>2. /\ doing.run \in 1..Len(runs) /\ Listed(runs) /\ PaidWork(doing, c)
        /\ c.kind = doing.name /\ PaidInv(c) /\ c.status = "incomplete" /\ PaidShape(c)
      BY <1>1, AtWork DEF PaidInv
  <1>3. PICK row : row = [job |-> doing.job, path |-> path, warmup |-> WarmUp(c),
                          retried |-> doing.retried]
      OBVIOUS
  <1>4. PICK q : q = RunOf(c, Append(c.rows, row), l)
      OBVIOUS
  <1>5. [Saved(Current, path) EXCEPT !.ledger = l] = q
    <2>1. Saved(Current, path) = [c EXCEPT !.rows = Append(@, row)]
        BY <1>1, <1>3 DEF Saved
    <2>2. [[c EXCEPT !.rows = Append(@, row)] EXCEPT !.ledger = l] = RunOf(c, Append(c.rows, row), l)
        BY <1>2, RunWithRow, ZenonT(60)
    <2>3. QED
        BY <1>4, <2>1, <2>2, Zenon
  <1>6. /\ runs' = [runs EXCEPT ![doing.run] = IF GivenUp(q) THEN Ended(q, "failed") ELSE q]
        /\ doing' = IF GivenUp(q) THEN Nothing
                    ELSE [name |-> doing.name, pc |-> "working", run |-> doing.run]
        /\ UNCHANGED <<labels, frozen, protocol_lock>>
      BY <1>5 DEF EndRequest
  <1>7. c.started = Len(c.rows) + 1 /\ Len(c.rows) < Limit(c.kind)
      BY <1>2 DEF PaidWork
  <1>8. PaidInv(q)
    <2>1. row.warmup = WarmUp(c) /\ row.path = path
        BY <1>3
    <2>2. LedgerOf(c, l)
        BY <1>1
    <2>3. Unknown(l) <= Cardinality(Errors(c)) + (IF row.path = "error" THEN 1 ELSE 0)
        BY <1>1, <2>1
    <2>4. QED
        BY <1>2, <1>4, <1>7, <2>1, <2>2, <2>3, RowKeepsInv
  <1>9. /\ q.kind = c.kind /\ q.region = c.region /\ q.status = "incomplete"
        /\ q.started = Len(q.rows)
    <2>1. Len(Append(c.rows, row)) = Len(c.rows) + 1
        BY <1>2, ListedAppend DEF PaidShape
    <2>2. QED
        BY <1>2, <1>4, <1>7, <2>1 DEF RunOf
  <1>10. CASE GivenUp(q)
    <2>1. /\ PaidInv(Ended(q, "failed")) /\ Ended(q, "failed").kind = c.kind
          /\ Ended(q, "failed").region = c.region
        BY <1>8, <1>9, EndedInv
    <2>2. QED
        BY <1>1, <1>6, <1>10, <2>1, PaidStep
  <1>11. CASE ~GivenUp(q)
    <2>1. doing' = [name |-> doing.name, pc |-> "working", run |-> doing.run]
        BY <1>6, <1>11
    <2>2. PaidWork(doing', q)
        BY <1>2, <1>9, <2>1 DEF PaidWork
    <2>3. QED
      <3>1. runs' = [runs EXCEPT ![doing.run] = q] /\ UNCHANGED <<labels, frozen, protocol_lock>>
          BY <1>6, <1>11
      <3>2. doing'.name = doing.name /\ doing'.run = doing.run
          BY <2>1
      <3>3. q.kind = Current.kind /\ q.region = Current.region
          BY <1>1, <1>9
      <3>4. QED
          BY <1>8, <2>2, <3>1, <3>2, <3>3, PaidStep
  <1>12. QED
      BY <1>10, <1>11
LEMMA CallEnds ==
    ASSUME PaidAssumption, PaidIInv,
           \/ \E path \in {"advance", "follow_up", "finish"} : Answered(path)
           \/ \E outcome \in Outcomes \ {"completed"} : RequestFails(outcome)
           \/ QuestionsStayInvalid
    PROVE  PaidIInv'
  <1>1. PaidAt("sent") /\ IsPaid(doing.name) /\ doing.pc = "sent"
      BY DEF Answered, RequestFails, QuestionsStayInvalid, PaidAt
  <1>2. Unknown(Current.ledger) \in 1..Cardinality(Errors(Current)) + 1
        /\ Cardinality(Errors(Current)) \in Nat
    <2>1. PaidWork(doing, Current) /\ PaidInv(Current)
        BY <1>1, AtWork
    <2>2. QED
        BY <1>1, <2>1, LedgerNumbers DEF PaidWork
  <1>3. ASSUME NEW path, NEW outcome \in Outcomes,
               outcome = "no_usage" => path = "error",
               EndRequest(path, Settled(Current.ledger, outcome))
        PROVE  PaidIInv'
    <2>1. PICK l : l = Settled(Current.ledger, outcome)
        OBVIOUS
    <2>2. LedgerOf(Current, l) /\ Unknown(l) \in Int
          /\ Unknown(l) <= Cardinality(Errors(Current)) + (IF path = "error" THEN 1 ELSE 0)
      <3>1. /\ LedgerOf(Current, l)
            /\ outcome # "no_usage" => Unknown(l) = Unknown(Current.ledger) - 1
            /\ outcome = "no_usage" => Unknown(l) = Unknown(Current.ledger)
          BY <1>1, <2>1, SettledLedger
      <3>2. QED
          BY <1>2, <1>3, <3>1
    <2>3. EndRequest(path, l)
        BY <1>3, <2>1
    <2>4. QED
        BY <1>1, <2>2, <2>3, EndRequestKeeps
  <1>4. "completed" \in Outcomes
      BY DEF Outcomes
  <1>5. CASE \E path \in {"advance", "follow_up", "finish"} : Answered(path)
      BY <1>3, <1>4, <1>5 DEF Answered
  <1>6. CASE \E outcome \in Outcomes \ {"completed"} : RequestFails(outcome)
      BY <1>3, <1>6 DEF RequestFails
  <1>7. CASE QuestionsStayInvalid
      BY <1>3, <1>4, <1>7 DEF QuestionsStayInvalid
  <1>8. QED
      BY <1>5, <1>6, <1>7

LEMMA NoCallsLeftKeeps ==
    ASSUME PaidAssumption, PaidIInv, NoCallsLeft
    PROVE  PaidIInv'
  <1>1. IsPaid(doing.name) /\ doing.pc = "call" /\ EndRequest("error", Current.ledger)
      BY DEF NoCallsLeft, PaidAt
  <1>2. PaidWork(doing, Current) /\ PaidInv(Current)
      BY <1>1, AtWork
  <1>3. LedgerOf(Current, Current.ledger)
      BY <1>2 DEF PaidInv, PaidShape, LedgerOf
  <1>4. Unknown(Current.ledger) <= Cardinality(Errors(Current))
      BY <1>1, <1>2 DEF PaidWork
  <1>5. Unknown(Current.ledger) \in Int /\ Cardinality(Errors(Current)) \in Nat
    <2>1. /\ Current.ledger.attempted \in Nat /\ Current.ledger.completed \in Nat
          /\ Current.ledger.failed \in Nat /\ Cardinality(Errors(Current)) \in Nat
        BY <1>2, LedgerNumbers
    <2>2. QED
        BY <2>1 DEF Unknown
  <1>6. PICK l : l = Current.ledger
      OBVIOUS
  <1>7. Unknown(l) <= Cardinality(Errors(Current)) + 1
      BY <1>4, <1>5, <1>6
  <1>8. QED
      BY <1>1, <1>3, <1>6, <1>7, EndRequestKeeps

LEMMA EndPaidKeeps ==
    ASSUME PaidAssumption, PaidIInv, CompletePaid \/ FailPaid \/ Interrupt
    PROVE  PaidIInv'
  <1>1. IsPaid(doing.name)
      BY DEF CompletePaid, FailPaid, Interrupt, PaidAt
  <1>2. PICK c : c = Current
      OBVIOUS
  <1>3. /\ doing.run \in 1..Len(runs) /\ Listed(runs) /\ PaidWork(doing, c)
        /\ c.kind = doing.name /\ PaidInv(c)
      BY <1>1, <1>2, AtWork
  <1>4. ASSUME NEW status, EndPaid(status),
               c.kind = "latency" /\ status = "complete" => Balanced(c),
               c.kind = "preflight" /\ status = "complete" => Len(c.rows) = Limit("preflight")
        PROVE  PaidIInv'
    <2>1. PICK r : r = Ended(c, status)
        OBVIOUS
    <2>2. PaidInv(r) /\ r.kind = c.kind /\ r.region = c.region
        BY <1>3, <1>4, <2>1, EndedInv
    <2>3. runs[doing.run] = c
        BY <1>2 DEF Current
    <2>4. /\ runs' = [runs EXCEPT ![doing.run] = r] /\ doing' = Nothing
          /\ UNCHANGED <<labels, frozen, protocol_lock>>
        BY <1>4, <2>1, <2>3 DEF EndPaid
    <2>5. QED
        BY <1>1, <1>2, <2>2, <2>4, PaidStep
  <1>5. CASE CompletePaid
    <2>1. EndPaid("complete") /\ ~MoreToDo(c) /\ (c.kind = "latency" => Balanced(c))
        BY <1>2, <1>3, <1>5 DEF CompletePaid, Running
    <2>2. c.kind = "preflight" => Len(c.rows) = Limit("preflight")
      <3>1. Len(c.rows) \in Nat /\ Limit(c.kind) \in Nat /\ Len(c.rows) <= Limit(c.kind)
          BY <1>3, LedgerNumbers DEF PaidInv
      <3>2. c.kind = "preflight" => ~(Len(c.rows) < Limit(c.kind))
          BY <2>1 DEF MoreToDo
      <3>3. QED
          BY <3>1, <3>2, SMTT(60)
    <2>3. QED
        BY <1>4, <2>1, <2>2
  <1>6. CASE FailPaid
      BY <1>4, <1>6 DEF FailPaid
  <1>7. CASE Interrupt
      BY <1>4, <1>7 DEF Interrupt
  <1>8. QED
      BY <1>5, <1>6, <1>7

-----------------------------------------------------------------------------
LEMMA PaidInitially ==
    ASSUME PaidInit
    PROVE  PaidIInv
  <1>1. Listed(runs) /\ Len(runs) = 0
      BY DEF PaidInit, Listed
  <1>2. RunsInv
      BY <1>1 DEF RunsInv
  <1>3. QED
      BY <1>2 DEF PaidInit, PaidIInv, FilesInv, DoingInv, Nothing, NoLock, Absent, Unfrozen, Doing,
         Running, IsPool, IsPaid

LEMMA PaidStutters ==
    ASSUME PaidIInv, UNCHANGED paidVars
    PROVE  PaidIInv'
  <1>1. UNCHANGED <<labels, frozen, protocol, protocol_lock, runs, doing>>
      BY DEF paidVars
  <1>2. RunsInv'
      BY <1>1, LeftAsTheyAre DEF PaidIInv
  <1>3. FilesInv'
      BY <1>1 DEF PaidIInv, FilesInv, Doing, Running, Unfrozen
  <1>4. DoingInv'
      BY <1>1 DEF PaidIInv, DoingInv, PoolDoing, PaidDoing, AggregateDoing, AtRun, Current, Running,
         Frozen
  <1>5. QED
      BY <1>2, <1>3, <1>4 DEF PaidIInv

LEMMA PaidSteps ==
    ASSUME PaidAssumption, PaidIInv, PaidNext
    PROVE  PaidIInv'
  <1>1. CASE People
      BY <1>1, PeopleKeep
  <1>2. CASE Die
      BY <1>2, FreezingKeeps
  <1>3. CASE Evaluate
    <2>1. CASE FreezeLabels \/ CopyLabels \/ LockLabels \/ FreezeProtocol
        BY <2>1, FreezingKeeps
    <2>2. CASE \E pool \in {"pilot", "final"} : BeginRun(pool)
        BY <2>2, BeginRunKeeps
    <2>3. CASE SaveRow \/ (\E advanced \in BOOLEAN : SaveSession(advanced)) \/ FailRun
               \/ WriteMetadata \/ CompleteRun
        BY <2>3, PoolKeeps
    <2>4. CASE (\E run \in DOMAIN runs : BeginAggregate(run)) \/ ReadLabels \/ CheckMetadata
        BY <2>4, AggregatingKeeps
    <2>5. CASE WriteMetrics
        BY <2>5, WriteMetricsKeeps
    <2>6. QED
        BY <1>3, <2>1, <2>2, <2>3, <2>4, <2>5 DEF Evaluate
  <1>4. CASE Measure
    <2>1. CASE \E phase \in {"preflight", "latency"}, region \in Regions : BeginPaid(phase, region)
        BY <2>1, BeginPaidKeeps
    <2>2. CASE StartRequest
        BY <2>2, StartRequestKeeps
    <2>3. CASE SendCall
        BY <2>3, SendCallKeeps
    <2>4. CASE EvaluatedToAdvance \/ QuestionInvalid
        BY <2>4, AskAgainKeeps DEF EvaluatedToAdvance, QuestionInvalid
    <2>5. CASE \/ \E path \in {"advance", "follow_up", "finish"} : Answered(path)
               \/ \E outcome \in Outcomes \ {"completed"} : RequestFails(outcome)
               \/ QuestionsStayInvalid
        BY <2>5, CallEnds
    <2>6. CASE NoCallsLeft
        BY <2>6, NoCallsLeftKeeps
    <2>7. CASE CompletePaid \/ FailPaid \/ Interrupt
        BY <2>7, EndPaidKeeps
    <2>8. QED
        BY <1>4, <2>1, <2>2, <2>3, <2>4, <2>5, <2>6, <2>7 DEF Measure
  <1>5. QED
      BY <1>1, <1>2, <1>3, <1>4 DEF PaidNext

LEMMA PaidAlways == PaidSpec => []PaidIInv
  <1>1. PaidInit => PaidIInv
      BY PaidInitially
  <1>2. PaidIInv /\ [PaidNext]_paidVars => PaidIInv'
      BY PaidAssumption, PaidSteps, PaidStutters
  <1>3. QED
      BY <1>1, <1>2, PTL DEF PaidSpec

-----------------------------------------------------------------------------
(***************************************************************************)
(* Whoever edited what since, reported metrics are those of a complete     *)
(* final run, computed from the labels that were frozen before it began.   *)
(***************************************************************************)
THEOREM MetricsOnFrozenLabels == PaidSpec => []MetricsRestOnFrozenLabels
  <1>1. PaidIInv => MetricsRestOnFrozenLabels
    <2> SUFFICES ASSUME PaidIInv, NEW k \in DOMAIN runs, IsPool(runs[k].kind),
                        runs[k].metrics # Unwritten
                 PROVE  /\ runs[k].kind = "final" /\ runs[k].status = "complete"
                        /\ runs[k].rows = Cases + Personas
                        /\ runs[k].metrics = runs[k].under
                        /\ runs[k].metrics = Frozen
        BY DEF MetricsRestOnFrozenLabels, Frozen
    <2>1. k \in 1..Len(runs)
        BY ListedExcept DEF PaidIInv, RunsInv, Listed
    <2>2. PoolInv(runs[k])
        BY <2>1 DEF PaidIInv, RunsInv, RunInv
    <2>3. QED
        BY <2>2 DEF PoolInv
  <1>2. QED
      BY <1>1, PaidAlways, PTL

(***************************************************************************)
(* Every call the provider has seen is in the run's ledger, within what    *)
(* was allowed, and a call left unknown is one whose request is on record. *)
(***************************************************************************)
THEOREM PaidCallsOnRecord == PaidSpec => []EveryPaidCallOnRecord
  <1>1. PaidIInv => EveryPaidCallOnRecord
    <2> SUFFICES ASSUME PaidIInv, NEW k \in DOMAIN runs, IsPaid(runs[k].kind)
                 PROVE  /\ runs[k].sent <= runs[k].ledger.attempted
                        /\ runs[k].ledger.attempted <= CallLimit(runs[k].kind)
                        /\ runs[k].started \in Len(runs[k].rows)..Len(runs[k].rows) + 1
                        /\ runs[k].started = Len(runs[k].rows) =>
                              Unknown(runs[k].ledger) <= Cardinality(Errors(runs[k]))
        BY DEF EveryPaidCallOnRecord, Errors
    <2>1. k \in 1..Len(runs)
        BY ListedExcept DEF PaidIInv, RunsInv, Listed
    <2>2. PaidInv(runs[k])
        BY <2>1 DEF PaidIInv, RunsInv, RunInv
    <2>3. QED
        BY <2>2 DEF PaidInv
  <1>2. QED
      BY <1>1, PaidAlways, PTL

(***************************************************************************)
(* A complete latency sample is balanced over the jobs, has no warm-up, no *)
(* retried request and no failure in it, and follows a preflight of the    *)
(* same region that went through with every call priced.                   *)
(***************************************************************************)
THEOREM SamplesAreBalanced == PaidSpec => []SampleIsBalanced
  <1>1. PaidIInv => SampleIsBalanced
    <2> SUFFICES ASSUME PaidIInv, NEW k \in DOMAIN runs, runs[k].kind = "latency",
                        runs[k].status = "complete"
                 PROVE  /\ \A which \in 1..Jobs :
                              Cardinality({i \in DOMAIN runs[k].rows :
                                 runs[k].rows[i].job = which /\ i > Warmups
                                 /\ runs[k].rows[i].path = "advance" /\ ~runs[k].rows[i].retried})
                              = TargetPerJob
                        /\ \E i \in 1..k - 1 :
                              /\ runs[i].kind = "preflight" /\ runs[i].region = runs[k].region
                              /\ Unknown(runs[i].ledger) = 0 /\ runs[i].ledger.failed = 0
                              /\ Len(runs[i].rows) = Limit("preflight")
        BY DEF SampleIsBalanced
    <2>1. k \in 1..Len(runs) /\ Listed(runs)
        BY ListedExcept DEF PaidIInv, RunsInv, Listed
    <2>2. PICK r : r = runs[k]
        OBVIOUS
    <2>3. PaidInv(r) /\ r.kind = "latency" /\ r.status = "complete"
        BY <2>1, <2>2 DEF PaidIInv, RunsInv, RunInv, IsPaid
    <2>4. Balanced(r) /\ DOMAIN r.rows = 1..Len(r.rows) /\ Len(r.rows) \in Nat
        BY <2>3, ListedAppend, LedgerNumbers DEF PaidInv, PaidShape, Listed
    <2>5. ASSUME NEW which \in 1..Jobs
          PROVE  Cardinality({i \in DOMAIN r.rows : r.rows[i].job = which /\ i > Warmups
                                 /\ r.rows[i].path = "advance" /\ ~r.rows[i].retried})
                 = TargetPerJob
      <3>1. \A i \in 1..Len(r.rows) : ~r.rows[i].warmup <=> i > Warmups
        <4>1. \A i \in 1..Len(r.rows) : r.rows[i].warmup = (i <= Warmups)
            BY <2>3 DEF PaidInv
        <4>2. \A i \in 1..Len(r.rows) : ~(i <= Warmups) <=> i > Warmups
            BY PaidAssumption, <2>4, SMTT(60) DEF PaidAssumption
        <4>3. QED
            BY <4>1, <4>2, Zenon
      <3>2. {i \in DOMAIN r.rows : r.rows[i].job = which /\ i > Warmups
                /\ r.rows[i].path = "advance" /\ ~r.rows[i].retried}
            = {i \in DOMAIN r.rows : r.rows[i].job = which /\ Usable(r.rows[i])}
          BY <2>4, <3>1, Zenon DEF Usable
      <3>3. Count(r, which) = TargetPerJob
          BY <2>4 DEF Balanced
      <3>4. QED
          BY <3>2, <3>3 DEF Count
    <2>6. PICK i \in 1..k - 1 : Cleared(runs[i], r.region)
        BY <2>1, <2>2, <2>3 DEF PaidIInv, RunsInv, RunInv
    <2>7. PICK p : p = runs[i]
        OBVIOUS
    <2>8. PaidInv(p)
      <3>1. i \in 1..Len(runs)
          BY <2>1, <2>6 DEF Listed
      <3>2. QED
          BY <2>6, <2>7, <3>1 DEF PaidIInv, RunsInv, RunInv, IsPaid, Cleared
    <2>9. Unknown(p.ledger) = 0 /\ p.ledger.failed = 0
      <3>1. p.ledger.completed = p.ledger.attempted
          BY <2>6, <2>7 DEF Cleared
      <3>2. p.ledger.failed \in Nat /\ p.ledger.attempted \in Nat
            /\ p.ledger.completed + p.ledger.failed <= p.ledger.attempted
          BY <2>8, PaidAssumption, LedgerNumbers
      <3>3. QED
          BY <3>1, <3>2 DEF Unknown
    <2>10. p.kind = "preflight" /\ p.region = r.region /\ Len(p.rows) = Limit("preflight")
        BY <2>6, <2>7, <2>8 DEF Cleared, PaidInv
    <2>11. QED
        BY <2>2, <2>5, <2>6, <2>7, <2>9, <2>10
  <1>2. QED
      BY <1>1, PaidAlways, PTL

-----------------------------------------------------------------------------
(***************************************************************************)
(* The review of reports.  A sheet's content is named by the save it comes *)
(* from, so what is read later is no older than what was read before, and  *)
(* the same content if it has the same name; a lock says no more than that *)
(* its content was there when it was written, unless it is never written   *)
(* again.                                                                  *)
(***************************************************************************)
Written(content) == content \in Contents /\ content.rev <= edits

Commanded == command = [o \in Operators |-> command[o]]

StudyShape ==
    /\ edits \in Nat
    /\ sheet \in [Sheets -> Contents \cup {None}]
    /\ \A s \in Sheets : sheet[s] # None => sheet[s].rev <= edits
    /\ lock = [l \in Locks |-> lock[l]]
    /\ Commanded
    /\ released \in Nat \cup {None} /\ assisted \in Nat \cup {None}

(***************************************************************************)
(* v1.0: the scores are not shown before the claims are locked, nor the    *)
(* AI's sheets before the initial judgments are.                           *)
(***************************************************************************)
LocksInv ==
    /\ lock["claims"] # None => Written(lock["claims"])
    /\ lock["initial"] # None => lock["initial"] \in InitialContents /\ Written(lock["initial"].scores)
    /\ sheet["scores"] # None => released # None
    /\ sheet["final"] # None => assisted # None
    /\ ~overwritten /\ released # None =>
          lock["claims"] # None /\ lock["claims"].rev <= released
    /\ ~overwritten /\ assisted # None =>
          lock["initial"] # None /\ lock["initial"].scores.rev <= assisted

Blind(initial) ==
    ~overwritten =>
       /\ initial.claims.rev <= released /\ initial.scores.rev <= assisted
       /\ initial.locked = initial.claims /\ released # None /\ assisted # None

(***************************************************************************)
(* v1.1a and the evidence review.                                          *)
(***************************************************************************)
ReviewInv ==
    /\ lock["review"] # None => lock["review"].ok /\ flow = "v1.1"
    /\ lock["evidence"] # None => flow = "evidence" /\ "frozen" \in dirs

Freezing == {"directory made", "copied"}

FrozenOnce ==
    \A o \in Operators : command[o].at \in Freezing =>
        /\ "frozen" \in dirs /\ lock["evidence"] = None /\ flow = "evidence"
        /\ \A p \in Operators : command[p].at \in Freezing => p = o

(***************************************************************************)
(* What an operator's command has read.                                    *)
(***************************************************************************)
Seen(c) ==
    /\ c.at = "claims read" => sheet["claims"] # None
    /\ c.at = "claims locked" => lock["claims"] # None
    /\ c.at = "initial read" =>
          lock["claims"] # None /\ sheet["claims"] # None /\ sheet["scores"] # None
    /\ c.at = "initial locked" => lock["initial"] # None
    /\ c.at = "hashes match" => flow = "v1.0"
    /\ c.at = "measured" => flow = "v1.0" /\ Blind(c.saw.initial)
    /\ c.at \in {"review hashed", "review valid"} =>
          /\ flow = "v1.1" /\ sheet["review"] # None
          /\ c.saw \in Contents /\ c.saw.rev <= sheet["review"].rev
    /\ c.at = "review hashed" => (c.saw.rev = sheet["review"].rev => c.saw = sheet["review"])
    /\ c.at = "review valid" => (c.saw.rev = sheet["review"].rev => c.saw.ok)
    /\ c.at \in {"locks verified", "analysed"} => flow = "v1.1"
    /\ c.at = "evidence valid" => flow = "evidence"
    /\ c.at \in {"evidence counted", "writing"} =>
          /\ lock["evidence"] # None
          /\ c.saw.measured.ok /\ c.saw.measured = lock["evidence"].copy

StudyIInv ==
    /\ StudyShape
    /\ LocksInv
    /\ ReviewInv
    /\ FrozenOnce
    /\ \A o \in Operators : Seen(command[o])
    /\ flow = "v1.0" /\ results # None => Blind(results.initial)
    /\ flow = "evidence" /\ results # None =>
          results.measured.ok /\ results.measured = lock["evidence"].copy /\ lock["evidence"] # None
-----------------------------------------------------------------------------
(***************************************************************************)
(* What no step takes back.                                                *)
(***************************************************************************)
Steady ==
    /\ flow' = flow
    /\ \A s \in {"claims", "scores"} : sheet[s] # None => sheet'[s] # None
    /\ \A l \in {"claims", "initial"} : lock[l] # None => lock'[l] # None
    /\ overwritten => overwritten'
    /\ released # None => released' = released
    /\ assisted # None => assisted' = assisted
    /\ \/ sheet'["review"] = sheet["review"]
       \/ /\ sheet'["review"] # None /\ sheet'["review"].rev = edits + 1
          /\ sheet["review"] # None => sheet["review"].rev \in Nat /\ sheet["review"].rev <= edits
          /\ edits \in Nat
    /\ lock["evidence"] # None => lock'["evidence"] = lock["evidence"]

LEMMA Between ==
    ASSUME NEW a \in Nat, NEW b \in Nat, NEW n \in Nat, a <= b, b <= n
    PROVE  a <= n + 1 /\ a # n + 1
OBVIOUS

LEMMA SeenStays ==
    ASSUME NEW c, Seen(c), Steady
    PROVE  Seen(c)'
  <1>1. c.at = "measured" => Blind(c.saw.initial)'
      BY DEF Seen, Steady, Blind
  <1>2. ASSUME c.at \in {"review hashed", "review valid"}
        PROVE  /\ sheet'["review"] # None /\ c.saw.rev <= sheet'["review"].rev
               /\ c.at = "review hashed" => (c.saw.rev = sheet'["review"].rev => c.saw = sheet'["review"])
               /\ c.at = "review valid" => (c.saw.rev = sheet'["review"].rev => c.saw.ok)
    <2>1. CASE sheet'["review"] = sheet["review"]
        BY <1>2, <2>1 DEF Seen
    <2>2. CASE sheet'["review"] # sheet["review"]
      <3>1. /\ sheet'["review"] # None /\ sheet'["review"].rev = edits + 1 /\ edits \in Nat
            /\ sheet["review"].rev \in Nat /\ sheet["review"].rev <= edits
          BY <1>2, <2>2 DEF Seen, Steady
      <3>2. c.saw.rev \in Nat /\ c.saw.rev <= sheet["review"].rev
          BY <1>2 DEF Seen, Contents
      <3>3. c.saw.rev <= edits + 1 /\ c.saw.rev # edits + 1
          BY <3>1, <3>2, Between
      <3>4. QED
          BY <3>1, <3>3, Zenon
    <2>3. QED
        BY <2>1, <2>2
  <1>3. QED
      BY <1>1, <1>2 DEF Seen, Steady

LEMMA StudyStep ==
    ASSUME StudyIInv, Steady, StudyShape', LocksInv', ReviewInv', FrozenOnce',
           \A p \in Operators : command'[p] = command[p] \/ Seen(command[p])',
           \/ results' = results
           \/ flow = "v1.0" /\ Blind(results.initial)'
           \/ flow = "v1.1"
           \/ /\ flow = "evidence" /\ results'.measured.ok
              /\ results'.measured = lock'["evidence"].copy /\ lock'["evidence"] # None
    PROVE  StudyIInv'
  <1>1. ASSUME NEW p \in Operators PROVE Seen(command[p])'
    <2>1. CASE command'[p] = command[p]
      <3>1. PICK c : c = command[p]
          OBVIOUS
      <3>2. Seen(c)'
          BY <3>1, SeenStays DEF StudyIInv
      <3>3. QED
          BY <2>1, <3>1, <3>2
    <2>2. QED
        BY <2>1
  <1>2. flow' = "v1.0" /\ results' # None => Blind(results.initial)'
    <2>1. CASE results' = results
      <3>1. SUFFICES ASSUME flow = "v1.0", results # None PROVE Blind(results.initial)'
          BY <2>1 DEF Steady
      <3>2. Blind(results.initial)
          BY <3>1 DEF StudyIInv
      <3>3. QED
          BY <2>1, <3>2 DEF Blind, Steady
    <2>2. QED
        BY <2>1 DEF Steady
  <1>3. flow' = "evidence" /\ results' # None =>
          results'.measured.ok /\ results'.measured = lock'["evidence"].copy /\ lock'["evidence"] # None
      BY DEF StudyIInv, Steady
  <1>4. QED
      BY <1>1, <1>2, <1>3 DEF StudyIInv

(***************************************************************************)
(* The steps that only read, or create a directory.                        *)
(***************************************************************************)
Reading ==
    /\ UNCHANGED <<flow, sheet, lock, edits, released, assisted, overwritten, results>>
    /\ dirs \subseteq dirs'

Noted(c) == Seen(c) /\ c.at \notin Freezing

LEMMA ReadStep ==
    ASSUME StudyIInv, Reading, Commanded',
           \A p \in Operators : command'[p] = command[p] \/ Noted(command'[p])
    PROVE  StudyIInv'
  <1> USE DEF Reading, Noted
  <1>1. Steady /\ StudyShape' /\ LocksInv' /\ ReviewInv'
      BY DEF StudyIInv, StudyShape, LocksInv, ReviewInv, Written, Steady
  <1>2. FrozenOnce'
      BY DEF StudyIInv, FrozenOnce
  <1>3. \A p \in Operators : command'[p] = command[p] \/ Seen(command[p])'
      BY ZenonT(60) DEF Seen, Blind
  <1>4. QED
      BY <1>1, <1>2, <1>3, StudyStep

LEMMA CommandGoes ==
    ASSUME StudyIInv, NEW o \in Operators, NEW c, command' = [command EXCEPT ![o] = c]
    PROVE  /\ Commanded' /\ command'[o] = c
           /\ \A p \in Operators : p # o => command'[p] = command[p]
BY DEF StudyIInv, StudyShape, Commanded
LEMMA GoesReading ==
    ASSUME StudyIInv, NEW o \in Operators, NEW place, NEW saw, Goes(o, place, saw),
           Reading, Noted([at |-> place, saw |-> saw])
    PROVE  StudyIInv'
  <1>1. PICK c : c = [at |-> place, saw |-> saw]
      OBVIOUS
  <1>2. command' = [command EXCEPT ![o] = c]
      BY <1>1 DEF Goes
  <1>3. Noted(c)
      BY <1>1
  <1>4. Commanded' /\ \A p \in Operators : command'[p] = command[p] \/ Noted(command'[p])
      BY <1>2, <1>3, CommandGoes
  <1>5. QED
      BY <1>4, ReadStep

LEMMA IdleSeesNothing == Noted(Idle) /\ Seen(Idle)'
BY DEF Idle, Seen, Freezing, Noted

LEMMA EndsReading ==
    ASSUME StudyIInv, NEW o \in Operators, Ends(o) \/ UNCHANGED command, Reading
    PROVE  StudyIInv'
  <1>1. CASE Ends(o)
    <2>1. PICK c : c = Idle
        OBVIOUS
    <2>2. command' = [command EXCEPT ![o] = c]
        BY <1>1, <2>1 DEF Ends
    <2>3. Commanded' /\ \A p \in Operators : command'[p] = command[p] \/ Noted(command'[p])
        BY <2>1, <2>2, IdleSeesNothing, CommandGoes
    <2>4. QED
        BY <2>3, ReadStep
  <1>2. CASE UNCHANGED command
    <2>1. Commanded'
        BY <1>2 DEF StudyIInv, StudyShape, Commanded
    <2>2. QED
        BY <1>2, <2>1, ReadStep
  <1>3. QED
      BY <1>1, <1>2

LEMMA PlainReads ==
    ASSUME StudyIInv, NEW o \in Operators,
           \/ Stops(o) \/ PrepareDirectory(o) \/ PrepareLock(o) \/ FreezeFinal(o)
           \/ Release(o) \/ ReleaseSheet(o)
    PROVE  StudyIInv'
  <1>1. Noted([at |-> "preparing", saw |-> None]) /\ Noted([at |-> "final read", saw |-> None])
        /\ Noted([at |-> "preflight passed", saw |-> None])
        /\ Noted([at |-> "sheet released", saw |-> None])
      BY DEF Seen, Noted, Freezing
  <1>2. CASE Stops(o)
      BY <1>2, EndsReading DEF Stops, Reading
  <1>3. CASE PrepareDirectory(o)
      BY <1>1, <1>3, GoesReading DEF PrepareDirectory, Reading
  <1>4. CASE PrepareLock(o)
      BY <1>4, EndsReading DEF PrepareLock, Reading
  <1>5. CASE FreezeFinal(o)
      BY <1>1, <1>5, GoesReading DEF FreezeFinal, Reading
  <1>6. CASE Release(o)
      BY <1>1, <1>6, GoesReading DEF Release, Reading
  <1>7. CASE ReleaseSheet(o)
      BY <1>1, <1>7, GoesReading DEF ReleaseSheet, Reading
  <1>8. QED
      BY <1>2, <1>3, <1>4, <1>5, <1>6, <1>7

LEMMA ReviewReads ==
    ASSUME StudyIInv, NEW o \in Operators,
           \/ FreezeReview(o) \/ ValidateReview(o) \/ Results(o) \/ ResultsRead(o)
    PROVE  StudyIInv'
  <1>1. CASE FreezeReview(o)
    <2>1. /\ flow = "v1.1" /\ sheet["review"] \in Contents
      BY <1>1 DEF FreezeReview, StudyIInv, StudyShape, Sheets
    <2>2. sheet["review"] # None /\ sheet["review"].rev \in Nat
      BY <1>1, <2>1 DEF FreezeReview, Contents
    <2>3. Noted([at |-> "review hashed", saw |-> sheet["review"]])
      BY <2>1, <2>2 DEF Seen, Noted, Freezing
    <2>4. QED
      BY <1>1, <2>3, GoesReading DEF FreezeReview, Reading
  <1>2. CASE ValidateReview(o)
    <2>1. PICK c : c = command[o]
        OBVIOUS
    <2>2. Seen(c) /\ c.at = "review hashed" /\ sheet["review"].ok
        BY <1>2, <2>1 DEF ValidateReview, At, StudyIInv, Complete
    <2>3. Noted([at |-> "review valid", saw |-> c.saw])
        BY <2>2 DEF Seen, Noted, Freezing
    <2>4. QED
        BY <1>2, <2>1, <2>3, GoesReading DEF ValidateReview, Reading
  <1>3. CASE Results(o)
    <2>1. Noted([at |-> "locks verified", saw |-> None])
        BY <1>3 DEF Seen, Noted, Freezing, Results, StudyIInv, ReviewInv
    <2>2. QED
        BY <1>3, <2>1, GoesReading DEF Results, Reading
  <1>4. CASE ResultsRead(o)
    <2>1. flow = "v1.1"
        BY <1>4 DEF ResultsRead, At, StudyIInv, Seen
    <2>2. Noted([at |-> "analysed", saw |-> [initial |-> None, measured |-> sheet["review"]]])
        BY <2>1 DEF Seen, Noted, Freezing
    <2>3. QED
        BY <1>4, <2>2, GoesReading DEF ResultsRead, Reading
  <1>5. QED
      BY <1>1, <1>2, <1>3, <1>4

LEMMA StudyReads ==
    ASSUME StudyIInv, NEW o \in Operators,
           \/ FreezeClaims(o) \/ FreezeInitial(o) \/ Aggregate(o) \/ AggregateRead(o)
           \/ FreezeEvidence(o) \/ AggregateEvidence(o) \/ EvidenceDirectory(o)
    PROVE  StudyIInv'
  <1>1. CASE FreezeClaims(o)
    <2>1. Noted([at |-> "claims read", saw |-> None])
        BY <1>1 DEF FreezeClaims, Complete, Seen, Noted, Freezing
    <2>2. QED
        BY <1>1, <2>1, GoesReading DEF FreezeClaims, Reading
  <1>2. CASE FreezeInitial(o)
    <2>1. Noted([at |-> "initial read", saw |-> None])
        BY <1>2 DEF FreezeInitial, InitialRows, Complete, Seen, Noted, Freezing
    <2>2. QED
        BY <1>2, <2>1, GoesReading DEF FreezeInitial, Reading
  <1>3. CASE Aggregate(o)
    <2>1. Noted([at |-> "hashes match", saw |-> None])
        BY <1>3 DEF Aggregate, Seen, Noted, Freezing
    <2>2. QED
        BY <1>3, <2>1, GoesReading DEF Aggregate, Reading
  <1>4. CASE AggregateRead(o)
    <2>1. PICK initial : initial = lock["initial"]
        OBVIOUS
    <2>2. /\ initial = [locked |-> lock["claims"], claims |-> sheet["claims"], scores |-> sheet["scores"]]
          /\ lock["claims"] = sheet["claims"] /\ sheet["claims"] # None /\ sheet["scores"] # None
          /\ sheet["final"] # None
        BY <1>4, <2>1 DEF AggregateRead, FinalRows, InitialFiles, InitialRows, Complete
    <2>3. released # None /\ assisted # None
        BY <2>2 DEF StudyIInv, LocksInv
    <2>4. Blind(initial)
      <3>1. initial.claims = lock["claims"] /\ initial.locked = initial.claims
          BY <2>2
      <3>2. QED
          BY <2>1, <2>3, <3>1 DEF Blind, StudyIInv, LocksInv
    <2>5. flow = "v1.0"
        BY <1>4 DEF AggregateRead, At, StudyIInv, Seen
    <2>6. Noted([at |-> "measured", saw |-> [initial |-> initial, measured |-> sheet["final"]]])
        BY <2>4, <2>5 DEF Seen, Noted, Freezing
    <2>7. QED
        BY <1>4, <2>1, <2>6, GoesReading DEF AggregateRead, Reading
  <1>5. CASE FreezeEvidence(o)
    <2>1. Noted([at |-> "evidence valid", saw |-> sheet["evidence"]])
        BY <1>5 DEF FreezeEvidence, Seen, Noted, Freezing
    <2>2. QED
        BY <1>5, <2>1, GoesReading DEF FreezeEvidence, Reading
  <1>6. CASE AggregateEvidence(o)
    <2>1. Noted([at |-> "evidence counted", saw |-> [initial |-> None, measured |-> sheet["frozen"]]])
        BY <1>6 DEF AggregateEvidence, VerifiedReview, Complete, Seen, Noted, Freezing
    <2>2. QED
        BY <1>6, <2>1, GoesReading DEF AggregateEvidence, Reading
  <1>7. CASE EvidenceDirectory(o)
    <2>1. PICK c : c = command[o]
        OBVIOUS
    <2>2. Seen(c) /\ c.at = "evidence counted"
        BY <1>7, <2>1 DEF EvidenceDirectory, At, StudyIInv
    <2>3. Noted([at |-> "writing", saw |-> c.saw])
        BY <2>2 DEF Seen, Noted, Freezing
    <2>4. QED
        BY <1>7, <2>1, <2>3, GoesReading DEF EvidenceDirectory, Reading
  <1>8. QED
      BY <1>1, <1>2, <1>3, <1>4, <1>5, <1>6, <1>7
-----------------------------------------------------------------------------
(***************************************************************************)
(* The steps that write.                                                   *)
(***************************************************************************)
Elsewhere ==
    /\ Commanded'
    /\ \A p \in Operators :
          command'[p] = command[p] \/ (Seen(command[p])' /\ command'[p].at \notin Freezing)

LEMMA GoesElsewhere ==
    ASSUME StudyIInv, NEW o \in Operators, NEW place, NEW saw, Goes(o, place, saw),
           place \notin Freezing, Seen([at |-> place, saw |-> saw])'
    PROVE  Elsewhere
  <1>1. PICK c : c = [at |-> place, saw |-> saw]
      OBVIOUS
  <1>2. command' = [command EXCEPT ![o] = c]
      BY <1>1 DEF Goes
  <1>3. Seen(c)' /\ c.at \notin Freezing
      BY <1>1
  <1>4. QED
      BY <1>2, <1>3, CommandGoes DEF Elsewhere

LEMMA EndsElsewhere ==
    ASSUME StudyIInv, NEW o \in Operators, Ends(o) \/ UNCHANGED command
    PROVE  Elsewhere
  <1>1. CASE Ends(o)
    <2>1. PICK c : c = Idle
        OBVIOUS
    <2>2. command' = [command EXCEPT ![o] = c]
        BY <1>1, <2>1 DEF Ends
    <2>3. Seen(c)' /\ c.at \notin Freezing
        BY <2>1, IdleSeesNothing DEF Noted
    <2>4. QED
        BY <2>2, <2>3, CommandGoes DEF Elsewhere
  <1>2. CASE UNCHANGED command
      BY <1>2 DEF Elsewhere, StudyIInv, StudyShape, Commanded
  <1>3. QED
      BY <1>1, <1>2

LEMMA WriteStep ==
    ASSUME StudyIInv, Steady, StudyShape', LocksInv', ReviewInv', Elsewhere,
           dirs \subseteq dirs', lock'["evidence"] = lock["evidence"],
           \/ results' = results
           \/ flow = "v1.0" /\ Blind(results.initial)'
           \/ flow = "v1.1"
           \/ /\ flow = "evidence" /\ results'.measured.ok
              /\ results'.measured = lock'["evidence"].copy /\ lock'["evidence"] # None
    PROVE  StudyIInv'
  <1>1. FrozenOnce'
      BY DEF StudyIInv, FrozenOnce, Elsewhere, Steady
  <1>2. \A p \in Operators : command'[p] = command[p] \/ Seen(command[p])'
      BY DEF Elsewhere
  <1>3. QED
      BY <1>1, <1>2, StudyStep

LEMMA SheetPut ==
    ASSUME StudyIInv, NEW s \in Sheets, NEW v \in Contents, sheet' = [sheet EXCEPT ![s] = v],
           edits' \in {edits, edits + 1}, v.rev <= edits'
    PROVE  /\ sheet' \in [Sheets -> Contents \cup {None}] /\ edits' \in Nat /\ edits <= edits'
           /\ \A t \in Sheets : sheet'[t] # None => sheet'[t].rev <= edits'
           /\ sheet'[s] = v /\ v # None /\ \A t \in Sheets : t # s => sheet'[t] = sheet[t]
  <1>1. sheet \in [Sheets -> Contents \cup {None}] /\ edits \in Nat
        /\ \A t \in Sheets : sheet[t] # None => sheet[t].rev <= edits
      BY DEF StudyIInv, StudyShape
  <1>2. /\ sheet' \in [Sheets -> Contents \cup {None}]
        /\ sheet'[s] = v /\ \A t \in Sheets : t # s => sheet'[t] = sheet[t]
      BY <1>1
  <1>3. v # None
      BY ReviewStudyAssumption DEF ReviewStudyAssumption
  <1>4. edits' \in Nat /\ edits <= edits'
      BY <1>1
  <1>5. ASSUME NEW t \in Sheets, sheet'[t] # None PROVE sheet'[t].rev <= edits'
    <2>1. CASE t = s
        BY <1>2, <2>1
    <2>2. CASE t # s
      <3>1. sheet'[t] = sheet[t] /\ sheet[t].rev <= edits
          BY <1>1, <1>2, <1>5, <2>2
      <3>2. sheet[t].rev \in Nat
          BY <1>1, <1>5, <3>1 DEF Contents
      <3>3. QED
          BY <1>1, <1>4, <3>1, <3>2
    <2>3. QED
        BY <2>1, <2>2
  <1>6. QED
      BY <1>2, <1>3, <1>4, <1>5

LEMMA LockPut ==
    ASSUME StudyIInv, NEW l \in Locks, NEW v, lock' = [lock EXCEPT ![l] = v]
    PROVE  /\ lock' = [k \in Locks |-> lock'[k]]
           /\ lock'[l] = v /\ \A k \in Locks : k # l => lock'[k] = lock[k]
BY DEF StudyIInv, StudyShape

LEMMA SaveKeeps ==
    ASSUME StudyIInv, NEW s \in Sheets, Save(s)
    PROVE  StudyIInv'
  <1>1. PICK ok \in BOOLEAN : sheet' = [sheet EXCEPT ![s] = [rev |-> edits + 1, ok |-> ok]]
      BY DEF Save
  <1>2. /\ UNCHANGED <<flow, dirs, lock, released, assisted, overwritten, command, results>>
        /\ edits' = edits + 1 /\ edits \in Nat
        /\ sheet[s] # None \/ s = "review"
      BY DEF Save, StudyIInv, StudyShape
  <1>3. PICK v : v = [rev |-> edits + 1, ok |-> ok]
      OBVIOUS
  <1>4. v \in Contents /\ v.rev = edits + 1
      BY <1>2, <1>3 DEF Contents
  <1>5. /\ sheet' \in [Sheets -> Contents \cup {None}] /\ edits' \in Nat /\ edits <= edits'
        /\ \A t \in Sheets : sheet'[t] # None => sheet'[t].rev <= edits'
        /\ sheet'[s] = v /\ v # None /\ \A t \in Sheets : t # s => sheet'[t] = sheet[t]
    <2>1. sheet' = [sheet EXCEPT ![s] = v]
        BY <1>1, <1>3
    <2>2. edits' \in {edits, edits + 1} /\ v.rev <= edits'
        BY <1>2, <1>4
    <2>3. QED
        BY <1>4, <2>1, <2>2, SheetPut
  <1>6. StudyShape'
      BY <1>2, <1>5 DEF StudyIInv, StudyShape, Commanded
  <1>7. \A t \in Sheets : sheet[t] # None => sheet'[t] # None
      BY <1>5
  <1>8. Steady
    <2>1. sheet["review"] # None => sheet["review"].rev \in Nat /\ sheet["review"].rev <= edits
        BY DEF StudyIInv, StudyShape, Sheets, Contents
    <2>2. \/ sheet'["review"] = sheet["review"]
          \/ sheet'["review"] # None /\ sheet'["review"].rev = edits + 1
        BY <1>4, <1>5 DEF Sheets
    <2>3. QED
        BY <1>2, <1>7, <2>1, <2>2 DEF Steady, Sheets
  <1>9. LocksInv'
    <2>1. \A t \in {"scores", "final"} : sheet'[t] # None => sheet[t] # None
        BY <1>2, <1>5 DEF Sheets
    <2>2. ASSUME NEW c, Written(c) PROVE Written(c)'
        BY <1>2, <2>2 DEF Written, Contents
    <2>3. QED
        BY <1>2, <2>1, <2>2 DEF StudyIInv, LocksInv
  <1>10. ReviewInv'
      BY <1>2 DEF StudyIInv, ReviewInv
  <1>11. Elsewhere
      BY <1>2 DEF Elsewhere, StudyIInv, StudyShape, Commanded
  <1>12. QED
      BY <1>2, <1>6, <1>8, <1>9, <1>10, <1>11, WriteStep
(***************************************************************************)
(* A sheet that is released, and the first claim sheet.                    *)
(***************************************************************************)
LEMMA PrepareSheetKeeps ==
    ASSUME StudyIInv, NEW o \in Operators, PrepareSheet(o)
    PROVE  StudyIInv'
  <1>1. /\ UNCHANGED <<flow, dirs, lock, edits, released, assisted, overwritten, results>>
        /\ sheet' = [sheet EXCEPT !["claims"] = Blank] /\ edits \in Nat
        /\ Ends(o) \/ UNCHANGED command
      BY DEF PrepareSheet, StudyIInv, StudyShape
  <1>2. Blank \in Contents /\ Blank.rev <= edits
      BY <1>1 DEF Blank, Contents
  <1>3. /\ sheet' \in [Sheets -> Contents \cup {None}]
        /\ \A t \in Sheets : sheet'[t] # None => sheet'[t].rev <= edits'
        /\ sheet'["claims"] # None /\ \A t \in Sheets : t # "claims" => sheet'[t] = sheet[t]
      BY <1>1, <1>2, SheetPut DEF Sheets
  <1>4. Elsewhere
      BY <1>1, EndsElsewhere
  <1>5. StudyShape'
      BY <1>1, <1>3, <1>4 DEF StudyIInv, StudyShape, Elsewhere
  <1>6. Steady /\ LocksInv' /\ ReviewInv'
      BY <1>1, <1>3 DEF StudyIInv, LocksInv, ReviewInv, Written, Steady, Sheets
  <1>7. QED
      BY <1>1, <1>4, <1>5, <1>6, WriteStep

LEMMA ReleaseScoresKeeps ==
    ASSUME StudyIInv, NEW o \in Operators, ReleaseScores(o)
    PROVE  StudyIInv'
  <1>1. /\ UNCHANGED <<flow, dirs, lock, edits, assisted, overwritten, results>>
        /\ sheet' = [sheet EXCEPT !["scores"] = Blank] /\ edits \in Nat
        /\ released' = (IF released = None THEN edits ELSE released)
        /\ Ends(o)
      BY DEF ReleaseScores, Marked, StudyIInv, StudyShape
  <1>2. Blank \in Contents /\ Blank.rev <= edits
      BY <1>1 DEF Blank, Contents
  <1>3. /\ sheet' \in [Sheets -> Contents \cup {None}]
        /\ \A t \in Sheets : sheet'[t] # None => sheet'[t].rev <= edits'
        /\ sheet'["scores"] # None /\ \A t \in Sheets : t # "scores" => sheet'[t] = sheet[t]
      BY <1>1, <1>2, SheetPut DEF Sheets
  <1>4. Elsewhere
      BY <1>1, EndsElsewhere
  <1>5. StudyShape' /\ released' # None
    <2>1. released' \in Nat
        BY <1>1 DEF StudyIInv, StudyShape
    <2>2. released' # None
        BY <2>1, ReviewStudyAssumption DEF ReviewStudyAssumption
    <2>3. QED
        BY <1>1, <1>3, <1>4, <2>1, <2>2 DEF StudyIInv, StudyShape, Elsewhere
  <1>6. lock["claims"] # None /\ lock["claims"].rev <= edits
      BY DEF ReleaseScores, At, StudyIInv, Seen, LocksInv, Written
  <1>7. LocksInv'
      BY <1>1, <1>3, <1>5, <1>6 DEF StudyIInv, LocksInv, Written, Sheets
  <1>8. Steady /\ ReviewInv'
      BY <1>1, <1>3 DEF StudyIInv, ReviewInv, Steady, Sheets
  <1>9. QED
      BY <1>1, <1>4, <1>5, <1>7, <1>8, WriteStep

LEMMA ReleaseAssistanceKeeps ==
    ASSUME StudyIInv, NEW o \in Operators, ReleaseAssistance(o)
    PROVE  StudyIInv'
  <1>1. /\ UNCHANGED <<flow, dirs, lock, edits, released, overwritten, results>>
        /\ sheet' = [sheet EXCEPT !["final"] = Blank] /\ edits \in Nat
        /\ assisted' = (IF assisted = None THEN edits ELSE assisted)
        /\ Ends(o)
      BY DEF ReleaseAssistance, Marked, StudyIInv, StudyShape
  <1>2. Blank \in Contents /\ Blank.rev <= edits
      BY <1>1 DEF Blank, Contents
  <1>3. /\ sheet' \in [Sheets -> Contents \cup {None}]
        /\ \A t \in Sheets : sheet'[t] # None => sheet'[t].rev <= edits'
        /\ sheet'["final"] # None /\ \A t \in Sheets : t # "final" => sheet'[t] = sheet[t]
      BY <1>1, <1>2, SheetPut DEF Sheets
  <1>4. Elsewhere
      BY <1>1, EndsElsewhere
  <1>5. StudyShape' /\ assisted' # None
    <2>1. assisted' \in Nat
        BY <1>1 DEF StudyIInv, StudyShape
    <2>2. assisted' # None
        BY <2>1, ReviewStudyAssumption DEF ReviewStudyAssumption
    <2>3. QED
        BY <1>1, <1>3, <1>4, <2>1, <2>2 DEF StudyIInv, StudyShape, Elsewhere
  <1>6. lock["initial"] # None /\ lock["initial"].scores.rev <= edits
      BY DEF ReleaseAssistance, At, StudyIInv, Seen, LocksInv, Written
  <1>7. LocksInv'
      BY <1>1, <1>3, <1>5, <1>6 DEF StudyIInv, LocksInv, Written, Sheets
  <1>8. Steady /\ ReviewInv'
      BY <1>1, <1>3 DEF StudyIInv, ReviewInv, Steady, Sheets
  <1>9. QED
      BY <1>1, <1>4, <1>5, <1>7, <1>8, WriteStep

(***************************************************************************)
(* The locks of the study.                                                 *)
(***************************************************************************)
LEMMA LockClaimsKeeps ==
    ASSUME StudyIInv, NEW o \in Operators, LockClaims(o)
    PROVE  StudyIInv'
  <1>1. /\ UNCHANGED <<flow, dirs, sheet, edits, released, assisted, results>>
        /\ lock' = [lock EXCEPT !["claims"] = sheet["claims"]]
        /\ overwritten' = (overwritten \/ lock["claims"] # None)
        /\ Goes(o, "claims locked", None)
      BY DEF LockClaims, Locked
  <1>2. sheet["claims"] # None /\ Written(sheet["claims"])
      BY DEF LockClaims, At, StudyIInv, StudyShape, Seen, Written, Sheets
  <1>3. /\ lock' = [k \in Locks |-> lock'[k]]
        /\ lock'["claims"] = sheet["claims"] /\ \A k \in Locks : k # "claims" => lock'[k] = lock[k]
      BY <1>1, LockPut DEF Locks
  <1>4. ~overwritten' => ~overwritten /\ released = None
      BY <1>1 DEF StudyIInv, LocksInv
  <1>5. LocksInv'
      BY <1>1, <1>2, <1>3, <1>4 DEF StudyIInv, LocksInv, Written, Locks
  <1>6. Steady /\ ReviewInv'
      BY <1>1, <1>2, <1>3 DEF StudyIInv, ReviewInv, Steady, Locks
  <1>7. Elsewhere
    <2>1. Seen([at |-> "claims locked", saw |-> None])'
        BY <1>2, <1>3 DEF Seen
    <2>2. QED
        BY <1>1, <2>1, GoesElsewhere DEF Freezing
  <1>8. StudyShape'
      BY <1>1, <1>3, <1>7 DEF StudyIInv, StudyShape, Elsewhere
  <1>9. QED
      BY <1>1, <1>3, <1>5, <1>6, <1>7, <1>8, WriteStep DEF Locks

LEMMA LockInitialKeeps ==
    ASSUME StudyIInv, NEW o \in Operators, LockInitial(o)
    PROVE  StudyIInv'
  <1>1. PICK v : v = [locked |-> lock["claims"], claims |-> sheet["claims"], scores |-> sheet["scores"]]
      OBVIOUS
  <1>2. /\ UNCHANGED <<flow, dirs, sheet, edits, released, assisted, results>>
        /\ lock' = [lock EXCEPT !["initial"] = v]
        /\ overwritten' = (overwritten \/ lock["initial"] # None)
        /\ Goes(o, "initial locked", None)
      BY <1>1 DEF LockInitial, Locked, InitialFiles
  <1>3. v \in InitialContents /\ Written(v.scores) /\ v # None
    <2>1. lock["claims"] # None /\ sheet["claims"] # None /\ sheet["scores"] # None
        BY DEF LockInitial, At, StudyIInv, Seen
    <2>2. Written(lock["claims"]) /\ Written(sheet["claims"]) /\ Written(sheet["scores"])
        BY <2>1 DEF StudyIInv, LocksInv, StudyShape, Written, Sheets
    <2>3. v \in InitialContents /\ Written(v.scores)
        BY <1>1, <2>2 DEF Written, InitialContents
    <2>4. QED
        BY <2>3, ReviewStudyAssumption DEF ReviewStudyAssumption
  <1>4. /\ lock' = [k \in Locks |-> lock'[k]]
        /\ lock'["initial"] = v /\ \A k \in Locks : k # "initial" => lock'[k] = lock[k]
      BY <1>2, LockPut DEF Locks
  <1>5. ~overwritten' => ~overwritten /\ assisted = None
      BY <1>2 DEF StudyIInv, LocksInv
  <1>6. LocksInv'
      BY <1>2, <1>3, <1>4, <1>5 DEF StudyIInv, LocksInv, Written, Locks
  <1>7. Steady /\ ReviewInv'
      BY <1>2, <1>3, <1>4 DEF StudyIInv, ReviewInv, Steady, Locks
  <1>8. Elsewhere
    <2>1. Seen([at |-> "initial locked", saw |-> None])'
        BY <1>3, <1>4 DEF Seen
    <2>2. QED
        BY <1>2, <2>1, GoesElsewhere DEF Freezing
  <1>9. StudyShape'
      BY <1>2, <1>4, <1>8 DEF StudyIInv, StudyShape, Elsewhere
  <1>10. QED
      BY <1>2, <1>4, <1>6, <1>7, <1>8, <1>9, WriteStep DEF Locks

LEMMA OtherLocksKeep ==
    ASSUME StudyIInv, NEW o \in Operators, LockFinal(o) \/ ReleaseLock(o) \/ LockReview(o)
    PROVE  StudyIInv'
  <1>1. /\ UNCHANGED <<flow, dirs, sheet, edits, released, assisted, results>>
        /\ overwritten => overwritten'
        /\ Ends(o)
    <2>1. CASE LockFinal(o)
        BY <2>1, Zenon DEF LockFinal, Locked
    <2>2. CASE ReleaseLock(o)
        BY <2>2, Zenon DEF ReleaseLock
    <2>3. CASE LockReview(o)
        BY <2>3, Zenon DEF LockReview
    <2>4. QED
        BY <2>1, <2>2, <2>3
  <1>2. \E l \in {"final", "release", "review"} : \E v :
           /\ lock' = [lock EXCEPT ![l] = v]
           /\ l = "review" => v.ok /\ flow = "v1.1"
    <2>1. CASE LockReview(o)
      <3>1. PICK c : c = command[o]
          OBVIOUS
      <3>2. Seen(c) /\ c.at = "review valid" /\ sheet["review"] = c.saw
          BY <2>1, <3>1 DEF LockReview, UnchangedSinceHashed, At, StudyIInv
      <3>3. c.saw.ok /\ flow = "v1.1"
          BY <3>2 DEF Seen
      <3>4. QED
          BY <2>1, <3>1, <3>3 DEF LockReview
    <2>2. CASE LockFinal(o) \/ ReleaseLock(o)
        BY <2>2 DEF LockFinal, ReleaseLock, Locked
    <2>3. QED
        BY <2>1, <2>2
  <1>2a. PICK l \in {"final", "release", "review"} : \E v :
            /\ lock' = [lock EXCEPT ![l] = v]
            /\ l = "review" => v.ok /\ flow = "v1.1"
      BY <1>2
  <1>3. PICK v : /\ lock' = [lock EXCEPT ![l] = v]
                 /\ l = "review" => v.ok /\ flow = "v1.1"
      BY <1>2a
  <1>4. /\ lock' = [k \in Locks |-> lock'[k]]
        /\ lock'[l] = v /\ \A k \in Locks : k # l => lock'[k] = lock[k]
      BY <1>3, LockPut DEF Locks
  <1>5. \A k \in {"claims", "initial", "evidence"} : lock'[k] = lock[k]
      BY <1>4 DEF Locks
  <1>6. LocksInv' /\ Steady
      BY <1>1, <1>5 DEF StudyIInv, LocksInv, Written, Steady
  <1>7. ReviewInv'
      BY <1>1, <1>3, <1>4, <1>5 DEF StudyIInv, ReviewInv, Locks
  <1>8. Elsewhere
      BY <1>1, EndsElsewhere
  <1>9. StudyShape'
      BY <1>1, <1>4, <1>8 DEF StudyIInv, StudyShape, Elsewhere
  <1>10. QED
      BY <1>1, <1>5, <1>6, <1>7, <1>8, <1>9, WriteStep
(***************************************************************************)
(* The results.                                                            *)
(***************************************************************************)
LEMMA ResultsKeep ==
    ASSUME StudyIInv, NEW o \in Operators, AggregateWrite(o) \/ ResultsWrite(o) \/ EvidenceWrite(o)
    PROVE  StudyIInv'
  <1>1. /\ UNCHANGED <<flow, dirs, sheet, lock, edits, released, assisted, overwritten>>
        /\ Ends(o) /\ results' = command[o].saw
      BY DEF AggregateWrite, ResultsWrite, EvidenceWrite
  <1>2. Elsewhere
      BY <1>1, EndsElsewhere
  <1>3. StudyShape' /\ LocksInv' /\ ReviewInv' /\ Steady
      BY <1>1, <1>2 DEF StudyIInv, StudyShape, Elsewhere, LocksInv, ReviewInv, Written, Steady
  <1>4. PICK c : c = command[o]
      OBVIOUS
  <1>5. Seen(c)
      BY <1>4 DEF StudyIInv
  <1>6. CASE AggregateWrite(o)
    <2>1. flow = "v1.0" /\ Blind(c.saw.initial)
        BY <1>4, <1>5, <1>6 DEF AggregateWrite, At, Seen
    <2>2. Blind(results.initial)'
        BY <1>1, <1>4, <2>1 DEF Blind
    <2>3. QED
        BY <1>1, <1>2, <1>3, <2>1, <2>2, WriteStep
  <1>7. CASE ResultsWrite(o)
    <2>1. flow = "v1.1"
        BY <1>4, <1>5, <1>7 DEF ResultsWrite, At, Seen
    <2>2. QED
        BY <1>1, <1>2, <1>3, <2>1, WriteStep
  <1>8. CASE EvidenceWrite(o)
    <2>1. /\ flow = "evidence" /\ lock["evidence"] # None
          /\ c.saw.measured.ok /\ c.saw.measured = lock["evidence"].copy
        BY <1>4, <1>5, <1>8 DEF EvidenceWrite, At, Seen, StudyIInv, ReviewInv
    <2>2. results'.measured.ok /\ results'.measured = lock'["evidence"].copy /\ lock'["evidence"] # None
        BY <1>1, <1>4, <2>1
    <2>3. QED
        BY <1>1, <1>2, <1>3, <2>1, <2>2, WriteStep
  <1>9. QED
      BY <1>6, <1>7, <1>8

(***************************************************************************)
(* The copy of the evidence review: its directory is made by one command,  *)
(* which alone writes the copy and its lock.                               *)
(***************************************************************************)
LEMMA FreezingKeepsReview ==
    ASSUME StudyIInv, NEW o \in Operators,
           FreezeDirectory(o) \/ CopyEvidence(o) \/ LockEvidence(o)
    PROVE  StudyIInv'
  <1>1. /\ UNCHANGED <<flow, edits, released, assisted, overwritten, results>>
        /\ dirs \subseteq dirs'
      BY DEF FreezeDirectory, CopyEvidence, LockEvidence
  <1>2. PICK c : c = command[o]
      OBVIOUS
  <1>3. Seen(c)
      BY <1>2 DEF StudyIInv
  <1>4. CASE FreezeDirectory(o)
    <2>1. /\ sheet' = sheet /\ lock' = lock /\ "frozen" \notin dirs /\ "frozen" \in dirs'
          /\ Goes(o, "directory made", c.saw)
        BY <1>2, <1>4 DEF FreezeDirectory
    <2>2. flow = "evidence" /\ lock["evidence"] = None
        BY <1>2, <1>3, <1>4, <2>1 DEF FreezeDirectory, At, Seen, StudyIInv, ReviewInv
    <2>3. PICK d : d = [at |-> "directory made", saw |-> c.saw]
        OBVIOUS
    <2>4. /\ Commanded' /\ command'[o] = d
          /\ \A p \in Operators : p # o => command'[p] = command[p]
        BY <2>1, <2>3, CommandGoes DEF Goes
    <2>5. Seen(d)'
        BY <2>3 DEF Seen
    <2>6. FrozenOnce'
        BY <1>1, <2>1, <2>2, <2>4 DEF StudyIInv, FrozenOnce
    <2>7. StudyShape' /\ LocksInv' /\ ReviewInv' /\ Steady
        BY <1>1, <2>1, <2>4 DEF StudyIInv, StudyShape, LocksInv, ReviewInv, Written, Steady
    <2>8. \A p \in Operators : command'[p] = command[p] \/ Seen(command[p])'
        BY <2>4, <2>5
    <2>9. QED
        BY <1>1, <2>6, <2>7, <2>8, StudyStep
  <1>5. CASE CopyEvidence(o)
    <2>1. /\ sheet' = [sheet EXCEPT !["frozen"] = sheet["evidence"]] /\ lock' = lock /\ dirs' = dirs
          /\ Goes(o, "copied", c.saw)
        BY <1>2, <1>5 DEF CopyEvidence
    <2>2. c.at = "directory made"
        BY <1>2, <1>5 DEF CopyEvidence, At
    <2>3. PICK d : d = [at |-> "copied", saw |-> c.saw]
        OBVIOUS
    <2>4. /\ Commanded' /\ command'[o] = d
          /\ \A p \in Operators : p # o => command'[p] = command[p]
        BY <2>1, <2>3, CommandGoes, ZenonT(60) DEF Goes
    <2>5. Seen(d)'
        BY <2>3 DEF Seen
    <2>6. FrozenOnce'
      <3>1. command[o].at \in Freezing
          BY <1>2, <2>2 DEF Freezing
      <3>2. QED
          BY <1>1, <2>1, <2>4, <3>1 DEF StudyIInv, FrozenOnce
    <2>7. /\ sheet' \in [Sheets -> Contents \cup {None}]
          /\ \A t \in Sheets : sheet'[t] # None => sheet'[t].rev <= edits
          /\ \A t \in Sheets : t # "frozen" => sheet'[t] = sheet[t]
        BY <2>1 DEF StudyIInv, StudyShape, Sheets
    <2>8. StudyShape'
        BY <1>1, <2>1, <2>4, <2>7 DEF StudyIInv, StudyShape
    <2>9. LocksInv' /\ ReviewInv' /\ Steady
        BY <1>1, <2>1, <2>7 DEF StudyIInv, LocksInv, ReviewInv, Written, Steady, Sheets
    <2>10. \A p \in Operators : command'[p] = command[p] \/ Seen(command[p])'
        BY <2>4, <2>5
    <2>11. QED
        BY <1>1, <2>6, <2>8, <2>9, <2>10, StudyStep
  <1>6. CASE LockEvidence(o)
    <2>1. PICK v : lock' = [lock EXCEPT !["evidence"] = v]
        BY <1>6 DEF LockEvidence
    <2>2. sheet' = sheet /\ dirs' = dirs /\ Ends(o) /\ c.at = "copied"
        BY <1>2, <1>6 DEF LockEvidence, At
    <2>3. flow = "evidence" /\ lock["evidence"] = None /\ "frozen" \in dirs
          /\ \A p \in Operators : command[p].at \in Freezing => p = o
        BY <1>2, <2>2 DEF StudyIInv, FrozenOnce, Freezing
    <2>4. Elsewhere
        BY <2>2, EndsElsewhere
    <2>5. command'[o] = Idle
        BY <2>2, CommandGoes DEF Ends
    <2>6. FrozenOnce'
        BY <2>3, <2>4, <2>5, IdleSeesNothing DEF FrozenOnce, Elsewhere, Noted
    <2>7. /\ lock' = [k \in Locks |-> lock'[k]]
          /\ \A k \in Locks : k # "evidence" => lock'[k] = lock[k]
        BY <2>1, LockPut DEF Locks
    <2>8. StudyShape'
        BY <1>1, <2>2, <2>4, <2>7 DEF StudyIInv, StudyShape, Elsewhere
    <2>9. LocksInv' /\ ReviewInv' /\ Steady
        BY <1>1, <2>2, <2>3, <2>7 DEF StudyIInv, LocksInv, ReviewInv, Written, Steady, Locks
    <2>10. \A p \in Operators : command'[p] = command[p] \/ Seen(command[p])'
        BY <2>4 DEF Elsewhere
    <2>11. QED
        BY <1>1, <2>6, <2>8, <2>9, <2>10, StudyStep
  <1>7. QED
      BY <1>4, <1>5, <1>6

-----------------------------------------------------------------------------
LEMMA StudyInitially ==
    ASSUME StudyInit
    PROVE  StudyIInv
  <1>1. Blank \in Contents /\ Blank.rev = 0
      BY DEF Blank, Contents
  <1>2. StudyShape
      BY <1>1 DEF StudyInit, StudyShape, Commanded
  <1>3. LocksInv /\ ReviewInv
      BY DEF StudyInit, LocksInv, ReviewInv, Sheets, Locks
  <1>4. \A o \in Operators : command[o] = Idle
      BY DEF StudyInit
  <1>5. FrozenOnce /\ \A o \in Operators : Seen(command[o])
      BY <1>4, IdleSeesNothing DEF FrozenOnce, Noted
  <1>6. QED
      BY <1>2, <1>3, <1>5 DEF StudyIInv, StudyInit

LEMMA StudyStutters ==
    ASSUME StudyIInv, UNCHANGED <<flow, dirs, sheet, lock, edits, released, assisted, overwritten,
                                  command, results>>
    PROVE  StudyIInv'
  <1>1. Commanded' /\ Reading
      BY DEF Reading, StudyIInv, StudyShape, Commanded
  <1>2. QED
      BY <1>1, ReadStep

LEMMA StudySteps ==
    ASSUME StudyIInv, StudyNext
    PROVE  StudyIInv'
  <1>1. CASE \E s \in Sheets : Save(s)
      BY <1>1, SaveKeeps
  <1>2. CASE SourceChanges
      BY <1>2, StudyStutters DEF SourceChanges
  <1>3. ASSUME NEW o \in Operators,
               \/ Stops(o)
               \/ PrepareDirectory(o) \/ PrepareSheet(o) \/ PrepareLock(o)
               \/ FreezeClaims(o) \/ LockClaims(o) \/ ReleaseScores(o)
               \/ FreezeInitial(o) \/ LockInitial(o) \/ ReleaseAssistance(o)
               \/ FreezeFinal(o) \/ LockFinal(o)
               \/ Aggregate(o) \/ AggregateRead(o) \/ AggregateWrite(o)
               \/ Release(o) \/ ReleaseSheet(o) \/ ReleaseLock(o)
               \/ FreezeReview(o) \/ ValidateReview(o) \/ LockReview(o)
               \/ Results(o) \/ ResultsRead(o) \/ ResultsWrite(o)
               \/ FreezeEvidence(o) \/ FreezeDirectory(o) \/ CopyEvidence(o) \/ LockEvidence(o)
               \/ AggregateEvidence(o) \/ EvidenceDirectory(o) \/ EvidenceWrite(o)
        PROVE  StudyIInv'
    <2>1. CASE \/ Stops(o) \/ PrepareDirectory(o) \/ PrepareLock(o) \/ FreezeFinal(o)
               \/ Release(o) \/ ReleaseSheet(o)
        BY <2>1, PlainReads
    <2>2. CASE FreezeReview(o) \/ ValidateReview(o) \/ Results(o) \/ ResultsRead(o)
        BY <2>2, ReviewReads
    <2>3. CASE \/ FreezeClaims(o) \/ FreezeInitial(o) \/ Aggregate(o) \/ AggregateRead(o)
               \/ FreezeEvidence(o) \/ AggregateEvidence(o) \/ EvidenceDirectory(o)
        BY <2>3, StudyReads
    <2>4. CASE PrepareSheet(o)
        BY <2>4, PrepareSheetKeeps
    <2>5. CASE ReleaseScores(o) \/ ReleaseAssistance(o)
        BY <2>5, ReleaseScoresKeeps, ReleaseAssistanceKeeps
    <2>6. CASE LockClaims(o) \/ LockInitial(o)
        BY <2>6, LockClaimsKeeps, LockInitialKeeps
    <2>7. CASE LockFinal(o) \/ ReleaseLock(o) \/ LockReview(o)
        BY <2>7, OtherLocksKeep
    <2>8. CASE AggregateWrite(o) \/ ResultsWrite(o) \/ EvidenceWrite(o)
        BY <2>8, ResultsKeep
    <2>9. CASE FreezeDirectory(o) \/ CopyEvidence(o) \/ LockEvidence(o)
        BY <2>9, FreezingKeepsReview
    <2>10. QED
        BY <1>3, <2>1, <2>2, <2>3, <2>4, <2>5, <2>6, <2>7, <2>8, <2>9
  <1>4. QED
      BY <1>1, <1>2, <1>3 DEF StudyNext

(***************************************************************************)
(* What is counted is what was frozen, for any number of operators and     *)
(* saves: unless two freeze commands ran at once, published metrics rest   *)
(* on judgments made before the scores, and the AI's suggestions, were     *)
(* shown; a review is never adopted unvalidated, and evidence results are  *)
(* those of a complete copy.                                               *)
(***************************************************************************)
THEOREM FrozenReviewsCounted == StudySpec => []ResultsRestOnFrozenReviews
  <1>1. StudyInit => StudyIInv
      BY StudyInitially
  <1>2. StudyIInv /\ [StudyNext]_studyVars => StudyIInv'
      BY StudySteps, StudyStutters DEF studyVars
  <1>3. StudyIInv => ResultsRestOnFrozenReviews
      BY DEF StudyIInv, ReviewInv, Blind, ResultsRestOnFrozenReviews
  <1>4. QED
      BY <1>1, <1>2, <1>3, PTL DEF StudySpec
=============================================================================
