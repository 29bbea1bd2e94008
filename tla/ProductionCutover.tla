------------------------- MODULE ProductionCutover -------------------------
(***************************************************************************)
(* The operator's scripts (src/backend/scripts) that move the database     *)
(* from Azure to Neon: stop the site, take an encrypted backup, restore    *)
(* and migrate it, create the runtime role, point the new backend at it,   *)
(* smoke-test it and clean up; and the two that set the staging database   *)
(* up.  They are run by hand, some more than once, from several terminals, *)
(* and any of them may stop or be killed between two of its steps.  What a *)
(* script checks, and when, is all that protects the data.                 *)
(*                                                                         *)
(* A table's content is the version its rows were read at.  What a script  *)
(* does in one database transaction is one step.  The read-only modes      *)
(* (--status, --preflight, --self-test) change nothing and are left out.   *)
(***************************************************************************)
EXTENDS Integers, FiniteSets

CONSTANTS
  Terminals,   \* where scripts run: one at a time in each
  Markers,     \* names of smoke runs
  Passwords,   \* passwords the operator may enter for the runtime role
  Stamps,      \* seconds at which a backup may be started
  MaxWrites,   \* how often the old site changes its rows
  Nil

ASSUME CutoverAssumption ==
  /\ MaxWrites \in Nat
  /\ Nil \notin Passwords \cup Stamps \cup {"old", "new"}

VARIABLES
  env,        \* the database the scripts are run against
  site,       \* the old site: its state and the state last asked of Azure
  azure,      \* the version of the old site's rows
  archives,   \* per second, the encrypted archive written then
  manifests,  \* per second, the manifest recorded for it
  neon,       \* the new database
  smoked,     \* per marker, whether it was used and what it left behind
  vercel,     \* the variables of the new backend
  job         \* per terminal, the script it runs and what that script holds

cutoverVars == <<env, site, azure, archives, manifests, neon, smoked, vercel, job>>

NoScript == [at |-> "idle", mode |-> Nil, rows |-> 0, stamp |-> Nil,
         secret |-> Nil, markers |-> {}, found |-> {}]

CutoverInit ==
  /\ env \in {"production", "staging"}
  /\ site = [state |-> "Running", asked |-> "Running"]
  /\ azure = 0
  /\ archives = [s \in Stamps |-> Nil]
  /\ manifests = [s \in Stamps |-> Nil]
  /\ neon = [head |-> IF env = "production" THEN Nil ELSE "old",
             rows |-> 0, role |-> Nil, deletes |-> FALSE]
  /\ smoked = [m \in Markers |-> [used |-> FALSE, holds |-> {}]]
  /\ vercel = [safe |-> FALSE, url |-> Nil]
  /\ job = [t \in Terminals |-> NoScript]

Stands(t, place) == job[t].at = place
Proceeds(t, place) == job' = [job EXCEPT ![t].at = place]
Finishes(t) == job' = [job EXCEPT ![t] = NoScript]

Archived == {s \in Stamps : archives[s] # Nil}
Manifests == {s \in Stamps : manifests[s] # Nil}

\* A script may stop wherever it is: one of its checks fails, a service cannot
\* be reached, the operator declines, or the terminal is closed.  Nothing that
\* it has done is undone.
Abandon(t) ==
  /\ ~Stands(t, "idle")
  /\ Finishes(t)
  /\ UNCHANGED <<env, site, azure, archives, manifests, neon, smoked, vercel>>

----------------------------------------------------------------------------
(* The old site.                                                           *)

\* Its users change its rows while it runs.
AzureWrite ==
  /\ env = "production" /\ site.state = "Running" /\ azure < MaxWrites
  /\ azure' = azure + 1
  /\ UNCHANGED <<env, site, archives, manifests, neon, smoked, vercel, job>>

\* --stop and --start require the opposite state, ask Azure and poll; the
\* polling may give up ("not confirmed") while Azure still works on it.
BeginSiteControl(t) ==
  /\ env = "production" /\ Stands(t, "idle")
  /\ site' = [site EXCEPT !.asked = IF site.state = "Running" THEN "Stopped" ELSE "Running"]
  /\ Proceeds(t, "site")
  /\ UNCHANGED <<env, azure, archives, manifests, neon, smoked, vercel>>

SiteChanges ==
  /\ site.state # site.asked
  /\ site' = [site EXCEPT !.state = site.asked]
  /\ UNCHANGED <<env, azure, archives, manifests, neon, smoked, vercel, job>>

SiteConfirmed(t) ==
  /\ Stands(t, "site") /\ site.state = site.asked
  /\ Finishes(t)
  /\ UNCHANGED <<env, site, azure, archives, manifests, neon, smoked, vercel>>

----------------------------------------------------------------------------
(* The backup: production_encrypted_backup.py.                             *)

\* The site's state is looked at once, while Azure is asked for the
\* credentials, and never again.
BeginBackup(t, mode) ==
  /\ env = "production" /\ Stands(t, "idle") /\ site.state = "Stopped"
  /\ job' = [job EXCEPT ![t] = [NoScript EXCEPT !.at = "snapshot", !.mode = mode]]
  /\ UNCHANGED <<env, site, azure, archives, manifests, neon, smoked, vercel>>

\* Counts and fingerprints of the rows; then a new archive named after the
\* second, or the only one there is.
BackupSnapshot(t, s) ==
  /\ Stands(t, "snapshot")
  /\ IF job[t].mode = "verify_existing"
     THEN Archived = {s} ELSE archives[s] = Nil /\ manifests[s] = Nil
  /\ job' = [job EXCEPT ![t].at = IF job[t].mode = "backup" THEN "dump" ELSE "record",
                        ![t].rows = azure, ![t].stamp = s]
  /\ UNCHANGED <<env, site, azure, archives, manifests, neon, smoked, vercel>>

\* The dump has a snapshot of its own, taken later than the fingerprints.  A
\* failure leaves a partial file under the same name.
BackupDump(t) ==
  /\ Stands(t, "dump")
  /\ \E whole \in BOOLEAN :
       /\ archives' = [archives EXCEPT ![job[t].stamp] = [rows |-> azure, whole |-> whole]]
       /\ IF whole THEN Proceeds(t, "record") ELSE Finishes(t)
  /\ UNCHANGED <<env, site, azure, manifests, neon, smoked, vercel>>

\* The archive is decrypted and listed, hashed, and its hash written next to
\* the fingerprints taken before; the rows in it are not looked at.
BackupRecord(t) ==
  LET s == job[t].stamp IN
  /\ Stands(t, "record")
  /\ manifests[s] = Nil /\ archives[s].whole
  /\ manifests' = [manifests EXCEPT ![s] = [rows |-> job[t].rows, digest |-> archives[s]]]
  /\ Finishes(t)
  /\ UNCHANGED <<env, site, azure, archives, neon, smoked, vercel>>

----------------------------------------------------------------------------
(* Restore and migration: production_neon_restore.py.                      *)

\* The one manifest there is, and the archive it names, unchanged since.
TheManifest(s) ==
  /\ Manifests = {s}
  /\ archives[s] = manifests[s].digest

BeginRestore(t, s) ==
  /\ env = "production" /\ Stands(t, "idle")
  /\ TheManifest(s) /\ archives[s].whole
  /\ job' = [job EXCEPT ![t] = [NoScript EXCEPT !.at = "empty", !.stamp = s,
                                            !.rows = manifests[s].rows]]
  /\ UNCHANGED <<env, site, azure, archives, manifests, neon, smoked, vercel>>

RestoreChecksEmpty(t) ==
  /\ Stands(t, "empty") /\ neon.head = Nil
  /\ Proceeds(t, "restore")
  /\ UNCHANGED <<env, site, azure, archives, manifests, neon, smoked, vercel>>

\* pg_restore in a single transaction: all of the archive, or nothing when the
\* archive is cut short or a table is already there.
RestoreArchive(t) ==
  /\ Stands(t, "restore") /\ neon.head = Nil /\ archives[job[t].stamp].whole
  /\ neon' = [neon EXCEPT !.head = "old", !.rows = archives[job[t].stamp].rows]
  /\ Proceeds(t, "restored")
  /\ UNCHANGED <<env, site, azure, archives, manifests, smoked, vercel>>

\* A plausible bug: the revision is checked and the rows are not.
RestoreChecksRevision(t) ==
  /\ Stands(t, "restored") /\ neon.head = "old"
  /\ Proceeds(t, "migrate")
  /\ UNCHANGED <<env, site, azure, archives, manifests, neon, smoked, vercel>>

\* Every count, fingerprint, sequence, constraint and index of the manifest.
RestoreChecksRestored(t) ==
  /\ Stands(t, "restored") /\ neon.head = "old" /\ neon.rows = job[t].rows
  /\ Proceeds(t, "migrate")
  /\ UNCHANGED <<env, site, azure, archives, manifests, neon, smoked, vercel>>

RestoreMigrates(t) ==
  /\ Stands(t, "migrate")
  /\ neon' = [neon EXCEPT !.head = "new"]
  /\ Proceeds(t, "migrated")
  /\ UNCHANGED <<env, site, azure, archives, manifests, smoked, vercel>>

\* The originals once more, nothing else beside them and no session yet.
RestoreChecksMigrated(t) ==
  /\ Stands(t, "migrated") /\ neon.head = "new" /\ neon.rows = job[t].rows
  /\ \A m \in Markers : smoked[m].holds = {}
  /\ Finishes(t)
  /\ UNCHANGED <<env, site, azure, archives, manifests, neon, smoked, vercel>>

----------------------------------------------------------------------------
(* The runtime role and the backend's variables: production_runtime_role.  *)

\* With Vercel in play the backend must not have a database yet.
BeginRole(t, mode, p) ==
  /\ env = "production" /\ Stands(t, "idle")
  /\ mode = "role_only" \/ vercel.url = Nil
  /\ job' = [job EXCEPT ![t] = [NoScript EXCEPT !.mode = mode, !.secret = p,
                !.at = IF mode = "configure_only" THEN "login" ELSE "absent"]]
  /\ UNCHANGED <<env, site, azure, archives, manifests, neon, smoked, vercel>>

\* A plausible bug: the role is created on whatever has been restored.
RolePreflightAnyHead(t) ==
  /\ Stands(t, "absent") /\ neon.head # Nil /\ neon.role = Nil
  /\ Proceeds(t, "create")
  /\ UNCHANGED <<env, site, azure, archives, manifests, neon, smoked, vercel>>

RolePreflight(t) ==
  /\ Stands(t, "absent") /\ neon.head = "new" /\ neon.role = Nil
  /\ Proceeds(t, "create")
  /\ UNCHANGED <<env, site, azure, archives, manifests, neon, smoked, vercel>>

\* CREATE ROLE, its grants and their verification in one transaction; it fails
\* when the role exists by now.
CreateRole(t) ==
  /\ Stands(t, "create") /\ neon.role = Nil
  /\ neon' = [neon EXCEPT !.role = job[t].secret, !.deletes = TRUE]
  /\ Proceeds(t, "login")
  /\ UNCHANGED <<env, site, azure, archives, manifests, smoked, vercel>>

VerifyLogin(t) ==
  /\ Stands(t, "login") /\ neon.role = job[t].secret
  /\ IF job[t].mode = "role_only" THEN Finishes(t) ELSE Proceeds(t, "safe")
  /\ UNCHANGED <<env, site, azure, archives, manifests, neon, smoked, vercel>>

\* The plain settings, overwritten if they exist; then the database, which
\* must not.
ConfigureSafe(t) ==
  /\ Stands(t, "safe")
  /\ vercel' = [vercel EXCEPT !.safe = TRUE]
  /\ Proceeds(t, "url")
  /\ UNCHANGED <<env, site, azure, archives, manifests, neon, smoked>>

ConfigureUrl(t) ==
  /\ Stands(t, "url") /\ vercel.url = Nil
  /\ vercel' = [vercel EXCEPT !.url = job[t].secret]
  /\ Finishes(t)
  /\ UNCHANGED <<env, site, azure, archives, manifests, neon, smoked>>

----------------------------------------------------------------------------
(* The smoke test through the new backend and its cleanup.                 *)

Holds(m, kind) == kind \in smoked[m].holds
Leaves(t, m, gone, come) ==
  smoked' = [smoked EXCEPT ![m].holds = (@ \ gone) \cup come]
Marker(t) == CHOOSE m \in Markers : job[t].markers = {m}

\* A fresh marker signs up; a backend that has a database answers.
BeginSmoke(t, m) ==
  /\ Stands(t, "idle") /\ vercel.url # Nil /\ ~smoked[m].used
  /\ smoked' = [smoked EXCEPT ![m] = [used |-> TRUE, holds |-> {"recruiter"}]]
  /\ job' = [job EXCEPT ![t] = [NoScript EXCEPT !.at = "signed up", !.markers = {m}]]
  /\ UNCHANGED <<env, site, azure, archives, manifests, neon, vercel>>

SmokeCreatesJob(t) ==
  /\ Stands(t, "signed up") /\ Holds(Marker(t), "recruiter")
  /\ Leaves(t, Marker(t), {}, {"job"})
  /\ Proceeds(t, "planned")
  /\ UNCHANGED <<env, site, azure, archives, manifests, neon, vercel>>

\* The start of the interview has found the job and asks the model.
SmokeStarts(t) ==
  /\ Stands(t, "planned") /\ Holds(Marker(t), "job")
  /\ Proceeds(t, "starting")
  /\ UNCHANGED <<env, site, azure, archives, manifests, neon, smoked, vercel>>

\* The candidate is stored first and refers to nothing.
SmokeStoresCandidate(t) ==
  /\ Stands(t, "starting")
  /\ Leaves(t, Marker(t), {}, {"candidate"})
  /\ Proceeds(t, "storing")
  /\ UNCHANGED <<env, site, azure, archives, manifests, neon, vercel>>

\* The interview refers to its job.
SmokeStoresInterview(t) ==
  /\ Stands(t, "storing") /\ Holds(Marker(t), "job")
  /\ Leaves(t, Marker(t), {}, {"interview"})
  /\ Proceeds(t, "interviewed")
  /\ UNCHANGED <<env, site, azure, archives, manifests, neon, vercel>>

\* Answers, the report and, last, the interview's erasure by its owner.
SmokeErases(t) ==
  /\ Stands(t, "interviewed") /\ {"recruiter", "interview"} \subseteq smoked[Marker(t)].holds
  /\ Leaves(t, Marker(t), {"interview", "candidate"}, {})
  /\ Finishes(t)
  /\ UNCHANGED <<env, site, azure, archives, manifests, neon, vercel>>

\* The manifest is the baseline the originals are compared with.
BeginCleanup(t, s, ms) ==
  /\ env = "production" /\ Stands(t, "idle") /\ ms # {}
  /\ TheManifest(s)
  /\ job' = [job EXCEPT ![t] = [NoScript EXCEPT !.at = "inspect", !.markers = ms,
                                            !.rows = manifests[s].rows]]
  /\ UNCHANGED <<env, site, azure, archives, manifests, neon, smoked, vercel>>

\* What a marked recruiter owns, the inventory that is compared before the
\* deletion: the recruiter and its jobs.
Inventory(ms) ==
  {row \in ms \X {"recruiter", "job"} : row[2] \in smoked[row[1]].holds}

CleanupInspects(t) ==
  /\ Stands(t, "inspect") /\ neon.head = "new"
  /\ \A m \in job[t].markers : Holds(m, "recruiter")
  /\ job' = [job EXCEPT ![t].at = "erase", ![t].found = Inventory(job[t].markers)]
  /\ UNCHANGED <<env, site, azure, archives, manifests, neon, smoked, vercel>>

\* A plausible bug: the originals are compared, what lies beside them is not.
OriginalsUnchanged(left, rows) == neon.rows = rows

\* What remains once the markers are erased are the originals.
OriginalsRemain(left, rows) ==
  /\ neon.rows = rows
  /\ \A m \in Markers : left[m].holds = {}

\* After the operator's confirmation: inventory, deletion and the comparison of
\* every table with the manifest in one transaction.
CleanupErases(t) ==
  LET left == [m \in Markers |-> IF m \in job[t].markers
                                 THEN [smoked[m] EXCEPT !.holds = {}] ELSE smoked[m]]
  IN
  /\ Stands(t, "erase")
  /\ Inventory(job[t].markers) = job[t].found
  /\ OriginalsRemain(left, job[t].rows)
  /\ smoked' = left
  /\ Finishes(t)
  /\ UNCHANGED <<env, site, azure, archives, manifests, neon, vercel>>

----------------------------------------------------------------------------
(* Staging: setup_neon_runtime_role.py at the old head, then               *)
(* apply_staging_retention_migration.py.                                   *)

BeginStagingRole(t, p) ==
  /\ env = "staging" /\ Stands(t, "idle")
  /\ neon.head = "old" /\ neon.role = Nil
  /\ job' = [job EXCEPT ![t] = [NoScript EXCEPT !.at = "staging role", !.secret = p]]
  /\ UNCHANGED <<env, site, azure, archives, manifests, neon, smoked, vercel>>

\* No DELETE on the tables the retention paths will erase from.
CreateStagingRole(t) ==
  /\ Stands(t, "staging role") /\ neon.role = Nil
  /\ neon' = [neon EXCEPT !.role = job[t].secret]
  /\ Finishes(t)
  /\ UNCHANGED <<env, site, azure, archives, manifests, smoked, vercel>>

StagingReady == neon.head = "old" /\ neon.role # Nil

BeginRetention(t) ==
  /\ env = "staging" /\ Stands(t, "idle") /\ StagingReady
  /\ Proceeds(t, "staging migrate")
  /\ UNCHANGED <<env, site, azure, archives, manifests, neon, smoked, vercel>>

RetentionMigrates(t) ==
  /\ Stands(t, "staging migrate")
  /\ neon' = [neon EXCEPT !.head = "new"]
  /\ Proceeds(t, "staging grant")
  /\ UNCHANGED <<env, site, azure, archives, manifests, smoked, vercel>>

\* A transaction of its own: stopped before it, the script leaves a migrated
\* database whose role may not erase, and refuses to run again (StagingReady).
RetentionGrants(t) ==
  /\ Stands(t, "staging grant") /\ neon.head = "new"
  /\ neon' = [neon EXCEPT !.deletes = TRUE]
  /\ Proceeds(t, "staging inspect")
  /\ UNCHANGED <<env, site, azure, archives, manifests, smoked, vercel>>

RetentionInspects(t) ==
  /\ Stands(t, "staging inspect") /\ neon.head = "new" /\ neon.role # Nil /\ neon.deletes
  /\ Finishes(t)
  /\ UNCHANGED <<env, site, azure, archives, manifests, neon, smoked, vercel>>

----------------------------------------------------------------------------
SiteNext(t) == BeginSiteControl(t) \/ SiteConfirmed(t)

BackupNext(t) ==
  \/ \E mode \in {"backup", "verify_existing"} : BeginBackup(t, mode)
  \/ \E s \in Stamps : BackupSnapshot(t, s)
  \/ BackupDump(t) \/ BackupRecord(t)

RestoreNext(t) ==
  \/ \E s \in Stamps : BeginRestore(t, s)
  \/ RestoreChecksEmpty(t) \/ RestoreArchive(t) \/ RestoreChecksRestored(t)
  \/ RestoreMigrates(t) \/ RestoreChecksMigrated(t)

RoleNext(t) ==
  \/ \E mode \in {"full", "role_only", "configure_only"}, p \in Passwords : BeginRole(t, mode, p)
  \/ RolePreflight(t) \/ CreateRole(t) \/ VerifyLogin(t)
  \/ ConfigureSafe(t) \/ ConfigureUrl(t)

SmokeNext(t) ==
  \/ \E m \in Markers : BeginSmoke(t, m)
  \/ SmokeCreatesJob(t) \/ SmokeStarts(t)
  \/ SmokeStoresCandidate(t) \/ SmokeStoresInterview(t) \/ SmokeErases(t)

CleanupNext(t) ==
  \/ \E s \in Stamps, ms \in SUBSET Markers : BeginCleanup(t, s, ms)
  \/ CleanupInspects(t) \/ CleanupErases(t)

StagingNext(t) ==
  \/ \E p \in Passwords : BeginStagingRole(t, p)
  \/ CreateStagingRole(t) \/ BeginRetention(t)
  \/ RetentionMigrates(t) \/ RetentionGrants(t) \/ RetentionInspects(t)

CutoverNext ==
  \/ AzureWrite \/ SiteChanges
  \/ \E t \in Terminals :
       \/ SiteNext(t) \/ BackupNext(t) \/ RestoreNext(t) \/ RoleNext(t)
       \/ SmokeNext(t) \/ CleanupNext(t) \/ StagingNext(t) \/ Abandon(t)

CutoverSpec == CutoverInit /\ [][CutoverNext]_cutoverVars

----------------------------------------------------------------------------
\* A backend that has been given a database has one that was migrated, that it
\* can log in to, and whose rows were compared with the fingerprints taken of
\* the old site -- whatever the order in which the scripts were run, stopped
\* and run again, and though an archive may pair with the fingerprints of
\* another moment (production_neon_restore.py, production_runtime_role.py).
ConfiguredCopyIsVerified ==
  vercel.url # Nil =>
    /\ vercel.safe
    /\ neon.head = "new" /\ neon.role = vercel.url
    /\ \E s \in Manifests : manifests[s].rows = neon.rows

\* A cleanup that erases a smoke account leaves the originals and nothing
\* else: no record of any other smoke run, complete, interrupted or still
\* going (cleanup_production_backend_smoke.py).
CleanupLeavesOnlyOriginals ==
  [][(\E m \in Markers : Holds(m, "recruiter") /\ "recruiter" \notin smoked'[m].holds)
       => /\ \A m \in Markers : smoked'[m].holds = {}
          /\ \E s \in Manifests : manifests[s].rows = neon.rows]_cutoverVars

\* The runtime role's grants fit the schema: in production it is created on the
\* migrated database only, in staging it is there before the migration, and it
\* may erase from no table of the old schema (setup_neon_runtime_role.py,
\* apply_staging_retention_migration.py, production_runtime_role.py).
RoleFitsSchema ==
  /\ neon.deletes => neon.head = "new" /\ neon.role # Nil
  /\ env = "production" => (neon.role # Nil => neon.head = "new")
  /\ env = "staging" => (neon.head = "new" => neon.role # Nil)
============================================================================
