------------------------------- MODULE Atlas -------------------------------
(***************************************************************************)
(* What is on the disk of one device and the commands that maintain it:    *)
(* migrations (guardianmesh/storage/migrations.py), identities and their   *)
(* key files (identity/manager.py, security/secrets.py), backup and        *)
(* restore (atlas/backup.py, atlas/restore.py), and what a diagnosis finds *)
(* (atlas/integrity.py, atlas/compatibility.py).                           *)
(*                                                                         *)
(* Every command is a process.  A statement commits by itself and a        *)
(* transaction is one step; a process may die between any two.  Of the     *)
(* tables those are modelled that a restore can bring into conflict with   *)
(* each other or with the files beside the database.                       *)
(***************************************************************************)
EXTENDS Naturals, Sequences, FiniteSets, FiniteSetsExt, Functions

CONSTANTS
  Processes,   \* bound: the commands that run at once
  Identities,  \* bound: the identifiers drawn; no two draws are the same
  Policies,    \* bound: policies, each with its rules
  Backups      \* bound: backups, none written twice

\* MIGRATIONS: the tables that the script of a version creates, in order.  There is no
\* version 5.
FirstScripts ==
  <<<<"identities", "config_entries", "audit_events">>,
    <<"pairing_sessions", "pairing_nonces", "trusted_devices">>,
    <<"device_health", "telemetry_events", "device_sequences">>>>

PolicyScript == <<"policies", "policy_rules", "alerts">>

TransportScript == <<"transport_sessions", "transport_peers", "transport_messages",
                     "transport_sequences">>

CaptureScripts == <<<<"screen_sessions", "screen_authorizations">>, <<"aegis_sessions">>>>

OrionScript == <<"orion_events", "orion_actions", "orion_capabilities",
                 "orion_reconciliation">>

AtlasScript == <<"atlas_backups", "atlas_health", "atlas_recovery",
                 "atlas_capability_versions", "atlas_retention">>

Script(v) == CASE v <= 3 -> FirstScripts[v]
               [] v = 4 -> PolicyScript
               [] v = 6 -> TransportScript
               [] v \in {7, 8} -> CaptureScripts[v - 6]
               [] v = 9 -> OrionScript
               [] v = 10 -> AtlasScript

Versions == (1..10) \ {5}

\* BACKUP_ALLOWED_TABLES, of which the rows are modelled of those that a restore can
\* bring into conflict, in the order in which a backup reads and a restore writes.
AllowedTables ==
  <<"atlas_backups", "identities", "policies", "policy_rules", "schema_migrations">>

Tables == {AllowedTables[k] : k \in DOMAIN AllowedTables}

VARIABLES
  schema,   \* the tables that exist
  db,       \* per table, its rows
  keys,     \* per identity, its key files: "none", "short" after a failing write, "whole"
  files,    \* per backup, its file: the state of the file and the rows per table
  proc,     \* what each process is at
  tornBack  \* history: a backup was restored whose policies and rules do not match

atlasVars == <<schema, db, keys, files, proc, tornBack>>
disk == <<schema, db, keys, files>>

Row(t) == CASE t = "atlas_backups" -> Backups
            [] t = "identities" -> [id : Identities, active : BOOLEAN]
            [] t = "policies" -> Policies
            [] t = "policy_rules" -> Policies
            [] t = "schema_migrations" -> Versions

NoRows == [t \in Tables |-> {}]
NoFile == [state |-> "none", rows |-> NoRows]

\* A process: its place, the versions it knows to be applied, how far it is in a script
\* or a list of tables, what it works on, and the rows it has read.
Idle == [at |-> "off", applied |-> {}, step |-> 1, on |-> "nothing", rows |-> NoRows]

AtlasTypeOK ==
  /\ schema \subseteq {"schema_migrations"} \cup UNION {Range(Script(v)) : v \in Versions}
  /\ \A t \in Tables : db[t] \subseteq Row(t) /\ (t \notin schema => db[t] = {})
  /\ keys \in [Identities -> {"none", "short", "whole"}]
  /\ \A b \in Backups : /\ files[b].state \in {"none", "partial", "whole"}
                        /\ \A t \in Tables : files[b].rows[t] \subseteq Row(t)
  /\ \A p \in Processes :
       /\ proc[p].at \in {"off", "migrate", "draw", "save", "insert", "activate",
                          "read", "manifest", "verify", "recheck", "apply", "diagnose"}
       /\ proc[p].applied \subseteq Versions
  /\ tornBack \in BOOLEAN

AtlasInit ==
  /\ schema = {}
  /\ db = NoRows
  /\ keys = [i \in Identities |-> "none"]
  /\ files = [b \in Backups |-> NoFile]
  /\ proc = [p \in Processes |-> Idle]
  /\ tornBack = FALSE

-----------------------------------------------------------------------------
At(p, place) == proc[p].at = place
Ends(p) == proc' = [proc EXCEPT ![p] = Idle]

\* MigrationManager.get_applied_versions, with the tracking table made if need be.
ReadApplied(p) ==
  /\ At(p, "off")
  /\ schema' = schema \cup {"schema_migrations"}
  /\ proc' = [proc EXCEPT ![p].at = "migrate", ![p].applied = db["schema_migrations"]]
  /\ UNCHANGED <<db, keys, files, tornBack>>

Pending(p) == Versions \ proc[p].applied
Version(p) == Min(Pending(p))

\* Mutant: the version is recorded before the last table is there.
ScriptAlmostDone(p) == proc[p].step >= Len(Script(Version(p)))

ScriptDone(p) == proc[p].step > Len(Script(Version(p)))

\* apply_migrations: executescript commits the transaction it was meant to run in, so
\* each statement of a script is a commit of its own.
CreateTable(p) ==
  /\ At(p, "migrate") /\ Pending(p) # {} /\ ~ScriptDone(p)
  /\ schema' = schema \cup {Script(Version(p))[proc[p].step]}
  /\ proc' = [proc EXCEPT ![p].step = @ + 1]
  /\ UNCHANGED <<db, keys, files, tornBack>>

\* apply_migrations: the row of the version.  If another process was faster the key is
\* taken, and the command ends with a DatabaseMigrationError.
RecordVersion(p) ==
  /\ At(p, "migrate") /\ Pending(p) # {} /\ ScriptDone(p)
  /\ IF Version(p) \in db["schema_migrations"]
     THEN Ends(p) /\ UNCHANGED db
     ELSE /\ db' = [db EXCEPT !["schema_migrations"] = @ \cup {Version(p)}]
          /\ proc' = [proc EXCEPT ![p].applied = @ \cup {Version(p)}, ![p].step = 1]
  /\ UNCHANGED <<schema, keys, files, tornBack>>

Migrated(p) == At(p, "migrate") /\ Pending(p) = {}
TurnsTo(p, place) ==
  /\ proc' = [proc EXCEPT ![p] = [Idle EXCEPT !.at = place]]
  /\ UNCHANGED <<disk, tornBack>>

SomeActive == \E r \in db["identities"] : r.active

\* cmd_init: a new identity unless there is an active one; --force makes one anyway.
InitCommand(p) ==
  /\ Migrated(p)
  /\ \E force \in BOOLEAN : TurnsTo(p, IF SomeActive /\ ~force THEN "off" ELSE "draw")

\* cmd_identity create.
CreateCommand(p) == Migrated(p) /\ TurnsTo(p, "draw")

\* cmd_atlas: backup, and restore without --dry-run.
BackupCommand(p) == Migrated(p) /\ TurnsTo(p, "read")
RestoreCommand(p) == Migrated(p) /\ TurnsTo(p, "verify")

\* cmd_diagnostics and cmd_release.
CheckCommand(p) == Migrated(p) /\ TurnsTo(p, "diagnose")

-----------------------------------------------------------------------------
Known(i) == \E r \in db["identities"] : r.id = i

\* create_identity: an identifier that no row has.
DrawIdentity(p, i) ==
  /\ At(p, "draw")
  /\ ~Known(i)
  /\ keys[i] = "none" /\ \A q \in Processes : proc[q].on # i
  /\ proc' = [proc EXCEPT ![p].at = "save", ![p].on = i]
  /\ UNCHANGED <<disk, tornBack>>

\* save_keypair: a failing write of the private key is swallowed, and the file stays
\* empty or cut off; any other failure ends the command.
SaveKeypair(p) ==
  /\ At(p, "save")
  /\ \E state \in {"short", "whole"} : keys' = [keys EXCEPT ![proc[p].on] = state]
  /\ proc' = [proc EXCEPT ![p].at = "insert"]
  /\ UNCHANGED <<schema, db, files, tornBack>>

\* Mutant: a new active identity leaves the old one active.
StillActive(rows) == rows

\* UPDATE identities SET is_active = 0.
Deactivated(rows) == {[id |-> r.id, active |-> FALSE] : r \in rows}

\* create_identity: the transaction that inserts, or its failure, after which the key
\* files are overwritten and removed.
InsertIdentity(p) ==
  LET i == proc[p].on IN
  /\ At(p, "insert")
  /\ \/ \E active \in BOOLEAN :
          /\ db' = [db EXCEPT !["identities"] =
                      (IF active THEN Deactivated(@) ELSE @)
                        \cup {[id |-> i, active |-> active]}]
          /\ UNCHANGED keys
     \/ UNCHANGED db /\ keys' = [keys EXCEPT ![i] = "none"]
  /\ Ends(p)
  /\ UNCHANGED <<schema, files, tornBack>>

\* set_active_identity: the look at the row; the command does not migrate.
FindIdentity(p, i) ==
  /\ At(p, "off")
  /\ Known(i)
  /\ proc' = [proc EXCEPT ![p].at = "activate", ![p].on = i]
  /\ UNCHANGED <<disk, tornBack>>

\* set_active_identity: the transaction, whether the row is still there or not.
ActivateIdentity(p) ==
  /\ At(p, "activate")
  /\ db' = [db EXCEPT !["identities"] =
              {IF r.id = proc[p].on THEN [r EXCEPT !.active = TRUE] ELSE r :
                 r \in Deactivated(@)}]
  /\ Ends(p)
  /\ UNCHANGED <<schema, keys, files, tornBack>>

-----------------------------------------------------------------------------
HasPolicies == {"policies", "policy_rules"} \subseteq schema

\* PolicyEngine.create_policy: the policy and its rules in one transaction.
CreatePolicy(c) ==
  /\ HasPolicies
  /\ c \notin db["policies"]
  /\ db' = [db EXCEPT !["policies"] = @ \cup {c}, !["policy_rules"] = @ \cup {c}]
  /\ UNCHANGED <<schema, keys, files, proc, tornBack>>

\* PolicyEngine.delete_policy.
DeletePolicy(c) ==
  /\ HasPolicies
  /\ c \in db["policies"]
  /\ db' = [db EXCEPT !["policies"] = @ \ {c}, !["policy_rules"] = @ \ {c}]
  /\ UNCHANGED <<schema, keys, files, proc, tornBack>>

-----------------------------------------------------------------------------
\* _build_payload: the next table, in a read of its own; one that is missing is left out.
ReadTable(p) ==
  LET t == AllowedTables[proc[p].step] IN
  /\ At(p, "read") /\ proc[p].step <= Len(AllowedTables)
  /\ proc' = [proc EXCEPT ![p].step = @ + 1,
                          ![p].rows[t] = IF t \in schema THEN db[t] ELSE {}]
  /\ UNCHANGED <<disk, tornBack>>

\* Mutant: a failing write is swallowed.
GoesOn(b) == [Idle EXCEPT !.at = "manifest", !.on = b]

\* create_backup after an OSError: AtlasBackupError, and the rest of the file stays.
WriteFailed(b) == Idle

\* create_backup: the file, under an identifier of its own.
WriteBackup(p, b) ==
  /\ At(p, "read") /\ proc[p].step > Len(AllowedTables)
  /\ files[b].state = "none"
  /\ \/ /\ files' = [files EXCEPT ![b] = [state |-> "whole", rows |-> proc[p].rows]]
        /\ proc' = [proc EXCEPT ![p] = [Idle EXCEPT !.at = "manifest", !.on = b]]
     \/ /\ files' = [files EXCEPT ![b].state = "partial"]
        /\ proc' = [proc EXCEPT ![p] = WriteFailed(b)]
  /\ UNCHANGED <<schema, db, keys, tornBack>>

\* create_backup: the row of atlas_backups.
InsertManifest(p) ==
  /\ At(p, "manifest")
  /\ db' = [db EXCEPT !["atlas_backups"] = @ \cup {proc[p].on}]
  /\ Ends(p)
  /\ UNCHANGED <<schema, keys, files, tornBack>>

\* verify_backup: there is a row and a file, and the file has the digest of the row.
VerifyBackup(p, b) ==
  /\ At(p, "verify")
  /\ proc' = [proc EXCEPT ![p] =
       IF b \in db["atlas_backups"] /\ files[b].state = "whole"
       THEN [@ EXCEPT !.at = "recheck", !.on = b] ELSE Idle]
  /\ UNCHANGED <<disk, tornBack>>

\* verify_compatibility reads the row a second time; the schema version it compares is
\* the one number both commands were built with.
VerifyCompatibility(p) ==
  /\ At(p, "recheck")
  /\ proc' = [proc EXCEPT ![p] =
       IF proc[p].on \in db["atlas_backups"] THEN [@ EXCEPT !.at = "apply"] ELSE Idle]
  /\ UNCHANGED <<disk, tornBack>>

\* Rows that are restored, or left alone because the backup has none.
RestoredRows(rows, t) == IF rows[t] = {} THEN db[t] ELSE rows[t]

\* Mutant: the rules are restored first, and deleting the policies takes them along.
RulesBeforePolicies(rows) ==
  IF rows["policies"] = {} THEN RestoredRows(rows, "policy_rules") ELSE {}

\* The rules after a restore.  To delete the policies deletes the rules with them, also
\* if the backup has no rules to put in their place.
RestoredRules(rows) ==
  IF rows["policies"] # {} THEN rows["policy_rules"] ELSE RestoredRows(rows, "policy_rules")

\* Every rule that is inserted refers to a policy; otherwise SQLite refuses it.
ForeignKeysHold(rows) == RestoredRules(rows) \subseteq RestoredRows(rows, "policies")

\* restore with dry_run off: one transaction, rolled back when a row is refused.
Restore(p) ==
  LET rows == files[proc[p].on].rows IN
  /\ At(p, "apply")
  /\ IF ForeignKeysHold(rows)
     THEN /\ db' = [t \in Tables |->
               IF t = "policy_rules" THEN RestoredRules(rows) ELSE RestoredRows(rows, t)]
          /\ tornBack' = (tornBack \/ rows["policies"] # rows["policy_rules"])
     ELSE UNCHANGED <<db, tornBack>>
  /\ Ends(p)
  /\ UNCHANGED <<schema, keys, files>>

\* A process ends, has an error, or is killed, wherever it is.
Exit(p) ==
  /\ ~At(p, "off")
  /\ Ends(p)
  /\ UNCHANGED <<disk, tornBack>>

MigrationStep(p) ==
  \/ ReadApplied(p) \/ CreateTable(p) \/ RecordVersion(p)
  \/ InitCommand(p) \/ CreateCommand(p)
  \/ BackupCommand(p) \/ RestoreCommand(p) \/ CheckCommand(p)

IdentityStep(p) ==
  \/ \E i \in Identities : DrawIdentity(p, i) \/ FindIdentity(p, i)
  \/ SaveKeypair(p) \/ InsertIdentity(p) \/ ActivateIdentity(p)

BackupStep(p) ==
  \/ ReadTable(p) \/ InsertManifest(p) \/ VerifyCompatibility(p) \/ Restore(p)
  \/ \E b \in Backups : WriteBackup(p, b) \/ VerifyBackup(p, b)

AtlasNext ==
  \/ \E p \in Processes : MigrationStep(p) \/ IdentityStep(p) \/ BackupStep(p) \/ Exit(p)
  \/ \E c \in Policies : CreatePolicy(c) \/ DeletePolicy(c)

AtlasSpec == AtlasInit /\ [][AtlasNext]_atlasVars

-----------------------------------------------------------------------------
\* AtlasIntegrityVerifier and AtlasCompatibilityChecker, on the modelled tables.
RequiredTables ==
  {"identities", "audit_events", "pairing_sessions", "trusted_devices", "device_health",
   "telemetry_events", "policies", "alerts", "transport_sessions", "transport_peers",
   "screen_sessions", "screen_authorizations", "aegis_sessions", "orion_events",
   "orion_actions", "orion_capabilities", "orion_reconciliation", "atlas_backups",
   "atlas_health", "atlas_recovery", "atlas_capability_versions", "atlas_retention"}

CheckRequiredTables == RequiredTables \subseteq schema
CheckMigrationState == Max(db["schema_migrations"] \cup {0}) >= 10
CheckMigrationChain == db["schema_migrations"] = Versions
CheckForeignKeys == db["policy_rules"] \subseteq db["policies"]

\* What "guardian diagnostics" finds wrong with the database, in any process that got
\* past its migrations: nothing, however many migrate at once, whichever died between
\* two statements of a script, and whatever was restored meanwhile
\* (migrations.py 628-661, restore.py 97-115, integrity.py 83-145).
DiagnosisFindsNothing ==
  \A p \in Processes :
    proc[p].at \notin {"off", "migrate", "activate"} =>
      CheckRequiredTables /\ CheckMigrationState /\ CheckMigrationChain /\ CheckForeignKeys

\* A row never comes before the file it stands for: a listed backup can be verified and
\* a listed identity has its key files, also after a crash, a failing write or a restore
\* (backup.py 117-165, manager.py 93-127).
RowsHaveTheirFiles ==
  /\ \A b \in db["atlas_backups"] : files[b].state = "whole"
  /\ \A r \in db["identities"] : keys[r.id] # "none"

\* Whatever is created, activated and restored at once, at most one identity is active
\* (manager.py 100-123, 174-182).
OneActiveIdentity ==
  Cardinality({r \in db["identities"] : r.active}) <= 1

\* A policy loses its rules, and a rule its policy, by no crash and no restore, unless
\* the backup that is restored was read while policies were created or deleted
\* (engine.py 98-123, backup.py 100-115, restore.py 97-115).
PoliciesKeepTheirRules ==
  ~tornBack => db["policies"] = db["policy_rules"]
=============================================================================
