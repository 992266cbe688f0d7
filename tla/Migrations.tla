------------------------------- MODULE Migrations ------------------------------
(* The opening of the database at launch: its migration history, the backup    *)
(* before an upgrade, the migrations and the validation                        *)
(* (src/main/database/database.ts, migrationRunner.ts, backup.ts,              *)
(* schemaValidation.ts, the startup of src/main/index.ts).                     *)
(*                                                                             *)
(* Builds are installed over one another while the application is closed,      *)
(* newer and older ones; the process may die between any two steps.  The       *)
(* checksums a build gives its migrations are its lineage: two builds of one   *)
(* lineage agree on every migration both have.  The audit events are left out: *)
(* they are best-effort and nothing reads them.                                *)
EXTENDS Integers

CONSTANTS
  MaxSchema,   \* bound on the versions any build defines
  Lineages,    \* families of migrations
  MaxTakings   \* bound on the sales made

ASSUME MigrationsAssumption ==
  /\ MaxSchema \in Nat \ {0}
  /\ MaxTakings \in Nat
  /\ Lineages # {}

VARIABLES
  build,    \* the installed build
  boot,     \* where the opening is
  schema,   \* migrations whose tables are in the file
  history,  \* schema_migrations: how many rows, and of which lineage
  takings,  \* sales in the file
  held      \* pre-migration files: what each holds, and whether a row names it

upgradeVars == <<build, boot, schema, history, takings, held>>

Build == [target: 1..MaxSchema, lineage: Lineages]

\* BOOTSTRAPPING: the migrations of a file that was new when it was opened.
\* From OPENED to VALIDATING the connection is open and nothing is served.
Opening == {"OPENED", "BOOTSTRAPPING", "BACKING_UP", "BACKED_UP", "MIGRATING",
            "VALIDATING"}
Boot == {"CLOSED", "SERVING", "UNAVAILABLE"} \cup Opening

NoHistory == [count |-> 0, lineage |-> "NONE"]
Held == [schema: 0..MaxSchema, takings: 0..MaxTakings, recorded: BOOLEAN]

MigrationsTypeOK ==
  /\ build \in Build
  /\ boot \in Boot
  /\ schema \in 0..MaxSchema
  /\ history \in [count: 0..MaxSchema, lineage: Lineages \cup {"NONE"}]
  /\ takings \in 0..MaxTakings
  /\ held \subseteq Held

\* A brand-new file: it has no schema_migrations table.
FreshInstall == history.count = 0

Unavailable == boot' = "UNAVAILABLE"

-------------------------------------------------------------------------------

\* The installer replaces the program; it never touches the database.
Install(b) ==
  /\ boot = "CLOSED"
  /\ build' = b
  /\ UNCHANGED <<boot, schema, history, takings, held>>

\* openConfiguredConnection: the pragmas are set and read back, or nothing opens.
OpenConnection ==
  /\ boot = "CLOSED"
  /\ boot' \in {"OPENED", "UNAVAILABLE"}
  /\ UNCHANGED <<build, schema, history, takings, held>>

\* Mutated: the checksums are not compared.
KnownVersions == history.count <= build.target

\* reconcileHistory: no version this build does not define, none whose content
\* differs from the one recorded.
Known == history.lineage = build.lineage /\ history.count <= build.target

ReadHistory ==
  /\ boot = "OPENED"
  /\ IF ~FreshInstall /\ ~Known THEN Unavailable
     ELSE boot' = CASE history.count >= build.target -> "VALIDATING"
                    [] FreshInstall -> "BOOTSTRAPPING"
                    [] OTHER -> "BACKING_UP"
  /\ UNCHANGED <<build, schema, history, takings, held>>

\* createVerifiedPreMigrationBackup: a snapshot that verifies; a file that does not
\* is removed.
SnapshotBefore ==
  /\ boot = "BACKING_UP"
  /\ held' = held \cup {[schema |-> schema, takings |-> takings, recorded |-> FALSE]}
  /\ boot' = "BACKED_UP"
  /\ UNCHANGED <<build, schema, history, takings>>

SnapshotBeforeFails ==
  /\ boot = "BACKING_UP"
  /\ Unavailable
  /\ UNCHANGED <<build, schema, history, takings, held>>

\* Mutated: the migration begins before the row of its backup is written.
RecordSnapshotLater ==
  /\ boot = "BACKED_UP"
  /\ boot' = "MIGRATING"
  /\ UNCHANGED <<build, schema, history, takings, held>>

\* The metadata is durable before the migration begins.
RecordSnapshot ==
  /\ boot = "BACKED_UP"
  /\ held' = (held \ {[schema |-> schema, takings |-> takings, recorded |-> FALSE]})
               \cup {[schema |-> schema, takings |-> takings, recorded |-> TRUE]}
  /\ boot' = "MIGRATING"
  /\ UNCHANGED <<build, schema, history, takings>>

RecordSnapshotFails ==
  /\ boot = "BACKED_UP"
  /\ Unavailable
  /\ UNCHANGED <<build, schema, history, takings, held>>

Pending == boot \in {"BOOTSTRAPPING", "MIGRATING"} /\ history.count < build.target

\* One exclusive transaction: the migration and its row.
ApplyNext ==
  /\ Pending
  /\ schema' = schema + 1
  /\ history' = [count |-> history.count + 1, lineage |-> build.lineage]
  /\ UNCHANGED <<build, boot, takings, held>>

\* It is rolled back.
ApplyFails ==
  /\ Pending
  /\ Unavailable
  /\ UNCHANGED <<build, schema, history, takings, held>>

AllApplied ==
  /\ boot \in {"BOOTSTRAPPING", "MIGRATING"} /\ history.count = build.target
  /\ boot' = "VALIDATING"
  /\ UNCHANGED <<build, schema, history, takings, held>>

\* validateSchema: the version and the number of rows are the target's; its other
\* checks may find a damaged file.
Validate ==
  /\ boot = "VALIDATING"
  /\ boot' \in (IF history.count = build.target THEN {"SERVING"} ELSE {}) \cup {"UNAVAILABLE"}
  /\ UNCHANGED <<build, schema, history, takings, held>>

Take ==
  /\ boot = "SERVING" /\ takings < MaxTakings
  /\ takings' = takings + 1
  /\ UNCHANGED <<build, boot, schema, history, held>>

\* The user closes the application, or it dies: every transaction of the file is
\* whole or not there.
Exit ==
  /\ boot # "CLOSED"
  /\ boot' = "CLOSED"
  /\ UNCHANGED <<build, schema, history, takings, held>>

-------------------------------------------------------------------------------

MigrationsInit ==
  /\ build = [target |-> 1, lineage |-> CHOOSE l \in Lineages: TRUE]
  /\ boot = "CLOSED"
  /\ schema = 0
  /\ history = NoHistory
  /\ takings = 0
  /\ held = {}

Gate == SnapshotBefore \/ SnapshotBeforeFails \/ RecordSnapshot \/ RecordSnapshotFails
OpenStep ==
  \/ ReadHistory \/ Gate
  \/ ApplyNext \/ ApplyFails \/ AllApplied
  \/ Validate

MigrationsNext ==
  \/ \E b \in Build: Install(b)
  \/ OpenConnection \/ OpenStep
  \/ Take \/ Exit

MigrationsSpec == MigrationsInit /\ [][MigrationsNext]_upgradeVars

-------------------------------------------------------------------------------
(* Properties.                                                                 *)

\* What is served has exactly the schema of the build that serves it, recorded in
\* full: no crash between migrations, no failed one and no older build leads to
\* another (database.ts:97).
ServesItsSchema ==
  boot = "SERVING" => /\ schema = build.target
                      /\ history = [count |-> build.target, lineage |-> build.lineage]

\* The tables of a database with sales in it change only while a verified and
\* recorded backup holds every one of them, at a version the file had then or before
\* (migrationRunner.ts:319).
UpgradeIsRecoverable ==
  [][schema' # schema /\ takings > 0 =>
       \E h \in held: h.recorded /\ h.takings = takings /\ h.schema \in 1..schema]_schema

\* A build leaves a database alone whose history it does not know
\* (migrationRunner.ts:190).
ForeignIsLeftAlone ==
  [][~FreshInstall /\ ~(history.lineage = build.lineage /\ history.count <= build.target)
       => UNCHANGED <<schema, history, takings, held>>]_<<schema, history, takings, held>>
===============================================================================
