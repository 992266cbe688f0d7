--------------------------- MODULE LifecycleProofs ----------------------------
(* What holds of the station from one start to the next, for any number of     *)
(* builds, sessions, snapshots and sleeps: the database is opened by a build that *)
(* knows it, an update is installed as it was announced, endings and health are *)
(* told as they were.                                                          *)
EXTENDS Migrations, Updater, Wake, Sessions, Health, FiniteSetTheorems, TLAPS

(* Migrations: the opening of the database, wherever the process dies.         *)

\* The tables in the file are those its rows tell of.
Recorded == schema = history.count

\* Past the reading of the history it is one this build knows, or there is none.
Read ==
  /\ boot = "BOOTSTRAPPING" => FreshInstall \/ Known
  /\ boot \in {"BACKING_UP", "BACKED_UP", "MIGRATING"} => Known /\ ~FreshInstall
  /\ boot \in {"VALIDATING", "SERVING"} => Known
  /\ boot = "SERVING" => history.count = build.target

\* Nothing was sold into a file that was new when it was opened.
Empty ==
  /\ FreshInstall => takings = 0
  /\ boot = "BOOTSTRAPPING" => takings = 0

\* The backup the migrations under way rest on.
Safe == \E h \in held: h.recorded /\ h.takings = takings /\ h.schema \in 1..schema
Gated == boot = "MIGRATING" => Safe

UpgradeInv == MigrationsTypeOK /\ Recorded /\ Read /\ Empty /\ Gated

-------------------------------------------------------------------------------

\* At the first installation there is a build and no file.
LEMMA InitUpgrade == MigrationsInit => UpgradeInv
<1> SUFFICES ASSUME MigrationsInit PROVE UpgradeInv
  OBVIOUS
<1>1. (CHOOSE l \in Lineages: TRUE) \in Lineages
  BY MigrationsAssumption
<1>2. build \in Build /\ 0 \in 0..MaxSchema /\ 0 \in 0..MaxTakings
  BY <1>1, MigrationsAssumption DEF MigrationsInit, Build
<1>3. MigrationsTypeOK
  BY <1>2 DEF MigrationsInit, MigrationsTypeOK, Boot, NoHistory
<1>4. Recorded /\ Read /\ Empty /\ Gated
  BY DEF MigrationsInit, Recorded, Read, Empty, Gated, NoHistory, FreshInstall
<1> QED
  BY <1>3, <1>4 DEF UpgradeInv

\* What changes neither the file nor the backups keeps what is said of them.
LEMMA BootOnly ==
  ASSUME UpgradeInv, boot' \in Boot,
         UNCHANGED <<build, schema, history, takings, held>>,
         boot' \in {"BOOTSTRAPPING", "BACKING_UP", "BACKED_UP", "MIGRATING",
                    "VALIDATING", "SERVING"} => (FreshInstall /\ boot' = "BOOTSTRAPPING") \/ Known,
         boot' \in {"BACKING_UP", "BACKED_UP", "MIGRATING"} => ~FreshInstall,
         boot' = "SERVING" => history.count = build.target,
         boot' = "BOOTSTRAPPING" => takings = 0,
         boot' = "MIGRATING" => Safe
  PROVE  UpgradeInv'
<1>1. MigrationsTypeOK'
  BY DEF UpgradeInv, MigrationsTypeOK
<1>2. Recorded'
  BY DEF UpgradeInv, Recorded, FreshInstall
<1>3. Read'
  BY DEF UpgradeInv, Read, FreshInstall, Known
<1>4. Empty'
  BY DEF UpgradeInv, Empty, FreshInstall
<1>5. Gated'
  BY DEF Gated, Safe
<1> QED
  BY <1>1, <1>2, <1>3, <1>4, <1>5 DEF UpgradeInv

\* An installation meets a closed application.
LEMMA InstallKeeps ==
  ASSUME UpgradeInv, NEW b \in Build, Install(b)
  PROVE  UpgradeInv'
<1>1. MigrationsTypeOK'
  BY DEF UpgradeInv, MigrationsTypeOK, Install
<1>2. Recorded' /\ Read' /\ Empty' /\ Gated'
  BY DEF UpgradeInv, Install, Recorded, Read, Empty, Gated, FreshInstall
<1> QED
  BY <1>1, <1>2 DEF UpgradeInv

\* Opening the connection, closing it, and every failure on the way.
LEMMA LeavingKeeps ==
  ASSUME UpgradeInv,
         OpenConnection \/ SnapshotBeforeFails \/ RecordSnapshotFails \/ ApplyFails \/ Exit
  PROVE  UpgradeInv'
<1>1. /\ boot' \in {"OPENED", "UNAVAILABLE", "CLOSED"}
      /\ UNCHANGED <<build, schema, history, takings, held>>
  BY DEF OpenConnection, SnapshotBeforeFails, RecordSnapshotFails, ApplyFails, Exit,
         Unavailable
<1>2. boot' \in Boot
  BY <1>1 DEF Boot, Opening
<1> QED
  BY <1>1, <1>2, BootOnly

\* The history is read: a file without one is new.
LEMMA ReadKeeps ==
  ASSUME UpgradeInv, ReadHistory
  PROVE  UpgradeInv'
<1>1. UNCHANGED <<build, schema, history, takings, held>>
  BY DEF ReadHistory
<1>2. CASE ~FreshInstall /\ ~Known
  <2>1. boot' = "UNAVAILABLE"
    BY <1>2 DEF ReadHistory, Unavailable
  <2>2. boot' \in Boot
    BY <2>1 DEF Boot
  <2> QED
    BY <1>1, <2>1, <2>2, BootOnly
<1>3. CASE FreshInstall \/ Known
  <2>1. history.count \in Nat /\ build.target \in Nat \ {0}
    BY MigrationsAssumption DEF UpgradeInv, MigrationsTypeOK, Build
  <2>2. FreshInstall => ~(history.count >= build.target)
    BY <2>1 DEF FreshInstall
  <2>3. boot' = CASE history.count >= build.target -> "VALIDATING"
                  [] FreshInstall -> "BOOTSTRAPPING"
                  [] OTHER -> "BACKING_UP"
    BY <1>3 DEF ReadHistory
  <2>4. \/ boot' = "VALIDATING" /\ ~FreshInstall
        \/ boot' = "BOOTSTRAPPING" /\ FreshInstall
        \/ boot' = "BACKING_UP" /\ ~FreshInstall
    BY <2>2, <2>3
  <2>5. boot' \in Boot
    BY <2>4 DEF Boot, Opening
  <2>6. FreshInstall => takings = 0
    BY DEF UpgradeInv, Empty
  <2> QED
    BY <1>1, <1>3, <2>4, <2>5, <2>6, BootOnly
<1> QED
  BY <1>2, <1>3

\* The snapshot is a file more.
LEMMA SnapshotKeeps ==
  ASSUME UpgradeInv, SnapshotBefore
  PROVE  UpgradeInv'
<1>1. /\ boot = "BACKING_UP" /\ boot' = "BACKED_UP"
      /\ UNCHANGED <<build, schema, history, takings>>
  BY DEF SnapshotBefore
<1>2. [schema |-> schema, takings |-> takings, recorded |-> FALSE] \in Held
  BY DEF UpgradeInv, MigrationsTypeOK, Held
<1>3. held' \subseteq Held
  BY <1>2 DEF UpgradeInv, MigrationsTypeOK, SnapshotBefore
<1>4. boot' \in Boot
  BY <1>1 DEF Boot, Opening
<1>5. MigrationsTypeOK'
  BY <1>1, <1>3, <1>4 DEF UpgradeInv, MigrationsTypeOK
<1>6. Recorded' /\ Read' /\ Empty' /\ Gated'
  BY <1>1 DEF UpgradeInv, Recorded, Read, Empty, Gated, FreshInstall, Known
<1> QED
  BY <1>5, <1>6 DEF UpgradeInv

\* The row is written: the migrations rest on this backup from now on.
LEMMA RecordKeeps ==
  ASSUME UpgradeInv, RecordSnapshot
  PROVE  UpgradeInv'
<1> DEFINE h == [schema |-> schema, takings |-> takings, recorded |-> TRUE]
<1>1. /\ boot = "BACKED_UP" /\ boot' = "MIGRATING"
      /\ UNCHANGED <<build, schema, history, takings>>
  BY DEF RecordSnapshot
<1>2. h \in Held /\ h \in held'
  BY DEF UpgradeInv, MigrationsTypeOK, Held, RecordSnapshot
<1>3. held' \subseteq Held
  BY <1>2 DEF UpgradeInv, MigrationsTypeOK, RecordSnapshot
<1>4. boot' \in Boot
  BY <1>1 DEF Boot, Opening
<1>5. MigrationsTypeOK'
  BY <1>1, <1>3, <1>4 DEF UpgradeInv, MigrationsTypeOK
<1>6. Recorded' /\ Read' /\ Empty'
  BY <1>1 DEF UpgradeInv, Recorded, Read, Empty, FreshInstall, Known
<1>7. schema \in Nat /\ schema # 0
  BY <1>1, MigrationsAssumption
     DEF UpgradeInv, MigrationsTypeOK, Read, Recorded, FreshInstall
<1>8. schema \in 1..schema
  BY <1>7
<1>9. h.recorded /\ h.takings = takings' /\ h.schema \in 1..schema'
  BY <1>1, <1>8
<1>10. Gated'
  BY <1>2, <1>9 DEF Gated, Safe
<1> QED
  BY <1>5, <1>6, <1>10 DEF UpgradeInv

\* A migration and its row come together, and the file keeps its lineage.
LEMMA ApplyKeeps ==
  ASSUME UpgradeInv, ApplyNext
  PROVE  UpgradeInv'
<1>1. /\ boot \in {"BOOTSTRAPPING", "MIGRATING"} /\ history.count < build.target
      /\ schema' = schema + 1
      /\ history' = [count |-> history.count + 1, lineage |-> build.lineage]
      /\ UNCHANGED <<build, boot, takings, held>>
  BY DEF ApplyNext, Pending
<1>2. /\ history.count \in Nat /\ build.target \in 1..MaxSchema
      /\ build.lineage \in Lineages
      /\ MaxSchema \in Nat
      /\ schema = history.count
  BY MigrationsAssumption DEF UpgradeInv, MigrationsTypeOK, Build, Recorded
<1>3. history.count + 1 \in 0..MaxSchema /\ history.count + 1 <= build.target
  BY <1>1, <1>2
<1>4. history' \in [count: 0..MaxSchema, lineage: Lineages \cup {"NONE"}]
  BY <1>1, <1>2, <1>3
<1>5. schema' \in 0..MaxSchema
  BY <1>1, <1>2, <1>3
<1>6. MigrationsTypeOK'
  BY <1>1, <1>4, <1>5 DEF UpgradeInv, MigrationsTypeOK
<1>7. history'.count = schema' /\ history'.count # 0 /\ history'.lineage = build.lineage
  BY <1>1, <1>2
<1>8. Known'
  BY <1>1, <1>3, <1>7 DEF Known
<1>9. ~FreshInstall'
  BY <1>7 DEF FreshInstall
<1>10. Recorded'
  BY <1>7 DEF Recorded
<1>11. Read' /\ Empty'
  BY <1>1, <1>8, <1>9 DEF UpgradeInv, Read, Empty
<1>12. 1..schema \subseteq 1..schema'
  BY <1>1, <1>2
<1>13. Gated'
  BY <1>1, <1>12 DEF UpgradeInv, Gated, Safe
<1> QED
  BY <1>6, <1>10, <1>11, <1>13 DEF UpgradeInv

\* All migrations applied: what the history tells is what the build wants.
LEMMA AppliedKeeps ==
  ASSUME UpgradeInv, AllApplied
  PROVE  UpgradeInv'
<1>1. /\ boot \in {"BOOTSTRAPPING", "MIGRATING"} /\ history.count = build.target
      /\ boot' = "VALIDATING"
      /\ UNCHANGED <<build, schema, history, takings, held>>
  BY DEF AllApplied
<1>2. build.target # 0
  BY MigrationsAssumption DEF UpgradeInv, MigrationsTypeOK, Build
<1>3. Known
  BY <1>1, <1>2 DEF UpgradeInv, Read, FreshInstall
<1>4. boot' \in Boot
  BY <1>1 DEF Boot, Opening
<1> QED
  BY <1>1, <1>3, <1>4, BootOnly

\* The validation serves what has the version of the build, or nothing.
LEMMA ValidateKeeps ==
  ASSUME UpgradeInv, Validate
  PROVE  UpgradeInv'
<1>1. /\ boot = "VALIDATING" /\ boot' \in {"SERVING", "UNAVAILABLE"}
      /\ boot' = "SERVING" => history.count = build.target
      /\ UNCHANGED <<build, schema, history, takings, held>>
  BY DEF Validate
<1>2. Known
  BY <1>1 DEF UpgradeInv, Read
<1>3. boot' \in Boot
  BY <1>1 DEF Boot
<1> QED
  BY <1>1, <1>2, <1>3, BootOnly

\* Sales are made in a file with a history.
LEMMA TakeKeeps ==
  ASSUME UpgradeInv, Take
  PROVE  UpgradeInv'
<1>1. /\ boot = "SERVING" /\ takings' = takings + 1 /\ takings < MaxTakings
      /\ UNCHANGED <<build, boot, schema, history, held>>
  BY DEF Take
<1>2. takings' \in 0..MaxTakings
  BY <1>1, MigrationsAssumption DEF UpgradeInv, MigrationsTypeOK
<1>3. MigrationsTypeOK'
  BY <1>1, <1>2 DEF UpgradeInv, MigrationsTypeOK
<1>4. history.count # 0
  BY <1>1, MigrationsAssumption DEF UpgradeInv, MigrationsTypeOK, Build, Read
<1>5. Recorded' /\ Read' /\ Empty' /\ Gated'
  BY <1>1, <1>4 DEF UpgradeInv, Recorded, Read, Empty, Gated, FreshInstall, Known
<1> QED
  BY <1>3, <1>5 DEF UpgradeInv

\* Every step keeps the invariant.
LEMMA StepUpgrade == UpgradeInv /\ [MigrationsNext]_upgradeVars => UpgradeInv'
<1> SUFFICES ASSUME UpgradeInv, [MigrationsNext]_upgradeVars PROVE UpgradeInv'
  OBVIOUS
<1>1. CASE \E b \in Build: Install(b)
  BY <1>1, InstallKeeps
<1>2. CASE OpenConnection \/ SnapshotBeforeFails \/ RecordSnapshotFails \/ ApplyFails \/ Exit
  BY <1>2, LeavingKeeps
<1>3. CASE ReadHistory
  BY <1>3, ReadKeeps
<1>4. CASE SnapshotBefore
  BY <1>4, SnapshotKeeps
<1>5. CASE RecordSnapshot
  BY <1>5, RecordKeeps
<1>6. CASE ApplyNext
  BY <1>6, ApplyKeeps
<1>7. CASE AllApplied
  BY <1>7, AppliedKeeps
<1>8. CASE Validate
  BY <1>8, ValidateKeeps
<1>9. CASE Take
  BY <1>9, TakeKeeps
<1>10. CASE UNCHANGED upgradeVars
  BY <1>10 DEF upgradeVars, UpgradeInv, MigrationsTypeOK, Recorded, Read, Empty, Gated,
               Safe, FreshInstall, Known
<1> QED
  BY <1>1, <1>2, <1>3, <1>4, <1>5, <1>6, <1>7, <1>8, <1>9, <1>10
     DEF MigrationsNext, OpenStep, Gate

\* What is served has the schema of its build (database.ts:97).
THEOREM ServesSchema == MigrationsSpec => []ServesItsSchema
<1>1. UpgradeInv => ServesItsSchema
  <2> SUFFICES ASSUME UpgradeInv, boot = "SERVING"
               PROVE  /\ schema = build.target
                      /\ history = [count |-> build.target, lineage |-> build.lineage]
    BY DEF ServesItsSchema
  <2>1. /\ schema = history.count /\ history.count = build.target
        /\ history.lineage = build.lineage
    BY DEF UpgradeInv, Recorded, Read, Known
  <2>2. history \in [count: 0..MaxSchema, lineage: Lineages \cup {"NONE"}]
    BY DEF UpgradeInv, MigrationsTypeOK
  <2> QED
    BY <2>1, <2>2
<1> QED
  BY <1>1, InitUpgrade, StepUpgrade, PTL DEF MigrationsSpec

\* Tables change only over a recorded backup of all sales (migrationRunner.ts:319).
THEOREM UpgradesRecoverable == MigrationsSpec => UpgradeIsRecoverable
<1>1. UpgradeInv /\ [MigrationsNext]_upgradeVars =>
        [schema' # schema /\ takings > 0 =>
           \E h \in held: h.recorded /\ h.takings = takings /\ h.schema \in 1..schema]_schema
  <2> SUFFICES ASSUME UpgradeInv, [MigrationsNext]_upgradeVars, schema' # schema, takings > 0
               PROVE  Safe
    BY DEF Safe
  <2>1. ApplyNext
    BY DEF MigrationsNext, OpenStep, Gate, Install, OpenConnection, ReadHistory,
           SnapshotBefore, SnapshotBeforeFails, RecordSnapshot, RecordSnapshotFails,
           ApplyFails, AllApplied, Validate, Take, Exit, upgradeVars
  <2>2. boot = "MIGRATING"
    BY <2>1 DEF ApplyNext, Pending, UpgradeInv, Empty
  <2> QED
    BY <2>2 DEF UpgradeInv, Gated
<1> QED
  BY <1>1, InitUpgrade, StepUpgrade, PTL DEF MigrationsSpec, UpgradeIsRecoverable

\* A build leaves a database alone that it does not know (migrationRunner.ts:190).
THEOREM ForeignLeftAlone == MigrationsSpec => ForeignIsLeftAlone
<1>1. UpgradeInv /\ [MigrationsNext]_upgradeVars =>
        [~FreshInstall /\ ~(history.lineage = build.lineage /\ history.count <= build.target)
           => UNCHANGED <<schema, history, takings, held>>]_<<schema, history, takings, held>>
  <2> SUFFICES ASSUME UpgradeInv, [MigrationsNext]_upgradeVars, ~FreshInstall, ~Known
               PROVE  UNCHANGED <<schema, history, takings, held>>
    BY DEF Known
  <2>1. boot \in {"CLOSED", "UNAVAILABLE", "OPENED"}
    BY DEF UpgradeInv, Read, MigrationsTypeOK, Boot, Opening
  <2> QED
    BY <2>1 DEF MigrationsNext, OpenStep, Gate, Install, OpenConnection, ReadHistory,
           SnapshotBefore, SnapshotBeforeFails, RecordSnapshot, RecordSnapshotFails,
           ApplyNext, Pending, ApplyFails, AllApplied, Validate, Take, Exit, upgradeVars
<1> QED
  BY <1>1, InitUpgrade, StepUpgrade, PTL DEF MigrationsSpec, ForeignIsLeftAlone

-------------------------------------------------------------------------------
(* Updater: what is ready is what is installed.                                *)

UpdateStates == {"IDLE", "CHECKING", "AVAILABLE", "DOWNLOADING", "READY", "FAILED"}

\* The snapshot keeps its shape; the releases are numbers.
UpdaterTypeOK ==
  /\ update \in [state: UpdateStates, version: Nat]
  /\ page \in [state: UpdateStates, version: Nat]
  /\ release \in Nat /\ download \in Nat /\ installer \in Nat /\ checks \in Nat
  /\ duty \in Duties
  /\ launched \in [release: Nat, duty: Duties]

\* What was ready when it was launched is what was launched.
UpdaterInv == UpdaterTypeOK /\ InstallsWhatIsReady

\* A check leaves the installer where it lies and calls nothing ready.
LEMMA CheckKeepsInstaller ==
  ASSUME UpdaterInv, CheckNow, UNCHANGED <<release, download, installer, duty, page, click,
                                           launched>>
  PROVE  UpdaterInv'
<1> USE DEF UpdaterInv, UpdaterTypeOK, InstallsWhatIsReady, UpdateStates
<1>1. CASE checking
  BY <1>1 DEF CheckNow
<1>2. CASE ~checking
  <2>1. update' = [update EXCEPT !.state = "CHECKING"] /\ checks' = checks + 1 /\ checking' = TRUE
    BY <1>2 DEF CheckNow, To
  <2>2. update' \in [state: UpdateStates, version: Nat] /\ update'.state = "CHECKING"
    BY <2>1
  <2>3. QED
    BY <2>1, <2>2
<1>3. QED
  BY <1>1, <1>2

\* At the first start nothing is ready and nothing was launched.
LEMMA UpdaterStarts == UpdaterInit => UpdaterInv
BY DEF UpdaterInit, UpdaterInv, UpdaterTypeOK, InstallsWhatIsReady, UpdateStates,
       Duties, NotLaunched

\* No check, download, release or restart makes READY what does not lie there.
LEMMA UpdaterStep ==
  ASSUME UpdaterInv, [UpdaterNext]_updaterVars
  PROVE  UpdaterInv'
<1> USE DEF UpdaterInv, UpdaterTypeOK, InstallsWhatIsReady, UpdateStates, Settle, To
<1>1. CASE Tick
  BY <1>1, CheckKeepsInstaller DEF Tick
<1>2. CASE PressCheckNow
  BY <1>2, CheckKeepsInstaller DEF PressCheckNow
<1>3. CASE NoUpdate
  BY <1>3 DEF NoUpdate
<1>4. CASE UpdateAvailable
  BY <1>4 DEF UpdateAvailable
<1>5. CASE CheckFails
  BY <1>5 DEF CheckFails
<1>6. CASE DownloadProgress
  BY <1>6 DEF DownloadProgress
<1>7. CASE Downloaded
  BY <1>7 DEF Downloaded
<1>8. CASE DownloadFails
  BY <1>8 DEF DownloadFails
<1>9. CASE PublishRelease
  BY <1>9 DEF PublishRelease
<1>10. CASE DutyChanges
  BY <1>10 DEF DutyChanges
<1>11. CASE Poll
  BY <1>11 DEF Poll
<1>12. CASE PressRestart
  BY <1>12 DEF PressRestart
<1>13. CASE RestartAndInstall
  BY <1>13 DEF RestartAndInstall, Duties
<1>14. CASE UNCHANGED updaterVars
  BY <1>14 DEF updaterVars
<1> QED
  BY <1>1, <1>2, <1>3, <1>4, <1>5, <1>6, <1>7, <1>8, <1>9, <1>10, <1>11, <1>12,
     <1>13, <1>14 DEF UpdaterNext

\* However checks, downloads and releases overlap, what is called READY is what lies
\* there, for any number of releases and checks.
THEOREM InstallsReady == UpdaterSpec => []InstallsWhatIsReady
<1>1. UpdaterInv => InstallsWhatIsReady
  BY DEF UpdaterInv
<1> QED
  BY <1>1, UpdaterStarts, UpdaterStep, PTL DEF UpdaterSpec

-------------------------------------------------------------------------------
(* Wake: a sleep is told as a sleep.                                           *)

\* While the station is awake and the resume event served, the baseline lags the
\* clock only where somebody set the clock.
LagIsSetting == power = "AWAKE" /\ baseline # offset => wasSet

WakeInv ==
  /\ power \in {"AWAKE", "ASLEEP", "WOKEN"}
  /\ LagIsSetting
  /\ WakesTruthfully

\* The station starts awake, with the baseline where the clock is.
LEMMA WakeStarts == WakeInit => WakeInv
BY DEF WakeInit, WakeInv, LagIsSetting, WakesTruthfully

\* No step tells a sleep as a set clock, nor hides an open, sound database.
LEMMA WakeStep ==
  ASSUME WakeInv, [WakeNext]_wakeVars
  PROVE  WakeInv'
<1> USE DEF WakeInv, LagIsSetting, WakesTruthfully, clockVars, databaseVars
<1>1. CASE Suspend
  BY <1>1 DEF Suspend
<1>2. CASE Wakes
  BY <1>2 DEF Wakes
<1>3. CASE SetClock
  BY <1>3 DEF SetClock
<1>4. CASE CheckClock
  <2>1. jump'.real = wasSet /\ jump'.early = (power = "WOKEN")
    BY <1>4 DEF CheckClock
  <2>2. jump'.real \/ jump'.early
    BY <1>4, <2>1 DEF CheckClock
  <2> QED
    BY <1>4, <2>2 DEF CheckClock
<1>5. CASE Resume
  BY <1>5 DEF Resume, ResetBaseline, ResumeSafetyCheck
<1>6. CASE WireDatabaseBackedServices
  BY <1>6 DEF WireDatabaseBackedServices
<1>7. CASE StartupFails
  BY <1>7 DEF StartupFails
<1>8. CASE RestoreCloses
  BY <1>8 DEF RestoreCloses
<1>9. CASE RestoreFails
  BY <1>9 DEF RestoreFails
<1>10. CASE SoundnessTurns
  BY <1>10 DEF SoundnessTurns
<1>11. CASE UNCHANGED wakeVars
  BY <1>11 DEF wakeVars
<1> QED
  BY <1>1, <1>2, <1>3, <1>4, <1>5, <1>6, <1>7, <1>8, <1>9, <1>10, <1>11 DEF WakeNext

\* In whatever order sleeps, settings, timers, resumes, openings and restores come, no
\* sleep is told as a set clock and no resume hides an open, sound database.
THEOREM WakesTold == WakeSpec => []WakesTruthfully
<1>1. WakeInv => WakesTruthfully
  BY DEF WakeInv
<1> QED
  BY <1>1, WakeStarts, WakeStep, PTL DEF WakeSpec

-------------------------------------------------------------------------------
(* Sessions: the invariant.                                                    *)

Events == Incidents \union {Unexpected}
Line == [event: Events \union {"OTHER"}, about: Nat]
CrashRecord == [event: Events, about: Nat, at: Nat]
Told == {records[k].about : k \in {j \in DOMAIN records : records[j].event = Unexpected}}

SessionShapes ==
  /\ {"state", "id"} \subseteq DOMAIN marker
  /\ marker.state \in {"ABSENT", "RUNNING", "CLEAN", "CORRUPT"} /\ marker.id \in Nat
  /\ process \in {"DOWN", "RECORDING", "MARKING", "UP", "CLOSING"} /\ active \in Nat
  /\ ended \in Seq({"BEGUN", "LIVE", "UNMARKED", "CLEAN", "KILLED"})
  /\ records \in Seq(CrashRecord) /\ evidence \subseteq DOMAIN records
  /\ day \in Nat /\ reached \in Nat /\ day <= reached

\* What the process knows of its own session.
Process ==
  /\ process # "DOWN" => Current # 0
  /\ process \in {"RECORDING", "MARKING"} => active = Current /\ ended[Current] = "BEGUN"
  /\ process \in {"UP", "CLOSING"} /\ active # 0 =>
       active = Current /\ ended[Current] = "LIVE"
  /\ \A s \in DOMAIN ended: ended[s] = "LIVE" =>
       /\ s = Current /\ process \in {"UP", "CLOSING"} /\ active = s /\ marker.id = s
       /\ marker.state = "RUNNING" \/ s \in mistold

\* The marker on the disk: a running one is of the session alive or of one that was
\* killed, which is recorded before the marker is replaced.
Marker ==
  /\ marker.state = "RUNNING" =>
       /\ marker.id \in DOMAIN ended
       /\ ended[marker.id] \in {"LIVE", "KILLED"} \/ marker.id \in mistold
  /\ marker.state = "CORRUPT" => marker.id \in mistold
  /\ process = "RECORDING" =>
       marker.state \in {"RUNNING", "CORRUPT"} /\ marker.id \in DOMAIN ended
  /\ process = "MARKING" /\ marker.state = "RUNNING" => marker.id \in Told \union mistold
  /\ marker.state # "ABSENT" => marker.id \in DOMAIN ended

Endings ==
  /\ Told \subseteq DOMAIN ended
  /\ \A s \in DOMAIN ended \ mistold:
       /\ ended[s] = "KILLED" =>
            s \in Told \/ (marker.id = s /\ marker.state = "RUNNING")
       /\ s \in Told => ended[s] = "KILLED"

LinesOK(lines, told) ==
  /\ lines \in Seq(Line)
  /\ \A k \in DOMAIN lines: lines[k].event = Unexpected => lines[k].about \in told
Feed == DOMAIN log = Numbers /\ \A n \in Numbers: LinesOK(log[n].lines, Told)

\* A record may be gone from the disk.
MayGo(all, k, latest) ==
  \/ all[k].at < latest - MaxAge
  \/ Cardinality({j \in DOMAIN all \ {k} : all[j].at >= all[k].at}) >= MaxRecords
Evidence == \A k \in DOMAIN records \ evidence: MayGo(records, k, reached)

SessionsInv == SessionShapes /\ Process /\ Marker /\ Endings /\ Feed /\ Evidence

-------------------------------------------------------------------------------

\* A line in the log leaves of the others some, as they are.
LEMMA Logged ==
  ASSUME NEW told, DOMAIN log = Numbers, \A n \in Numbers: LinesOK(log[n].lines, told),
         NEW line \in Line, line.event = Unexpected => line.about \in told, Log(line)
  PROVE  DOMAIN log' = Numbers /\ \A n \in Numbers: LinesOK(log'[n].lines, told)
<1> DEFINE due == swept = NoDay \/ day < swept \/ day > swept
           cleaned == IF due THEN Cleaned(log) ELSE log
           files == Rotated(cleaned)
<1>0. 0 \in Numbers /\ \A n \in Numbers: n # 0 => n - 1 \in Numbers
  BY SessionsAssumption DEF Numbers
<1>1. LinesOK(NoFile.lines, told)
  BY DEF LinesOK, NoFile
<1>2. DOMAIN cleaned = Numbers /\ \A n \in Numbers: LinesOK(cleaned[n].lines, told)
  BY <1>1 DEF Cleaned
<1> HIDE DEF cleaned
<1>3. DOMAIN files = Numbers /\ \A n \in Numbers: LinesOK(files[n].lines, told)
  BY <1>0, <1>1, <1>2 DEF Rotated
<1> HIDE DEF files
<1>4. log' = [files EXCEPT ![0] = [at |-> day, lines |-> Append(files[0].lines, line)]]
  BY DEF Log, files, cleaned
<1>5. LinesOK(Append(files[0].lines, line), told)
  BY <1>0, <1>3 DEF LinesOK
<1> QED BY <1>0, <1>3, <1>4, <1>5

\* Retention keeps what is not out of age, but for what MaxRecords others are as new as.
LEMMA RetainedKeeps ==
  ASSUME NEW all \in Seq(CrashRecord), NEW keys \in SUBSET DOMAIN all,
         day \in Nat, reached \in Nat, day <= reached,
         \A k \in DOMAIN all \ keys: MayGo(all, k, reached),
         NEW kept \in Retained(all, keys)
  PROVE  kept \subseteq DOMAIN all /\ \A k \in DOMAIN all \ kept: MayGo(all, k, reached)
<1> DEFINE fresh == {k \in keys : all[k].at >= day - MaxAge}
<1>1. /\ kept \subseteq fresh
      /\ Cardinality(kept) = Min({Cardinality(fresh), MaxRecords})
      /\ \A k \in kept, j \in fresh \ kept: all[j].at <= all[k].at
  BY DEF Retained
<1>2. IsFiniteSet(DOMAIN all)
  BY FS_Interval
<1>3. IsFiniteSet(fresh) /\ IsFiniteSet(kept)
  BY <1>1, <1>2, FS_Subset
<1>4. \A k \in DOMAIN all: all[k].at \in Nat
  <2>1. \A k \in DOMAIN all: all[k] \in CrashRecord
    OBVIOUS
  <2> QED BY <2>1 DEF CrashRecord
<1>5. ASSUME NEW k \in DOMAIN all \ kept PROVE MayGo(all, k, reached)
  <2>1. CASE k \notin keys
    BY <2>1, <1>5
  <2>2. CASE k \in keys \ fresh
    BY <1>4, <2>2, SessionsAssumption DEF MayGo
  <2>3. CASE k \in fresh
    <3>1. Cardinality(kept) < Cardinality(fresh)
      <4>1. kept \subseteq fresh /\ kept # fresh
        BY <1>1, <1>5, <2>3
      <4>2. /\ Cardinality(kept) <= Cardinality(fresh)
            /\ Cardinality(kept) = Cardinality(fresh) => kept = fresh
        BY <1>3, <4>1, FS_Subset
      <4>3. Cardinality(fresh) \in Nat /\ Cardinality(kept) \in Nat
        BY <1>3, FS_CardinalityType
      <4> HIDE DEF fresh
      <4> QED BY <4>1, <4>2, <4>3
    <3>2. Cardinality(fresh) \in Nat /\ Cardinality(kept) \in Nat
      BY <1>3, FS_CardinalityType
    <3>3. Cardinality(kept) = MaxRecords
      BY <1>1, <3>1, <3>2, SessionsAssumption DEF Min
    <3> DEFINE newer == {j \in DOMAIN all \ {k} : all[j].at >= all[k].at}
    <3>4. kept \subseteq newer
      BY <1>1, <1>4, <1>5, <2>3
    <3>5. IsFiniteSet(newer)
      BY <1>2, FS_Subset
    <3>6. Cardinality(newer) \in Nat /\ Cardinality(kept) <= Cardinality(newer)
      BY <3>4, <3>5, FS_Subset, FS_CardinalityType
    <3> QED BY <3>3, <3>6 DEF MayGo
  <2> QED BY <1>5, <2>1, <2>2, <2>3
<1> QED BY <1>1, <1>5

\* What may be gone may be gone with more records, and later.
LEMMA MayGoStays ==
  ASSUME NEW all \in Seq(CrashRecord), NEW more \in Seq(CrashRecord),
         Len(all) <= Len(more), \A j \in DOMAIN all: more[j] = all[j],
         NEW now \in Nat, NEW later \in Nat, now <= later,
         NEW k \in DOMAIN all, MayGo(all, k, now)
  PROVE  MayGo(more, k, later)
<1> DEFINE newer == {j \in DOMAIN all \ {k} : all[j].at >= all[k].at}
           newest == {j \in DOMAIN more \ {k} : more[j].at >= more[k].at}
<1>1. all[k].at \in Nat /\ more[k] = all[k]
  <2>1. all[k] \in CrashRecord
    OBVIOUS
  <2> QED BY <2>1 DEF CrashRecord
<1>2. newer \subseteq newest
  OBVIOUS
<1>3. IsFiniteSet(newest)
  <2>1. IsFiniteSet(DOMAIN more)
    BY FS_Interval
  <2> QED BY <2>1, FS_Subset
<1>4. /\ Cardinality(newer) \in Nat /\ Cardinality(newest) \in Nat
      /\ Cardinality(newer) <= Cardinality(newest)
  BY <1>2, <1>3, FS_Subset, FS_CardinalityType
<1> QED BY <1>1, <1>4, SessionsAssumption DEF MayGo

\* A step that writes a line and no record.
LEMMA OtherLogged ==
  ASSUME SessionsInv, Log([event |-> "OTHER", about |-> 0]), records' = records
  PROVE  Feed' /\ Told' = Told
<1> PICK told: told = Told
  OBVIOUS
<1> PICK line: line = [event |-> "OTHER", about |-> 0]
  OBVIOUS
<1>1. line \in Line /\ line.event # Unexpected
  BY DEF Line, Unexpected
<1>2. DOMAIN log = Numbers /\ \A n \in Numbers: LinesOK(log[n].lines, told)
  BY DEF SessionsInv, Feed
<1>3. DOMAIN log' = Numbers /\ \A n \in Numbers: LinesOK(log'[n].lines, told)
  BY <1>1, <1>2, Logged
<1>4. Told' = told
  BY DEF Told
<1> QED BY <1>3, <1>4 DEF Feed, Numbers

\* A step that writes nothing of either.
LEMMA NothingWritten ==
  ASSUME SessionsInv, UNCHANGED <<records, log>>
  PROVE  Feed' /\ Told' = Told
BY DEF SessionsInv, Feed, Told, Numbers, LinesOK

\* A step that writes and removes no record, at a later time.
LEMMA EvidenceStays ==
  ASSUME SessionsInv, UNCHANGED <<records, evidence>>, reached' \in Nat, reached <= reached'
  PROVE  Evidence'
<1>1. records \in Seq(CrashRecord) /\ reached \in Nat
  BY DEF SessionsInv, SessionShapes
<1>2. ASSUME NEW k \in DOMAIN records \ evidence PROVE MayGo(records, k, reached')
  <2>1. MayGo(records, k, reached)
    BY <1>2 DEF SessionsInv, Evidence
  <2> QED BY <1>1, <1>2, <2>1, MayGoStays
<1> QED BY <1>2 DEF Evidence, MayGo

\* A crash record is written, and its line.
LEMMA CrashRecorded ==
  ASSUME SessionsInv, NEW event \in Events, NEW about \in Nat, RecordCrash(event, about),
         UNCHANGED <<day, reached>>
  PROVE  /\ records' \in Seq(CrashRecord) /\ evidence' \subseteq DOMAIN records'
         /\ Evidence' /\ Feed'
         /\ Told' = IF event = Unexpected THEN Told \union {about} ELSE Told
<1> PICK new: new = [event |-> event, about |-> about, at |-> day]
  OBVIOUS
<1> PICK all: all = Append(records, new)
  OBVIOUS
<1>0. /\ records \in Seq(CrashRecord) /\ evidence \subseteq DOMAIN records
      /\ day \in Nat /\ reached \in Nat /\ day <= reached
  BY DEF SessionsInv, SessionShapes
<1>1. /\ records' = all /\ evidence' \in Retained(all, evidence \union {Len(all)})
      /\ Log([event |-> event, about |-> about])
  BY DEF RecordCrash
<1>2. new \in CrashRecord
  BY <1>0 DEF CrashRecord
<1>3. /\ all \in Seq(CrashRecord) /\ Len(all) = Len(records) + 1 /\ Len(records) \in Nat
      /\ \A j \in DOMAIN records: j \in DOMAIN all /\ all[j] = records[j]
      /\ all[Len(all)] = new /\ DOMAIN all = DOMAIN records \union {Len(all)}
  BY <1>0, <1>2
<1>4. \A k \in DOMAIN all \ (evidence \union {Len(all)}): MayGo(all, k, reached)
  <2> SUFFICES ASSUME NEW k \in DOMAIN all \ (evidence \union {Len(all)})
               PROVE  MayGo(all, k, reached)
    OBVIOUS
  <2>1. k \in DOMAIN records /\ MayGo(records, k, reached)
    BY <1>3 DEF SessionsInv, Evidence
  <2>2. Len(records) <= Len(all) /\ \A j \in DOMAIN records: all[j] = records[j]
    BY <1>3
  <2>3. reached <= reached
    BY <1>0
  <2> QED BY <1>0, <1>3, <2>1, <2>2, <2>3, MayGoStays
<1>5. (evidence \union {Len(all)}) \in SUBSET DOMAIN all
  BY <1>0, <1>3
<1>6. /\ evidence' \subseteq DOMAIN all
      /\ \A k \in DOMAIN all \ evidence': MayGo(all, k, reached)
  <2> PICK kept: kept = evidence'
    OBVIOUS
  <2>1. kept \in Retained(all, evidence \union {Len(all)})
    BY <1>1
  <2> QED BY <1>0, <1>3, <1>4, <1>5, <2>1, RetainedKeeps
<1>7. Evidence'
  BY <1>1, <1>6 DEF Evidence, MayGo
<1>8. PICK told: told = IF event = Unexpected THEN Told \union {about} ELSE Told
  OBVIOUS
<1>9. Told' = told
  <2>1. new.event = event /\ new.about = about
    OBVIOUS
  <2>2. \A s: s \in Told <=> \E k \in DOMAIN records: records[k].event = Unexpected /\ records[k].about = s
    BY DEF Told
  <2>3. \A s: s \in Told' <=> \E k \in DOMAIN all: all[k].event = Unexpected /\ all[k].about = s
    BY <1>1 DEF Told
  <2>4. \A s: s \in Told' <=> s \in Told \/ (event = Unexpected /\ s = about)
    BY <1>3, <2>1, <2>2, <2>3
  <2> QED BY <1>8, <2>4
<1>10. PICK line: line = [event |-> event, about |-> about]
  OBVIOUS
<1>11. line \in Line /\ (line.event = Unexpected => line.about \in told)
  BY <1>8, <1>10 DEF Line
<1>12. \A n \in Numbers: LinesOK(log[n].lines, told)
  BY <1>8 DEF SessionsInv, Feed, LinesOK
<1>13. DOMAIN log' = Numbers /\ \A n \in Numbers: LinesOK(log'[n].lines, told)
  BY <1>1, <1>10, <1>11, <1>12, Logged DEF SessionsInv, Feed
<1>14. Feed'
  BY <1>9, <1>13 DEF Feed, Numbers
<1> QED BY <1>1, <1>3, <1>6, <1>7, <1>8, <1>9, <1>14
\* The steps of a session.
LEMMA StartSessionStep ==
  ASSUME SessionsInv, StartSession
  PROVE  SessionsInv'
<1>1. /\ process = "DOWN" /\ ended' = Append(ended, "BEGUN") /\ active' = Current + 1
      /\ process' = IF marker.state = "RUNNING" THEN "RECORDING" ELSE "MARKING"
      /\ UNCHANGED <<marker, records, evidence, log, day, reached, mistold>>
  BY DEF StartSession
<1>2. /\ ended \in Seq({"BEGUN", "LIVE", "UNMARKED", "CLEAN", "KILLED"})
      /\ Current = Len(ended) /\ Current \in Nat /\ DOMAIN ended = 1..Current
  BY DEF SessionsInv, SessionShapes, Current
<1>3. /\ Current' = Current + 1 /\ ended'[Current'] = "BEGUN"
      /\ ended' \in Seq({"BEGUN", "LIVE", "UNMARKED", "CLEAN", "KILLED"})
      /\ DOMAIN ended' = 1..(Current + 1)
      /\ \A s \in DOMAIN ended: s \in DOMAIN ended' /\ ended'[s] = ended[s] /\ s # Current + 1
  BY <1>1, <1>2 DEF Current
<1>4. Feed' /\ Told' = Told /\ Evidence'
  BY <1>1, NothingWritten, EvidenceStays DEF SessionsInv, SessionShapes
<1>5. SessionShapes'
  BY <1>1, <1>2, <1>3 DEF SessionsInv, SessionShapes
<1>6. Process'
  BY <1>1, <1>2, <1>3 DEF SessionsInv, Process
<1>7. Marker'
  BY <1>1, <1>2, <1>3, <1>4 DEF SessionsInv, Marker, Process
<1>8. Endings'
  BY <1>1, <1>2, <1>3, <1>4 DEF SessionsInv, Endings, Process
<1> QED BY <1>4, <1>5, <1>6, <1>7, <1>8 DEF SessionsInv

\* The session before is recorded, or its record fails and it is mistold.
LEMMA RecordPreviousStep ==
  ASSUME SessionsInv, RecordPrevious
  PROVE  SessionsInv'
<1>1. /\ process = "RECORDING" /\ process' = "MARKING"
      /\ UNCHANGED <<marker, active, day, reached, ended>>
  BY DEF RecordPrevious
<1>2. CASE RecordCrash(Unexpected, marker.id) /\ UNCHANGED <<mistold, mishaps>>
  <2>1. marker.id \in Nat /\ Unexpected \in Events
    BY DEF SessionsInv, SessionShapes, Events
  <2>2. /\ records' \in Seq(CrashRecord) /\ evidence' \subseteq DOMAIN records'
        /\ Evidence' /\ Feed' /\ Told' = Told \union {marker.id}
    BY <1>1, <1>2, <2>1, CrashRecorded
  <2>3. SessionShapes'
    BY <1>1, <2>2 DEF SessionsInv, SessionShapes
  <2>4. Process' /\ Marker'
    BY <1>1, <1>2, <2>2 DEF SessionsInv, Process, Marker, Current
  <2>5. Endings'
    BY <1>1, <1>2, <2>2 DEF SessionsInv, Process, Marker, Endings
  <2> QED BY <2>2, <2>3, <2>4, <2>5 DEF SessionsInv
<1>3. CASE RecordCrashFails /\ mistold' = mistold \union {marker.id}
  <2>1. Feed' /\ Told' = Told /\ Evidence' /\ UNCHANGED <<records, evidence>>
    BY <1>1, <1>3, OtherLogged, EvidenceStays
      DEF RecordCrashFails, SessionsInv, SessionShapes
  <2>2. SessionShapes'
    BY <1>1, <2>1 DEF SessionsInv, SessionShapes
  <2>3. Process' /\ Marker' /\ Endings'
    BY <1>1, <1>3, <2>1 DEF SessionsInv, Process, Marker, Endings, Current
  <2> QED BY <2>1, <2>2, <2>3 DEF SessionsInv
<1> QED BY <1>2, <1>3 DEF RecordPrevious

\* The marker is replaced once the session it was of is told; or the session goes unmarked.
LEMMA WriteMarkerStep ==
  ASSUME SessionsInv, WriteMarker
  PROVE  SessionsInv'
<1>1. /\ process = "MARKING" /\ process' = "UP"
      /\ UNCHANGED <<records, evidence, day, reached, mistold>>
  BY DEF WriteMarker
<1>2. /\ Current \in Nat /\ Current # 0 /\ active = Current /\ Current \in DOMAIN ended
      /\ ended[Current] = "BEGUN" /\ DOMAIN ended = 1..Current
      /\ ended \in Seq({"BEGUN", "LIVE", "UNMARKED", "CLEAN", "KILLED"})
  BY <1>1 DEF SessionsInv, SessionShapes, Process, Current
<1>3. Current \notin Told \/ Current \in mistold
  BY <1>2 DEF SessionsInv, Endings
<1>4. PICK end \in {"LIVE", "UNMARKED"}:
        /\ ended' = [ended EXCEPT ![Current] = end]
        /\ end = "LIVE" => marker' = [state |-> "RUNNING", id |-> active]
                           /\ UNCHANGED <<active, log>>
        /\ end = "UNMARKED" => /\ Log([event |-> "OTHER", about |-> 0])
                               /\ active' = 0 /\ marker' = marker
  BY DEF WriteMarker
<1>5. /\ Current' = Current /\ ended'[Current] = end /\ DOMAIN ended' = DOMAIN ended
      /\ \A s \in DOMAIN ended: s # Current => ended'[s] = ended[s]
      /\ ended' \in Seq({"BEGUN", "LIVE", "UNMARKED", "CLEAN", "KILLED"})
  BY <1>2, <1>4 DEF Current
<1>6. Feed' /\ Told' = Told /\ Evidence'
  BY <1>1, <1>4, NothingWritten, OtherLogged, EvidenceStays DEF SessionsInv, SessionShapes
<1>7. CASE end = "LIVE"
  <2>1. SessionShapes'
    BY <1>1, <1>2, <1>4, <1>5, <1>7 DEF SessionsInv, SessionShapes
  <2>2. Process'
    BY <1>1, <1>2, <1>4, <1>5, <1>7 DEF SessionsInv, Process
  <2>3. Marker'
    BY <1>1, <1>2, <1>4, <1>5, <1>6, <1>7 DEF SessionsInv, Marker
  <2>4. Endings'
    BY <1>1, <1>2, <1>3, <1>4, <1>5, <1>6, <1>7 DEF SessionsInv, Endings, Marker
  <2> QED BY <1>6, <2>1, <2>2, <2>3, <2>4 DEF SessionsInv
<1>8. CASE end = "UNMARKED"
  <2>1. SessionShapes'
    BY <1>1, <1>2, <1>4, <1>5, <1>8 DEF SessionsInv, SessionShapes
  <2>2. Process'
    BY <1>1, <1>2, <1>4, <1>5, <1>8 DEF SessionsInv, Process
  <2>3. Marker'
    BY <1>1, <1>2, <1>4, <1>5, <1>6, <1>8 DEF SessionsInv, Marker
  <2>4. Endings'
    BY <1>1, <1>2, <1>3, <1>4, <1>5, <1>6, <1>8 DEF SessionsInv, Endings
  <2> QED BY <1>6, <2>1, <2>2, <2>3, <2>4 DEF SessionsInv
<1> QED BY <1>7, <1>8

\* An incident within the session is no ending.
LEMMA IncidentStep ==
  ASSUME SessionsInv, Incident
  PROVE  SessionsInv'
<1>1. UNCHANGED <<marker, active, process, day, reached, ended, mistold>>
  BY DEF Incident
<1>2. CASE \E event \in Incidents: RecordCrash(event, active)
  <2>1. PICK event \in Incidents: RecordCrash(event, active)
    BY <1>2
  <2>2. event \in Events /\ event # Unexpected /\ active \in Nat
    BY DEF Events, Incidents, Unexpected, SessionsInv, SessionShapes
  <2>3. /\ records' \in Seq(CrashRecord) /\ evidence' \subseteq DOMAIN records'
        /\ Evidence' /\ Feed' /\ Told' = Told
    BY <1>1, <2>1, <2>2, CrashRecorded
  <2>4. SessionShapes'
    BY <1>1, <2>3 DEF SessionsInv, SessionShapes
  <2>5. Process' /\ Marker' /\ Endings'
    BY <1>1, <2>3 DEF SessionsInv, Process, Marker, Endings, Current
  <2> QED BY <2>3, <2>4, <2>5 DEF SessionsInv
<1>3. CASE RecordCrashFails
  <2>1. Feed' /\ Told' = Told /\ Evidence' /\ UNCHANGED <<records, evidence>>
    BY <1>1, <1>3, OtherLogged, EvidenceStays
      DEF RecordCrashFails, SessionsInv, SessionShapes
  <2>2. SessionShapes'
    BY <1>1, <2>1 DEF SessionsInv, SessionShapes
  <2>3. Process' /\ Marker' /\ Endings'
    BY <1>1, <2>1 DEF SessionsInv, Process, Marker, Endings, Current
  <2> QED BY <2>1, <2>2, <2>3 DEF SessionsInv
<1> QED BY <1>2, <1>3 DEF Incident

\* Other parts log, the clock goes on or is set back, records are read, the program
\* begins to quit.
LEMMA AroundStep ==
  ASSUME SessionsInv,
         LogsOther \/ WillQuit \/ DayPasses \/ ClockSetBack \/ UNCHANGED sessionsVars
  PROVE  SessionsInv'
<1>1. /\ UNCHANGED <<marker, active, records, evidence, ended, mistold>>
      /\ process' = process \/ (process = "UP" /\ process' = "CLOSING")
      /\ day' \in Nat /\ reached' \in Nat /\ reached <= reached' /\ day' <= reached'
  <2>1. day \in Nat /\ reached \in Nat /\ day <= reached
    BY DEF SessionsInv, SessionShapes
  <2>2. CASE DayPasses
    <3>1. day' = day + 1 /\ reached' = Max({reached, day'})
      BY <2>2 DEF DayPasses
    <3>2. reached' = IF day' > reached THEN day' ELSE reached
      BY <2>1, <3>1 DEF Max
    <3> QED BY <2>1, <2>2, <3>1, <3>2 DEF DayPasses
  <2>3. CASE ClockSetBack
    BY <2>1, <2>3 DEF ClockSetBack
  <2>4. CASE LogsOther \/ WillQuit \/ UNCHANGED sessionsVars
    BY <2>1, <2>4 DEF LogsOther, WillQuit, sessionsVars
  <2> QED BY <2>2, <2>3, <2>4
<1>2. Feed' /\ Told' = Told
  BY <1>1, OtherLogged, NothingWritten
    DEF LogsOther, WillQuit, DayPasses, ClockSetBack, sessionsVars
<1>3. Evidence'
  BY <1>1, EvidenceStays
<1>4. SessionShapes'
  BY <1>1 DEF SessionsInv, SessionShapes
<1>5. Process' /\ Marker' /\ Endings'
  BY <1>1, <1>2 DEF SessionsInv, Process, Marker, Endings, Current
<1> QED BY <1>2, <1>3, <1>4, <1>5 DEF SessionsInv

\* Records are read for a bundle, after retention.
LEMMA CollectRecentStep ==
  ASSUME SessionsInv, CollectRecent
  PROVE  SessionsInv'
<1>1. UNCHANGED <<marker, active, process, records, log, day, reached, ended, mistold>>
  BY DEF CollectRecent
<1>2. PICK kept: kept = evidence' /\ kept \in Retained(records, evidence)
  BY DEF CollectRecent
<1>3. /\ kept \subseteq DOMAIN records
      /\ \A k \in DOMAIN records \ kept: MayGo(records, k, reached)
  BY <1>2, RetainedKeeps DEF SessionsInv, SessionShapes, Evidence
<1>4. Evidence'
  BY <1>1, <1>2, <1>3 DEF Evidence, MayGo
<1>5. Feed' /\ Told' = Told
  BY <1>1, NothingWritten
<1>6. SessionShapes'
  BY <1>1, <1>2, <1>3 DEF SessionsInv, SessionShapes
<1>7. Process' /\ Marker' /\ Endings'
  BY <1>1, <1>5 DEF SessionsInv, Process, Marker, Endings, Current
<1> QED BY <1>4, <1>5, <1>6, <1>7 DEF SessionsInv

\* The session ends, or its marker is damaged.
LEMMA EndingStep ==
  ASSUME SessionsInv, MarkCleanShutdown \/ Killed
  PROVE  SessionsInv'
<1>1. /\ process # "DOWN" /\ process' = "DOWN" /\ active' = 0
      /\ UNCHANGED <<records, evidence, log, day, reached>>
  BY DEF MarkCleanShutdown, Killed
<1>2. Feed' /\ Told' = Told /\ Evidence'
  BY <1>1, NothingWritten, EvidenceStays DEF SessionsInv, SessionShapes
<1>3. /\ Current \in Nat /\ Current # 0 /\ Current \in DOMAIN ended
      /\ DOMAIN ended = 1..Current
      /\ ended \in Seq({"BEGUN", "LIVE", "UNMARKED", "CLEAN", "KILLED"})
  BY <1>1 DEF SessionsInv, SessionShapes, Process, Current
<1>4. CASE Killed
  <2>1. PICK end \in {"BEGUN", "LIVE", "UNMARKED", "CLEAN", "KILLED"}:
          /\ ended' = [ended EXCEPT ![Current] = end]
          /\ end = IF ended[Current] = "LIVE" THEN "KILLED" ELSE ended[Current]
    <3>1. PICK end: end = IF ended[Current] = "LIVE" THEN "KILLED" ELSE ended[Current]
      OBVIOUS
    <3>2. end \in {"BEGUN", "LIVE", "UNMARKED", "CLEAN", "KILLED"}
      BY <1>3, <3>1
    <3>3. ended' = [ended EXCEPT ![Current] = end]
      BY <1>4, <3>1 DEF Killed
    <3> QED BY <3>1, <3>2, <3>3
  <2>2. UNCHANGED <<marker, mistold>>
    BY <1>4 DEF Killed
  <2>3. /\ Current' = Current /\ ended'[Current] = end /\ DOMAIN ended' = DOMAIN ended
        /\ \A s \in DOMAIN ended: s # Current => ended'[s] = ended[s]
        /\ ended' \in Seq({"BEGUN", "LIVE", "UNMARKED", "CLEAN", "KILLED"})
    BY <1>3, <2>1 DEF Current
  <2>4. SessionShapes'
    BY <1>1, <2>2, <2>3 DEF SessionsInv, SessionShapes
  <2>5. Process'
    BY <1>1, <1>3, <2>1, <2>3 DEF SessionsInv, Process
  <2>6. Marker'
    BY <1>1, <1>2, <2>1, <2>2, <2>3 DEF SessionsInv, Marker
  <2>7. Endings'
    BY <1>1, <1>2, <1>3, <2>1, <2>2, <2>3 DEF SessionsInv, Endings, Process
  <2> QED BY <1>2, <2>4, <2>5, <2>6, <2>7 DEF SessionsInv
<1>5. CASE MarkCleanShutdown /\ active = 0
  <2>1. UNCHANGED <<marker, ended, mistold>> /\ process = "CLOSING"
    BY <1>5 DEF MarkCleanShutdown
  <2>2. SessionShapes'
    BY <1>1, <2>1 DEF SessionsInv, SessionShapes
  <2>3. Process' /\ Marker' /\ Endings'
    BY <1>1, <1>2, <1>3, <1>5, <2>1
      DEF SessionsInv, Process, Marker, Endings, Current
  <2> QED BY <1>2, <2>2, <2>3 DEF SessionsInv
<1>6. CASE MarkCleanShutdown /\ active # 0
  <2>1. /\ process = "CLOSING" /\ ended' = [ended EXCEPT ![Current] = "CLEAN"]
        /\ \/ /\ marker' = [marker EXCEPT !.state = "CLEAN", !.id = active]
              /\ mistold' = mistold
           \/ mistold' = mistold \union {active} /\ marker' = marker
    BY <1>6 DEF MarkCleanShutdown
  <2>2. /\ active = Current /\ ended[Current] = "LIVE" /\ marker.id = Current
        /\ Current \notin Told \/ Current \in mistold
    BY <1>3, <1>6, <2>1 DEF SessionsInv, Process, Endings
  <2>3. /\ Current' = Current /\ ended'[Current] = "CLEAN" /\ DOMAIN ended' = DOMAIN ended
        /\ \A s \in DOMAIN ended: s # Current => ended'[s] = ended[s]
        /\ ended' \in Seq({"BEGUN", "LIVE", "UNMARKED", "CLEAN", "KILLED"})
    BY <1>3, <2>1 DEF Current
  <2>4. /\ marker'.id = Current /\ DOMAIN marker' = DOMAIN marker
        /\ \/ marker'.state = "CLEAN" /\ mistold' = mistold
           \/ mistold' = mistold \union {Current} /\ marker'.state = marker.state
    BY <2>1, <2>2 DEF SessionsInv, SessionShapes
  <2>5. SessionShapes'
    BY <1>1, <1>3, <2>3, <2>4 DEF SessionsInv, SessionShapes
  <2>6. Process'
    BY <1>1, <1>3, <2>3 DEF SessionsInv, Process
  <2>7. Marker'
    BY <1>1, <1>2, <1>3, <2>2, <2>3, <2>4 DEF SessionsInv, Marker
  <2>8. Endings'
    BY <1>1, <1>2, <1>3, <2>2, <2>3, <2>4 DEF SessionsInv, Endings
  <2> QED BY <1>2, <2>5, <2>6, <2>7, <2>8 DEF SessionsInv
<1> QED BY <1>4, <1>5, <1>6

\* Damaged bytes: the session they were of may be mistold.
LEMMA DamagedStep ==
  ASSUME SessionsInv, Damaged
  PROVE  SessionsInv'
<1>1. /\ marker' = [marker EXCEPT !.state = "CORRUPT"] /\ marker.state \in {"RUNNING", "CLEAN"}
      /\ mistold' = mistold \union {marker.id}
      /\ UNCHANGED <<active, process, records, evidence, log, day, reached, ended>>
  BY DEF Damaged
<1>2. marker'.id = marker.id /\ marker'.state = "CORRUPT" /\ DOMAIN marker' = DOMAIN marker
  BY <1>1 DEF SessionsInv, SessionShapes
<1>3. Feed' /\ Told' = Told /\ Evidence'
  BY <1>1, NothingWritten, EvidenceStays DEF SessionsInv, SessionShapes
<1>4. SessionShapes'
  BY <1>1, <1>2 DEF SessionsInv, SessionShapes
<1>5. Process' /\ Marker' /\ Endings'
  BY <1>1, <1>2, <1>3 DEF SessionsInv, Process, Marker, Endings, Current
<1> QED BY <1>3, <1>4, <1>5 DEF SessionsInv

\* Every step keeps the invariant.
LEMMA SessionsStep == SessionsInv /\ [SessionsNext]_sessionsVars => SessionsInv'
BY StartSessionStep, RecordPreviousStep, WriteMarkerStep, IncidentStep, AroundStep,
   CollectRecentStep, EndingStep, DamagedStep DEF SessionsNext

\* At first no session was begun.
LEMMA SessionsStart == SessionsInit => SessionsInv
<1> SUFFICES ASSUME SessionsInit PROVE SessionsInv
  OBVIOUS
<1>1. Told = {}
  BY DEF SessionsInit, Told
<1>2. SessionShapes /\ Process /\ Marker /\ Endings /\ Evidence
  BY <1>1 DEF SessionsInit, SessionShapes, Process, Marker, Endings, Evidence, Current
<1>3. Feed
  <2>1. LinesOK(<<>>, Told)
    BY DEF LinesOK
  <2> QED BY <2>1 DEF SessionsInit, Feed, NoFile
<1> QED BY <1>2, <1>3 DEF SessionsInv

\* How every session ended is told once, and truly, and no record of it is lost early.
THEOREM EndingsTold == SessionsSpec => []EndingsAreTold
<1>1. SessionsInv => EndingsAreTold
  <2> SUFFICES ASSUME SessionsInv PROVE EndingsAreTold
    OBVIOUS
  <2>1. \A s \in DOMAIN ended \ mistold:
          /\ ended[s] = "KILLED" /\ marker.id # s => s \in Told
          /\ s \in Told => ended[s] = "KILLED"
    BY DEF SessionsInv, Endings
  <2>2. \A line \in Activity: line.event = Unexpected => line.about \in Told
    BY DEF SessionsInv, Feed, LinesOK, Activity
  <2>3. \A k \in DOMAIN records \ evidence:
          \/ records[k].at < reached - MaxAge
          \/ Cardinality({j \in DOMAIN records \ {k} : records[j].at >= records[k].at})
               >= MaxRecords
    BY DEF SessionsInv, Evidence, MayGo
  <2> QED BY <2>1, <2>2, <2>3 DEF EndingsAreTold, Told
<1> QED BY <1>1, SessionsStart, SessionsStep, PTL DEF SessionsSpec

-------------------------------------------------------------------------------
(* Health: the invariant.                                                      *)

Levels == {"HEALTHY", "WARNING", "CRITICAL"}
AskFields == {"kind", "of", "parts", "overall", "report", "seen", "serving", "lost"}

\* What a part was said to be, and what is still to be said of it.
PartOK(ask, p) ==
  /\ ask.parts[p] \in Levels \union {Unanswered}
  /\ ask.parts[p] = "HEALTHY" =>
       /\ "HEALTHY" \in ask.seen[p] \/ (p = "database" /\ "DAMAGED" \in ask.seen[p])
       /\ p \in {"database", "cards", "backup", "google"} => ask.serving
       /\ p \notin ask.lost
  /\ ask.parts[p] = Unanswered => p \in Late /\ (p \in Querying => ask.serving)

\* A snapshot under way has seen every part as it is now; one that lost its database
\* does not find it open again.
AskOK(ask, kind) ==
  /\ DOMAIN ask = AskFields /\ DOMAIN ask.parts = Parts /\ DOMAIN ask.seen = Parts
  /\ ask.kind = kind /\ ask.report \in report.kept \union {0}
  /\ ask.of \in Nat /\ ask.of <= handle.id
  /\ \A p \in Parts: state[p] \in ask.seen[p] /\ PartOK(ask, p)
  /\ kind = "MANUAL" /\ ask.seen["database"] = {"DAMAGED"} =>
       ask.parts["database"] = "CRITICAL"
  /\ ask.lost \subseteq Querying
  /\ ask.lost # {} => ~(Serving /\ ask.of = handle.id)

AsksOK ==
  /\ DOMAIN asks = Kinds
  /\ \A kind \in Kinds: asks[kind] = NoSnapshot \/ AskOK(asks[kind], kind)

HealthShapes ==
  /\ {"state", "id"} \subseteq DOMAIN handle /\ handle.id \in Nat
  /\ DOMAIN state = Parts /\ \A p \in Parts: state[p] \in StatesOf(p)
  /\ report.created \in report.kept \union {0}

HealthInv == HealthShapes /\ AsksOK /\ HealthIsSeen

-------------------------------------------------------------------------------

\* Two snapshots differ in one field at most.
DifferIn(field, ask, old) ==
  DOMAIN ask = AskFields /\ \A f \in AskFields \ {field}: ask[f] = old[f]

\* A snapshot under way is not the absence of one.
LEMMA Distinct ==
  ASSUME NEW kind \in Kinds, NEW ask, ask = NoSnapshot
  PROVE  ~AskOK(ask, kind)
BY DEF Kinds, NoSnapshot, AskOK

\* A snapshot begins with what it sees.
LEMMA TakeSnapshotStep ==
  ASSUME HealthInv, NEW kind \in Kinds, TakeSnapshot(kind)
  PROVE  HealthInv'
<1>1. PICK ask: ask = [kind |-> kind, of |-> handle.id, parts |-> FirstLook(kind),
        overall |-> Unanswered,
        report |-> IF kind = "BUNDLE" THEN report.created ELSE 0,
        seen |-> [p \in Parts |-> {state[p]}], serving |-> Serving, lost |-> {}]
  OBVIOUS
<1>2. /\ asks' = [asks EXCEPT ![kind] = ask]
      /\ UNCHANGED <<handle, state, panel, report, bundle>>
  BY <1>1 DEF TakeSnapshot
<1>3. AskOK(ask, kind)
  <2>1. /\ DOMAIN ask = AskFields /\ DOMAIN ask.parts = Parts /\ DOMAIN ask.seen = Parts
        /\ ask.kind = kind /\ ask.of = handle.id /\ ask.parts = FirstLook(kind)
        /\ ask.seen = [p \in Parts |-> {state[p]}] /\ ask.lost = {}
        /\ ask.report = IF kind = "BUNDLE" THEN report.created ELSE 0
    BY <1>1 DEF AskFields, FirstLook
  <2>2. ask.serving <=> Serving
    BY <1>1
  <2>3. ASSUME NEW p \in Parts PROVE PartOK(ask, p)
    <3>1. /\ ask.parts[p] = FirstLook(kind)[p] /\ ask.seen[p] = {state[p]}
          /\ state[p] \in StatesOf(p)
      BY <2>1 DEF HealthInv, HealthShapes
    <3>2. CASE p = "database"
      <4>1. ask.parts[p] = DatabaseLevel(kind = "MANUAL") /\ p \notin Late /\ p \notin Querying
        BY <3>1, <3>2 DEF FirstLook, Late, Querying
      <4>2. state[p] \in {"HEALTHY", "DAMAGED", "CRITICAL"}
        BY <3>1, <3>2 DEF StatesOf
      <4>3. CASE Serving /\ state[p] = "DAMAGED"
        BY <2>1, <2>2, <3>1, <3>2, <4>1, <4>3 DEF PartOK, DatabaseLevel, Levels, Unanswered
      <4>4. CASE ~(Serving /\ state[p] = "DAMAGED")
        BY <2>1, <2>2, <3>1, <3>2, <4>1, <4>2, <4>4
          DEF PartOK, DatabaseLevel, Levels, Unanswered
      <4> QED BY <4>3, <4>4
    <3>3. CASE p \in {"cards", "backup", "printer", "google"} /\ ~Serving
      <4>1. ask.parts[p] = "WARNING"
        BY <3>1, <3>3 DEF FirstLook
      <4> QED BY <4>1 DEF PartOK, Levels, Unanswered
    <3>4. CASE p \in {"cards", "update"} /\ ~(p = "cards" /\ ~Serving)
      <4>1. ask.parts[p] = state[p]
        BY <3>1, <3>4 DEF FirstLook
      <4>2. state[p] \in {"HEALTHY", "WARNING"}
        BY <3>1, <3>4 DEF StatesOf
      <4> QED BY <2>1, <2>2, <3>1, <3>4, <4>1, <4>2 DEF PartOK, Levels, Unanswered
    <3>5. CASE p = "disk" \/ (p \in {"backup", "printer", "google"} /\ Serving)
      <4>1. ask.parts[p] = Unanswered
        BY <3>1, <3>5 DEF FirstLook
      <4> QED BY <2>2, <3>5, <4>1 DEF PartOK, Late, Unanswered, Querying
    <3> QED BY <3>2, <3>3, <3>4, <3>5, HealthAssumption
  <2>4. kind = "MANUAL" /\ ask.seen["database"] = {"DAMAGED"} =>
          ask.parts["database"] = "CRITICAL"
    <3>1. "database" \in Parts
      BY HealthAssumption
    <3> QED BY <2>1, <3>1 DEF FirstLook, DatabaseLevel
  <2> QED BY <2>1, <2>3, <2>4 DEF AskOK, HealthInv, HealthShapes
<1>4. ASSUME NEW k \in Kinds
      PROVE  (asks[k] = NoSnapshot \/ AskOK(asks[k], k))'
  <2>1. PICK a: a = IF k = kind THEN ask ELSE asks[k]
    OBVIOUS
  <2>2. asks'[k] = a /\ (a = NoSnapshot \/ AskOK(a, k))
    BY <1>2, <1>3, <2>1 DEF HealthInv, AsksOK
  <2>3. UNCHANGED <<report, state, Serving>> /\ handle' = handle
    BY <1>2 DEF Serving
  <2> QED BY <2>2, <2>3 DEF AskOK, PartOK
<1>5. AsksOK'
  BY <1>2, <1>4 DEF AsksOK, HealthInv
<1> QED BY <1>2, <1>5 DEF HealthInv, HealthShapes, HealthIsSeen

\* A part of a snapshot is answered, or its inspector rejects.
LEMMA PartAnswersStep ==
  ASSUME HealthInv, NEW kind \in Kinds, NEW part \in Late, PartAnswers(kind, part)
  PROVE  HealthInv'
<1>1. /\ asks[kind] # NoSnapshot /\ asks[kind].parts[part] = Unanswered
      /\ UNCHANGED <<handle, state, panel, report, bundle>>
  BY DEF PartAnswers
<1>2. PICK level: /\ asks' = [asks EXCEPT ![kind].parts[part] = level]
                  /\ level \in {InspectorAnswers(asks[kind], part), "WARNING"}
  BY DEF PartAnswers
<1>3. PICK old: old = asks[kind] /\ AskOK(old, kind)
  BY <1>1 DEF HealthInv, AsksOK
<1>4. PICK ask: ask = [old EXCEPT !.parts = [@ EXCEPT ![part] = level]]
  OBVIOUS
<1>5. asks' = [asks EXCEPT ![kind] = ask]
  BY <1>2, <1>3, <1>4
<1>6. DifferIn("parts", ask, old) /\ ask.parts = [old.parts EXCEPT ![part] = level]
  BY <1>3, <1>4 DEF AskOK, AskFields, DifferIn
<1>7. AskOK(ask, kind)
  <2>1. PartOK(ask, part)
    <3>1. part \in Parts /\ ask.parts[part] = level
      BY <1>3, <1>6 DEF AskOK, Late
    <3>2. state[part] \in old.seen[part] /\ PartOK(old, part) /\ state[part] \in StatesOf(part)
      BY <1>3, <3>1 DEF AskOK, HealthInv, HealthShapes
    <3>3. CASE level = "WARNING"
      BY <3>1, <3>3 DEF PartOK, Levels, Unanswered
    <3>4. CASE level # "WARNING"
      <4>1. level = state[part] /\ ~(part \in Querying /\ ~SameHandle(old))
        BY <1>2, <1>3, <3>4 DEF InspectorAnswers
      <4>2. part # "database" /\ part # "cards" /\ level \in Levels
        BY <3>2, <4>1 DEF Late, StatesOf, Levels
      <4>3. old.parts[part] = Unanswered => (part \in Querying => old.serving)
        BY <3>2 DEF PartOK
      <4>4. part \in Querying => old.lost = {}
        BY <1>3, <4>1 DEF AskOK, SameHandle
      <4>5. part \in {"backup", "google"} => part \in Querying
        BY <3>1 DEF Querying
      <4>6. part \notin Querying => part \notin old.lost
        BY <1>3 DEF AskOK
      <4>7. old.parts[part] = Unanswered
        BY <1>1, <1>3
      <4> QED BY <1>6, <3>1, <3>2, <4>1, <4>2, <4>3, <4>4, <4>5, <4>6, <4>7
                 DEF PartOK, Levels, Unanswered, DifferIn, AskFields
    <3> QED BY <3>3, <3>4
  <2>2. ASSUME NEW p \in Parts, p # part PROVE PartOK(ask, p)
    <3>1. PartOK(old, p) /\ ask.parts[p] = old.parts[p]
      BY <1>3, <1>6, <2>2 DEF AskOK
    <3> QED BY <1>6, <3>1 DEF PartOK, DifferIn, AskFields
  <2>3. part # "database"
    BY DEF Late
  <2>4. DOMAIN ask.parts = Parts /\ ask.parts["database"] = old.parts["database"]
    BY <1>3, <1>6, <2>3, HealthAssumption DEF AskOK
  <2> QED BY <1>3, <1>6, <2>1, <2>2, <2>4 DEF AskOK, DifferIn, AskFields
<1>8. ASSUME NEW k \in Kinds
      PROVE  (asks[k] = NoSnapshot \/ AskOK(asks[k], k))'
  <2>1. PICK a: a = IF k = kind THEN ask ELSE asks[k]
    OBVIOUS
  <2>2. asks'[k] = a /\ (a = NoSnapshot \/ AskOK(a, k))
    BY <1>5, <1>7, <2>1 DEF HealthInv, AsksOK
  <2>3. UNCHANGED <<report, state, Serving>> /\ handle' = handle
    BY <1>1 DEF Serving
  <2> QED BY <2>2, <2>3 DEF AskOK, PartOK
<1>9. AsksOK'
  BY <1>5, <1>8 DEF AsksOK, HealthInv
<1> QED BY <1>1, <1>9 DEF HealthInv, HealthShapes, HealthIsSeen

\* A whole snapshot says what the property asks, with the overall level of its parts.
ToldOK(told) ==
  /\ \A p \in Parts: told.parts[p] = "HEALTHY" =>
       /\ "HEALTHY" \in told.seen[p] \/ (p = "database" /\ "DAMAGED" \in told.seen[p])
       /\ p \in {"database", "cards", "backup", "google"} => told.serving
       /\ p \notin told.lost
  /\ told.kind = "MANUAL" /\ told.seen["database"] = {"DAMAGED"} =>
       told.overall = "CRITICAL"
  /\ told.overall = "HEALTHY" <=> \A p \in Parts: told.parts[p] = "HEALTHY"
  /\ told.overall = "CRITICAL" <=> \E p \in Parts: told.parts[p] = "CRITICAL"
  /\ told.report \in report.kept \union {0}

\* What is made of a whole snapshot is what the property asks.
LEMMA ResultIsTold ==
  ASSUME HealthInv, NEW kind \in Kinds, Whole(kind)
  PROVE  ToldOK(Result(kind))
<1>1. PICK ask: ask = asks[kind] /\ AskOK(ask, kind) /\ \A p \in Parts: ask.parts[p] # Unanswered
  BY DEF Whole, HealthInv, AsksOK
<1>2. PICK told: told = Result(kind)
  OBVIOUS
<1>3. DifferIn("overall", told, ask) /\ told.overall = Overall({ask.parts[p]: p \in Parts})
  BY <1>1, <1>2 DEF Result, AskOK, AskFields, DifferIn
<1>4. \A p \in Parts: ask.parts[p] \in Levels /\ PartOK(ask, p)
  BY <1>1 DEF AskOK, PartOK
<1>5. /\ told.overall = "HEALTHY" <=> \A p \in Parts: told.parts[p] = "HEALTHY"
      /\ told.overall = "CRITICAL" <=> \E p \in Parts: told.parts[p] = "CRITICAL"
  BY <1>3, <1>4 DEF Overall, Levels, DifferIn, AskFields
<1>6. told.kind = "MANUAL" /\ told.seen["database"] = {"DAMAGED"} =>
        told.overall = "CRITICAL"
  BY <1>1, <1>3, <1>5, HealthAssumption DEF AskOK, DifferIn, AskFields
<1>7. \A p \in Parts: told.parts[p] = "HEALTHY" =>
       /\ "HEALTHY" \in told.seen[p] \/ (p = "database" /\ "DAMAGED" \in told.seen[p])
       /\ p \in {"database", "cards", "backup", "google"} => told.serving
       /\ p \notin told.lost
  BY <1>3, <1>4 DEF PartOK, DifferIn, AskFields
<1>8. told.report \in report.kept \union {0}
  BY <1>1, <1>3 DEF AskOK, DifferIn, AskFields
<1> QED BY <1>2, <1>5, <1>6, <1>7, <1>8 DEF ToldOK

\* The page, a report and a bundle take what came.
LEMMA TellingStep ==
  ASSUME HealthInv, (\E kind \in Kinds: Shows(kind)) \/ CreateReport \/ ExportBundle
  PROVE  HealthInv'
<1>1. PICK kind \in Kinds: /\ asks' = [asks EXCEPT ![kind] = NoSnapshot]
                           /\ Whole(kind) /\ UNCHANGED <<handle, state>>
                           /\ panel' \in {panel, Result(kind)}
                           /\ bundle' \in {bundle, Result(kind)}
  BY DEF Shows, CreateReport, ExportBundle, Kinds
<1>2. report.kept \subseteq report'.kept /\ report'.created \in report'.kept \union {0}
  <2>1. CASE UNCHANGED report
    BY <2>1 DEF HealthInv, HealthShapes
  <2>2. CASE CreateReport
    BY <2>2 DEF CreateReport, HealthInv, HealthShapes
  <2> QED BY <2>1, <2>2 DEF Shows, ExportBundle
<1>3. ASSUME NEW k \in Kinds
      PROVE  (asks[k] = NoSnapshot \/ AskOK(asks[k], k))'
  <2>1. PICK a: a = IF k = kind THEN NoSnapshot ELSE asks[k]
    OBVIOUS
  <2>2. asks'[k] = a /\ (a = NoSnapshot \/ AskOK(a, k))
    BY <1>1, <2>1 DEF HealthInv, AsksOK
  <2>3. UNCHANGED <<state, Serving>> /\ handle' = handle
    BY <1>1 DEF Serving
  <2> QED BY <1>2, <2>2, <2>3 DEF AskOK, PartOK
<1>4. AsksOK'
  BY <1>1, <1>3 DEF AsksOK, HealthInv
<1>5. HealthShapes'
  BY <1>1, <1>2 DEF HealthInv, HealthShapes
<1>6. HealthIsSeen'
  <2>1. ASSUME NEW told, told \in {panel', bundle'} \ {NoSnapshot}
        PROVE  ToldOK(told)
    <3>1. told \in {panel, bundle} \ {NoSnapshot} \/ told = Result(kind)
      BY <1>1, <2>1
    <3> QED BY <1>1, <3>1, ResultIsTold DEF HealthInv, HealthIsSeen, ToldOK
  <2> QED BY <1>2, <2>1 DEF HealthIsSeen, ToldOK
<1> QED BY <1>4, <1>5, <1>6 DEF HealthInv

\* What is said of the past stays said while reports are only added.
LEMMA SeenStays ==
  ASSUME HealthInv, UNCHANGED <<panel, bundle>>, report.kept \subseteq report'.kept
  PROVE  HealthIsSeen'
<1>1. PICK p, b: p = panel /\ b = bundle
  OBVIOUS
<1>2. panel' = p /\ bundle' = b
  BY <1>1
<1>3. \A told \in {p, b} \ {NoSnapshot}: ToldOK(told)
  BY <1>1 DEF HealthInv, HealthIsSeen, ToldOK
<1> QED BY <1>2, <1>3 DEF HealthIsSeen, ToldOK

\* A part changes: the snapshots under way could have seen it so.
LEMMA TurnsStep ==
  ASSUME HealthInv, NEW part \in Parts, Turns(part)
  PROVE  HealthInv'
<1>1. PICK level \in StatesOf(part): /\ state' = [state EXCEPT ![part] = level]
                                     /\ asks' = Witness(part, level)
  BY DEF Turns
<1>2. UNCHANGED <<handle, panel, report, bundle, Serving>>
  BY DEF Turns, Serving
<1>3. state'[part] = level /\ \A p \in Parts: p # part => state'[p] = state[p]
  BY <1>1 DEF HealthInv, HealthShapes
<1>4. ASSUME NEW k \in Kinds
      PROVE  (asks[k] = NoSnapshot \/ AskOK(asks[k], k))'
  <2>1. CASE asks[k] = NoSnapshot
    BY <1>1, <2>1 DEF Witness
  <2>2. CASE asks[k] # NoSnapshot
    <3>1. PICK old: old = asks[k] /\ AskOK(old, k)
      BY <2>2 DEF HealthInv, AsksOK
    <3>2. PICK ask: ask = [old EXCEPT !.seen = [old.seen EXCEPT ![part] = old.seen[part] \union {level}]]
      OBVIOUS
    <3>3. asks'[k] = ask
      BY <1>1, <2>2, <3>1, <3>2 DEF Witness
    <3>4. /\ DifferIn("seen", ask, old)
          /\ ask.seen = [old.seen EXCEPT ![part] = old.seen[part] \union {level}]
      BY <3>1, <3>2 DEF AskOK, AskFields, DifferIn
    <3>5. \A p \in Parts: ask.seen[p] = IF p = part THEN old.seen[p] \union {level}
                                        ELSE old.seen[p]
      BY <3>1, <3>4 DEF AskOK
    <3>6. \A p \in Parts: PartOK(old, p) => PartOK(ask, p)
      BY <3>4, <3>5 DEF PartOK, DifferIn, AskFields
    <3>7. \A p \in Parts: state'[p] \in ask.seen[p]
      BY <1>3, <3>1, <3>5 DEF AskOK
    <3>8. ask.seen["database"] = {"DAMAGED"} => old.seen["database"] = {"DAMAGED"}
      <4>1. "database" \in Parts /\ state["database"] \in old.seen["database"]
        BY <3>1, HealthAssumption DEF AskOK
      <4>2. old.seen["database"] \subseteq ask.seen["database"]
        BY <3>5, <4>1
      <4> QED BY <4>1, <4>2
    <3>9. DOMAIN ask.seen = Parts
      BY <3>1, <3>4 DEF AskOK
    <3> QED BY <1>2, <3>1, <3>3, <3>4, <3>6, <3>7, <3>8, <3>9 DEF AskOK, PartOK, DifferIn, AskFields
  <2> QED BY <2>1, <2>2
<1>5. AsksOK'
  BY <1>1, <1>4 DEF AsksOK, Witness
<1>6. HealthShapes'
  BY <1>1, <1>2, <1>3 DEF HealthInv, HealthShapes
<1> QED BY <1>2, <1>5, <1>6, SeenStays DEF HealthInv

\* The database closes: what still had to be asked of it is lost.
LEMMA DatabaseClosesStep ==
  ASSUME HealthInv, DatabaseCloses
  PROVE  HealthInv'
<1>1. /\ Serving /\ handle' = [handle EXCEPT !.state = "CLOSED"] /\ asks' = Lose
      /\ UNCHANGED <<state, panel, report, bundle>>
  BY DEF DatabaseCloses
<1>2. /\ handle'.id = handle.id /\ handle'.state = "CLOSED" /\ DOMAIN handle' = DOMAIN handle
      /\ ~Serving'
  BY <1>1 DEF HealthInv, HealthShapes, Serving
<1>3. ASSUME NEW k \in Kinds
      PROVE  (asks[k] = NoSnapshot \/ AskOK(asks[k], k))'
  <2>1. CASE asks[k] = NoSnapshot
    BY <1>1, <2>1 DEF Lose
  <2>2. CASE asks[k] # NoSnapshot
    <3>1. PICK old: old = asks[k] /\ AskOK(old, k)
      BY <2>2 DEF HealthInv, AsksOK
    <3>2. PICK gone: gone = {p \in Querying : old.parts[p] = Unanswered}
      OBVIOUS
    <3>3. PICK ask: ask = [old EXCEPT !.lost = @ \union gone]
      OBVIOUS
    <3>4. asks'[k] = ask
      BY <1>1, <2>2, <3>1, <3>2, <3>3 DEF Lose
    <3>5. DifferIn("lost", ask, old) /\ ask.lost = old.lost \union gone
      BY <3>1, <3>3 DEF AskOK, AskFields, DifferIn
    <3>6. \A p \in Parts: PartOK(old, p) => PartOK(ask, p)
      BY <3>2, <3>5 DEF PartOK, Unanswered, DifferIn, AskFields
    <3>7. ask.lost \subseteq Querying
      BY <3>1, <3>2, <3>5 DEF AskOK
    <3> QED BY <1>1, <1>2, <3>1, <3>4, <3>5, <3>6, <3>7 DEF AskOK, PartOK, DifferIn, AskFields
  <2> QED BY <2>1, <2>2
<1>4. AsksOK'
  BY <1>1, <1>3 DEF AsksOK, Lose
<1>5. HealthShapes'
  BY <1>1, <1>2 DEF HealthInv, HealthShapes
<1> QED BY <1>1, <1>4, <1>5, SeenStays DEF HealthInv

\* Another one is opened.
LEMMA WireDatabaseStep ==
  ASSUME HealthInv, WireDatabase
  PROVE  HealthInv'
<1>1. /\ handle' = [state |-> "OPEN", id |-> handle.id + 1]
      /\ UNCHANGED <<state, asks, panel, report, bundle>>
  BY DEF WireDatabase
<1>2. /\ handle'.id = handle.id + 1 /\ handle.id \in Nat
      /\ {"state", "id"} \subseteq DOMAIN handle'
  BY <1>1 DEF HealthInv, HealthShapes
<1>3. ASSUME NEW k \in Kinds
      PROVE  (asks[k] = NoSnapshot \/ AskOK(asks[k], k))'
  <2>1. PICK ask: ask = asks[k] /\ (ask = NoSnapshot \/ AskOK(ask, k))
    BY DEF HealthInv, AsksOK
  <2>2. AskOK(ask, k) => ask.of \in Nat /\ ask.of <= handle'.id /\ ask.of # handle'.id
    BY <1>2 DEF AskOK
  <2>3. asks'[k] = ask
    BY <1>1, <2>1
  <2> QED BY <1>1, <2>1, <2>2, <2>3 DEF AskOK, PartOK
<1>4. AsksOK'
  BY <1>1, <1>3 DEF AsksOK, HealthInv
<1>5. HealthShapes'
  BY <1>1, <1>2 DEF HealthInv, HealthShapes
<1> QED BY <1>1, <1>4, <1>5, SeenStays DEF HealthInv

\* Every step keeps the invariant.
LEMMA HealthStep == HealthInv /\ [HealthNext]_healthVars => HealthInv'
<1> SUFFICES ASSUME HealthInv, [HealthNext]_healthVars PROVE HealthInv'
  OBVIOUS
<1>1. CASE ClaimReleased \/ UNCHANGED healthVars
  <2>1. UNCHANGED <<handle, state, asks, panel, report, bundle, Serving>>
    BY <1>1 DEF ClaimReleased, healthVars, Serving
  <2>2. AsksOK'
    BY <2>1 DEF HealthInv, AsksOK, AskOK, PartOK
  <2> QED BY <2>1, <2>2, SeenStays DEF HealthInv, HealthShapes
<1>2. CASE \E kind \in Kinds: TakeSnapshot(kind) \/ Shows(kind)
                              \/ \E part \in Late: PartAnswers(kind, part)
  BY <1>2, TakeSnapshotStep, TellingStep, PartAnswersStep
<1> QED BY <1>1, <1>2, TellingStep, TurnsStep, DatabaseClosesStep, WireDatabaseStep
           DEF HealthNext

\* At first no snapshot is taken.
LEMMA HealthStarts == HealthInit => HealthInv
BY DEF HealthInit, HealthInv, HealthShapes, AsksOK, HealthIsSeen, StatesOf, Kinds

\* What the page or a bundle says of the station's health was so while the snapshot was
\* taken, of a database that was open then and until it was asked.
THEOREM HealthSeen == HealthSpec => []HealthIsSeen
<1>1. HealthInv => HealthIsSeen
  BY DEF HealthInv
<1> QED BY <1>1, HealthStarts, HealthStep, PTL DEF HealthSpec
===============================================================================
