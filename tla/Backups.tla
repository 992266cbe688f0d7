-------------------------------- MODULE Backups -------------------------------
(* Manual and automatic backups, their copies on a drive, retention and the    *)
(* health that is shown of them (src/main/backup/backupService.ts,             *)
(* backupSnapshot.ts, backupSchedule.ts, backupScheduler.ts,                   *)
(* backupRetention.ts, offDeviceCopy.ts, backupHealth.ts).                     *)
(*                                                                             *)
(* A run is one action per stretch of code between two awaits, with its pc the *)
(* await it is at.  Meanwhile days pass, the drive is pulled out, the owner    *)
(* changes the destination, an older backup is restored, the application quits *)
(* or dies.  A file is named by the run that makes it: its name is unique.     *)
(*                                                                             *)
(* Time is counted in half days: an odd clock is past 03:00 of its day.        *)
EXTENDS Integers, FiniteSets

CONSTANTS
  MaxClock,       \* bound on the half days that pass
  MaxRuns,        \* bound on the backups started
  MaxServices,    \* bound on the databases served: a restore starts a new service
  MaxUpsets,      \* bound on manual backups, failures, quits, changes, restores
  KeepAutomatic,  \* AUTOMATIC_RETENTION_DAYS, in half days
  KeepManual,     \* MANUAL_RETENTION_DAYS, in half days
  StaleDays,      \* days after which protection is overdue
  Faults          \* {"DIRECTORY"}: the drive can vanish just before mkdir

\* A backup is kept until after it is stale (backupSchedule.ts: 14 and 90 days, and 2).
ASSUME BackupsAssumption ==
  /\ MaxClock \in Nat /\ MaxRuns \in Nat /\ MaxServices \in Nat \ {0}
  /\ KeepAutomatic \in Nat /\ KeepManual \in Nat /\ StaleDays \in Nat
  /\ \A kept \in {KeepAutomatic, KeepManual}: 2 * StaleDays <= kept + 1

VARIABLES
  clock,      \* half days
  plugged,    \* the drive answers and is what it should be
  disk,       \* the local file of each run
  drive,      \* the off-device file of each run
  image,      \* what each whole file holds of rows and destination
  rows,       \* backup_records
  destination,\* off_device_backup_destination: the number of its configuration
  configured, \* configurations ever made
  app,        \* whether the application runs
  service,    \* the backup service that serves the open database
  run,        \* the run each service has in hand
  tracked,    \* activeRun is the run in hand
  runs,       \* backups ever started
  upsets,     \* see MaxUpsets
  pruned      \* files retention removed

files == <<disk, drive, image>>
catalogue == <<rows, destination>>
around == <<clock, plugged, configured, app, service>>
backupVars == <<files, catalogue, around, run, tracked, runs, upsets, pruned>>

Files == 1..MaxRuns
FileState == {"NONE", "PARTIAL", "WHOLE", "TORN"}
Keep == [AUTOMATIC |-> KeepAutomatic, MANUAL |-> KeepManual]
Type == DOMAIN Keep
Place == {"LOCAL_DISK", "OFF_DEVICE"}

\* A FAILED row has no file; run says which attempt it was.
Row == [run: Files, type: Type, place: Place, status: {"COMPLETED", "FAILED"},
        at: 0..MaxClock, config: 0..MaxUpsets]

Awaits == {"SNAPSHOT", "VERIFY", "HASH", "CHECK", "DIRECTORY", "COPYING",
           "COPIED", "MANIFEST", "RETAIN"}

Idle == [pc |-> "IDLE", type |-> "MANUAL", file |-> 0, config |-> 0]

Days(from, to) == (to \div 2) - (from \div 2)
PastThree == clock % 2 = 1
Latest(times) == CHOOSE t \in times: \A u \in times: u <= t

Completed(place) == {r \in rows: r.place = place /\ r.status = "COMPLETED"}
AutomaticTimes == {r.at: r \in {q \in Completed("LOCAL_DISK"): q.type = "AUTOMATIC"}}

\* isAutomaticBackupDue.
Due ==
  IF AutomaticTimes = {} THEN PastThree
  ELSE LET days == Days(Latest(AutomaticTimes), clock)
       IN  days >= 2 \/ (days = 1 /\ PastThree)

Upset == upsets < MaxUpsets /\ upsets' = upsets + 1

\* The connection a run writes through is closed by will-quit and by a restore.
Open(s) == app = "UP" /\ s = service

Go(s, pc) == run' = [run EXCEPT ![s].pc = pc]

\* Mutated: inProgress stays set.
EndBusy(s) == Go(s, "ENDED")

End(s) == run' = [run EXCEPT ![s] = Idle]

\* One row; with a closed connection the write fails and only the log knows.
Recorded(s, place, status) ==
  rows' = IF Open(s)
          THEN rows \cup {[run |-> run[s].file, type |-> run[s].type, place |-> place,
                           status |-> status, at |-> clock, config |-> run[s].config]}
          ELSE rows

-------------------------------------------------------------------------------
(* Starting a run.                                                             *)

Begin(type) ==
  /\ runs < MaxRuns
  /\ runs' = runs + 1
  /\ run' = [run EXCEPT ![service] =
               [pc |-> "SNAPSHOT", type |-> type, file |-> runs + 1, config |-> 0]]
  /\ disk' = [disk EXCEPT ![runs + 1] = "PARTIAL"]
  /\ tracked' = TRUE
  /\ UNCHANGED <<drive, image, catalogue, around, pruned>>

\* createManual while nothing is in progress.
BackUpNow ==
  /\ app = "UP" /\ run[service].pc = "IDLE"
  /\ Upset
  /\ Begin("MANUAL")

\* createManual while a run is: refused, but its own promise replaces activeRun.
RefuseManual ==
  /\ app = "UP" /\ run[service].pc # "IDLE"
  /\ tracked
  /\ Upset
  /\ tracked' = FALSE
  /\ UNCHANGED <<files, catalogue, around, run, runs, pruned>>

\* A tick of the scheduler, or the check at startup, finds a backup owed.
BackUpIfDue ==
  /\ app = "UP" /\ run[service].pc = "IDLE"
  /\ Due
  /\ Begin("AUTOMATIC")
  /\ UNCHANGED upsets

-------------------------------------------------------------------------------
(* The local artifact.                                                         *)

SnapshotEnds(s) ==
  /\ run[s].pc = "SNAPSHOT"
  /\ Open(s)
  /\ \/ disk' = [disk EXCEPT ![run[s].file] = "WHOLE"] /\ UNCHANGED upsets
     \/ disk' = [disk EXCEPT ![run[s].file] = "TORN"] /\ Upset
  /\ image' = [image EXCEPT ![run[s].file] = [rows |-> rows, destination |-> destination]]
  /\ Go(s, "VERIFY")
  /\ UNCHANGED <<drive, catalogue, around, tracked, runs, pruned>>

\* The run ends without a backup: the file under its final name is removed, a
\* partial one is left to retention.
LocalFails(s) ==
  /\ disk' = [disk EXCEPT ![run[s].file] = IF @ = "PARTIAL" THEN @ ELSE "NONE"]
  /\ Recorded(s, "LOCAL_DISK", "FAILED")
  /\ End(s)
  /\ UNCHANGED <<drive, image, destination, around, tracked, runs, pruned>>

SnapshotFails(s) ==
  /\ run[s].pc = "SNAPSHOT"
  /\ IF Open(s) THEN Upset ELSE UNCHANGED upsets
  /\ LocalFails(s)

\* Mutated: what was written is taken for whole.
VerifyNothing(s) ==
  /\ run[s].pc = "VERIFY"
  /\ Go(s, "HASH")
  /\ UNCHANGED <<files, catalogue, around, tracked, runs, upsets, pruned>>

\* verifySqliteBackup: what is not a whole database of this schema is refused.
Verify(s) ==
  /\ run[s].pc = "VERIFY"
  /\ disk[run[s].file] = "WHOLE"
  /\ Go(s, "HASH")
  /\ UNCHANGED <<files, catalogue, around, tracked, runs, upsets, pruned>>

VerifyFails(s) ==
  /\ run[s].pc = "VERIFY"
  /\ disk[run[s].file] = "TORN"
  /\ LocalFails(s)
  /\ UNCHANGED upsets

\* The local row is committed and the destination is read before the next await.
Record(s) ==
  /\ run[s].pc = "HASH"
  /\ Open(s)
  /\ Recorded(s, "LOCAL_DISK", "COMPLETED")
  /\ run' = [run EXCEPT ![s].pc = IF destination = 0 THEN "RETAIN" ELSE "CHECK",
                        ![s].config = destination]
  /\ UNCHANGED <<files, destination, around, tracked, runs, upsets, pruned>>

RecordFails(s) ==
  /\ run[s].pc = "HASH"
  /\ IF Open(s) THEN Upset ELSE UNCHANGED upsets
  /\ LocalFails(s)

-------------------------------------------------------------------------------
(* The copy on the drive.                                                      *)

\* copyBackupOffDevice answers without a copy; what it wrote under a partial name
\* it removes if the drive still answers.
CopyEnds(s, status) ==
  /\ Recorded(s, "OFF_DEVICE", status)
  /\ Go(s, "RETAIN")
  /\ UNCHANGED <<disk, image, destination, around, tracked, runs, pruned>>

CopyFails(s) ==
  /\ run[s].pc \in {"CHECK", "COPYING", "COPIED", "MANIFEST"}
  /\ IF plugged THEN Upset ELSE UNCHANGED upsets
  /\ drive' = [drive EXCEPT ![run[s].file] =
                 IF @ = "PARTIAL" /\ plugged THEN "NONE" ELSE @]
  /\ CopyEnds(s, "FAILED")

Check(s) ==
  /\ run[s].pc = "CHECK"
  /\ plugged
  /\ Go(s, "DIRECTORY")
  /\ UNCHANGED <<files, catalogue, around, tracked, runs, upsets, pruned>>

MakeDirectory(s) ==
  /\ run[s].pc = "DIRECTORY"
  /\ plugged
  /\ drive' = [drive EXCEPT ![run[s].file] = "PARTIAL"]
  /\ Go(s, "COPYING")
  /\ UNCHANGED <<disk, image, catalogue, around, tracked, runs, upsets, pruned>>

\* The await of mkdir is in no try: its rejection reaches the catch of runBackup,
\* which takes the run for one that could not be recorded.
DirectoryFails(s) ==
  /\ run[s].pc = "DIRECTORY"
  /\ ~plugged
  /\ LocalFails(s)
  /\ UNCHANGED upsets

\* The bytes are on the drive.  A copy that differs fails its checks: CopyFails.
CopyBytes(s) ==
  /\ run[s].pc = "COPYING"
  /\ plugged
  /\ Go(s, "COPIED")
  /\ UNCHANGED <<files, catalogue, around, tracked, runs, upsets, pruned>>

Publish(s) ==
  /\ run[s].pc = "COPIED"
  /\ plugged
  /\ drive[run[s].file] = "PARTIAL"
  /\ drive' = [drive EXCEPT ![run[s].file] = "WHOLE"]
  /\ Go(s, "MANIFEST")
  /\ UNCHANGED <<disk, image, catalogue, around, tracked, runs, upsets, pruned>>

WriteManifest(s) ==
  /\ run[s].pc = "MANIFEST"
  /\ plugged
  /\ CopyEnds(s, "COMPLETED")
  /\ UNCHANGED <<drive, upsets>>

-------------------------------------------------------------------------------
(* Retention.                                                                  *)

OverAge(r) == clock - r.at > Keep[r.type]

\* Mutated: the newest backup is protected in one place or the other.
PlanPooled ==
  LET completed == Completed("LOCAL_DISK") \cup Completed("OFF_DEVICE")
      prune == {r \in completed: OverAge(r)}
  IN  IF prune # completed THEN prune
      ELSE prune \ {CHOOSE r \in prune: \A q \in prune: q.at <= r.at}

\* planRetention: the rows past their age, but where no other would be left the
\* newest stays.  The rows here are AUTOMATIC and MANUAL ones: a PRE_MIGRATION row
\* is never past its age, and the code counts it among those left on the disk.
Plan ==
  LET Prune(place) ==
        LET prune == {r \in Completed(place): OverAge(r)}
        IN  IF prune # Completed(place) \/ prune = {} THEN prune
            ELSE prune \ {CHOOSE r \in prune: \A q \in prune: q.at <= r.at}
  IN  UNION {Prune(place): place \in Place}

\* The sweep: partial files only.  One of a run in hand has just been written to,
\* unless it is being hashed.
Sweepable(states, place) ==
  {f \in Files: /\ states[f] = "PARTIAL"
                /\ \A s \in 1..MaxServices:
                     run[s].file = f => run[s].pc \notin {"SNAPSHOT", "COPYING"}}

\* A file of row r that can be removed: the drive has to answer for one on it.
Reachable(r) == r.place = "LOCAL_DISK" \/ plugged

\* applyRetention.  gone: the rows it gets past removing the file of; forgotten:
\* those it deletes too.  One that fails is logged and skipped.
RetainSome(gone, forgotten, swept, sweptThere) ==
  LET Gone(place) == {r.run: r \in {q \in gone: q.place = place /\ Reachable(q)}}
      Without(states, files_) == [f \in Files |-> IF f \in files_ THEN "NONE" ELSE states[f]]
  IN  /\ rows' = rows \ forgotten
      /\ disk' = Without(disk, swept \cup Gone("LOCAL_DISK"))
      /\ drive' = Without(drive, sweptThere \cup Gone("OFF_DEVICE"))
      /\ pruned' = pruned \cup {<<r.place, r.run>>: r \in gone}

Retention ==
  \/ /\ \E swept \in {{}, Sweepable(disk, "LOCAL_DISK")},
           there \in {{}, IF destination # 0 /\ plugged
                          THEN Sweepable(drive, "OFF_DEVICE") ELSE {}}:
            RetainSome(Plan, Plan, swept, there)
     /\ UNCHANGED upsets
  \/ /\ Upset
     /\ \E gone \in SUBSET Plan: \E forgotten \in SUBSET gone:
            RetainSome(gone, forgotten, {}, {})

\* With a closed connection nothing is read and nothing removed.
Retain(s) ==
  /\ run[s].pc = "RETAIN"
  /\ \/ Open(s) /\ Retention
     \/ ~Open(s) /\ UNCHANGED <<disk, drive, rows, pruned, upsets>>
  /\ End(s)
  /\ UNCHANGED <<image, destination, around, tracked, runs>>

-------------------------------------------------------------------------------
(* The world around it.                                                        *)

Elapse(to) ==
  /\ clock < to /\ to <= MaxClock
  /\ clock' = to
  /\ UNCHANGED <<files, catalogue, plugged, configured, app, service, run, tracked,
                 runs, upsets, pruned>>

Unplug ==
  /\ plugged
  /\ "DIRECTORY" \in Faults \/ \A s \in 1..MaxServices: run[s].pc # "DIRECTORY"
  /\ Upset
  /\ plugged' = FALSE
  /\ UNCHANGED <<files, catalogue, clock, configured, app, service, run, tracked,
                 runs, pruned>>

Plug ==
  /\ ~plugged
  /\ plugged' = TRUE
  /\ UNCHANGED <<files, catalogue, clock, configured, app, service, run, tracked,
                 runs, upsets, pruned>>

Configure ==
  /\ app = "UP" /\ plugged
  /\ Upset
  /\ configured' = configured + 1
  /\ destination' = configured + 1
  /\ UNCHANGED <<files, rows, clock, plugged, app, service, run, tracked, runs,
                 pruned>>

ClearDestination ==
  /\ app = "UP" /\ destination # 0
  /\ Upset
  /\ destination' = 0
  /\ UNCHANGED <<files, rows, around, run, tracked, runs, pruned>>

\* A restore waits for activeRun, closes the connection and puts back what the
\* file holds: the catalogue and the destination of its time.
Rewind(f) ==
  /\ app = "UP" /\ service < MaxServices
  /\ disk[f] = "WHOLE"
  /\ run[service].pc = "IDLE" \/ ~tracked
  /\ Upset
  /\ rows' = image[f].rows
  /\ destination' = image[f].destination
  /\ service' = service + 1
  /\ tracked' = FALSE
  /\ UNCHANGED <<files, clock, plugged, configured, app, run, runs, pruned>>

\* will-quit closes the database; the runs in hand go on until the process ends.
Quit ==
  /\ app = "UP"
  /\ Upset
  /\ app' = "QUITTING"
  /\ UNCHANGED <<files, catalogue, clock, plugged, configured, service, run, tracked,
                 runs, pruned>>

Die ==
  /\ app # "DOWN"
  /\ IF app = "UP" THEN Upset ELSE UNCHANGED upsets
  /\ app' = "DOWN"
  /\ run' = [s \in 1..MaxServices |-> Idle]
  /\ tracked' = FALSE
  /\ UNCHANGED <<files, catalogue, clock, plugged, configured, service, runs, pruned>>

Launch ==
  /\ app = "DOWN"
  /\ app' = "UP"
  /\ UNCHANGED <<files, catalogue, clock, plugged, configured, service, run, tracked,
                 runs, upsets, pruned>>

-------------------------------------------------------------------------------
(* What is shown of it.                                                        *)

\* Mutated: copies to a destination configured earlier count.
CopiesEver(config) == Completed("OFF_DEVICE")

\* latestSuccessfulOffDeviceCompletion: copies started since it was configured.
Copies(config) == {r \in Completed("OFF_DEVICE"): r.config >= config}

\* computeOffDeviceBackupHealth.
Protection(config) ==
  LET newest == Latest({r.run: r \in Copies(config)})
      failures == {r \in rows: /\ r.place = "OFF_DEVICE" /\ r.status = "FAILED"
                               /\ r.config >= config}
  IN  IF config = 0 THEN "NOT_CONFIGURED"
      ELSE IF ~plugged THEN "UNAVAILABLE"
      ELSE IF Copies(config) = {} THEN "NEVER_SUCCEEDED"
      ELSE IF \E r \in failures: r.run > newest THEN "LAST_COPY_FAILED"
      ELSE IF Days(Latest({r.at: r \in Copies(config)}), clock) >= StaleDays THEN "STALE"
      ELSE "HEALTHY"

-------------------------------------------------------------------------------

BackupsInit ==
  /\ clock = 0
  /\ plugged = TRUE
  /\ disk = [f \in Files |-> "NONE"]
  /\ drive = [f \in Files |-> "NONE"]
  /\ image = [f \in Files |-> [rows |-> {}, destination |-> 0]]
  /\ rows = {}
  /\ destination = 0
  /\ configured = 0
  /\ app = "UP"
  /\ service = 1
  /\ run = [s \in 1..MaxServices |-> Idle]
  /\ tracked = FALSE
  /\ runs = 0
  /\ upsets = 0
  /\ pruned = {}

Step(s) ==
  \/ SnapshotEnds(s) \/ SnapshotFails(s) \/ Verify(s) \/ VerifyFails(s)
  \/ Record(s) \/ RecordFails(s)
  \/ Check(s) \/ MakeDirectory(s) \/ DirectoryFails(s)
  \/ CopyBytes(s) \/ Publish(s) \/ WriteManifest(s) \/ CopyFails(s)
  \/ Retain(s)

World ==
  \/ \E to \in 1..MaxClock: Elapse(to)
  \/ Unplug \/ Plug \/ Configure \/ ClearDestination
  \/ \E f \in Files: Rewind(f)
  \/ Quit \/ Die

BackupsNext ==
  \/ BackUpNow \/ RefuseManual \/ BackUpIfDue
  \/ \E s \in 1..MaxServices: Step(s)
  \/ World \/ Launch

\* A run goes on, the scheduler ticks, and a closed application is opened again.
Diligence == BackUpIfDue \/ Launch \/ \E s \in 1..MaxServices: Step(s)

BackupsSpec == BackupsInit /\ [][BackupsNext]_backupVars
BackupsFairness == WF_backupVars(Diligence) /\ WF_backupVars(Die /\ app = "QUITTING")

-------------------------------------------------------------------------------
(* Properties.                                                                 *)

\* Every backup the catalogue calls COMPLETED is a whole file where it says it is,
\* unless retention removed it and a restore brought its row back: no failure, quit
\* or crash after the row was written takes the file away (backupService.ts:370).
CompletedIsWhole ==
  \A r \in rows:
    /\ r.status = "COMPLETED"
    /\ <<r.place, r.run>> \notin pruned
    => (IF r.place = "LOCAL_DISK" THEN disk ELSE drive)[r.run] = "WHOLE"

\* While the health shown is HEALTHY, for the destination configured now or for one
\* that statusVerified read before its await, the drive holds a whole copy that was
\* made for it in the last days (backupHealth.ts:86).
HealthyIsProtected ==
  \A config \in 1..configured:
    Protection(config) = "HEALTHY" =>
      \E r \in Completed("OFF_DEVICE"):
        r.config >= config /\ drive[r.run] = "WHOLE" /\ Days(r.at, clock) < StaleDays

\* Retention leaves a whole backup on the local disk wherever there was one, and one on
\* the drive unless the catalogue counts a copy there that retention removed before; and
\* what it removes is past its age or was never a backup: a backup that no row names
\* since an older catalogue was restored stays (backupRetention.ts:120).
RetentionSpares ==
  [][\A s \in 1..MaxServices: Retain(s) =>
       /\ (\E f \in Files: disk[f] = "WHOLE") => (\E f \in Files: disk'[f] = "WHOLE")
       /\ /\ \E f \in Files: drive[f] = "WHOLE"
          /\ \A r \in Completed("OFF_DEVICE"): <<r.place, r.run>> \notin pruned
          => \E f \in Files: drive'[f] = "WHOLE"
       /\ \A f \in Files:
            /\ disk[f] = "WHOLE" /\ disk'[f] # "WHOLE" =>
                 \E r \in Completed("LOCAL_DISK"): r.run = f /\ OverAge(r)
            /\ drive[f] = "WHOLE" /\ drive'[f] # "WHOLE" =>
                 \E r \in Completed("OFF_DEVICE"): r.run = f /\ OverAge(r)]_<<disk, drive>>

\* An automatic backup that is owed is taken in the end, whatever failed, quit or
\* died before (backupScheduler.ts:41).
OwedIsTaken == Due ~> ~Due
===============================================================================
