---------------------------------- MODULE Wake ---------------------------------
(* What the station does when Windows wakes, and how it tells a changed clock  *)
(* (src/main/diagnostics/powerLifecycle.ts, clockWatcher.ts, src/main/index.ts,*)
(* src/main/database/status.ts).                                               *)
(*                                                                             *)
(* The wall clock is compared with a monotonic one, which may or may not count *)
(* a sleep; the timer that came due in the sleep and the resume event are      *)
(* served in either order.                                                     *)
EXTENDS Integers

CONSTANTS
  MaxSleeps,  \* bound on the sleeps and settings of the clock
  MaxWirings  \* bound on the databases wired

VARIABLES
  power,      \* "AWAKE", "ASLEEP", or "WOKEN" until the resume event is served
  offset,     \* the wall clock less the monotonic one, in steps told as a jump
  baseline,   \* lastWall less lastMonotonic
  wasSet,     \* history: the clock was set since the baseline
  jump,       \* history: what the change last told was
  sleeps,
  database,   \* productionDatabase: "NONE", "OPEN", "CLOSED", or "FAILED" at launch
  sound,      \* its schema is as expected
  restoring,  \* a restore owns it
  status,     \* databaseStatus
  doubted,    \* history: a resume since the last wiring found the schema wanting
  wirings

wakeVars == <<power, offset, baseline, wasSet, jump, sleeps, database, sound, restoring,
              status, doubted, wirings>>

clockVars == <<offset, baseline, wasSet, jump, sleeps>>
databaseVars == <<database, sound, restoring, status, doubted, wirings>>

-------------------------------------------------------------------------------
(* Sleep and the clock.                                                        *)

\* External.
Suspend ==
  /\ power = "AWAKE" /\ power' = "ASLEEP"
  /\ sleeps < MaxSleeps /\ sleeps' = sleeps + 1
  /\ offset' \in {offset, offset + 1}
  /\ UNCHANGED <<baseline, wasSet, jump, databaseVars>>
Wakes == power = "ASLEEP" /\ power' = "WOKEN" /\ UNCHANGED <<clockVars, databaseVars>>
SetClock ==
  /\ power # "ASLEEP" /\ sleeps < MaxSleeps /\ sleeps' = sleeps + 1
  /\ offset' \in {offset - 1, offset + 1} /\ wasSet' = TRUE
  /\ UNCHANGED <<power, baseline, jump, databaseVars>>

\* checkNow: the baseline moves whether or not a change is told.
CheckClock ==
  /\ power # "ASLEEP" /\ baseline # offset
  /\ baseline' = offset /\ wasSet' = FALSE
  /\ jump' = [real |-> wasSet, early |-> power = "WOKEN"]
  /\ UNCHANGED <<power, offset, sleeps, databaseVars>>

\* Mutated: the resume listener leaves the baseline.
ResumeBaseline == UNCHANGED <<baseline, wasSet>>

\* resetBaseline.
ResetBaseline == baseline' = offset /\ wasSet' = FALSE

-------------------------------------------------------------------------------
(* The resume listener: the baseline; then the database.  The getter of a      *)
(* connection throws once it was closed, and the rest of the listener is lost. *)

\* evaluateResumeSafety, onResumeSafetyCheck.  The last callback of the listener,
\* onResumeExportRecovery, writes the export jobs only: it is Recover of ExportWorker.
ResumeSafetyCheck ==
  LET open == database = "OPEN"
  IN /\ database # "CLOSED"
     /\ status' = IF open /\ sound THEN status ELSE "unavailable"
     /\ doubted' = (doubted \/ (open /\ ~sound))

Resume ==
  /\ power = "WOKEN" /\ power' = "AWAKE"
  /\ ResetBaseline
  /\ ResumeSafetyCheck \/ (database = "CLOSED" /\ UNCHANGED <<status, doubted>>)
  /\ UNCHANGED <<offset, jump, sleeps, database, sound, restoring, wirings>>

-------------------------------------------------------------------------------
(* The database, reduced to what sets its status.                              *)

\* wireDatabaseBackedServices: at startup, after a restore, after one refused.
WireDatabaseBackedServices ==
  /\ power # "ASLEEP" /\ wirings < MaxWirings /\ wirings' = wirings + 1
  /\ database = "NONE" \/ restoring
  /\ database' = "OPEN" /\ restoring' = FALSE /\ sound' = TRUE
  /\ status' = "ready" /\ doubted' = FALSE
  /\ UNCHANGED <<power, clockVars>>

StartupFails ==
  /\ power # "ASLEEP" /\ database = "NONE" /\ database' = "FAILED"
  /\ status' = "unavailable"
  /\ UNCHANGED <<power, clockVars, sound, restoring, doubted, wirings>>

RestoreCloses ==
  /\ power # "ASLEEP" /\ database = "OPEN"
  /\ database' = "CLOSED" /\ restoring' = TRUE
  /\ UNCHANGED <<power, clockVars, sound, status, doubted, wirings>>

\* Neither the candidate nor the original: nobody sets the status.
RestoreFails ==
  /\ power # "ASLEEP" /\ restoring /\ restoring' = FALSE
  /\ UNCHANGED <<power, clockVars, database, sound, status, doubted, wirings>>

\* External: what the check reads cannot be read, or can again.
SoundnessTurns ==
  /\ power # "ASLEEP" /\ database = "OPEN" /\ sound' = ~sound
  /\ UNCHANGED <<power, clockVars, database, restoring, status, doubted, wirings>>

WakeInit ==
  /\ power = "AWAKE" /\ offset = 0 /\ baseline = 0 /\ wasSet = FALSE /\ sleeps = 0
  /\ jump = [real |-> TRUE, early |-> FALSE]
  /\ database = "NONE" /\ sound = TRUE /\ restoring = FALSE /\ wirings = 0
  /\ status = "initializing" /\ doubted = FALSE

WakeNext ==
  \/ Suspend \/ Wakes \/ SetClock \/ CheckClock \/ Resume
  \/ WireDatabaseBackedServices \/ StartupFails \/ RestoreCloses \/ RestoreFails
  \/ SoundnessTurns

WakeSpec == WakeInit /\ [][WakeNext]_wakeVars

-------------------------------------------------------------------------------
(* Properties.                                                                 *)

\* No sleep is told as a change of the clock, save where the timer is served before
\* the resume event; and no resume, in whatever order it came with the opening and
\* the restores, leaves an open database shown as unavailable but one whose schema it
\* found wanting (clockWatcher.ts:22, index.ts:319).
WakesTruthfully ==
  /\ jump.real \/ jump.early
  /\ database = "OPEN" /\ ~doubted => status = "ready"
===============================================================================
