-------------------------------- MODULE Sessions -------------------------------
(* What the program keeps of how its sessions ended: the session marker, the   *)
(* crash records and the log the activity feed is made of                      *)
(* (src/main/diagnostics/crashEvidence.ts, crashLifecycle.ts,                  *)
(* activityHistory.ts, src/main/app/logger.ts, src/main/support/recentLogs.ts, *)
(* src/main/index.ts).                                                         *)
(*                                                                             *)
(* None of it is in the database.  The process may be killed between any two   *)
(* writes, every write may fail without stopping the program, and the wall     *)
(* clock that dates the files may be set back.                                 *)
EXTENDS Integers, Sequences, FiniteSets, FiniteSetsExt

CONSTANTS
  MaxSessions,  \* bound on the sessions
  MaxRecords,   \* CRASH_EVIDENCE_MAX_RECORDS: crash records kept
  MaxLines,     \* lines in a log file, for DEFAULT_LOG_MAX_BYTES
  MaxRotated,   \* DEFAULT_LOG_MAX_ROTATED_FILES
  MaxAge,       \* steps of the clock a crash record and a rotated log file are kept
  MaxDay,       \* bound on the wall clock
  MaxEvents,    \* bound on the incidents within the sessions
  MaxMishaps    \* bound on failing writes, damage and clocks set back

ASSUME SessionsAssumption ==
  /\ MaxRecords \in Nat /\ MaxLines \in Nat /\ MaxRotated \in Nat /\ MaxAge \in Nat

VARIABLES
  marker,       \* application-session.json
  active,       \* activeMarker of the running process: the session it marks, or 0
  process,      \* how far the process has come
  records,      \* every crash record ever written, in that order
  evidence,     \* the positions of those still on the disk
  log,          \* main.log, which is 0, and the rotated files by their numbers
  swept,        \* lastRetentionCheckAt of the running process
  day, reached, \* the wall clock, and the latest day it has shown
  ended,        \* how each session begun has ended
  mistold,      \* sessions about which a write failed or a file was damaged
  events, mishaps

sessionsVars == <<marker, active, process, records, evidence, log, swept, day, reached,
                  ended, mistold, events, mishaps>>

NoDay == -1
Unexpected == "unexpected_previous_termination"
Incidents == {"main_process_uncaught_exception", "renderer_process_gone",
              "child_process_gone"}
Current == Len(ended)

-------------------------------------------------------------------------------
(* The log.                                                                    *)

Numbers == 0..MaxRotated
NoFile == [at |-> NoDay, lines |-> <<>>]

\* rotateIfNeeded: a full main.log becomes file 1, every other the next one, and the
\* last is gone; a number may be missing.
Rotated(files) ==
  IF Len(files[0].lines) < MaxLines THEN files
  ELSE [n \in Numbers |-> IF n = 0 THEN NoFile ELSE files[n - 1]]

\* cleanupRetention: the rotated files out of age are removed.
Cleaned(files) ==
  [n \in Numbers |-> IF n # 0 /\ files[n].at < day - MaxAge THEN NoFile ELSE files[n]]

\* Logger.write, of the lines of a step the one the feed knows: what is out of age is
\* removed first, once a day and when the clock was set back.
Log(line) ==
  LET due == swept = NoDay \/ day < swept \/ day > swept
      files == Rotated(IF due THEN Cleaned(log) ELSE log)
  IN /\ log' = [files EXCEPT ![0] = [at |-> day, lines |-> Append(files[0].lines, line)]]
     /\ swept' = IF due THEN day ELSE swept

\* mapRecord: the events the feed has a text for.
InFeed(line) == line.event # "OTHER"

\* collectRecentSanitizedLogRecords reads all the files; in which order it shows their
\* lines is left out.
Activity ==
  {line \in UNION {{log[n].lines[k] : k \in DOMAIN log[n].lines} : n \in Numbers} :
     InFeed(line)}

-------------------------------------------------------------------------------
(* Crash records.                                                              *)

\* applyRetention: of the records not out of age the newest by the date of their
\* files; those of one date have random names.
Retained(all, keys) ==
  LET fresh == {k \in keys : all[k].at >= day - MaxAge}
  IN {kept \in SUBSET fresh :
        /\ Cardinality(kept) = Min({Cardinality(fresh), MaxRecords})
        /\ \A k \in kept, j \in fresh \ kept: all[j].at <= all[k].at}

\* record: the file, then retention, then the line in the log.  None of it throws.
RecordCrash(event, about) ==
  LET all == Append(records, [event |-> event, about |-> about, at |-> day])
  IN /\ records' = all
     /\ evidence' \in Retained(all, evidence \union {Len(all)})
     /\ Log([event |-> event, about |-> about])

RecordCrashFails ==
  /\ mishaps < MaxMishaps /\ mishaps' = mishaps + 1
  /\ Log([event |-> "OTHER", about |-> 0])
  /\ UNCHANGED <<records, evidence>>

-------------------------------------------------------------------------------
(* A session, from the lock of the single instance to will-quit.               *)

SessionsInit ==
  /\ marker = [state |-> "ABSENT", id |-> 0] /\ active = 0 /\ process = "DOWN"
  /\ records = <<>> /\ evidence = {}
  /\ log = [n \in Numbers |-> NoFile] /\ swept = NoDay
  /\ day = 0 /\ reached = 0
  /\ ended = <<>> /\ mistold = {} /\ events = 0 /\ mishaps = 0

\* Mutated: the marker is replaced before its session is recorded.
StartMarked ==
  /\ process = "DOWN" /\ Current < MaxSessions
  /\ ended' = Append(ended, "LIVE")
  /\ active' = Current + 1
  /\ marker' = [state |-> "RUNNING", id |-> Current + 1]
  /\ process' = IF marker.state = "RUNNING" THEN "RECORDING" ELSE "MARKING"
  /\ UNCHANGED <<records, evidence, log, swept, day, reached, mistold, events, mishaps>>

\* startSession reads the marker of the session before.
StartSession ==
  /\ process = "DOWN" /\ Current < MaxSessions
  /\ ended' = Append(ended, "BEGUN")
  /\ active' = Current + 1
  /\ process' = IF marker.state = "RUNNING" THEN "RECORDING" ELSE "MARKING"
  /\ UNCHANGED <<marker, records, evidence, log, swept, day, reached, mistold, events,
                 mishaps>>

RecordPrevious ==
  /\ process = "RECORDING" /\ process' = "MARKING"
  /\ \/ RecordCrash(Unexpected, marker.id) /\ UNCHANGED <<mistold, mishaps>>
     \/ RecordCrashFails /\ mistold' = mistold \union {marker.id}
  /\ UNCHANGED <<marker, active, day, reached, ended, events>>

\* atomicWrite of the marker; when it fails the session goes on without one.
WriteMarker ==
  /\ process = "MARKING" /\ process' = "UP"
  /\ \/ /\ marker' = [state |-> "RUNNING", id |-> active]
        /\ ended' = [ended EXCEPT ![Current] = "LIVE"]
        /\ UNCHANGED <<active, mishaps, log, swept>>
     \/ /\ mishaps < MaxMishaps /\ mishaps' = mishaps + 1
        /\ active' = 0 /\ Log([event |-> "OTHER", about |-> 0])
        /\ ended' = [ended EXCEPT ![Current] = "UNMARKED"]
        /\ UNCHANGED marker
  /\ UNCHANGED <<records, evidence, day, reached, mistold, events>>

\* recordMainProcessFailure, recordRendererProcessGone, recordChildProcessGone.
Incident ==
  /\ process = "UP" /\ events < MaxEvents /\ events' = events + 1
  /\ \/ \E event \in Incidents: RecordCrash(event, active) /\ UNCHANGED mishaps
     \/ RecordCrashFails
  /\ UNCHANGED <<marker, active, process, day, reached, ended, mistold>>

\* Every other part of the program writes to the log too.
LogsOther ==
  /\ process = "UP" /\ events < MaxEvents /\ events' = events + 1
  /\ Log([event |-> "OTHER", about |-> 0])
  /\ UNCHANGED <<marker, active, process, records, evidence, day, reached, ended, mistold,
                 mishaps>>

\* collectRecent, for a support bundle: retention first.
CollectRecent ==
  /\ process = "UP"
  /\ evidence' \in Retained(records, evidence) \ {evidence}
  /\ UNCHANGED <<marker, active, process, records, log, swept, day, reached, ended,
                 mistold, events, mishaps>>

\* will-quit stops the workers and closes the database before the marker.
WillQuit ==
  /\ process = "UP" /\ process' = "CLOSING"
  /\ Log([event |-> "OTHER", about |-> 0])
  /\ UNCHANGED <<marker, active, records, evidence, day, reached, ended, mistold, events,
                 mishaps>>

\* markCleanShutdown, and the process is gone.
MarkCleanShutdown ==
  /\ process = "CLOSING" /\ process' = "DOWN" /\ active' = 0 /\ swept' = NoDay
  /\ \/ active = 0 /\ UNCHANGED <<marker, ended, mistold, mishaps>>
     \/ /\ active # 0
        /\ marker' = [marker EXCEPT !.state = "CLEAN", !.id = active]
        /\ ended' = [ended EXCEPT ![Current] = "CLEAN"]
        /\ UNCHANGED <<mistold, mishaps>>
     \/ /\ active # 0 /\ mishaps < MaxMishaps /\ mishaps' = mishaps + 1
        /\ ended' = [ended EXCEPT ![Current] = "CLEAN"]
        /\ mistold' = mistold \union {active}
        /\ UNCHANGED marker
  /\ UNCHANGED <<records, evidence, log, day, reached, events>>

\* External: a power cut, Windows logging off, the task manager.
Killed ==
  /\ process # "DOWN" /\ process' = "DOWN" /\ active' = 0 /\ swept' = NoDay
  /\ ended' = [ended EXCEPT ![Current] = IF @ = "LIVE" THEN "KILLED" ELSE @]
  /\ UNCHANGED <<marker, records, evidence, log, day, reached, mistold, events, mishaps>>

\* External: the marker's bytes are damaged; the next start only logs it.
Damaged ==
  /\ mishaps < MaxMishaps /\ mishaps' = mishaps + 1
  /\ marker.state \in {"RUNNING", "CLEAN"}
  /\ marker' = [marker EXCEPT !.state = "CORRUPT"]
  /\ mistold' = mistold \union {marker.id}
  /\ UNCHANGED <<active, process, records, evidence, log, swept, day, reached, ended,
                 events>>

\* External: the wall clock.
DayPasses ==
  /\ day < MaxDay /\ day' = day + 1
  /\ reached' = Max({reached, day'})
  /\ UNCHANGED <<marker, active, process, records, evidence, log, swept, ended, mistold,
                 events, mishaps>>
ClockSetBack ==
  /\ mishaps < MaxMishaps /\ mishaps' = mishaps + 1
  /\ day > 0 /\ day' = day - 1
  /\ UNCHANGED <<marker, active, process, records, evidence, log, swept, reached, ended,
                 mistold, events>>

SessionsNext ==
  \/ StartSession \/ RecordPrevious \/ WriteMarker \/ Incident \/ LogsOther
  \/ CollectRecent \/ WillQuit \/ MarkCleanShutdown \/ Killed
  \/ Damaged \/ DayPasses \/ ClockSetBack

SessionsSpec == SessionsInit /\ [][SessionsNext]_sessionsVars

-------------------------------------------------------------------------------
(* Properties.                                                                 *)

\* A session whose marker was replaced has been recorded as ended unexpectedly if it
\* was killed, wherever the process was killed since, and only then, save where a
\* write about it failed; the feed shows no other ending.  A record leaves the disk
\* only when it is out of age or MaxRecords others are no older, those of a clock set
\* back included (crashEvidence.ts:403, 275).
EndingsAreTold ==
  LET told == {records[k].about : k \in {j \in DOMAIN records :
                                           records[j].event = Unexpected}}
  IN /\ \A s \in DOMAIN ended \ mistold:
          /\ ended[s] = "KILLED" /\ marker.id # s => s \in told
          /\ s \in told => ended[s] = "KILLED"
     /\ \A line \in Activity: line.event = Unexpected => line.about \in told
     /\ \A k \in DOMAIN records \ evidence:
          \/ records[k].at < reached - MaxAge
          \/ Cardinality({j \in DOMAIN records \ {k} : records[j].at >= records[k].at})
               >= MaxRecords
===============================================================================
