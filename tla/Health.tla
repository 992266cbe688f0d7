--------------------------------- MODULE Health --------------------------------
(* What the station tells of its health while it runs: diagnostic snapshots,   *)
(* problem reports and support bundles (src/main/diagnostics/                  *)
(* diagnosticsService.ts, databaseHealth.ts, diskSpace.ts, updateHealth.ts,    *)
(* src/main/support/supportBundleService.ts, SupportDiagnosticsSection.tsx,    *)
(* SupportActions.tsx).                                                        *)
(*                                                                             *)
(* A snapshot looks at the parts one by one, some of them after an await; the  *)
(* parts change meanwhile, and a restore may close the database it began with. *)
EXTENDS Integers, FiniteSets

CONSTANTS
  Parts,     \* the parts looked at, of "database", "disk", "backup", "google",
             \* "cards", "printer" and "update"; connectivity is always HEALTHY
  MaxAsks,   \* bound on the snapshots asked for
  MaxTurns,  \* bound on the changes of the parts and the failing looks
  MaxOpens   \* bound on the databases opened

\* inspectDatabaseHealth is in every snapshot.
ASSUME HealthAssumption ==
  /\ Parts \subseteq {"database", "disk", "backup", "google", "cards", "printer", "update"}
  /\ "database" \in Parts

VARIABLES
  handle,    \* productionDatabase: NONE, OPEN or CLOSED, and which one it is
  exclusive, \* a restore owns the database
  state,     \* how each part is
  turns,
  asks,      \* the snapshots being taken
  asked,     \* how many were begun
  panel,     \* the snapshot on the page
  report,    \* createdReportId, and the reports on the disk
  bundle     \* the bundle last written

healthVars == <<handle, exclusive, state, turns, asks, asked, panel, report, bundle>>

Late == Parts \intersect {"disk", "backup", "google", "printer"}
Kinds == {"SUMMARY", "MANUAL", "REPORT", "BUNDLE"}

NoSnapshot == [kind |-> "NONE"]
Unanswered == "PENDING"

\* The database may be wrong in a way only quick_check finds.
StatesOf(part) ==
  CASE part = "database" -> {"HEALTHY", "DAMAGED", "CRITICAL"}
    [] part = "disk" -> {"HEALTHY", "WARNING", "CRITICAL"}
    [] OTHER -> {"HEALTHY", "WARNING"}

\* aggregateHealth.
Overall(levels) ==
  IF "CRITICAL" \in levels THEN "CRITICAL"
  ELSE IF "WARNING" \in levels THEN "WARNING" ELSE "HEALTHY"

Serving == handle.state = "OPEN"

-------------------------------------------------------------------------------
(* Taking a snapshot.                                                          *)

\* inspectDatabaseHealth: shallow, or with quick_check when run by hand.
DatabaseLevel(deep) ==
  IF ~Serving \/ state["database"] = "CRITICAL" \/ (deep /\ state["database"] = "DAMAGED")
    THEN "CRITICAL" ELSE "HEALTHY"

\* The parts read before the first await; a part of a database that is not open is
\* unavailable.
FirstLook(kind) ==
  [part \in Parts |->
     CASE part = "database" -> DatabaseLevel(kind = "MANUAL")
       [] part \in {"cards", "backup", "printer", "google"} /\ ~Serving -> "WARNING"
       [] part = "update" \/ (part = "cards" /\ Serving) -> state[part]
       [] OTHER -> Unanswered]

\* The page keeps one request of a kind on its way, offers a check by hand once the
\* summary has come, and exports nothing while a report is being made.
Offered(kind) ==
  /\ asks[kind] = NoSnapshot
  /\ CASE kind = "SUMMARY" -> asks["MANUAL"] = NoSnapshot /\ panel = NoSnapshot
       [] kind = "MANUAL" -> asks["SUMMARY"] = NoSnapshot
       [] kind = "BUNDLE" -> asks["REPORT"] = NoSnapshot
       [] OTHER -> TRUE

\* trustedInvoke refuses while a restore owns the database.
TakeSnapshot(kind) ==
  /\ ~exclusive /\ asked < MaxAsks /\ asked' = asked + 1
  /\ Offered(kind)
  /\ asks' = [asks EXCEPT ![kind] =
       [kind |-> kind, of |-> handle.id, parts |-> FirstLook(kind), overall |-> Unanswered,
        report |-> IF kind = "BUNDLE" THEN report.created ELSE 0,
        seen |-> [p \in Parts |-> {state[p]}], serving |-> Serving, lost |-> {}]]
  /\ UNCHANGED <<handle, exclusive, state, turns, panel, report, bundle>>

\* backupDiagnostic and queueSummary query the database the snapshot began with, and
\* throw when it was closed meanwhile.
Querying == Parts \intersect {"backup", "google"}
SameHandle(ask) == Serving /\ ask.of = handle.id

\* Mutated: how the part is now, whichever database is open.
InspectorAnswersOfAny(ask, part) == state[part]

\* The inspector's answer; unavailable when it rejects.
InspectorAnswers(ask, part) ==
  IF part \in Querying /\ ~SameHandle(ask) THEN "WARNING" ELSE state[part]

PartAnswers(kind, part) ==
  /\ asks[kind] # NoSnapshot /\ asks[kind].parts[part] = Unanswered
  /\ \/ /\ asks' = [asks EXCEPT ![kind].parts[part] = InspectorAnswers(asks[kind], part)]
        /\ UNCHANGED turns
     \/ /\ turns < MaxTurns /\ turns' = turns + 1
        /\ asks' = [asks EXCEPT ![kind].parts[part] = "WARNING"]
  /\ UNCHANGED <<handle, exclusive, state, asked, panel, report, bundle>>

Whole(kind) ==
  /\ asks[kind] # NoSnapshot
  /\ \A part \in Parts: asks[kind].parts[part] # Unanswered

Result(kind) ==
  LET parts == asks[kind].parts
  IN [asks[kind] EXCEPT !.overall = Overall({parts[p] : p \in Parts})]

\* The page shows what came; the summary is asked for once, when the page opens.
Shows(kind) ==
  /\ kind \in {"SUMMARY", "MANUAL"} /\ Whole(kind)
  /\ panel' = Result(kind)
  /\ asks' = [asks EXCEPT ![kind] = NoSnapshot]
  /\ UNCHANGED <<handle, exclusive, state, turns, asked, report, bundle>>

\* createProblemReport: a file by rename, and its identifier for the page; when the
\* write fails the page keeps the identifier it had.
CreateReport ==
  /\ Whole("REPORT")
  /\ \/ LET id == Cardinality(report.kept) + 1
        IN report' = [created |-> id, kept |-> report.kept \union {id}]
     \/ UNCHANGED report
  /\ asks' = [asks EXCEPT !["REPORT"] = NoSnapshot]
  /\ UNCHANGED <<handle, exclusive, state, turns, asked, panel, bundle>>

\* loadProblemReport.
Loads(id) == id \in report.kept \union {0}

\* prepareBundle, the dialog that may be cancelled, writePreparedBundle.
ExportBundle ==
  /\ Whole("BUNDLE")
  /\ \/ /\ Loads(asks["BUNDLE"].report)
        /\ bundle' = Result("BUNDLE")
     \/ UNCHANGED bundle
  /\ asks' = [asks EXCEPT !["BUNDLE"] = NoSnapshot]
  /\ UNCHANGED <<handle, exclusive, state, turns, asked, panel, report>>

-------------------------------------------------------------------------------
(* What changes meanwhile.                                                     *)

\* History: what a snapshot under way could have seen.
Witness(part, level) ==
  [kind \in Kinds |-> IF asks[kind] = NoSnapshot THEN NoSnapshot
                      ELSE [asks[kind] EXCEPT !.seen[part] = @ \union {level}]]

\* History: what it can no longer know of its database.
Lose ==
  [kind \in Kinds |->
     IF asks[kind] = NoSnapshot THEN NoSnapshot
     ELSE [asks[kind] EXCEPT
             !.lost = @ \union {p \in Querying : asks[kind].parts[p] = Unanswered}]]

\* External: a disk fills, a drive goes, a printer is switched off, an incident is
\* resolved.
Turns(part) ==
  /\ turns < MaxTurns /\ turns' = turns + 1
  /\ \E level \in StatesOf(part) \ {state[part]}:
       /\ state' = [state EXCEPT ![part] = level]
       /\ asks' = Witness(part, level)
  /\ UNCHANGED <<handle, exclusive, asked, panel, report, bundle>>

\* wireDatabaseBackedServices: at startup and after a restore.
WireDatabase ==
  /\ handle.state # "OPEN" /\ handle.id < MaxOpens
  /\ handle.state = "NONE" \/ exclusive
  /\ handle' = [state |-> "OPEN", id |-> handle.id + 1]
  /\ exclusive' = FALSE
  /\ UNCHANGED <<state, turns, asks, asked, panel, report, bundle>>

\* A restore closes the database; the variable keeps the closed object.
DatabaseCloses ==
  /\ Serving /\ handle' = [handle EXCEPT !.state = "CLOSED"] /\ exclusive' = TRUE
  /\ asks' = Lose
  /\ UNCHANGED <<state, turns, asked, panel, report, bundle>>

\* Neither the candidate nor the original could be opened: the claim is released.
ClaimReleased ==
  /\ exclusive /\ exclusive' = FALSE
  /\ UNCHANGED <<handle, state, turns, asks, asked, panel, report, bundle>>

-------------------------------------------------------------------------------
HealthInit ==
  /\ handle = [state |-> "NONE", id |-> 0] /\ exclusive = FALSE
  /\ state = [p \in Parts |-> "HEALTHY"] /\ turns = 0
  /\ asks = [k \in Kinds |-> NoSnapshot] /\ asked = 0
  /\ panel = NoSnapshot /\ report = [created |-> 0, kept |-> {}] /\ bundle = NoSnapshot

HealthNext ==
  \/ \E kind \in Kinds: TakeSnapshot(kind) \/ Shows(kind) \/ \E part \in Late: PartAnswers(kind, part)
  \/ CreateReport \/ ExportBundle
  \/ \E part \in Parts: Turns(part)
  \/ WireDatabase \/ DatabaseCloses \/ ClaimReleased

HealthSpec == HealthInit /\ [][HealthNext]_healthVars

-------------------------------------------------------------------------------
(* Properties.                                                                 *)

\* What the page or a bundle says is healthy was so at a moment of the snapshot, of a
\* database that was open; a part that had to ask a database closed meanwhile is not
\* said to be healthy, damage is not missed by a check run by hand, and the whole is
\* no better than its parts.  A bundle carries a report that is on the disk
\* (diagnosticsService.ts:281).
HealthIsSeen ==
  \A told \in {panel, bundle} \ {NoSnapshot}:
    /\ \A p \in Parts: told.parts[p] = "HEALTHY" =>
         /\ "HEALTHY" \in told.seen[p] \/ (p = "database" /\ "DAMAGED" \in told.seen[p])
         /\ p \in {"database", "cards", "backup", "google"} => told.serving
         /\ p \notin told.lost
    /\ told.kind = "MANUAL" /\ told.seen["database"] = {"DAMAGED"} =>
         told.overall = "CRITICAL"
    /\ told.overall = "HEALTHY" <=> \A p \in Parts: told.parts[p] = "HEALTHY"
    /\ told.overall = "CRITICAL" <=> \E p \in Parts: told.parts[p] = "CRITICAL"
    /\ told.report \in report.kept \union {0}
===============================================================================
