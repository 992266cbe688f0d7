----------------------------- MODULE ExportWorker -----------------------------
(* The export of sales to the two worksheets of a Google spreadsheet           *)
(* (src/main/google/exportWorker.ts, exportUpsert.ts, exportJobRepository.ts,  *)
(* googleRedaction.ts).                                                        *)
(*                                                                             *)
(* One worker takes one job at a time: it reads a worksheet's id column,       *)
(* appends or overwrites the sale's rows, and does the same on the second      *)
(* worksheet.  It awaits Google at each of the four requests, and meanwhile    *)
(* sales are completed and voided, and the computer may sleep.  A request is   *)
(* one action with its answer; a write whose answer never came, or whose       *)
(* connection broke, can reach the sheet later.                                *)
(*                                                                             *)
(* The items of a sale are one row here: their ids and contents never change   *)
(* and one request appends them all.  The header row of an empty worksheet is  *)
(* left out: no sale is in it.  The worker's "invariant" outcome is left out   *)
(* too: JobsAimAtSales of Checkout shows that no job can cause it.             *)
EXTENDS ExportJobs, Sequences, FiniteSets

CONSTANTS
  MaxAttempts,  \* MAX_FAILED_ATTEMPTS
  Scopes        \* bounds: how many sales are completed and voided, and how many
                \* writes the worker has let go of are on their way at a time

ASSUME WorkerAssumption ==
  /\ MaxAttempts \in Nat \ {0}
  /\ Scopes \subseteq [sales: Nat \ {0}, voids: Nat, late: Nat]

VARIABLES
  scope,      \* the bounds of this behaviour
  jobs,       \* google_sheet_export_jobs, by sale
  version,    \* sales.sync_version: 1 completed, 2 voided
  enabled,    \* resolveExportContext answers a context
  worker,     \* the job in hand
  sheet,      \* external: the rows of each worksheet
  late,       \* external: writes not answered that Google has yet to apply
  overlapped  \* history: the columns read, for which sale, while an append of it
              \* was in late

vars == <<scope, jobs, version, enabled, worker, sheet, late, overlapped>>

Tabs == {"SALES", "ITEMS"}

\* A Sale Items row shows nothing of the sale that a void changes.
Image(tab, s, v) == [sale |-> s, version |-> IF tab = "SALES" THEN v ELSE 1]

SheetRow == [sale: Nat \ {0}, version: Nat \ {0}]

Idle == [at |-> "IDLE"]
Reading == [at: {"READ"}, tab: Tabs, sale: Nat \ {0}, written: Nat \ {0}]
Writing == [at: {"WRITE"}, tab: Tabs, sale: Nat \ {0}, written: Nat \ {0},
            matches: SUBSET (Nat \ {0})]

\* The number tells writes of the same content apart.
Request == [tab: Tabs, sale: Nat \ {0}, written: Nat \ {0}, matches: SUBSET (Nat \ {0}),
            number: Nat \ {0}]

-------------------------------------------------------------------------------
(* The spreadsheet.                                                            *)

\* Mutated: the row number of the sheet starts at 1, the index at 0.
MatchesOffByOne(tab, s) ==
  {k \in DOMAIN sheet[tab] : k + 1 \in DOMAIN sheet[tab] /\ sheet[tab][k + 1].sale = s}

\* matchRows: every row that has the sale's id.
Matches(tab, s) == {k \in DOMAIN sheet[tab] : sheet[tab][k].sale = s}

\* Mutated: appended whatever the column showed.
AppliedBlindly(rows, image, matches) == Append(rows, image)

\* upsertSalesRow, upsertSaleItemRows: append if nothing matched when the column
\* was read, else overwrite every match.
Applied(rows, image, matches) ==
  IF matches = {} THEN Append(rows, image)
  ELSE [k \in DOMAIN rows |-> IF k \in matches THEN image ELSE rows[k]]

Apply(w) ==
  sheet' = [sheet EXCEPT ![w.tab] = Applied(@, Image(w.tab, w.sale, w.written), w.matches)]

-------------------------------------------------------------------------------
(* What changes the jobs outside the worker.                                   *)

\* The sale transaction of Checkout inserts the job.
CompleteSale ==
  /\ Len(jobs) < scope.sales
  /\ jobs' = Append(jobs, NewJob)
  /\ version' = Append(version, 1)
  /\ UNCHANGED <<scope, enabled, worker, sheet, late, overlapped>>

\* The void transaction of Checkout requeues it.
VoidSale(s) ==
  /\ Cardinality({t \in DOMAIN jobs : version[t] = 2}) < scope.voids
  /\ s \in DOMAIN jobs
  /\ version[s] = 1
  /\ version' = [version EXCEPT ![s] = 2]
  /\ jobs' = [jobs EXCEPT ![s] = RequeueForVoid(@, 2)]
  /\ UNCHANGED <<scope, enabled, worker, sheet, late, overlapped>>

\* "Retry Export" in the sale's detail.
RetryExport(s) ==
  /\ s \in DOMAIN jobs
  /\ CanRetry(jobs[s])
  /\ jobs' = [jobs EXCEPT ![s] = ManualRetry(@)]
  /\ UNCHANGED <<scope, version, enabled, worker, sheet, late, overlapped>>

\* The integration is connected and set up, or stops being so.
SwitchIntegration ==
  /\ enabled' = ~enabled
  /\ UNCHANGED <<scope, jobs, version, worker, sheet, late, overlapped>>

-------------------------------------------------------------------------------
(* Time.                                                                       *)

\* next_attempt_at is reached.
BecomeDue(s) ==
  /\ s \in DOMAIN jobs
  /\ ~jobs[s].due
  /\ jobs' = [jobs EXCEPT ![s].due = TRUE]
  /\ UNCHANGED <<scope, version, enabled, worker, sheet, late, overlapped>>

\* Five minutes pass since the claim.  The requests of a computer that is awake
\* are aborted after 30 seconds; one that slept wakes with the request in hand.
BecomeAged(s) ==
  /\ s \in DOMAIN jobs
  /\ jobs[s].status = "EXPORTING"
  /\ ~jobs[s].aged
  /\ jobs' = [jobs EXCEPT ![s].aged = TRUE]
  /\ UNCHANGED <<scope, version, enabled, worker, sheet, late, overlapped>>

-------------------------------------------------------------------------------
(* The worker.                                                                 *)

\* recoverStale, at the top of a drain pass, and whenever the computer wakes
\* (onResumeExportRecovery), whatever the worker has in hand.
Recover ==
  /\ jobs' = [s \in DOMAIN jobs |-> RecoverStale(jobs[s])]
  /\ UNCHANGED <<scope, version, enabled, worker, sheet, late, overlapped>>

\* claimNextJob, after resolveContext answered.  The oldest due job is claimed;
\* which one that is depends on the times, so it may be any of them.
Claim(s) ==
  /\ worker = Idle
  /\ enabled
  /\ s \in DOMAIN jobs
  /\ Claimable(jobs[s])
  /\ jobs' = [jobs EXCEPT ![s] = ClaimJob(@)]
  /\ worker' = [at |-> "READ", tab |-> "SALES", sale |-> s, written |-> jobs[s].target]
  /\ UNCHANGED <<scope, version, enabled, sheet, late, overlapped>>

Appending(tab, s) == \E w \in late : w.tab = tab /\ w.sale = s /\ w.matches = {}

\* getValues answers: what matched is decided here and used in the next request.
ReadColumn(s) ==
  /\ worker.at = "READ"
  /\ worker.sale = s
  /\ worker' = [at |-> "WRITE", tab |-> worker.tab, sale |-> s,
                written |-> worker.written, matches |-> Matches(worker.tab, s)]
  /\ overlapped' = IF Appending(worker.tab, s) THEN overlapped \cup {<<worker.tab, s>>}
                   ELSE overlapped
  /\ UNCHANGED <<scope, jobs, version, enabled, sheet, late>>

\* The row is written; after the second worksheet the job is finalized, unless
\* its target moved on while the worker waited.
WriteRow(s) ==
  /\ worker.at = "WRITE"
  /\ worker.sale = s
  /\ Apply(worker)
  /\ IF worker.tab = "SALES"
     THEN /\ worker' = [at |-> "READ", tab |-> "ITEMS", sale |-> s,
                        written |-> worker.written]
          /\ UNCHANGED jobs
     ELSE /\ worker' = Idle
          /\ jobs' = [jobs EXCEPT ![s] = MarkExported(@, worker.written)]
  /\ UNCHANGED <<scope, version, enabled, late, overlapped>>

Failed(s) == jobs' = [jobs EXCEPT ![s] = RecordFailure(@, worker.written, MaxAttempts)]

\* A definite failure: Google refuses the request (4xx, rate limit).
Refused ==
  /\ worker # Idle
  /\ Failed(worker.sale)
  /\ worker' = Idle
  /\ UNCHANGED <<scope, version, enabled, sheet, late, overlapped>>

InHand(n) == [tab |-> worker.tab, sale |-> worker.sale, written |-> worker.written,
              matches |-> worker.matches, number |-> n]

\* The write in hand has reached the sheet, or is still on its way there.
Sent ==
  /\ worker.at = "WRITE"
  /\ \/ Apply(worker) /\ UNCHANGED late
     \/ /\ \E n \in 1..scope.late : /\ \A w \in late : w.number # n
                                    /\ late' = late \cup {InHand(n)}
        /\ UNCHANGED sheet

\* What the code takes for a definite failure although the write may happen: the
\* connection breaks before the answer, or markExported itself fails.
FailedAfterWrite ==
  /\ Sent
  /\ Failed(worker.sale)
  /\ worker' = Idle
  /\ UNCHANGED <<scope, version, enabled, overlapped>>

\* An unknown outcome (timeout, 5xx), a shutdown or a crash: the job is left as it
\* is, and a write in hand may have reached the sheet, or may later.
Abandon ==
  /\ worker # Idle
  /\ worker' = Idle
  /\ Sent \/ UNCHANGED <<sheet, late>>
  /\ UNCHANGED <<scope, jobs, version, enabled, overlapped>>

\* Google applies a write nobody waits for any more.
LandLate(w) ==
  /\ Apply(w)
  /\ late' = late \ {w}
  /\ UNCHANGED <<scope, jobs, version, enabled, worker, overlapped>>

-------------------------------------------------------------------------------
Init ==
  /\ scope \in Scopes
  /\ jobs = <<>>
  /\ version = <<>>
  /\ enabled = FALSE
  /\ worker = Idle
  /\ sheet = [tab \in Tabs |-> <<>>]
  /\ late = {}
  /\ overlapped = {}

Outside ==
  \/ CompleteSale
  \/ \E s \in DOMAIN jobs : VoidSale(s) \/ RetryExport(s) \/ BecomeDue(s) \/ BecomeAged(s)
  \/ SwitchIntegration

Work ==
  \/ Recover
  \/ \E s \in DOMAIN jobs : Claim(s) \/ ReadColumn(s) \/ WriteRow(s)
  \/ Refused
  \/ FailedAfterWrite
  \/ Abandon

Next == Outside \/ Work \/ \E w \in late : LandLate(w)

\* The worker asks about one worksheet for a job that is still claimed.
On(tab) ==
  worker # Idle /\ worker.tab = tab /\ jobs[worker.sale].status = "EXPORTING"

\* Weak fairness where time or a timeout forces the step.  Strong fairness for
\* what can be interrupted: each drain pass starts with recoverStale and claims
\* oldest first, and Google answers each request if it is tried again and again,
\* also before a sleep has let the claim go.
\* The first sale is followed, whatever becomes of the others: all are alike.
Fairness ==
  /\ SF_vars(Recover)
  /\ WF_vars(Abandon)
  /\ WF_vars(\E w \in late : LandLate(w))
  /\ WF_vars(BecomeDue(1)) /\ WF_vars(BecomeAged(1))
  /\ SF_vars(Claim(1))
  /\ \A tab \in Tabs : SF_vars(On(tab) /\ ReadColumn(1)) /\ SF_vars(On(tab) /\ WriteRow(1))

Spec == Init /\ [][Next]_vars
FairSpec == Spec /\ Fairness

-------------------------------------------------------------------------------
(* Properties.                                                                 *)

TypeOK ==
  /\ scope \in Scopes
  /\ jobs \in Seq(Job)
  /\ version \in Seq({1, 2})
  /\ DOMAIN version = DOMAIN jobs
  /\ enabled \in BOOLEAN
  /\ worker \in {Idle} \cup Reading \cup Writing
  /\ sheet \in [Tabs -> Seq(SheetRow)]
  /\ late \subseteq Request
  /\ overlapped \subseteq Tabs \X (Nat \ {0})

Rows(tab, s) == {sheet[tab][k] : k \in Matches(tab, s)}

\* A job that says EXPORTED tells the truth: both worksheets show the sale as it
\* is now, whatever was voided, refused, abandoned or retried on the way.
ExportedIsCurrent ==
  \A s \in DOMAIN jobs :
    jobs[s].status = "EXPORTED" =>
      \A tab \in Tabs : Rows(tab, s) = {Image(tab, s, version[s])}

\* The upsert makes a second row of a sale in one way alone: the column was read
\* while an earlier append of that sale was still on its way to the worksheet
\* (exportWorker.ts).  Retries, overtaken answers, failures, crashes and the
\* recovery of a claim make none by themselves.
SecondRowsOverlap ==
  \A tab \in Tabs, s \in DOMAIN jobs :
    Cardinality(Matches(tab, s)) > 1 => <<tab, s>> \in overlapped

\* REQ-GSHEET-007: retrying an export never creates a second row for a sale.
OneRowPerSale ==
  \A tab \in Tabs, s \in DOMAIN jobs : Cardinality(Matches(tab, s)) <= 1

\* exported_sync_version is a revision the sheet has, and no export is lost: a
\* job is behind its target exactly while it still has to be exported.
ConfirmedIsRemote ==
  \A s \in DOMAIN jobs :
    /\ jobs[s].exported <= jobs[s].target
    /\ jobs[s].status = "EXPORTED" <=> jobs[s].exported = jobs[s].target
    /\ \A row \in Rows("SALES", s) : jobs[s].exported <= row.version
    /\ jobs[s].exported > 0 => \A tab \in Tabs : Rows(tab, s) # {}

\* REQ-GSHEET-015: an answer that a void has overtaken changes nothing.  Only the
\* job whose current revision was written is finalized or charged a failure.
StaleAnswersDiscarded ==
  [][\A s \in DOMAIN jobs :
       /\ jobs'[s].exported # jobs[s].exported =>
            jobs'[s].exported = version[s] /\ jobs[s].exported < version[s]
       /\ jobs'[s].attempts > jobs[s].attempts => worker.written = version[s]]_vars

\* The sheet never goes back from a voided sale to a completed one.
SheetNeverRegresses ==
  [][\A tab \in Tabs : \A k \in DOMAIN sheet[tab] :
       /\ sheet'[tab][k].sale = sheet[tab][k].sale
       /\ sheet'[tab][k].version >= sheet[tab][k].version]_vars

JobIs(s, statuses) == s \in DOMAIN jobs /\ jobs[s].status \in statuses

\* While the integration works, no sale is left behind, whatever becomes of the
\* others: it is exported, or fails in a way the history shows.
EverySaleLeaves ==
  []<>enabled => (JobIs(1, {"PENDING", "EXPORTING"}) ~> JobIs(1, {"EXPORTED", "FAILED"}))

\* REQ-GSHEET-015: the row converges to the current revision.  Once every job is
\* EXPORTED and no request is under way, no step writes to the sheet again, so
\* what it shows then it goes on showing.
Converged ==
  (late = {} /\ \A s \in DOMAIN jobs : jobs[s].status = "EXPORTED") =>
    \A s \in DOMAIN jobs, tab \in Tabs : Rows(tab, s) = {Image(tab, s, version[s])}
===============================================================================
