------------------------------ MODULE ExportJobs ------------------------------
(* The rows of google_sheet_export_jobs and the statements that write them     *)
(* (src/main/google/exportJobRepository.ts, the INSERT of saleRepository.ts    *)
(* and the requeue of voidRepository.ts).  One job per sale; the module has no *)
(* state of its own, each statement is an operator from a row to a row.        *)
(*                                                                             *)
(* Timestamps are abstracted to the two comparisons the code makes with them:  *)
(*   due   next_attempt_at IS NULL OR next_attempt_at <= now                   *)
(*   aged  last_attempt_at <= now - 5 min, of a job that is claimed; it is     *)
(*         FALSE of the others, where nothing reads it                         *)
(* exported = 0 stands for exported_sync_version IS NULL.                      *)
(*                                                                             *)
(* Operators whose comment starts with "Mutated:" are defective variants of    *)
(* the definition that follows them; no specification uses them.               *)
EXTENDS Naturals

JobStatus == {"PENDING", "EXPORTING", "EXPORTED", "FAILED"}

Job == [status: JobStatus, target: Nat \ {0}, exported: Nat, attempts: Nat,
        due: BOOLEAN, aged: BOOLEAN]

\* insertExportJob: written by the sale transaction, due at once.
NewJob == [status |-> "PENDING", target |-> 1, exported |-> 0, attempts |-> 0,
           due |-> TRUE, aged |-> FALSE]

\* Mutated: rescheduled, but for the revision it already had.
RequeueSameTarget(job, version) ==
  [job EXCEPT !.status = "PENDING", !.attempts = 0, !.due = TRUE, !.aged = FALSE]

\* Mutated: the new revision is recorded as exported.
RequeueAsExported(job, version) ==
  [job EXCEPT !.status = "PENDING", !.target = version, !.exported = version,
              !.attempts = 0, !.due = TRUE, !.aged = FALSE]

\* requeueExportJobForVoid: any status goes back to PENDING for the new
\* revision; exported_sync_version is deliberately left alone.
RequeueForVoid(job, version) ==
  [job EXCEPT !.status = "PENDING", !.target = version, !.attempts = 0,
              !.due = TRUE, !.aged = FALSE]

-------------------------------------------------------------------------------

\* claimNextJob: the row it may pick and what the claim writes.
Claimable(job) == job.status = "PENDING" /\ job.due

ClaimJob(job) == [job EXCEPT !.status = "EXPORTING", !.aged = FALSE]

\* Mutated: no comparison with the target.
CanFinalizeAny(job, written) == job.status = "EXPORTING" \/ job.exported < written

\* markExported: the compare-and-set guard and the row it leaves.  The row's
\* next_attempt_at becomes NULL, which reads as due.
CanFinalize(job, written) ==
  /\ job.status = "EXPORTING"
  /\ job.target = written
  /\ job.exported < written

MarkExported(job, written) ==
  IF CanFinalize(job, written)
  THEN [job EXCEPT !.status = "EXPORTED", !.exported = written, !.due = TRUE, !.aged = FALSE]
  ELSE job

\* Mutated: WHERE id = @id alone.
CanRecordAnyFailure(job, written) == job.exported < job.target

\* recordFailure: guarded on the revision that was written, so an answer that
\* a void has overtaken changes nothing.  The last allowed attempt is terminal.
CanRecordFailure(job, written) == job.status = "EXPORTING" /\ job.target = written

RecordFailure(job, written, maxAttempts) ==
  IF ~CanRecordFailure(job, written) THEN job
  ELSE IF job.attempts + 1 >= maxAttempts
  THEN [job EXCEPT !.status = "FAILED", !.attempts = @ + 1, !.due = TRUE,
                   !.aged = FALSE]
  ELSE [job EXCEPT !.status = "PENDING", !.attempts = @ + 1, !.due = FALSE,
                   !.aged = FALSE]

\* Mutated: only a job that failed before is recovered.
RecoverOnlyFailed(job) ==
  IF job.status = "EXPORTING" /\ job.aged /\ job.attempts > 0
  THEN [job EXCEPT !.status = "PENDING", !.due = TRUE, !.aged = FALSE]
  ELSE job

\* recoverStaleExporting
RecoverStale(job) ==
  IF job.status = "EXPORTING" /\ job.aged
  THEN [job EXCEPT !.status = "PENDING", !.due = TRUE, !.aged = FALSE]
  ELSE job

\* manualRetry
CanRetry(job) == job.status \in {"FAILED", "PENDING"}

ManualRetry(job) ==
  [job EXCEPT !.status = "PENDING", !.attempts = 0, !.due = TRUE]
===============================================================================
