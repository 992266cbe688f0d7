----------------------------- MODULE ExportProofs -----------------------------
(* What holds of ExportWorker for any number of sales, voids, attempts and late *)
(* writes: its type, that an overtaken answer changes nothing, where alone a    *)
(* second row comes from, and what the sheet shows of the sales, as long as     *)
(* sales that are voided and writes that land late do not meet: the run         *)
(* overtaken_write shows what happens when they do.                             *)
EXTENDS ExportWorker, SequenceTheorems, FiniteSetTheorems, TLAPS

(* The statements on one job.                                                  *)

Sale == Nat \ {0}

\* Every statement leaves a row of the table.
LEMMA JobOps ==
  ASSUME NEW job \in Job, NEW written \in Nat
  PROVE  /\ RequeueForVoid(job, 2) \in Job
         /\ ClaimJob(job) \in Job
         /\ MarkExported(job, written) \in Job
         /\ RecordFailure(job, written, MaxAttempts) \in Job
         /\ RecoverStale(job) \in Job
         /\ ManualRetry(job) \in Job
         /\ [job EXCEPT !.due = TRUE] \in Job
         /\ [job EXCEPT !.aged = TRUE] \in Job
<1>1. RequeueForVoid(job, 2) \in Job
  <2>1. \A v \in Nat \ {0} : RequeueForVoid(job, v) \in Job
    BY DEF RequeueForVoid, Job, JobStatus
  <2> QED
    BY <2>1
<1>2. ClaimJob(job) \in Job
  BY DEF ClaimJob, Job, JobStatus
<1>3. MarkExported(job, written) \in Job
  BY DEF MarkExported, Job, JobStatus
<1>4. RecordFailure(job, written, MaxAttempts) \in Job
  <2>1. job.attempts + 1 \in Nat
    BY DEF Job
  <2>2. [job EXCEPT !.status = "FAILED", !.attempts = @ + 1, !.due = TRUE,
                       !.aged = FALSE] \in Job
    BY <2>1 DEF Job, JobStatus
  <2>3. [job EXCEPT !.status = "PENDING", !.attempts = @ + 1, !.due = FALSE,
                       !.aged = FALSE] \in Job
    BY <2>1 DEF Job, JobStatus
  <2> QED
    BY <2>2, <2>3 DEF RecordFailure
<1>5. RecoverStale(job) \in Job
  BY DEF RecoverStale, Job, JobStatus
<1>6. ManualRetry(job) \in Job
  BY DEF ManualRetry, Job, JobStatus
<1>7. [job EXCEPT !.due = TRUE] \in Job /\ [job EXCEPT !.aged = TRUE] \in Job
  BY DEF Job
<1> QED
  BY <1>1, <1>2, <1>3, <1>4, <1>5, <1>6, <1>7

\* A job agrees with the revision of its sale.
Agrees(job, v) ==
  /\ job.target = v
  /\ job.exported <= job.target
  /\ job.status = "EXPORTED" <=> job.exported = job.target

\* A new job agrees with a sale just completed.
LEMMA NewJobAgrees == NewJob \in Job /\ Agrees(NewJob, 1)
BY DEF NewJob, Job, JobStatus, Agrees

\* Every statement keeps the agreement; what it does to exported and attempts.
LEMMA AgreesKept ==
  ASSUME NEW job \in Job, NEW v \in {1, 2}, Agrees(job, v), NEW written \in Nat
  PROVE  /\ Claimable(job) => Agrees(ClaimJob(job), v)
         /\ Agrees(MarkExported(job, written), v)
         /\ Agrees(RecordFailure(job, written, MaxAttempts), v)
         /\ Agrees(RecoverStale(job), v)
         /\ CanRetry(job) => Agrees(ManualRetry(job), v)
         /\ Agrees([job EXCEPT !.due = TRUE], v)
         /\ Agrees([job EXCEPT !.aged = TRUE], v)
         /\ v = 1 => Agrees(RequeueForVoid(job, 2), 2)
<1>1. Claimable(job) => Agrees(ClaimJob(job), v)
  BY DEF Claimable, ClaimJob, Agrees, Job
<1>2. Agrees(MarkExported(job, written), v)
  BY DEF MarkExported, CanFinalize, Agrees, Job
<1>3. Agrees(RecordFailure(job, written, MaxAttempts), v)
  BY DEF RecordFailure, CanRecordFailure, Agrees, Job
<1>4. Agrees(RecoverStale(job), v)
  BY DEF RecoverStale, Agrees, Job
<1>5. CanRetry(job) => Agrees(ManualRetry(job), v)
  BY DEF CanRetry, ManualRetry, Agrees, Job
<1>6. Agrees([job EXCEPT !.due = TRUE], v) /\ Agrees([job EXCEPT !.aged = TRUE], v)
  BY DEF Agrees, Job
<1>7. v = 1 => Agrees(RequeueForVoid(job, 2), 2)
  BY DEF RequeueForVoid, Agrees, Job
<1> QED
  BY <1>1, <1>2, <1>3, <1>4, <1>5, <1>6, <1>7

-------------------------------------------------------------------------------
(* The invariant of the jobs.                                                  *)

Aimed == \A s \in DOMAIN jobs : Agrees(jobs[s], version[s])
InTable == worker # Idle => worker.sale \in DOMAIN jobs

JobsInv == TypeOK /\ Aimed /\ InTable

\* The worker in hand has a type of its own.
LEMMA WorkerType ==
  ASSUME TypeOK
  PROVE  /\ worker # Idle => worker.tab \in Tabs /\ worker.sale \in Sale /\ worker.written \in Sale
         /\ worker.at = "READ" <=> worker \in Reading
         /\ worker.at = "WRITE" <=> worker \in Writing
         /\ worker.at = "WRITE" => worker.matches \in SUBSET (Nat \ {0})
BY DEF TypeOK, Idle, Reading, Writing, Sale

\* One job is written: the others stay, and so does their number.
LEMMA OneJob ==
  ASSUME TypeOK, NEW s \in DOMAIN jobs, NEW job \in Job, jobs' = [jobs EXCEPT ![s] = job]
  PROVE  /\ jobs' \in Seq(Job) /\ DOMAIN jobs' = DOMAIN jobs
         /\ jobs'[s] = job
         /\ \A t \in DOMAIN jobs : t # s => jobs'[t] = jobs[t]
<1>1. jobs \in Seq(Job) /\ DOMAIN jobs = 1..Len(jobs)
  BY DEF TypeOK
<1>2. [jobs EXCEPT ![s] = job] \in Seq(Job) /\ Len(jobs') = Len(jobs)
  BY <1>1, ExceptSeq
<1> QED
  BY <1>1, <1>2

\* What keeps the jobs, the revisions and the sale in hand keeps the invariant.
LEMMA JobsAlone ==
  ASSUME JobsInv, UNCHANGED <<scope, jobs, version>>, enabled' \in BOOLEAN,
         worker' \in {Idle} \cup Reading \cup Writing,
         worker' # Idle => worker'.sale \in DOMAIN jobs,
         sheet' \in [Tabs -> Seq(SheetRow)], late' \subseteq Request,
         overlapped' \subseteq Tabs \X Sale
  PROVE  JobsInv'
<1>1. TypeOK'
  BY DEF JobsInv, TypeOK, Sale
<1>2. Aimed' /\ InTable'
  BY DEF JobsInv, Aimed, InTable
<1> QED
  BY <1>1, <1>2 DEF JobsInv

\* Writing one job that still agrees keeps the invariant.
LEMMA OneJobKeeps ==
  ASSUME JobsInv, NEW s \in DOMAIN jobs, NEW job \in Job, Agrees(job, version[s]),
         jobs' = [jobs EXCEPT ![s] = job], UNCHANGED <<scope, version, enabled>>,
         worker' \in {Idle} \cup Reading \cup Writing,
         worker' # Idle => worker'.sale \in DOMAIN jobs,
         sheet' \in [Tabs -> Seq(SheetRow)], late' \subseteq Request,
         overlapped' \subseteq Tabs \X Sale
  PROVE  JobsInv'
<1>1. /\ jobs' \in Seq(Job) /\ DOMAIN jobs' = DOMAIN jobs /\ jobs'[s] = job
      /\ \A t \in DOMAIN jobs : t # s => jobs'[t] = jobs[t]
  BY OneJob DEF JobsInv
<1>2. TypeOK'
  BY <1>1 DEF JobsInv, TypeOK, Sale
<1>3. Aimed'
  BY <1>1 DEF JobsInv, Aimed
<1>4. InTable'
  BY <1>1 DEF InTable
<1> QED
  BY <1>2, <1>3, <1>4 DEF JobsInv

\* A write leaves a sheet.
LEMMA AppliedType ==
  ASSUME TypeOK, NEW w, w.tab \in Tabs, w.sale \in Sale, w.written \in Sale, Apply(w)
  PROVE  sheet' \in [Tabs -> Seq(SheetRow)]
<1> DEFINE image == Image(w.tab, w.sale, w.written)
           rows == sheet[w.tab]
           new == Applied(rows, image, w.matches)
<1>1. image \in SheetRow
  BY DEF Image, SheetRow, Sale
<1>2. rows \in Seq(SheetRow)
  BY DEF TypeOK
<1>3. Append(rows, image) \in Seq(SheetRow)
  BY <1>1, <1>2, AppendProperties
<1>4. [k \in DOMAIN rows |-> IF k \in w.matches THEN image ELSE rows[k]] \in Seq(SheetRow)
  BY <1>1, <1>2
<1>5. new \in Seq(SheetRow)
  BY <1>3, <1>4 DEF Applied
<1>6. sheet' = [sheet EXCEPT ![w.tab] = new]
  BY DEF Apply
<1> QED
  BY <1>5, <1>6 DEF TypeOK

-------------------------------------------------------------------------------
(* Every step keeps it.                                                        *)

LEMMA JobsInit == Init => JobsInv
<1> SUFFICES ASSUME Init PROVE JobsInv
  OBVIOUS
<1>1. <<>> \in Seq(Job) /\ <<>> \in Seq({1, 2}) /\ <<>> \in Seq(SheetRow)
  BY EmptySeq
<1>2. TypeOK
  BY <1>1 DEF Init, TypeOK
<1>3. Aimed /\ InTable
  BY DEF Init, Aimed, InTable
<1> QED
  BY <1>2, <1>3 DEF JobsInv

\* A sale is completed.
LEMMA CompleteKeeps == ASSUME JobsInv, CompleteSale PROVE JobsInv'
<1>1. jobs \in Seq(Job) /\ version \in Seq({1, 2}) /\ Len(jobs) = Len(version)
  BY DEF JobsInv, TypeOK
<1>2. /\ jobs' \in Seq(Job) /\ Len(jobs') = Len(jobs) + 1
      /\ \A i \in 1..Len(jobs) : jobs'[i] = jobs[i]
      /\ jobs'[Len(jobs) + 1] = NewJob
  BY <1>1, NewJobAgrees, AppendProperties DEF CompleteSale
<1>3. /\ version' \in Seq({1, 2}) /\ Len(version') = Len(version) + 1
      /\ \A i \in 1..Len(version) : version'[i] = version[i]
      /\ version'[Len(version) + 1] = 1
  BY <1>1, AppendProperties DEF CompleteSale
<1>4. TypeOK'
  BY <1>1, <1>2, <1>3 DEF JobsInv, TypeOK, CompleteSale
<1>5. Aimed'
  BY <1>1, <1>2, <1>3, NewJobAgrees DEF JobsInv, Aimed
<1>6. InTable'
  BY <1>1, <1>2 DEF JobsInv, InTable, CompleteSale
<1> QED
  BY <1>4, <1>5, <1>6 DEF JobsInv

\* A sale is voided: revision and target go together.
LEMMA VoidKeeps == ASSUME JobsInv, NEW s \in DOMAIN jobs, VoidSale(s) PROVE JobsInv'
<1> DEFINE job == RequeueForVoid(jobs[s], 2)
<1>0. version[s] = 1
  BY DEF VoidSale
<1>1. jobs[s] \in Job /\ Agrees(jobs[s], 1)
  BY <1>0 DEF JobsInv, TypeOK, Aimed
<1>2. job \in Job /\ Agrees(job, 2)
  BY <1>1, JobOps, AgreesKept
<1>3. /\ jobs' \in Seq(Job) /\ DOMAIN jobs' = DOMAIN jobs /\ jobs'[s] = job
      /\ \A t \in DOMAIN jobs : t # s => jobs'[t] = jobs[t]
  BY <1>2, OneJob DEF JobsInv, VoidSale
<1>4. /\ version' \in Seq({1, 2}) /\ Len(version') = Len(version) /\ version'[s] = 2
      /\ \A t \in DOMAIN jobs : t # s => version'[t] = version[t]
  BY ExceptSeq DEF JobsInv, TypeOK, VoidSale
<1>5. TypeOK'
  BY <1>3, <1>4 DEF JobsInv, TypeOK, VoidSale
<1>6. Aimed'
  BY <1>2, <1>3, <1>4 DEF JobsInv, Aimed
<1>7. InTable'
  BY <1>3 DEF JobsInv, InTable, VoidSale
<1> QED
  BY <1>5, <1>6, <1>7 DEF JobsInv

\* Retries, and the passing of time.
LEMMA TimeKeeps ==
  ASSUME JobsInv, NEW s \in DOMAIN jobs, RetryExport(s) \/ BecomeDue(s) \/ BecomeAged(s)
  PROVE  JobsInv'
<1>1. jobs[s] \in Job /\ version[s] \in {1, 2} /\ Agrees(jobs[s], version[s])
  BY DEF JobsInv, TypeOK, Aimed
<1>2. PICK job \in Job : Agrees(job, version[s]) /\ jobs' = [jobs EXCEPT ![s] = job]
  <2>1. CASE RetryExport(s)
    <3>1. ManualRetry(jobs[s]) \in Job /\ Agrees(ManualRetry(jobs[s]), version[s])
      BY <1>1, <2>1, JobOps, AgreesKept DEF RetryExport
    <3> QED
      BY <2>1, <3>1 DEF RetryExport
  <2>2. CASE BecomeDue(s)
    <3>1. [jobs[s] EXCEPT !.due = TRUE] \in Job
          /\ Agrees([jobs[s] EXCEPT !.due = TRUE], version[s])
      BY <1>1, JobOps, AgreesKept
    <3> QED
      BY <2>2, <3>1 DEF BecomeDue
  <2>3. CASE BecomeAged(s)
    <3>1. [jobs[s] EXCEPT !.aged = TRUE] \in Job
          /\ Agrees([jobs[s] EXCEPT !.aged = TRUE], version[s])
      BY <1>1, JobOps, AgreesKept
    <3> QED
      BY <2>3, <3>1 DEF BecomeAged
  <2> QED
    BY <2>1, <2>2, <2>3
<1>3. UNCHANGED <<scope, version, enabled, worker, sheet, late, overlapped>>
  BY DEF RetryExport, BecomeDue, BecomeAged
<1> QED
  BY <1>2, <1>3, OneJobKeeps DEF JobsInv, TypeOK, InTable, Sale

\* The recovery looks at every job.
LEMMA RecoverKeeps == ASSUME JobsInv, Recover PROVE JobsInv'
<1>1. \A s \in DOMAIN jobs : jobs[s] \in Job /\ version[s] \in {1, 2} /\ Agrees(jobs[s], version[s])
  BY DEF JobsInv, TypeOK, Aimed
<1>2. \A s \in DOMAIN jobs :
        RecoverStale(jobs[s]) \in Job /\ Agrees(RecoverStale(jobs[s]), version[s])
  BY <1>1, JobOps, AgreesKept
<1>3. DOMAIN jobs' = DOMAIN jobs /\ \A s \in DOMAIN jobs : jobs'[s] = RecoverStale(jobs[s])
  BY DEF Recover
<1>4. jobs' \in Seq(Job)
  BY <1>2 DEF JobsInv, TypeOK, Recover
<1>5. TypeOK'
  BY <1>3, <1>4 DEF JobsInv, TypeOK, Recover
<1>6. Aimed' /\ InTable'
  BY <1>2, <1>3 DEF JobsInv, Aimed, InTable, Recover
<1> QED
  BY <1>5, <1>6 DEF JobsInv

\* A job is claimed.
LEMMA ClaimKeeps == ASSUME JobsInv, NEW s \in DOMAIN jobs, Claim(s) PROVE JobsInv'
<1> DEFINE job == ClaimJob(jobs[s])
<1>1. jobs[s] \in Job /\ version[s] \in {1, 2} /\ Agrees(jobs[s], version[s])
  BY DEF JobsInv, TypeOK, Aimed
<1>2. job \in Job /\ Agrees(job, version[s])
  BY <1>1, JobOps, AgreesKept DEF Claim
<1>3. s \in Sale /\ jobs[s].target \in Sale
  BY <1>1 DEF JobsInv, TypeOK, Sale, Job
<1>4. worker' \in Reading /\ worker'.sale = s
  BY <1>3 DEF Claim, Reading, Tabs, Sale
<1> QED
  BY <1>2, <1>4, OneJobKeeps DEF JobsInv, TypeOK, Claim, Sale

\* The worker goes on to its write.
LEMMA ReadKeeps == ASSUME JobsInv, NEW s \in DOMAIN jobs, ReadColumn(s) PROVE JobsInv'
<1>1. /\ worker.tab \in Tabs /\ worker.sale \in Sale /\ worker.written \in Sale
      /\ worker # Idle
  BY WorkerType DEF JobsInv, ReadColumn, Idle
<1>2. Matches(worker.tab, s) \in SUBSET (Nat \ {0})
  BY <1>1 DEF JobsInv, TypeOK, Matches
<1>3. worker' \in Writing /\ worker'.sale = s
  BY <1>1, <1>2 DEF ReadColumn, Writing, Sale
<1>4. overlapped' \subseteq Tabs \X Sale
  <2>1. <<worker.tab, s>> \in Tabs \X Sale
    BY <1>1 DEF ReadColumn
  <2> QED
    BY <2>1 DEF JobsInv, TypeOK, ReadColumn, Sale
<1> QED
  BY <1>3, <1>4, JobsAlone DEF JobsInv, TypeOK, ReadColumn

\* A job that gets an answer still agrees.
LEMMA AnswerKeeps ==
  ASSUME JobsInv, worker # Idle,
         \/ jobs' = [jobs EXCEPT ![worker.sale] = MarkExported(@, worker.written)]
         \/ Failed(worker.sale),
         worker' = Idle, UNCHANGED <<scope, version, enabled, overlapped>>,
         sheet' \in [Tabs -> Seq(SheetRow)], late' \subseteq Request
  PROVE  JobsInv'
<1>1. worker.sale \in DOMAIN jobs /\ worker.written \in Nat
  BY WorkerType DEF JobsInv, InTable, Sale
<1>2. /\ jobs[worker.sale] \in Job /\ version[worker.sale] \in {1, 2}
      /\ Agrees(jobs[worker.sale], version[worker.sale])
  BY <1>1 DEF JobsInv, TypeOK, Aimed
<1>3. PICK job \in Job : /\ Agrees(job, version[worker.sale])
                         /\ jobs' = [jobs EXCEPT ![worker.sale] = job]
  BY <1>1, <1>2, JobOps, AgreesKept DEF Failed
<1> QED
  BY <1>1, <1>3, OneJobKeeps DEF JobsInv, TypeOK, Sale

\* A row is written.
LEMMA WriteKeeps == ASSUME JobsInv, NEW s \in DOMAIN jobs, WriteRow(s) PROVE JobsInv'
<1>1. /\ worker.tab \in Tabs /\ worker.sale = s /\ s \in Sale /\ worker.written \in Sale
      /\ worker # Idle
  BY WorkerType DEF JobsInv, WriteRow, Idle
<1>2. sheet' \in [Tabs -> Seq(SheetRow)]
  BY <1>1, AppliedType DEF JobsInv, WriteRow
<1>3. CASE worker.tab = "SALES"
  <2>1. worker' \in Reading /\ worker'.sale = s
    BY <1>1, <1>3 DEF WriteRow, Reading, Tabs, Sale
  <2> QED
    BY <1>2, <1>3, <2>1, JobsAlone DEF JobsInv, TypeOK, WriteRow, Sale
<1>4. CASE worker.tab = "ITEMS"
  BY <1>1, <1>2, <1>4, AnswerKeeps DEF WriteRow, JobsInv, TypeOK
<1> QED
  BY <1>1, <1>3, <1>4 DEF Tabs

\* A write that was sent leaves a sheet and late writes.
LEMMA SentType ==
  ASSUME JobsInv, Sent
  PROVE  worker # Idle /\ sheet' \in [Tabs -> Seq(SheetRow)] /\ late' \subseteq Request
<1>1. worker # Idle /\ worker.at = "WRITE"
  BY DEF Sent, Idle
<1>2. /\ worker.tab \in Tabs /\ worker.sale \in Sale /\ worker.written \in Sale
      /\ worker.matches \in SUBSET (Nat \ {0})
  BY <1>1, WorkerType DEF JobsInv
<1>3. CASE Apply(worker) /\ UNCHANGED late
  BY <1>1, <1>2, <1>3, AppliedType DEF JobsInv, TypeOK
<1>4. ASSUME NEW n \in 1..scope.late, late' = late \cup {InHand(n)}, UNCHANGED sheet
      PROVE  sheet' \in [Tabs -> Seq(SheetRow)] /\ late' \subseteq Request
  <2>1. n \in Sale
    BY WorkerAssumption DEF JobsInv, TypeOK, Sale
  <2>2. InHand(n) \in Request
    BY <1>2, <2>1 DEF InHand, Request, Sale
  <2> QED
    BY <1>4, <2>2 DEF JobsInv, TypeOK
<1> QED
  BY <1>1, <1>3, <1>4 DEF Sent

\* The request fails, before or after it reached the sheet.
LEMMA FailingKeeps == ASSUME JobsInv, Refused \/ FailedAfterWrite PROVE JobsInv'
<1>1. CASE Refused
  BY <1>1, AnswerKeeps DEF JobsInv, TypeOK, Refused
<1>2. CASE FailedAfterWrite
  BY <1>2, SentType, AnswerKeeps DEF FailedAfterWrite
<1> QED
  BY <1>1, <1>2

\* The worker lets go, and a write may land later.
LEMMA LateKeeps == ASSUME JobsInv, Abandon \/ \E w \in late : LandLate(w) PROVE JobsInv'
<1>1. CASE Abandon
  <2>1. sheet' \in [Tabs -> Seq(SheetRow)] /\ late' \subseteq Request
    BY <1>1, SentType DEF JobsInv, TypeOK, Abandon
  <2> QED
    BY <1>1, <2>1, JobsAlone DEF JobsInv, TypeOK, Abandon, Sale
<1>2. ASSUME NEW w \in late, LandLate(w) PROVE JobsInv'
  <2>1. w.tab \in Tabs /\ w.sale \in Sale /\ w.written \in Sale
    BY DEF JobsInv, TypeOK, Request, Sale
  <2>2. sheet' \in [Tabs -> Seq(SheetRow)]
    BY <1>2, <2>1, AppliedType DEF JobsInv, LandLate
  <2> QED
    BY <1>2, <2>2, JobsAlone DEF JobsInv, TypeOK, InTable, LandLate, Sale
<1> QED
  BY <1>1, <1>2

\* The step, action by action.
LEMMA JobsStep == JobsInv /\ [Next]_vars => JobsInv'
<1> SUFFICES ASSUME JobsInv, [Next]_vars PROVE JobsInv'
  OBVIOUS
<1>1. CASE CompleteSale
  BY <1>1, CompleteKeeps
<1>2. CASE \E s \in DOMAIN jobs : VoidSale(s)
  BY <1>2, VoidKeeps
<1>3. CASE \E s \in DOMAIN jobs : RetryExport(s) \/ BecomeDue(s) \/ BecomeAged(s)
  BY <1>3, TimeKeeps
<1>4. CASE SwitchIntegration
  BY <1>4, JobsAlone DEF JobsInv, TypeOK, InTable, SwitchIntegration, Sale
<1>5. CASE Recover
  BY <1>5, RecoverKeeps
<1>6. CASE \E s \in DOMAIN jobs : Claim(s)
  BY <1>6, ClaimKeeps
<1>7. CASE \E s \in DOMAIN jobs : ReadColumn(s)
  BY <1>7, ReadKeeps
<1>8. CASE \E s \in DOMAIN jobs : WriteRow(s)
  BY <1>8, WriteKeeps
<1>9. CASE Refused \/ FailedAfterWrite
  BY <1>9, FailingKeeps
<1>10. CASE Abandon \/ \E w \in late : LandLate(w)
  BY <1>10, LateKeeps
<1>11. CASE UNCHANGED vars
  BY <1>11, JobsAlone DEF vars, JobsInv, TypeOK, InTable, Sale
<1> QED
  BY <1>1, <1>2, <1>3, <1>4, <1>5, <1>6, <1>7, <1>8, <1>9, <1>10, <1>11
     DEF Next, Outside, Work

\* Jobs, requests and rows keep their shape (exportJobRepository.ts).
THEOREM TypeCorrect == Spec => []TypeOK
BY JobsInit, JobsStep, PTL DEF Spec, JobsInv

-------------------------------------------------------------------------------
(* Overtaken answers.                                                          *)

\* Only two statements move exported or count an attempt.
LEMMA Uncounted ==
  ASSUME NEW job \in Job
  PROVE  \A new \in {RequeueForVoid(job, 2), ClaimJob(job), RecoverStale(job), ManualRetry(job),
                     [job EXCEPT !.due = TRUE], [job EXCEPT !.aged = TRUE]} :
           new.exported = job.exported /\ new.attempts <= job.attempts
<1> DEFINE Same(new) == new.exported = job.exported /\ new.attempts <= job.attempts
<1>1. Same(RequeueForVoid(job, 2))
  BY DEF Job, RequeueForVoid
<1>2. Same(ClaimJob(job))
  BY DEF Job, ClaimJob
<1>3. Same(RecoverStale(job))
  BY DEF Job, RecoverStale
<1>4. Same(ManualRetry(job))
  BY DEF Job, ManualRetry
<1>5. Same([job EXCEPT !.due = TRUE]) /\ Same([job EXCEPT !.aged = TRUE])
  BY DEF Job
<1> QED
  BY <1>1, <1>2, <1>3, <1>4, <1>5

\* Those two do so for the revision the sale has.
LEMMA Counted ==
  ASSUME NEW job \in Job, NEW v \in {1, 2}, Agrees(job, v), NEW written \in Nat,
         NEW new \in {MarkExported(job, written), RecordFailure(job, written, MaxAttempts)}
  PROVE  /\ new.exported # job.exported => new.exported = v /\ job.exported < v
         /\ new.attempts > job.attempts => written = v
<1>1. CASE new = MarkExported(job, written)
  BY <1>1 DEF Job, Agrees, MarkExported, CanFinalize
<1>2. CASE new = RecordFailure(job, written, MaxAttempts)
  <2>1. \/ new = job
        \/ /\ job.target = written
           /\ \/ new = [job EXCEPT !.status = "FAILED", !.attempts = @ + 1, !.due = TRUE,
                                   !.aged = FALSE]
              \/ new = [job EXCEPT !.status = "PENDING", !.attempts = @ + 1, !.due = FALSE,
                                   !.aged = FALSE]
    BY <1>2 DEF RecordFailure, CanRecordFailure
  <2>2. new.exported = job.exported
    BY <2>1 DEF Job
  <2>3. new.attempts > job.attempts => job.target = written
    BY <2>1 DEF Job
  <2> QED
    BY <2>2, <2>3 DEF Agrees, Job
<1> QED
  BY <1>1, <1>2

Discards(s) ==
  /\ jobs'[s].exported # jobs[s].exported =>
       jobs'[s].exported = version[s] /\ jobs[s].exported < version[s]
  /\ jobs'[s].attempts > jobs[s].attempts => worker.written = version[s]

\* Every step discards what was overtaken.
LEMMA DiscardStep ==
  ASSUME JobsInv, [Next]_vars, NEW t \in DOMAIN jobs
  PROVE  Discards(t)
<1>1. jobs[t] \in Job /\ version[t] \in {1, 2} /\ Agrees(jobs[t], version[t])
  BY DEF JobsInv, TypeOK, Aimed
<1>2. jobs'[t] = jobs[t] => Discards(t)
  BY <1>1 DEF Discards, Job
<1>3. jobs'[t] \in {RequeueForVoid(jobs[t], 2), ClaimJob(jobs[t]), RecoverStale(jobs[t]),
                    ManualRetry(jobs[t]), [jobs[t] EXCEPT !.due = TRUE],
                    [jobs[t] EXCEPT !.aged = TRUE]} => Discards(t)
  <2> SUFFICES ASSUME jobs'[t] \in {RequeueForVoid(jobs[t], 2), ClaimJob(jobs[t]),
                        RecoverStale(jobs[t]), ManualRetry(jobs[t]),
                        [jobs[t] EXCEPT !.due = TRUE], [jobs[t] EXCEPT !.aged = TRUE]}
               PROVE  Discards(t)
    OBVIOUS
  <2>1. jobs'[t].exported = jobs[t].exported /\ jobs'[t].attempts <= jobs[t].attempts
    BY <1>1, Uncounted
  <2>2. jobs'[t] \in Job
    BY <1>1, JobOps, 0 \in Nat
  <2> QED
    BY <1>1, <2>1, <2>2 DEF Discards, Job
<1>4. CASE CompleteSale
  BY <1>2, <1>4, NewJobAgrees, AppendProperties DEF JobsInv, TypeOK, CompleteSale
<1>5. ASSUME NEW s \in DOMAIN jobs,
             VoidSale(s) \/ RetryExport(s) \/ BecomeDue(s) \/ BecomeAged(s) \/ Claim(s)
      PROVE  Discards(t)
  <2>1. \/ jobs' = [jobs EXCEPT ![s] = RequeueForVoid(jobs[s], 2)]
        \/ jobs' = [jobs EXCEPT ![s] = ManualRetry(jobs[s])]
        \/ jobs' = [jobs EXCEPT ![s] = ClaimJob(jobs[s])]
        \/ jobs' = [jobs EXCEPT ![s] = [jobs[s] EXCEPT !.due = TRUE]]
        \/ jobs' = [jobs EXCEPT ![s] = [jobs[s] EXCEPT !.aged = TRUE]]
    BY <1>5 DEF VoidSale, RetryExport, BecomeDue, BecomeAged, Claim
  <2>2. t # s => jobs'[t] = jobs[t]
    BY <2>1 DEF JobsInv, TypeOK
  <2>3. t = s => jobs'[t] \in {RequeueForVoid(jobs[t], 2), ClaimJob(jobs[t]),
                    RecoverStale(jobs[t]), ManualRetry(jobs[t]),
                    [jobs[t] EXCEPT !.due = TRUE], [jobs[t] EXCEPT !.aged = TRUE]}
    BY <2>1 DEF JobsInv, TypeOK
  <2> QED
    BY <1>2, <1>3, <2>2, <2>3
<1>6. CASE Recover
  BY <1>3, <1>6 DEF Recover
<1>7. ASSUME worker # Idle,
             \/ jobs' = [jobs EXCEPT ![worker.sale] = MarkExported(@, worker.written)]
             \/ Failed(worker.sale)
      PROVE  Discards(t)
  <2>1. worker.sale \in DOMAIN jobs /\ worker.written \in Nat
    BY <1>7, WorkerType DEF JobsInv, InTable, Sale
  <2>2. t # worker.sale => jobs'[t] = jobs[t]
    BY <1>7, <2>1 DEF Failed, JobsInv, TypeOK
  <2>3. t = worker.sale =>
          jobs'[t] \in {MarkExported(jobs[t], worker.written),
                        RecordFailure(jobs[t], worker.written, MaxAttempts)}
    BY <1>7, <2>1 DEF Failed, JobsInv, TypeOK
  <2>4. t = worker.sale => Discards(t)
    BY <1>1, <2>1, <2>3, Counted DEF Discards
  <2> QED
    BY <1>2, <2>2, <2>4
<1>8. CASE Refused \/ FailedAfterWrite
  BY <1>7, <1>8, SentType DEF Refused, FailedAfterWrite
<1>9. ASSUME NEW s \in DOMAIN jobs, WriteRow(s) PROVE Discards(t)
  BY <1>2, <1>7, <1>9 DEF WriteRow, Idle
<1>10. CASE UNCHANGED jobs
  BY <1>2, <1>10
<1>11. \/ SwitchIntegration \/ Abandon \/ (\E s \in DOMAIN jobs : ReadColumn(s))
       \/ (\E w \in late : LandLate(w)) \/ UNCHANGED vars
       => UNCHANGED jobs
  BY DEF SwitchIntegration, Abandon, ReadColumn, LandLate, vars
<1> QED
  BY <1>4, <1>5, <1>6, <1>8, <1>9, <1>10, <1>11 DEF Next, Outside, Work

\* An answer that a void has overtaken changes nothing (exportJobRepository.ts).
THEOREM StaleDiscarded == Spec => StaleAnswersDiscarded
<1>1. JobsInv /\ [Next]_vars =>
        [\A s \in DOMAIN jobs :
           /\ jobs'[s].exported # jobs[s].exported =>
                jobs'[s].exported = version[s] /\ jobs[s].exported < version[s]
           /\ jobs'[s].attempts > jobs[s].attempts => worker.written = version[s]]_vars
  BY DiscardStep DEF Discards
<1> QED
  BY <1>1, JobsInit, JobsStep, PTL DEF Spec, StaleAnswersDiscarded

(* Second rows.                                                                *)

\* The rows and the requests that append one, of one sale on one worksheet.
Appends(tab, s) == {w \in late : w.tab = tab /\ w.sale = s /\ w.matches = {}}

InHandAppends(tab, s) ==
  worker.at = "WRITE" /\ worker.tab = tab /\ worker.sale = s /\ worker.matches = {}

\* What was matched when a column was read still matches.
Matched ==
  /\ worker.at = "WRITE" => worker.matches \subseteq Matches(worker.tab, worker.sale)
  /\ \A w \in late : w.matches \subseteq Matches(w.tab, w.sale)

\* One row, or one request that makes it.
Single(tab, s) ==
  /\ \A j, k \in Matches(tab, s) : j = k
  /\ \A u, w \in Appends(tab, s) : u = w
  /\ InHandAppends(tab, s) => Appends(tab, s) = {}
  /\ InHandAppends(tab, s) \/ Appends(tab, s) # {} => Matches(tab, s) = {}

RowsInv ==
  Matched /\ \A tab \in Tabs, s \in Sale : <<tab, s>> \notin overlapped => Single(tab, s)

\* A write keeps every row it does not make with its sale, and makes one only if
\* nothing matched.
LEMMA RowsAfter ==
  ASSUME JobsInv, NEW w, w.tab \in Tabs, w.matches \subseteq Matches(w.tab, w.sale), Apply(w)
  PROVE  /\ \A tab \in Tabs, s \in Sale : Matches(tab, s) \subseteq Matches(tab, s)'
         /\ \A tab \in Tabs, s \in Sale :
              tab # w.tab \/ s # w.sale \/ w.matches # {} => Matches(tab, s)' = Matches(tab, s)
         /\ w.matches = {} =>
              \A j \in Matches(w.tab, w.sale)' : j \in Matches(w.tab, w.sale)
                                                 \/ j = Len(sheet[w.tab]) + 1
<1> DEFINE rows == sheet[w.tab]
           image == Image(w.tab, w.sale, w.written)
           n == Len(rows)
<1>1. rows \in Seq(SheetRow) /\ n \in Nat /\ DOMAIN rows = 1..n
  BY DEF JobsInv, TypeOK
<1>2. image.sale = w.sale
  BY DEF Image
<1>3. /\ sheet'[w.tab] = Applied(rows, image, w.matches)
      /\ \A tab \in Tabs : tab # w.tab => sheet'[tab] = sheet[tab]
  BY DEF Apply, JobsInv, TypeOK
<1>4. \A tab \in Tabs, s \in Sale : tab # w.tab => Matches(tab, s)' = Matches(tab, s)
  BY <1>3 DEF Matches
<1>5. CASE w.matches = {}
  <2>1. sheet'[w.tab] = Append(rows, image)
    BY <1>3, <1>5 DEF Applied
  <2> HIDE DEF rows, image, n
  <2>2. /\ DOMAIN sheet'[w.tab] = 1..(n + 1) /\ sheet'[w.tab][n + 1] = image
        /\ \A k \in 1..n : sheet'[w.tab][k] = rows[k]
    BY <1>1, <2>1, AppendProperties DEF n
  <2>3. 1..(n + 1) = 1..n \cup {n + 1}
    BY <1>1
  <2>4. \A s \in Sale : Matches(w.tab, s) \subseteq Matches(w.tab, s)'
    BY <1>1, <2>2, <2>3 DEF Matches, rows
  <2>5. \A j \in Matches(w.tab, w.sale)' : j \in Matches(w.tab, w.sale) \/ j = n + 1
    BY <1>1, <2>2, <2>3 DEF Matches, rows
  <2>6. \A s \in Sale : s # w.sale => Matches(w.tab, s)' = Matches(w.tab, s)
    BY <1>1, <1>2, <2>2, <2>3 DEF Matches, rows
  <2> QED
    BY <1>4, <1>5, <2>4, <2>5, <2>6 DEF n, rows
<1>6. CASE w.matches # {}
  <2>1. sheet'[w.tab] = [k \in DOMAIN rows |-> IF k \in w.matches THEN image ELSE rows[k]]
    BY <1>3, <1>6 DEF Applied
  <2>2. DOMAIN sheet'[w.tab] = DOMAIN rows
        /\ \A k \in DOMAIN rows : sheet'[w.tab][k].sale = rows[k].sale
    BY <1>2, <2>1 DEF Matches
  <2>3. \A s \in Sale : Matches(w.tab, s)' = Matches(w.tab, s)
    BY <2>2 DEF Matches
  <2> QED
    BY <1>4, <1>6, <2>3
<1> QED
  BY <1>5, <1>6

\* Nothing is written and nothing goes on its way; the worker reads, or lets go.
LEMMA RowsStay ==
  ASSUME RowsInv, UNCHANGED <<sheet, late, overlapped>>,
         worker' = worker \/ worker'.at # "WRITE"
  PROVE  RowsInv'
BY DEF RowsInv, Matched, Single, Appends, InHandAppends, Matches

\* The column is read: an append on its way is noted.
LEMMA RowsRead == ASSUME JobsInv, RowsInv, NEW s \in DOMAIN jobs, ReadColumn(s) PROVE RowsInv'
<1>1. /\ worker' = [at |-> "WRITE", tab |-> worker.tab, sale |-> s,
                    written |-> worker.written, matches |-> Matches(worker.tab, s)]
      /\ UNCHANGED <<sheet, late>>
      /\ overlapped' = IF Appending(worker.tab, s) THEN overlapped \cup {<<worker.tab, s>>}
                       ELSE overlapped
  BY DEF ReadColumn
<1>2. Matched'
  BY <1>1 DEF RowsInv, Matched, Matches
<1>3. ASSUME NEW tab \in Tabs, NEW t \in Sale, <<tab, t>> \notin overlapped'
      PROVE  Single(tab, t)'
  <2>1. Single(tab, t)
    BY <1>1, <1>3 DEF RowsInv
  <2>2. Matches(tab, t)' = Matches(tab, t) /\ Appends(tab, t)' = Appends(tab, t)
    BY <1>1 DEF Matches, Appends
  <2>3. InHandAppends(tab, t)' => tab = worker.tab /\ t = s /\ Matches(tab, t) = {}
    BY <1>1 DEF InHandAppends
  <2>4. InHandAppends(tab, t)' => Appends(tab, t) = {}
    BY <1>1, <1>3, <2>3 DEF Appends, Appending
  <2> QED
    BY <2>1, <2>2, <2>3, <2>4 DEF Single
<1> QED
  BY <1>2, <1>3 DEF RowsInv

\* The write in hand reaches the sheet.
LEMMA RowsWritten ==
  ASSUME JobsInv, RowsInv, worker.at = "WRITE", Apply(worker), worker'.at # "WRITE",
         UNCHANGED <<late, overlapped>>
  PROVE  RowsInv'
<1>0. PICK w : w = worker
  OBVIOUS
<1>1. w.tab \in Tabs /\ w.sale \in Sale /\ Apply(w)
  BY <1>0, WorkerType DEF JobsInv, Idle
<1>2. w.matches \subseteq Matches(w.tab, w.sale)
  BY <1>0 DEF RowsInv, Matched
<1>3. /\ \A tab \in Tabs, s \in Sale : Matches(tab, s) \subseteq Matches(tab, s)'
      /\ \A tab \in Tabs, s \in Sale :
           tab # w.tab \/ s # w.sale \/ w.matches # {} =>
             Matches(tab, s)' = Matches(tab, s)
      /\ w.matches = {} =>
           \A j \in Matches(w.tab, w.sale)' :
             j \in Matches(w.tab, w.sale) \/ j = Len(sheet[w.tab]) + 1
  BY <1>1, <1>2, RowsAfter
<1>4. Matched'
  <2>1. \A u \in late : u.tab \in Tabs /\ u.sale \in Sale
    BY DEF JobsInv, TypeOK, Request, Sale
  <2> QED
    BY <1>3, <2>1 DEF RowsInv, Matched
<1>5. ASSUME NEW tab \in Tabs, NEW s \in Sale, <<tab, s>> \notin overlapped'
      PROVE  Single(tab, s)'
  <2>1. Single(tab, s) /\ Appends(tab, s)' = Appends(tab, s) /\ ~InHandAppends(tab, s)'
    BY <1>5 DEF RowsInv, Appends, InHandAppends
  <2>2. CASE Matches(tab, s)' = Matches(tab, s)
    BY <2>1, <2>2 DEF Single
  <2>3. CASE tab = w.tab /\ s = w.sale /\ w.matches = {}
    <3>1. Matches(tab, s) = {} /\ Appends(tab, s) = {}
      BY <1>0, <2>1, <2>3 DEF Single, InHandAppends
    <3>2. \A j, k \in Matches(tab, s)' : j = k
      BY <1>3, <2>3, <3>1
    <3> QED
      BY <2>1, <3>1, <3>2 DEF Single
  <2> QED
    BY <1>3, <2>2, <2>3
<1> QED
  BY <1>4, <1>5 DEF RowsInv

\* The write in hand stays on its way.
LEMMA RowsLeft ==
  ASSUME JobsInv, RowsInv, worker.at = "WRITE", NEW n, late' = late \cup {InHand(n)},
         worker'.at # "WRITE", UNCHANGED <<sheet, overlapped>>
  PROVE  RowsInv'
<1>1. /\ InHand(n).tab = worker.tab /\ InHand(n).sale = worker.sale
      /\ InHand(n).matches = worker.matches
  BY DEF InHand
<1>2. Matched'
  BY <1>1 DEF RowsInv, Matched, Matches
<1>3. ASSUME NEW tab \in Tabs, NEW s \in Sale, <<tab, s>> \notin overlapped'
      PROVE  Single(tab, s)'
  <2>1. Single(tab, s) /\ Matches(tab, s)' = Matches(tab, s) /\ ~InHandAppends(tab, s)'
    BY <1>3 DEF RowsInv, Matches, InHandAppends
  <2>2. CASE InHandAppends(tab, s)
    <3>1. Appends(tab, s) = {} /\ Matches(tab, s) = {}
      BY <2>1, <2>2 DEF Single
    <3>2. Appends(tab, s)' \subseteq {InHand(n)}
      BY <3>1 DEF Appends
    <3> QED
      BY <2>1, <3>1, <3>2 DEF Single
  <2>3. CASE ~InHandAppends(tab, s)
    <3>1. Appends(tab, s)' = Appends(tab, s)
      BY <1>1, <2>3 DEF Appends, InHandAppends
    <3> QED
      BY <2>1, <3>1 DEF Single
  <2> QED
    BY <2>2, <2>3
<1> QED
  BY <1>2, <1>3 DEF RowsInv

\* A write nobody waits for lands.
LEMMA RowsLand == ASSUME JobsInv, RowsInv, NEW w \in late, LandLate(w) PROVE RowsInv'
<1>1. w.tab \in Tabs /\ w.sale \in Sale /\ w.matches \subseteq Matches(w.tab, w.sale)
  BY DEF JobsInv, TypeOK, Request, Sale, RowsInv, Matched
<1>2. Apply(w) /\ late' = late \ {w} /\ UNCHANGED <<worker, overlapped>>
  BY DEF LandLate
<1>3. /\ \A tab \in Tabs, s \in Sale : Matches(tab, s) \subseteq Matches(tab, s)'
      /\ \A tab \in Tabs, s \in Sale :
           tab # w.tab \/ s # w.sale \/ w.matches # {} => Matches(tab, s)' = Matches(tab, s)
      /\ w.matches = {} =>
           \A j \in Matches(w.tab, w.sale)' :
             j \in Matches(w.tab, w.sale) \/ j = Len(sheet[w.tab]) + 1
  BY <1>1, <1>2, RowsAfter
<1>4. Matched'
  <2>1. \A u \in late : u.tab \in Tabs /\ u.sale \in Sale
    BY DEF JobsInv, TypeOK, Request, Sale
  <2>2. worker.at = "WRITE" => worker.tab \in Tabs /\ worker.sale \in Sale
    BY WorkerType DEF JobsInv, Idle
  <2> QED
    BY <1>2, <1>3, <2>1, <2>2 DEF RowsInv, Matched
<1>5. ASSUME NEW tab \in Tabs, NEW s \in Sale, <<tab, s>> \notin overlapped'
      PROVE  Single(tab, s)'
  <2>1. /\ Single(tab, s) /\ InHandAppends(tab, s)' = InHandAppends(tab, s)
        /\ Appends(tab, s)' = Appends(tab, s) \ {w}
    BY <1>2, <1>5 DEF RowsInv, Appends, InHandAppends
  <2>2. CASE Matches(tab, s)' = Matches(tab, s)
    BY <2>1, <2>2 DEF Single
  <2>3. CASE tab = w.tab /\ s = w.sale /\ w.matches = {}
    <3>1. w \in Appends(tab, s)
      BY <2>3 DEF Appends
    <3>2. Matches(tab, s) = {} /\ ~InHandAppends(tab, s) /\ Appends(tab, s)' = {}
      BY <2>1, <3>1 DEF Single
    <3>3. \A j, k \in Matches(tab, s)' : j = k
      BY <1>3, <2>3, <3>2
    <3> QED
      BY <2>1, <3>2, <3>3 DEF Single
  <2> QED
    BY <1>3, <2>2, <2>3
<1> QED
  BY <1>4, <1>5 DEF RowsInv

\* At first there is neither row nor request.
LEMMA RowsStart == Init => RowsInv
BY DEF Init, RowsInv, Matched, Single, Appends, InHandAppends, Matches, Idle, Tabs

\* The write in hand reaches the sheet or stays on its way.
LEMMA RowsSent ==
  ASSUME JobsInv, RowsInv, Sent, worker' = Idle, UNCHANGED overlapped
  PROVE  RowsInv'
<1>1. worker.at = "WRITE" /\ worker'.at # "WRITE"
  BY DEF Sent, Idle
<1>2. CASE Apply(worker) /\ UNCHANGED late
  BY <1>1, <1>2, RowsWritten
<1>3. ASSUME NEW n \in 1..scope.late, late' = late \cup {InHand(n)}, UNCHANGED sheet
      PROVE  RowsInv'
  BY <1>1, <1>3, RowsLeft
<1> QED
  BY <1>2, <1>3 DEF Sent

\* Every step keeps it.
LEMMA RowsStep == JobsInv /\ RowsInv /\ [Next]_vars => RowsInv'
<1> SUFFICES ASSUME JobsInv, RowsInv, [Next]_vars PROVE RowsInv'
  OBVIOUS
<1>1. CASE UNCHANGED <<sheet, late, overlapped>> /\ (worker' = worker \/ worker'.at # "WRITE")
  BY <1>1, RowsStay
<1>2. CASE \E s \in DOMAIN jobs : ReadColumn(s)
  BY <1>2, RowsRead
<1>3. ASSUME NEW s \in DOMAIN jobs, WriteRow(s) PROVE RowsInv'
  <2>1. worker'.at # "WRITE"
    BY <1>3 DEF WriteRow, Idle
  <2> QED
    BY <1>3, <2>1, RowsWritten DEF WriteRow
<1>4. CASE FailedAfterWrite
  BY <1>4, RowsSent DEF FailedAfterWrite
<1>5. CASE Abandon
  <2>1. CASE Sent
    BY <1>5, <2>1, RowsSent DEF Abandon
  <2>2. CASE UNCHANGED <<sheet, late>>
    BY <1>5, <2>2, RowsStay DEF Abandon, Idle
  <2> QED
    BY <1>5, <2>1, <2>2 DEF Abandon
<1>6. CASE \E w \in late : LandLate(w)
  BY <1>6, RowsLand
<1>7. CASE Refused
  BY <1>1, <1>7 DEF Refused, Idle
<1>8. CASE \E s \in DOMAIN jobs : Claim(s)
  BY <1>1, <1>8 DEF Claim
<1>9. CASE Outside \/ Recover \/ UNCHANGED vars
  BY <1>1, <1>9 DEF Outside, Recover, vars, CompleteSale, VoidSale, RetryExport, BecomeDue,
                    BecomeAged, SwitchIntegration
<1> QED
  BY <1>2, <1>3, <1>4, <1>5, <1>6, <1>7, <1>8, <1>9 DEF Next, Work

\* Where nothing overlapped there is one row at most.
LEMMA RowsExplained == JobsInv /\ RowsInv => SecondRowsOverlap
<1> SUFFICES ASSUME JobsInv, RowsInv, NEW tab \in Tabs, NEW s \in DOMAIN jobs,
                    <<tab, s>> \notin overlapped
             PROVE  ~(Cardinality(Matches(tab, s)) > 1)
  BY DEF SecondRowsOverlap
<1>1. s \in Sale
  BY DEF JobsInv, TypeOK, Sale
<1>2. \A j, k \in Matches(tab, s) : j = k
  BY <1>1 DEF RowsInv, Single
<1>3. CASE Matches(tab, s) = {}
  BY <1>3, FS_EmptySet
<1>4. CASE Matches(tab, s) # {}
  <2>1. PICK k \in Matches(tab, s) : TRUE
    BY <1>4
  <2>2. Matches(tab, s) = {k} /\ Cardinality({k}) = 1
    BY <1>2, <2>1, FS_Singleton
  <2> QED
    BY <2>2
<1> QED
  BY <1>3, <1>4

\* However many sales, voids, sleeps, failures and late writes there are, a second
\* row of a sale comes only of a column read while an append of the sale was still
\* on its way (exportWorker.ts, exportUpsert.ts).
THEOREM SecondRowsExplained == Spec => []SecondRowsOverlap
BY JobsInit, JobsStep, RowsStart, RowsStep, RowsExplained, PTL DEF Spec

-------------------------------------------------------------------------------
(* The sheet.                                                                  *)

\* No behaviour has both.
Separate == \A b \in Scopes : b.voids = 0 \/ b.late = 0

Scoped ==
  /\ scope.voids = 0 \/ scope.late = 0
  /\ scope.voids = 0 => \A s \in DOMAIN jobs : version[s] = 1
  /\ scope.late = 0 => late = {}

\* The worker writes a revision the sale has or had, and that is not confirmed.
Held ==
  worker # Idle =>
    /\ worker.written <= version[worker.sale]
    /\ jobs[worker.sale].exported < worker.written

\* A write that may land late is of the only revision there is.
Unanswered ==
  \A w \in late :
    w.sale \in DOMAIN jobs /\ w.written = 1 /\ w.matches \subseteq Matches(w.tab, w.sale)

\* A row is about a sale and not ahead of it.
Tidy ==
  \A tab \in Tabs : \A k \in DOMAIN sheet[tab] :
    /\ sheet[tab][k].sale \in DOMAIN jobs
    /\ sheet[tab][k].version <= version[sheet[tab][k].sale]
    /\ tab = "ITEMS" => sheet[tab][k].version = 1

\* What a job says was exported is on the sheet.
Confirmed ==
  \A s \in DOMAIN jobs :
    /\ \A k \in DOMAIN sheet["SALES"] :
         sheet["SALES"][k].sale = s => jobs[s].exported <= sheet["SALES"][k].version
    /\ jobs[s].exported > 0 =>
         \A tab \in Tabs : \E k \in DOMAIN sheet[tab] : sheet[tab][k].sale = s

\* What the worker in hand has seen and written is still so.
Seen ==
  worker # Idle =>
    /\ \A k \in DOMAIN sheet["SALES"] :
         sheet["SALES"][k].sale = worker.sale => sheet["SALES"][k].version <= worker.written
    /\ worker.tab = "ITEMS" =>
         /\ \E k \in DOMAIN sheet["SALES"] : sheet["SALES"][k].sale = worker.sale
         /\ \A k \in DOMAIN sheet["SALES"] :
              sheet["SALES"][k].sale = worker.sale => sheet["SALES"][k].version = worker.written
    /\ worker.at = "WRITE" =>
         /\ worker.matches \subseteq Matches(worker.tab, worker.sale)
         /\ scope.late = 0 => worker.matches = Matches(worker.tab, worker.sale)

SheetInv == Scoped /\ Held /\ Unanswered /\ Tidy /\ Confirmed /\ Seen
ExportInv == JobsInv /\ SheetInv

\* Rows and jobs, one by one.
LEMMA RowTypes ==
  ASSUME JobsInv
  PROVE  /\ \A tab \in Tabs : \A k \in DOMAIN sheet[tab] : sheet[tab][k] \in SheetRow
         /\ \A s \in DOMAIN jobs : jobs[s] \in Job /\ version[s] \in {1, 2}
                                   /\ Agrees(jobs[s], version[s])
<1>1. \A tab \in Tabs : sheet[tab] \in Seq(SheetRow)
  BY DEF JobsInv, TypeOK
<1>2. \A tab \in Tabs : \A k \in DOMAIN sheet[tab] : sheet[tab][k] \in SheetRow
  BY <1>1
<1> QED
  BY <1>2 DEF JobsInv, TypeOK, Aimed

\* Where nothing is voided, every row shows the one revision there is.
LEMMA OneRevision ==
  ASSUME JobsInv, Scoped, Tidy, scope.voids = 0
  PROVE  \A tab \in Tabs : \A k \in DOMAIN sheet[tab] : sheet[tab][k].version = 1
<1> SUFFICES ASSUME NEW tab \in Tabs, NEW k \in DOMAIN sheet[tab]
             PROVE  sheet[tab][k].version = 1
  OBVIOUS
<1>1. sheet[tab][k].version \in Nat \ {0}
  BY RowTypes DEF SheetRow
<1>2. sheet[tab][k].version <= 1
  BY DEF Tidy, Scoped
<1> QED
  BY <1>1, <1>2

-------------------------------------------------------------------------------
(* A write.                                                                    *)

\* Writing over some of the sale's rows, or at the end, changes those rows and no
\* other.
LEMMA Upserted ==
  ASSUME NEW rows \in Seq(SheetRow), NEW image \in SheetRow, NEW m, NEW new,
         m \subseteq {k \in DOMAIN rows : rows[k].sale = image.sale},
         new = Applied(rows, image, m)
  PROVE  /\ DOMAIN rows \subseteq DOMAIN new
         /\ \A k \in DOMAIN new : \/ new[k] = image
                                  \/ k \in DOMAIN rows /\ k \notin m /\ new[k] = rows[k]
         /\ \A k \in DOMAIN rows : new[k].sale = rows[k].sale
         /\ \E k \in DOMAIN new : new[k] = image
<1>1. CASE m = {}
  <2>1. new = Append(rows, image)
    BY <1>1 DEF Applied
  <2> DEFINE n == Len(rows)
  <2>2. n \in Nat /\ DOMAIN rows = 1..n /\ DOMAIN new = 1..(n + 1)
    BY <2>1, AppendProperties
  <2>3. new[n + 1] = image /\ \A k \in DOMAIN rows : new[k] = rows[k]
    BY <2>1, <2>2, AppendProperties
  <2> HIDE DEF n
  <2>4. 1..(n + 1) = 1..n \cup {n + 1}
    BY <2>2
  <2> QED
    BY <1>1, <2>2, <2>3, <2>4
<1>2. CASE m # {}
  <2>1. new = [k \in DOMAIN rows |-> IF k \in m THEN image ELSE rows[k]]
    BY <1>2 DEF Applied
  <2>2. DOMAIN new = DOMAIN rows
        /\ \A k \in DOMAIN rows : new[k] = IF k \in m THEN image ELSE rows[k]
    BY <2>1
  <2>3. PICK k \in DOMAIN rows : k \in m
    BY <1>2
  <2> QED
    BY <2>2, <2>3
<1> QED
  BY <1>1, <1>2

\* The row a write leaves.
ImageOf(w) == Image(w.tab, w.sale, w.written)

\* The same of the sheet, for a write whose matches are still rows of its sale.
LEMMA WrittenRows ==
  ASSUME JobsInv, NEW w, w.tab \in Tabs, w.sale \in DOMAIN jobs, w.written \in Sale,
         w.matches \subseteq Matches(w.tab, w.sale), Apply(w)
  PROVE  /\ \A tab \in Tabs : tab # w.tab => sheet'[tab] = sheet[tab]
         /\ DOMAIN sheet[w.tab] \subseteq DOMAIN sheet'[w.tab]
         /\ \A k \in DOMAIN sheet'[w.tab] :
              \/ sheet'[w.tab][k] = ImageOf(w)
              \/ /\ k \in DOMAIN sheet[w.tab] /\ k \notin w.matches
                 /\ sheet'[w.tab][k] = sheet[w.tab][k]
         /\ \A k \in DOMAIN sheet[w.tab] : sheet'[w.tab][k].sale = sheet[w.tab][k].sale
         /\ \E k \in DOMAIN sheet'[w.tab] : sheet'[w.tab][k] = ImageOf(w)
<1>1. ImageOf(w) \in SheetRow /\ ImageOf(w).sale = w.sale
  BY DEF ImageOf, Image, SheetRow, Sale, JobsInv, TypeOK
<1>2. /\ sheet'[w.tab] = Applied(sheet[w.tab], ImageOf(w), w.matches)
      /\ \A tab \in Tabs : tab # w.tab => sheet'[tab] = sheet[tab]
  BY DEF Apply, ImageOf, JobsInv, TypeOK
<1> DEFINE rows == sheet[w.tab]
           new == sheet'[w.tab]
           image == ImageOf(w)
           m == w.matches
<1>3. rows \in Seq(SheetRow)
  BY DEF JobsInv, TypeOK
<1>4. image \in SheetRow
  BY <1>1
<1>5. m \subseteq {k \in DOMAIN rows : rows[k].sale = image.sale}
  BY <1>1 DEF Matches
<1>6. new = Applied(rows, image, m)
  BY <1>2
<1> HIDE DEF rows, new, image, m
<1>7. /\ DOMAIN rows \subseteq DOMAIN new
      /\ \A k \in DOMAIN new : \/ new[k] = image
                               \/ k \in DOMAIN rows /\ k \notin m /\ new[k] = rows[k]
      /\ \A k \in DOMAIN rows : new[k].sale = rows[k].sale
      /\ \E k \in DOMAIN new : new[k] = image
  BY <1>3, <1>4, <1>5, <1>6, Upserted
<1> QED
  BY <1>2, <1>7 DEF rows, new, image, m

\* Such a write of a revision the sale has keeps the rows tidy, every row with its
\* sale, and leaves its own image; over all matches, it leaves no other.
LEMMA WriteTidies ==
  ASSUME JobsInv, Tidy, NEW w, w.tab \in Tabs, w.sale \in DOMAIN jobs, w.written \in Sale,
         w.matches \subseteq Matches(w.tab, w.sale), Apply(w),
         w.written <= version[w.sale], DOMAIN jobs' = DOMAIN jobs, UNCHANGED version
  PROVE  /\ Tidy'
         /\ \A tab \in Tabs, s \in DOMAIN jobs : Matches(tab, s) \subseteq Matches(tab, s)'
         /\ \A tab \in Tabs, s \in DOMAIN jobs :
              tab # w.tab \/ s # w.sale => Matches(tab, s)' = Matches(tab, s)
         /\ \A tab \in Tabs : \A k \in DOMAIN sheet'[tab] :
              \/ tab = w.tab /\ sheet'[tab][k] = ImageOf(w)
              \/ k \in DOMAIN sheet[tab] /\ sheet'[tab][k] = sheet[tab][k]
         /\ w.matches = Matches(w.tab, w.sale) =>
              \A k \in DOMAIN sheet'[w.tab] :
                sheet'[w.tab][k].sale = w.sale => sheet'[w.tab][k] = ImageOf(w)
         /\ \E k \in DOMAIN sheet'[w.tab] : sheet'[w.tab][k] = ImageOf(w)
<1>1. /\ \A tab \in Tabs : tab # w.tab => sheet'[tab] = sheet[tab]
      /\ DOMAIN sheet[w.tab] \subseteq DOMAIN sheet'[w.tab]
      /\ \A k \in DOMAIN sheet'[w.tab] :
           \/ sheet'[w.tab][k] = ImageOf(w)
           \/ /\ k \in DOMAIN sheet[w.tab] /\ k \notin w.matches
              /\ sheet'[w.tab][k] = sheet[w.tab][k]
      /\ \A k \in DOMAIN sheet[w.tab] : sheet'[w.tab][k].sale = sheet[w.tab][k].sale
      /\ \E k \in DOMAIN sheet'[w.tab] : sheet'[w.tab][k] = ImageOf(w)
  BY WrittenRows
<1>2. /\ ImageOf(w).sale = w.sale
      /\ ImageOf(w).version = IF w.tab = "SALES" THEN w.written ELSE 1
  BY DEF ImageOf, Image
<1>3. version[w.sale] \in {1, 2}
  BY DEF JobsInv, TypeOK
<1>4. ImageOf(w).version <= version[w.sale]
  BY <1>2, <1>3
<1>5. w.tab = "ITEMS" => ImageOf(w).version = 1
  BY <1>2
<1> HIDE DEF ImageOf
<1>6. Tidy'
  <2> SUFFICES ASSUME NEW tab \in Tabs, NEW k \in DOMAIN sheet'[tab]
               PROVE  /\ sheet'[tab][k].sale \in DOMAIN jobs
                      /\ sheet'[tab][k].version <= version[sheet'[tab][k].sale]
                      /\ tab = "ITEMS" => sheet'[tab][k].version = 1
    BY DEF Tidy
  <2>1. CASE tab # w.tab
    BY <1>1, <2>1 DEF Tidy
  <2>2. CASE tab = w.tab
    BY <1>1, <1>2, <1>4, <1>5, <2>2 DEF Tidy
  <2> QED
    BY <2>1, <2>2
<1>7. \A tab \in Tabs, s \in DOMAIN jobs : Matches(tab, s) \subseteq Matches(tab, s)'
  BY <1>1 DEF Matches
<1>8. ASSUME NEW tab \in Tabs, NEW s \in DOMAIN jobs, tab # w.tab \/ s # w.sale
      PROVE  Matches(tab, s)' = Matches(tab, s)
  <2>1. CASE tab # w.tab
    BY <1>1, <2>1 DEF Matches
  <2>2. CASE tab = w.tab /\ s # w.sale
    <3>1. \A k \in DOMAIN sheet'[tab] : sheet'[tab][k].sale = s => k \in DOMAIN sheet[tab]
      BY <1>1, <1>2, <2>2
    <3> QED
      BY <1>1, <2>2, <3>1 DEF Matches
  <2> QED
    BY <1>8, <2>1, <2>2
<1>9. \A tab \in Tabs : \A k \in DOMAIN sheet'[tab] :
        \/ tab = w.tab /\ sheet'[tab][k] = ImageOf(w)
        \/ k \in DOMAIN sheet[tab] /\ sheet'[tab][k] = sheet[tab][k]
  BY <1>1
<1>10. /\ w.matches = Matches(w.tab, w.sale) =>
            \A k \in DOMAIN sheet'[w.tab] :
              sheet'[w.tab][k].sale = w.sale => sheet'[w.tab][k] = ImageOf(w)
       /\ \E k \in DOMAIN sheet'[w.tab] : sheet'[w.tab][k] = ImageOf(w)
  BY <1>1 DEF Matches
<1> QED
  BY <1>6, <1>7, <1>8, <1>9, <1>10

\* It keeps what is confirmed, if it is not behind it.
LEMMA WriteConfirms ==
  ASSUME JobsInv, Tidy, Confirmed, NEW w, w.tab \in Tabs, w.sale \in DOMAIN jobs,
         w.written \in Sale, w.matches \subseteq Matches(w.tab, w.sale), Apply(w),
         w.written <= version[w.sale], jobs[w.sale].exported <= w.written,
         DOMAIN jobs' = DOMAIN jobs, UNCHANGED version,
         \A s \in DOMAIN jobs : jobs'[s].exported = jobs[s].exported
  PROVE  Confirmed'
<1>1. /\ \A tab \in Tabs, s \in DOMAIN jobs : Matches(tab, s) \subseteq Matches(tab, s)'
      /\ \A tab \in Tabs : \A k \in DOMAIN sheet'[tab] :
           \/ tab = w.tab /\ sheet'[tab][k] = ImageOf(w)
           \/ k \in DOMAIN sheet[tab] /\ sheet'[tab][k] = sheet[tab][k]
  BY WriteTidies
<1>2. \A tab \in Tabs, s \in DOMAIN jobs :
        (\E k \in DOMAIN sheet[tab] : sheet[tab][k].sale = s) =>
           \E k \in DOMAIN sheet'[tab] : sheet'[tab][k].sale = s
  BY <1>1 DEF Matches
<1>3. /\ ImageOf(w).sale = w.sale
      /\ w.tab = "SALES" => ImageOf(w).version = w.written
  BY DEF ImageOf, Image
<1> HIDE DEF ImageOf
<1>4. "SALES" \in Tabs
  BY DEF Tabs
<1> QED
  BY <1>1, <1>2, <1>3, <1>4 DEF Confirmed

\* It keeps all but what is known of the worker.
LEMMA WriteKeepsSheet ==
  ASSUME JobsInv, SheetInv, NEW w, w.tab \in Tabs, w.sale \in DOMAIN jobs,
         w.written \in Sale, w.matches \subseteq Matches(w.tab, w.sale), Apply(w),
         w.written <= version[w.sale], UNCHANGED <<scope, version>>,
         DOMAIN jobs' = DOMAIN jobs, late' \subseteq late, Confirmed', Held', Seen'
  PROVE  SheetInv'
<1>1. /\ Tidy'
      /\ \A tab \in Tabs, s \in DOMAIN jobs : Matches(tab, s) \subseteq Matches(tab, s)'
  BY WriteTidies DEF SheetInv
<1>2. Scoped'
  <2>1. late = {} => late' = {}
    OBVIOUS
  <2> QED
    BY <2>1 DEF SheetInv, Scoped
<1>3. Unanswered'
  <2>1. \A u \in late' : u \in late /\ u.tab \in Tabs
    BY DEF JobsInv, TypeOK, Request
  <2> QED
    BY <1>1, <2>1 DEF SheetInv, Unanswered
<1> QED
  BY <1>1, <1>2, <1>3 DEF SheetInv

-------------------------------------------------------------------------------
(* The steps that leave the sheet alone.                                       *)

\* Nothing is written or confirmed and no claim goes on: all is as before.
LEMMA Quiet ==
  ASSUME JobsInv, SheetInv, UNCHANGED <<scope, version, sheet, late>>,
         worker' = worker \/ worker' = Idle, DOMAIN jobs' = DOMAIN jobs,
         \A s \in DOMAIN jobs : jobs'[s].exported = jobs[s].exported
  PROVE  SheetInv'
<1>1. Scoped' /\ Tidy' /\ Confirmed'
  BY DEF SheetInv, Scoped, Tidy, Confirmed
<1>2. Seen'
  BY DEF SheetInv, Seen, Matches
<1>3. Held'
  BY DEF SheetInv, Held, JobsInv, InTable
<1>4. Unanswered'
  BY DEF SheetInv, Unanswered, Matches
<1> QED
  BY <1>1, <1>2, <1>3, <1>4 DEF SheetInv

\* Retries, the passing of time, the switch and the recovery are quiet.
LEMMA OutsideQuiet ==
  ASSUME JobsInv, SheetInv,
         \/ \E s \in DOMAIN jobs : RetryExport(s) \/ BecomeDue(s) \/ BecomeAged(s)
         \/ SwitchIntegration
         \/ Recover
         \/ UNCHANGED vars
  PROVE  SheetInv'
<1>0. jobs \in Seq(Job)
  BY DEF JobsInv, TypeOK
<1>1. CASE SwitchIntegration \/ UNCHANGED vars
  BY <1>1, Quiet DEF SwitchIntegration, vars
<1>2. ASSUME NEW s \in DOMAIN jobs, NEW new,
             new \in {ManualRetry(jobs[s]), [jobs[s] EXCEPT !.due = TRUE],
                      [jobs[s] EXCEPT !.aged = TRUE]},
             jobs' = [jobs EXCEPT ![s] = new],
             UNCHANGED <<scope, version, sheet, late, worker>>
      PROVE  SheetInv'
  <2>0. jobs[s] \in Job
    BY <1>0
  <2>1. new.exported = jobs[s].exported
    BY <1>2, <2>0, Uncounted
  <2> QED
    BY <1>0, <1>2, <2>1, Quiet
<1>3. CASE \E s \in DOMAIN jobs : RetryExport(s) \/ BecomeDue(s) \/ BecomeAged(s)
  BY <1>2, <1>3 DEF RetryExport, BecomeDue, BecomeAged
<1>4. CASE Recover
  <2>1. /\ DOMAIN jobs' = DOMAIN jobs /\ \A s \in DOMAIN jobs : jobs'[s] = RecoverStale(jobs[s])
        /\ UNCHANGED <<scope, version, sheet, late, worker>>
    BY <1>4 DEF Recover
  <2>2. \A s \in DOMAIN jobs : jobs'[s].exported = jobs[s].exported
    <3>1. \A s \in DOMAIN jobs : jobs[s] \in Job
      BY <1>0
    <3> QED
      BY <2>1, <3>1, Uncounted
  <2> QED
    BY <2>1, <2>2, Quiet
<1> QED
  BY <1>1, <1>3, <1>4

\* A sale is completed: nothing about it is anywhere yet.
LEMMA CompleteSafe == ASSUME JobsInv, SheetInv, CompleteSale PROVE SheetInv'
<1> DEFINE n == Len(jobs) + 1
<1>1. jobs \in Seq(Job) /\ version \in Seq({1, 2}) /\ Len(jobs) = Len(version)
  BY DEF JobsInv, TypeOK
<1>2. /\ jobs' \in Seq(Job) /\ Len(jobs') = n
      /\ \A i \in 1..Len(jobs) : jobs'[i] = jobs[i]
      /\ jobs'[n] = NewJob
  BY <1>1, NewJobAgrees, AppendProperties DEF CompleteSale
<1>3. /\ \A i \in 1..Len(version) : version'[i] = version[i]
      /\ version'[n] = 1
  BY <1>1, AppendProperties DEF CompleteSale
<1>4. UNCHANGED <<scope, worker, sheet, late>>
  BY DEF CompleteSale
<1>5. /\ DOMAIN jobs' = DOMAIN jobs \cup {n} /\ n \notin DOMAIN jobs
      /\ \A s \in DOMAIN jobs : jobs'[s] = jobs[s] /\ version'[s] = version[s]
  <2>1. DOMAIN jobs = 1..Len(jobs) /\ DOMAIN jobs' = 1..n /\ Len(jobs) \in Nat
    BY <1>1, <1>2
  <2>2. 1..n = 1..Len(jobs) \cup {n} /\ n \notin 1..Len(jobs)
    BY <2>1
  <2>3. DOMAIN jobs = 1..Len(version)
    BY <1>1, <2>1
  <2> QED
    BY <1>2, <1>3, <2>1, <2>2, <2>3
<1>6. jobs'[n].exported = 0
  BY <1>2 DEF NewJob
<1> HIDE DEF n
<1>7. Scoped'
  BY <1>3, <1>4, <1>5 DEF SheetInv, Scoped
<1>8. Held'
  BY <1>4, <1>5 DEF SheetInv, Held, JobsInv, InTable
<1>9. Unanswered'
  BY <1>4, <1>5 DEF SheetInv, Unanswered, Matches
<1>10. Tidy'
  BY <1>4, <1>5 DEF SheetInv, Tidy
<1>11. Confirmed'
  <2>1. \A k \in DOMAIN sheet["SALES"] : sheet["SALES"][k].sale # n
    BY <1>5 DEF SheetInv, Tidy, Tabs
  <2> QED
    BY <1>4, <1>5, <1>6, <2>1 DEF SheetInv, Confirmed
<1>12. Seen'
  BY <1>4 DEF SheetInv, Seen, Matches
<1> QED
  BY <1>7, <1>8, <1>9, <1>10, <1>11, <1>12 DEF SheetInv

\* A sale is voided: its job is requeued, the worker in hand is overtaken, and no
\* write can land late.
LEMMA VoidSafe ==
  ASSUME JobsInv, SheetInv, NEW s \in DOMAIN jobs, VoidSale(s)
  PROVE  SheetInv'
<1>1. /\ jobs \in Seq(Job) /\ version \in Seq({1, 2}) /\ DOMAIN version = DOMAIN jobs
      /\ DOMAIN jobs = 1..Len(jobs) /\ Len(jobs) \in Nat
      /\ scope.voids \in Nat /\ version[s] = 1
  <2>1. /\ jobs \in Seq(Job) /\ version \in Seq({1, 2}) /\ DOMAIN version = DOMAIN jobs
        /\ scope \in Scopes
    BY DEF JobsInv, TypeOK
  <2>2. DOMAIN jobs = 1..Len(jobs) /\ Len(jobs) \in Nat
    BY <2>1
  <2>3. scope.voids \in Nat
    BY <2>1, WorkerAssumption
  <2> QED
    BY <2>1, <2>2, <2>3 DEF VoidSale
<1>2. scope.voids # 0 /\ late = {}
  <2> DEFINE voided == {t \in DOMAIN jobs : version[t] = 2}
  <2>1. IsFiniteSet(voided)
    <3>1. IsFiniteSet(1..Len(jobs))
      BY <1>1, FS_Interval
    <3>2. voided \subseteq 1..Len(jobs)
      BY <1>1
    <3> QED
      BY <3>1, <3>2, FS_Subset
  <2>2. Cardinality(voided) \in Nat
    BY <2>1, FS_CardinalityType
  <2>3. scope.voids # 0
    BY <1>1, <2>2 DEF VoidSale
  <2> QED
    BY <2>3 DEF SheetInv, Scoped
<1>3. /\ DOMAIN jobs' = DOMAIN jobs
      /\ jobs'[s] = RequeueForVoid(jobs[s], 2)
      /\ \A t \in DOMAIN jobs : t # s => jobs'[t] = jobs[t]
      /\ version'[s] = 2
      /\ \A t \in DOMAIN jobs : t # s => version'[t] = version[t]
      /\ UNCHANGED <<scope, worker, sheet, late>>
  BY <1>1 DEF VoidSale
<1>4. jobs'[s].status = "PENDING" /\ jobs'[s].exported = jobs[s].exported
  BY <1>1, <1>3 DEF RequeueForVoid, Job
<1>5. \A t \in DOMAIN jobs : /\ jobs'[t].exported = jobs[t].exported
                             /\ version[t] <= version'[t]
  BY <1>1, <1>3, <1>4
<1>6. Scoped'
  BY <1>2, <1>3 DEF SheetInv, Scoped
<1>7. Held'
  BY <1>1, <1>3, <1>4, <1>5, WorkerType DEF SheetInv, Held, JobsInv, InTable, Sale
<1>8. Unanswered'
  BY <1>2, <1>3 DEF Unanswered
<1>9. Tidy'
  <2>1. \A v \in Nat : v <= 1 => v <= 2
    OBVIOUS
  <2>2. \A tab \in Tabs : \A k \in DOMAIN sheet[tab] : sheet[tab][k].version \in Nat
    <3>1. \A tab \in Tabs : sheet[tab] \in Seq(SheetRow)
      BY DEF JobsInv, TypeOK
    <3>2. \A tab \in Tabs : \A k \in DOMAIN sheet[tab] : sheet[tab][k] \in SheetRow
      BY <3>1
    <3> QED
      BY <3>2 DEF SheetRow
  <2> QED
    BY <1>1, <1>3, <2>1, <2>2 DEF SheetInv, Tidy
<1>10. Confirmed'
  BY <1>3, <1>5 DEF SheetInv, Confirmed
<1>11. Seen'
  BY <1>3 DEF SheetInv, Seen, Matches
<1> QED
  BY <1>6, <1>7, <1>8, <1>9, <1>10, <1>11 DEF SheetInv

-------------------------------------------------------------------------------
(* The worker.                                                                 *)

\* A job is claimed for a revision that is nowhere confirmed yet.
LEMMA ClaimSafe ==
  ASSUME JobsInv, SheetInv, NEW s \in DOMAIN jobs, Claim(s)
  PROVE  SheetInv'
<1>1. /\ jobs \in Seq(Job) /\ jobs[s] \in Job /\ version[s] \in {1, 2}
      /\ Agrees(jobs[s], version[s]) /\ jobs[s].status = "PENDING"
  BY DEF JobsInv, TypeOK, Aimed, Claim, Claimable
<1>2. /\ DOMAIN jobs' = DOMAIN jobs
      /\ jobs'[s] = ClaimJob(jobs[s])
      /\ \A t \in DOMAIN jobs : t # s => jobs'[t] = jobs[t]
      /\ UNCHANGED <<scope, version, sheet, late>>
      /\ worker' = [at |-> "READ", tab |-> "SALES", sale |-> s, written |-> version[s]]
  BY <1>1 DEF Claim, Agrees
<1>3. /\ jobs'[s].status = "EXPORTING" /\ ~jobs'[s].aged
      /\ jobs'[s].exported = jobs[s].exported
  BY <1>1, <1>2 DEF ClaimJob, Job
<1>4. jobs[s].exported < version[s]
  BY <1>1 DEF Agrees, Job
<1>5. Scoped' /\ Tidy'
  BY <1>2 DEF SheetInv, Scoped, Tidy
<1>6. Held'
  BY <1>1, <1>2, <1>3, <1>4 DEF Held
<1>7. Unanswered'
  BY <1>2 DEF SheetInv, Unanswered, Matches
<1>8. Confirmed'
  BY <1>2, <1>3 DEF SheetInv, Confirmed
<1>9. Seen'
  BY <1>2 DEF SheetInv, Seen, Tidy, Tabs
<1> QED
  BY <1>5, <1>6, <1>7, <1>8, <1>9 DEF SheetInv

\* The column is read: what matches now.
LEMMA ReadSafe ==
  ASSUME JobsInv, SheetInv, NEW s \in DOMAIN jobs, ReadColumn(s)
  PROVE  SheetInv'
<1>1. /\ worker # Idle /\ worker.sale = s
      /\ worker' = [at |-> "WRITE", tab |-> worker.tab, sale |-> s,
                    written |-> worker.written, matches |-> Matches(worker.tab, s)]
      /\ UNCHANGED <<scope, jobs, version, sheet, late>>
  BY DEF ReadColumn, Idle
<1>2. Scoped' /\ Tidy' /\ Confirmed'
  BY <1>1 DEF SheetInv, Scoped, Tidy, Confirmed
<1>3. Held'
  BY <1>1 DEF SheetInv, Held
<1>4. Unanswered'
  BY <1>1 DEF SheetInv, Unanswered, Matches
<1>5. Seen'
  BY <1>1 DEF SheetInv, Seen, Matches
<1> QED
  BY <1>2, <1>3, <1>4, <1>5 DEF SheetInv

\* What is known of the job in hand.
LEMMA InHandKnown ==
  ASSUME JobsInv, SheetInv, worker # Idle
  PROVE  /\ worker.tab \in Tabs /\ worker.sale \in DOMAIN jobs /\ worker.written \in Sale
         /\ worker.written <= version[worker.sale]
         /\ jobs[worker.sale].exported \in Nat /\ jobs[worker.sale].exported <= worker.written
         /\ worker.at = "WRITE" => worker.matches \subseteq Matches(worker.tab, worker.sale)
<1>1. worker.tab \in Tabs /\ worker.sale \in DOMAIN jobs /\ worker.written \in Sale
  BY WorkerType DEF JobsInv, InTable
<1>2. jobs[worker.sale].exported \in Nat
  BY <1>1, RowTypes DEF Job
<1>3. jobs[worker.sale].exported < worker.written
  BY DEF SheetInv, Held
<1> QED
  BY <1>1, <1>2, <1>3 DEF SheetInv, Held, Seen, Sale

\* A failure leaves what is confirmed.
LEMMA FailedAlone ==
  ASSUME JobsInv, SheetInv, worker # Idle, Failed(worker.sale)
  PROVE  /\ DOMAIN jobs' = DOMAIN jobs
         /\ \A s \in DOMAIN jobs : jobs'[s].exported = jobs[s].exported
<1>1. worker.sale \in DOMAIN jobs /\ jobs[worker.sale] \in Job
  BY InHandKnown, RowTypes
<1> DEFINE new == RecordFailure(jobs[worker.sale], worker.written, MaxAttempts)
<1>2. jobs' = [jobs EXCEPT ![worker.sale] = new] /\ jobs \in Seq(Job)
  BY DEF Failed, JobsInv, TypeOK
<1>3. new.exported = jobs[worker.sale].exported
  <2>1. \/ new = jobs[worker.sale]
        \/ new = [jobs[worker.sale] EXCEPT !.status = "FAILED", !.attempts = @ + 1,
                                           !.due = TRUE, !.aged = FALSE]
        \/ new = [jobs[worker.sale] EXCEPT !.status = "PENDING", !.attempts = @ + 1,
                                           !.due = FALSE, !.aged = FALSE]
    BY DEF RecordFailure
  <2> QED
    BY <1>1, <2>1 DEF Job
<1> HIDE DEF new
<1> QED
  BY <1>1, <1>2, <1>3

\* A write reaches the sheet and nobody goes on from it.
LEMMA UnnoticedSafe ==
  ASSUME JobsInv, SheetInv, worker.at = "WRITE", Apply(worker), worker' = Idle,
         DOMAIN jobs' = DOMAIN jobs,
         \A s \in DOMAIN jobs : jobs'[s].exported = jobs[s].exported,
         UNCHANGED <<scope, version, late>>
  PROVE  SheetInv'
<1>0. worker # Idle
  BY DEF Idle
<1>1. /\ worker.tab \in Tabs /\ worker.sale \in DOMAIN jobs /\ worker.written \in Sale
      /\ worker.written <= version[worker.sale]
      /\ jobs[worker.sale].exported <= worker.written
      /\ worker.matches \subseteq Matches(worker.tab, worker.sale)
  BY <1>0, InHandKnown
<1>2. Confirmed'
  BY <1>1, WriteConfirms DEF SheetInv
<1>3. Held' /\ Seen'
  BY DEF Held, Seen
<1> QED
  BY <1>1, <1>2, <1>3, WriteKeepsSheet

\* The worker lets go of a write that may land late: its sale was never voided.
LEMMA LeftSafe ==
  ASSUME JobsInv, SheetInv, worker.at = "WRITE", worker' = Idle,
         NEW n \in 1..scope.late, late' = late \cup {InHand(n)},
         DOMAIN jobs' = DOMAIN jobs,
         \A s \in DOMAIN jobs : jobs'[s].exported = jobs[s].exported,
         UNCHANGED <<scope, version, sheet>>
  PROVE  SheetInv'
<1>0. worker # Idle
  BY DEF Idle
<1>1. /\ worker.sale \in DOMAIN jobs /\ worker.written \in Sale
      /\ worker.written <= version[worker.sale]
      /\ worker.matches \subseteq Matches(worker.tab, worker.sale)
  BY <1>0, InHandKnown
<1>2. scope.late # 0
  OBVIOUS
<1>3. version[worker.sale] = 1
  BY <1>1, <1>2 DEF SheetInv, Scoped
<1>4. worker.written = 1
  BY <1>1, <1>3 DEF Sale
<1>5. /\ InHand(n).tab = worker.tab /\ InHand(n).sale = worker.sale
      /\ InHand(n).written = worker.written /\ InHand(n).matches = worker.matches
  BY DEF InHand
<1>6. Scoped'
  BY <1>2 DEF SheetInv, Scoped
<1>7. Tidy' /\ Confirmed'
  BY DEF SheetInv, Tidy, Confirmed
<1>8. Held' /\ Seen'
  BY DEF Held, Seen
<1>9. Unanswered'
  BY <1>1, <1>4, <1>5 DEF SheetInv, Unanswered, Matches
<1> QED
  BY <1>6, <1>7, <1>8, <1>9 DEF SheetInv

\* A write was sent, and the worker does not learn what became of it.
LEMMA SentSafe ==
  ASSUME JobsInv, SheetInv, Sent, worker' = Idle, DOMAIN jobs' = DOMAIN jobs,
         \A s \in DOMAIN jobs : jobs'[s].exported = jobs[s].exported,
         UNCHANGED <<scope, version>>
  PROVE  SheetInv'
<1>1. CASE Apply(worker) /\ UNCHANGED late
  BY <1>1, UnnoticedSafe DEF Sent
<1>2. ASSUME NEW n \in 1..scope.late, late' = late \cup {InHand(n)}, UNCHANGED sheet
      PROVE  SheetInv'
  BY <1>2, LeftSafe DEF Sent
<1> QED
  BY <1>1, <1>2 DEF Sent

\* A job fails, or the worker lets go of it.
LEMMA FailingSafe ==
  ASSUME JobsInv, SheetInv, Refused \/ FailedAfterWrite \/ Abandon
  PROVE  SheetInv'
<1>1. CASE Refused
  BY <1>1, FailedAlone, Quiet DEF Refused
<1>2. CASE FailedAfterWrite
  BY <1>2, SentType, FailedAlone, SentSafe DEF FailedAfterWrite
<1>3. CASE Abandon
  BY <1>3, Quiet, SentSafe DEF Abandon
<1> QED
  BY <1>1, <1>2, <1>3

\* The row of the first worksheet is written, and the worker goes on.
LEMMA SalesRowSafe ==
  ASSUME JobsInv, SheetInv, NEW s \in DOMAIN jobs, WriteRow(s), worker.tab = "SALES"
  PROVE  SheetInv'
<1>0. /\ worker # Idle /\ worker.sale = s /\ worker.at = "WRITE" /\ Apply(worker)
      /\ worker' = [at |-> "READ", tab |-> "ITEMS", sale |-> s, written |-> worker.written]
      /\ UNCHANGED <<jobs, scope, version, late>>
  BY DEF Idle, WriteRow
<1>1. /\ worker.tab \in Tabs /\ worker.sale \in DOMAIN jobs /\ worker.written \in Sale
      /\ worker.written <= version[worker.sale]
      /\ jobs[worker.sale].exported <= worker.written
      /\ worker.matches \subseteq Matches(worker.tab, worker.sale)
  BY <1>0, InHandKnown
<1>2. /\ worker.matches = Matches(worker.tab, worker.sale) =>
           \A k \in DOMAIN sheet'["SALES"] :
             sheet'["SALES"][k].sale = s => sheet'["SALES"][k] = ImageOf(worker)
      /\ \E k \in DOMAIN sheet'["SALES"] : sheet'["SALES"][k] = ImageOf(worker)
      /\ Tidy'
  BY <1>0, <1>1, WriteTidies DEF SheetInv
<1>3. ImageOf(worker).sale = s /\ ImageOf(worker).version = worker.written
  BY <1>0 DEF ImageOf, Image
<1>4. \A k \in DOMAIN sheet'["SALES"] :
        sheet'["SALES"][k].sale = s => sheet'["SALES"][k].version = worker.written
  <2>1. CASE scope.late = 0
    BY <1>0, <1>2, <1>3, <2>1 DEF SheetInv, Seen
  <2>2. CASE scope.late # 0
    <3>1. scope.voids = 0 /\ version[s] = 1
      BY <2>2 DEF SheetInv, Scoped
    <3>2. worker.written = 1
      BY <1>0, <1>1, <3>1 DEF Sale
    <3>3. JobsInv' /\ Scoped'
      BY <1>0, JobsStep DEF SheetInv, Scoped, Next, Work
    <3>4. \A k \in DOMAIN sheet'["SALES"] : sheet'["SALES"][k].version = 1
      <4>1. /\ sheet' \in [Tabs -> Seq(SheetRow)]
            /\ version' = version /\ scope'.voids = 0
        BY <1>0, <3>1, <3>3 DEF JobsInv, TypeOK
      <4>2. \A k \in DOMAIN sheet'["SALES"] : sheet'["SALES"][k] \in SheetRow
        BY <4>1 DEF Tabs
      <4>3. \A k \in DOMAIN sheet'["SALES"] : sheet'["SALES"][k].version <= 1
        BY <1>2, <3>1, <3>3, <4>1 DEF Tidy, Scoped, Tabs
      <4> QED
        BY <4>2, <4>3 DEF SheetRow
    <3> QED
      BY <3>2, <3>4
  <2> QED
    BY <2>1, <2>2
<1>5. Confirmed'
  BY <1>0, <1>1, WriteConfirms DEF SheetInv
<1>6. Held'
  BY <1>0 DEF SheetInv, Held
<1>7. Seen'
  <2>1. worker'.sale = s /\ worker'.written = worker.written /\ worker'.at # "WRITE"
    BY <1>0
  <2>2. worker.written <= worker.written
    BY <1>1 DEF Sale
  <2> QED
    BY <1>2, <1>3, <1>4, <2>1, <2>2 DEF Seen
<1> QED
  BY <1>0, <1>1, <1>5, <1>6, <1>7, WriteKeepsSheet

\* The row of the second worksheet is written, and the job finalized unless it was
\* overtaken: both worksheets show what it then says.
LEMMA ItemsRowSafe ==
  ASSUME JobsInv, SheetInv, NEW s \in DOMAIN jobs, WriteRow(s), worker.tab = "ITEMS"
  PROVE  SheetInv'
<1>0. /\ worker # Idle /\ worker.sale = s /\ worker.at = "WRITE" /\ Apply(worker)
      /\ worker' = Idle /\ UNCHANGED <<scope, version, late>>
  BY DEF Idle, WriteRow
<1>1. /\ worker.tab \in Tabs /\ worker.sale \in DOMAIN jobs /\ worker.written \in Sale
      /\ worker.written <= version[worker.sale]
      /\ worker.matches \subseteq Matches(worker.tab, worker.sale)
  BY <1>0, InHandKnown
<1> DEFINE new == MarkExported(jobs[s], worker.written)
<1>2. /\ DOMAIN jobs' = DOMAIN jobs /\ jobs'[s] = new
      /\ \A t \in DOMAIN jobs : t # s => jobs'[t] = jobs[t]
  BY DEF WriteRow, JobsInv, TypeOK
<1>3. new = jobs[s] \/ new.exported = worker.written
  <2>1. jobs[s] \in Job
    BY RowTypes
  <2> QED
    BY <2>1 DEF MarkExported, Job
<1> HIDE DEF new
<1>4. /\ \A tab \in Tabs, t \in DOMAIN jobs :
           (\E k \in DOMAIN sheet[tab] : sheet[tab][k].sale = t) =>
              \E k \in DOMAIN sheet'[tab] : sheet'[tab][k].sale = t
      /\ \A k \in DOMAIN sheet'["SALES"] :
           k \in DOMAIN sheet["SALES"] /\ sheet'["SALES"][k] = sheet["SALES"][k]
      /\ \E k \in DOMAIN sheet'["ITEMS"] : sheet'["ITEMS"][k] = ImageOf(worker)
  <2>1. "SALES" \in Tabs /\ "ITEMS" \in Tabs
    BY DEF Tabs
  <2>2. /\ \A tab \in Tabs, t \in DOMAIN jobs : Matches(tab, t) \subseteq Matches(tab, t)'
        /\ \A tab \in Tabs : \A k \in DOMAIN sheet'[tab] :
             \/ tab = worker.tab /\ sheet'[tab][k] = ImageOf(worker)
             \/ k \in DOMAIN sheet[tab] /\ sheet'[tab][k] = sheet[tab][k]
        /\ \E k \in DOMAIN sheet'[worker.tab] : sheet'[worker.tab][k] = ImageOf(worker)
    BY <1>0, <1>1, <1>2, WriteTidies DEF SheetInv
  <2>3. \A tab \in Tabs, t \in DOMAIN jobs :
          (\E k \in DOMAIN sheet[tab] : sheet[tab][k].sale = t) =>
             \E k \in DOMAIN sheet'[tab] : sheet'[tab][k].sale = t
    BY <2>2 DEF Matches
  <2> QED
    BY <2>1, <2>2, <2>3
<1>5. /\ \E k \in DOMAIN sheet["SALES"] : sheet["SALES"][k].sale = s
      /\ \A k \in DOMAIN sheet["SALES"] :
           sheet["SALES"][k].sale = s => sheet["SALES"][k].version = worker.written
  BY <1>0 DEF SheetInv, Seen
<1>6. ImageOf(worker).sale = s
  BY <1>0 DEF ImageOf, Image
<1>7. worker.written <= worker.written
  BY <1>1 DEF Sale
<1>8. Confirmed'
  <2> SUFFICES ASSUME NEW t \in DOMAIN jobs
               PROVE  /\ \A k \in DOMAIN sheet'["SALES"] :
                           sheet'["SALES"][k].sale = t =>
                             jobs'[t].exported <= sheet'["SALES"][k].version
                      /\ jobs'[t].exported > 0 =>
                           \A tab \in Tabs :
                             \E k \in DOMAIN sheet'[tab] : sheet'[tab][k].sale = t
    BY <1>2 DEF Confirmed
  <2>1. CASE jobs'[t] = jobs[t]
    BY <1>4, <2>1 DEF SheetInv, Confirmed
  <2>2. CASE t = s /\ jobs'[s].exported = worker.written
    <3>1. \A tab \in Tabs : \E k \in DOMAIN sheet'[tab] : sheet'[tab][k].sale = s
      BY <1>4, <1>5, <1>6 DEF Tabs
    <3> QED
      BY <1>4, <1>5, <1>7, <2>2, <3>1
  <2> QED
    BY <1>2, <1>3, <2>1, <2>2
<1>9. Held' /\ Seen'
  BY <1>0 DEF Held, Seen
<1> QED
  BY <1>0, <1>1, <1>2, <1>8, <1>9, WriteKeepsSheet

\* A write lands late: of the only revision, whatever was read in between.
LEMMA LandLateSafe ==
  ASSUME JobsInv, SheetInv, NEW w \in late, LandLate(w)
  PROVE  SheetInv'
<1>1. /\ w.tab \in Tabs /\ w.sale \in DOMAIN jobs /\ w.written \in Sale /\ w.written = 1
      /\ w.matches \subseteq Matches(w.tab, w.sale)
  BY DEF JobsInv, TypeOK, Request, SheetInv, Unanswered, Sale
<1>2. scope.late # 0 /\ scope.voids = 0 /\ \A s \in DOMAIN jobs : version[s] = 1
  BY DEF SheetInv, Scoped
<1>3. jobs[w.sale].exported <= 1
  <2>1. jobs[w.sale] \in Job /\ Agrees(jobs[w.sale], 1)
    BY <1>1, <1>2, RowTypes
  <2> QED
    BY <2>1 DEF Agrees
<1>4. Apply(w) /\ late' = late \ {w} /\ UNCHANGED <<scope, jobs, version, worker>>
  BY DEF LandLate
<1>5. 1 <= version[w.sale]
  BY <1>1, <1>2
<1>6. Confirmed'
  BY <1>1, <1>3, <1>4, <1>5, WriteConfirms DEF SheetInv
<1>7. Held'
  BY <1>4 DEF SheetInv, Held
<1>8. /\ \A tab \in Tabs, s \in DOMAIN jobs : Matches(tab, s) \subseteq Matches(tab, s)'
      /\ \A tab \in Tabs : \A k \in DOMAIN sheet'[tab] :
           \/ tab = w.tab /\ sheet'[tab][k] = ImageOf(w)
           \/ k \in DOMAIN sheet[tab] /\ sheet'[tab][k] = sheet[tab][k]
  BY <1>1, <1>4, <1>5, WriteTidies DEF SheetInv
<1>9. Seen'
  <2> SUFFICES ASSUME worker # Idle PROVE Seen'
    BY <1>4 DEF Seen
  <2>1. /\ worker.tab \in Tabs /\ worker.sale \in DOMAIN jobs /\ worker.written \in Sale
        /\ worker.written <= version[worker.sale]
        /\ worker.at = "WRITE" => worker.matches \subseteq Matches(worker.tab, worker.sale)
    BY InHandKnown
  <2>2. worker.written = 1
    BY <1>2, <2>1 DEF Sale
  <2>3. "SALES" \in Tabs
    BY DEF Tabs
  <2>4. \A k \in DOMAIN sheet'["SALES"] : sheet'["SALES"][k].version = 1
    <3>1. \A k \in DOMAIN sheet["SALES"] : sheet["SALES"][k].version = 1
      BY <1>2, <2>3, OneRevision DEF SheetInv
    <3>2. ImageOf(w).version = 1
      BY <1>1 DEF ImageOf, Image
    <3> QED
      BY <1>8, <2>3, <3>1, <3>2
  <2>5. worker.tab = "ITEMS" => \E k \in DOMAIN sheet'["SALES"] : sheet'["SALES"][k].sale = worker.sale
    BY <1>8, <2>1, <2>3 DEF SheetInv, Seen, Matches
  <2>6. worker.at = "WRITE" => worker.matches \subseteq Matches(worker.tab, worker.sale)'
    <3>1. PICK tab, sale : tab = worker.tab /\ sale = worker.sale
      OBVIOUS
    <3>2. Matches(tab, sale) \subseteq Matches(tab, sale)'
      BY <1>8, <2>1, <3>1
    <3> QED
      BY <1>4, <2>1, <3>1, <3>2
  <2>7. scope'.late # 0 /\ 1 <= 1
    BY <1>2, <1>4
  <2> QED
    BY <1>4, <2>2, <2>4, <2>5, <2>6, <2>7 DEF Seen
<1> QED
  BY <1>1, <1>4, <1>5, <1>6, <1>7, <1>9, WriteKeepsSheet

-------------------------------------------------------------------------------
(* All steps together.                                                         *)

\* It holds at first.
LEMMA ExportInit == ASSUME Separate PROVE Init => ExportInv
<1> SUFFICES ASSUME Init PROVE ExportInv
  OBVIOUS
<1>1. /\ scope.voids = 0 \/ scope.late = 0
      /\ DOMAIN jobs = {} /\ worker = Idle /\ late = {}
      /\ \A tab \in Tabs : DOMAIN sheet[tab] = {}
  BY DEF Separate, Init
<1>2. SheetInv
  BY <1>1 DEF SheetInv, Scoped, Held, Unanswered, Tidy, Confirmed, Seen, Tabs
<1> QED
  BY <1>2, JobsInit DEF ExportInv

\* Every step keeps it.
LEMMA ExportStep == ExportInv /\ [Next]_vars => ExportInv'
<1> SUFFICES ASSUME ExportInv, [Next]_vars PROVE ExportInv'
  OBVIOUS
<1>0. JobsInv /\ SheetInv /\ JobsInv'
  BY JobsStep DEF ExportInv
<1>1. CASE CompleteSale
  BY <1>0, <1>1, CompleteSafe DEF ExportInv
<1>2. ASSUME NEW s \in DOMAIN jobs, VoidSale(s) PROVE ExportInv'
  BY <1>0, <1>2, VoidSafe DEF ExportInv
<1>3. CASE \/ \E s \in DOMAIN jobs : RetryExport(s) \/ BecomeDue(s) \/ BecomeAged(s)
           \/ SwitchIntegration
           \/ Recover
           \/ UNCHANGED vars
  BY <1>0, <1>3, OutsideQuiet DEF ExportInv
<1>4. ASSUME NEW s \in DOMAIN jobs, Claim(s) PROVE ExportInv'
  BY <1>0, <1>4, ClaimSafe DEF ExportInv
<1>5. ASSUME NEW s \in DOMAIN jobs, ReadColumn(s) PROVE ExportInv'
  BY <1>0, <1>5, ReadSafe DEF ExportInv
<1>6. ASSUME NEW s \in DOMAIN jobs, WriteRow(s) PROVE ExportInv'
  <2>1. worker.tab \in {"SALES", "ITEMS"}
    BY <1>0, <1>6, InHandKnown DEF WriteRow, Idle, Tabs
  <2> QED
    BY <1>0, <1>6, <2>1, SalesRowSafe, ItemsRowSafe DEF ExportInv
<1>7. CASE Refused \/ FailedAfterWrite \/ Abandon
  BY <1>0, <1>7, FailingSafe DEF ExportInv
<1>8. ASSUME NEW w \in late, LandLate(w) PROVE ExportInv'
  BY <1>0, <1>8, LandLateSafe DEF ExportInv
<1> QED
  BY <1>1, <1>2, <1>3, <1>4, <1>5, <1>6, <1>7, <1>8 DEF Next, Outside, Work

\* The jobs, the request in hand, the late writes and the rows of the sheet agree
\* (exportWorker.ts): what all that follows rests on.
THEOREM ExportInvariant == ASSUME Separate PROVE Spec => []ExportInv
BY ExportInit, ExportStep, PTL DEF Spec

-------------------------------------------------------------------------------
(* What the sheet shows.                                                       *)

\* The invariant says that EXPORTED is the truth,
LEMMA ShowsCurrent == ExportInv => ExportedIsCurrent
<1> SUFFICES ASSUME ExportInv, NEW s \in DOMAIN jobs, jobs[s].status = "EXPORTED",
                    NEW tab \in Tabs
             PROVE  Rows(tab, s) = {Image(tab, s, version[s])}
  BY DEF ExportedIsCurrent
<1>1. /\ jobs[s].exported = version[s] /\ version[s] \in {1, 2}
      /\ \A k \in DOMAIN sheet[tab] : sheet[tab][k] \in SheetRow
  BY RowTypes DEF ExportInv, Agrees
<1>2. ASSUME NEW k \in DOMAIN sheet[tab], sheet[tab][k].sale = s
      PROVE  sheet[tab][k] = Image(tab, s, version[s])
  <2>1. /\ sheet[tab][k].version \in Nat
        /\ sheet[tab][k] = [sale |-> sheet[tab][k].sale, version |-> sheet[tab][k].version]
    BY <1>1 DEF SheetRow
  <2>2. /\ sheet[tab][k].version <= version[s]
        /\ tab = "ITEMS" => sheet[tab][k].version = 1
        /\ tab = "SALES" => version[s] <= sheet[tab][k].version
    BY <1>1, <1>2 DEF ExportInv, SheetInv, Tidy, Confirmed
  <2>3. sheet[tab][k].version = IF tab = "SALES" THEN version[s] ELSE 1
    BY <1>1, <2>1, <2>2 DEF Tabs
  <2> QED
    BY <1>2, <2>1, <2>3 DEF Image
<1>3. \E k \in DOMAIN sheet[tab] : sheet[tab][k].sale = s
  BY <1>1 DEF ExportInv, SheetInv, Confirmed
<1> QED
  BY <1>2, <1>3 DEF Rows, Matches

\* and that what is confirmed is there.
LEMMA ShowsConfirmed == ExportInv => ConfirmedIsRemote
<1> SUFFICES ASSUME ExportInv, NEW s \in DOMAIN jobs
             PROVE  /\ jobs[s].exported <= jobs[s].target
                    /\ jobs[s].status = "EXPORTED" <=> jobs[s].exported = jobs[s].target
                    /\ \A row \in Rows("SALES", s) : jobs[s].exported <= row.version
                    /\ jobs[s].exported > 0 => \A tab \in Tabs : Rows(tab, s) # {}
  BY DEF ConfirmedIsRemote
<1>1. /\ jobs[s].exported <= jobs[s].target
      /\ jobs[s].status = "EXPORTED" <=> jobs[s].exported = jobs[s].target
  BY RowTypes DEF ExportInv, Agrees
<1>2. \A row \in Rows("SALES", s) : jobs[s].exported <= row.version
  BY DEF ExportInv, SheetInv, Confirmed, Rows, Matches
<1>3. jobs[s].exported > 0 => \A tab \in Tabs : Rows(tab, s) # {}
  BY DEF ExportInv, SheetInv, Confirmed, Rows, Matches
<1> QED
  BY <1>1, <1>2, <1>3

\* What SheetNeverRegresses asks of a step.
Advances ==
  \A tab \in Tabs : \A k \in DOMAIN sheet[tab] :
    /\ sheet'[tab][k].sale = sheet[tab][k].sale
    /\ sheet'[tab][k].version >= sheet[tab][k].version

\* A write that is not behind the rows it overwrites advances them.
LEMMA WriteAdvances ==
  ASSUME JobsInv, Tidy, NEW w, w.tab \in Tabs, w.sale \in DOMAIN jobs, w.written \in Sale,
         w.matches \subseteq Matches(w.tab, w.sale), Apply(w),
         \A k \in DOMAIN sheet["SALES"] :
           sheet["SALES"][k].sale = w.sale => sheet["SALES"][k].version <= w.written
  PROVE  Advances
<1>1. /\ \A tab \in Tabs : tab # w.tab => sheet'[tab] = sheet[tab]
      /\ DOMAIN sheet[w.tab] \subseteq DOMAIN sheet'[w.tab]
      /\ \A k \in DOMAIN sheet'[w.tab] :
           \/ sheet'[w.tab][k] = ImageOf(w)
           \/ /\ k \in DOMAIN sheet[w.tab] /\ k \notin w.matches
              /\ sheet'[w.tab][k] = sheet[w.tab][k]
      /\ \A k \in DOMAIN sheet[w.tab] : sheet'[w.tab][k].sale = sheet[w.tab][k].sale
  BY WrittenRows
<1>2. /\ ImageOf(w).sale = w.sale
      /\ ImageOf(w).version = IF w.tab = "SALES" THEN w.written ELSE 1
  BY DEF ImageOf, Image
<1> HIDE DEF ImageOf
<1> SUFFICES ASSUME NEW tab \in Tabs, NEW k \in DOMAIN sheet[tab]
             PROVE  /\ sheet'[tab][k].sale = sheet[tab][k].sale
                    /\ sheet'[tab][k].version >= sheet[tab][k].version
  BY DEF Advances
<1>3. sheet[tab][k].version \in Nat /\ w.written \in Nat
  BY RowTypes DEF SheetRow, Sale
<1>4. sheet'[tab][k].sale = sheet[tab][k].sale
  BY <1>1
<1>5. CASE sheet'[tab][k] = sheet[tab][k]
  BY <1>3, <1>5
<1>6. CASE tab = w.tab /\ sheet'[tab][k] = ImageOf(w)
  <2>1. CASE tab = "SALES"
    BY <1>2, <1>3, <1>4, <1>6, <2>1
  <2>2. CASE tab = "ITEMS"
    BY <1>2, <1>3, <1>4, <1>6, <2>2 DEF Tidy
  <2> QED
    BY <2>1, <2>2 DEF Tabs
<1> QED
  BY <1>1, <1>5, <1>6

\* No step takes a row back.
LEMMA AdvanceStep == ExportInv /\ [Next]_vars => Advances
<1> SUFFICES ASSUME ExportInv, [Next]_vars PROVE Advances
  OBVIOUS
<1>0. JobsInv /\ SheetInv /\ Tidy
  BY DEF ExportInv, SheetInv
<1>1. ASSUME UNCHANGED sheet PROVE Advances
  <2>1. \A tab \in Tabs : \A k \in DOMAIN sheet[tab] : sheet[tab][k].version \in Nat
    BY <1>0, RowTypes DEF SheetRow
  <2> QED
    BY <1>1, <2>1 DEF Advances
<1>2. ASSUME worker.at = "WRITE", Apply(worker) PROVE Advances
  <2>0. worker # Idle
    BY <1>2 DEF Idle
  <2>1. /\ worker.tab \in Tabs /\ worker.sale \in DOMAIN jobs /\ worker.written \in Sale
        /\ worker.matches \subseteq Matches(worker.tab, worker.sale)
    BY <1>0, <1>2, <2>0, InHandKnown
  <2>2. \A k \in DOMAIN sheet["SALES"] :
          sheet["SALES"][k].sale = worker.sale => sheet["SALES"][k].version <= worker.written
    BY <1>0, <2>0 DEF SheetInv, Seen
  <2> QED
    BY <1>0, <1>2, <2>1, <2>2, WriteAdvances
<1>3. ASSUME NEW w \in late, LandLate(w) PROVE Advances
  <2>1. /\ w.tab \in Tabs /\ w.sale \in DOMAIN jobs /\ w.written \in Sale /\ w.written = 1
        /\ w.matches \subseteq Matches(w.tab, w.sale)
    BY <1>0 DEF JobsInv, TypeOK, Request, SheetInv, Unanswered, Sale
  <2>2. version[w.sale] = 1
    BY <1>0, <2>1 DEF SheetInv, Scoped
  <2>3. \A k \in DOMAIN sheet["SALES"] :
          sheet["SALES"][k].sale = w.sale => sheet["SALES"][k].version <= w.written
    BY <1>0, <2>1, <2>2 DEF Tidy, Tabs
  <2>4. Apply(w)
    BY <1>3 DEF LandLate
  <2> QED
    BY <1>0, <2>1, <2>3, <2>4, WriteAdvances
<1>4. \/ UNCHANGED sheet
      \/ worker.at = "WRITE" /\ Apply(worker)
      \/ \E w \in late : LandLate(w)
  BY DEF Next, Outside, Work, vars, CompleteSale, VoidSale, RetryExport, BecomeDue, BecomeAged,
         SwitchIntegration, Recover, Claim, ReadColumn, WriteRow, Refused, FailedAfterWrite,
         Abandon, Sent
<1> QED
  BY <1>1, <1>2, <1>3, <1>4

\* A job that says EXPORTED tells the truth of both worksheets (exportWorker.ts,
\* exportJobRepository.ts), whatever was refused, abandoned or retried.
THEOREM ExportedTrue == ASSUME Separate PROVE Spec => []ExportedIsCurrent
BY ExportInvariant, ShowsCurrent, PTL

\* exported_sync_version is a revision the sheet has, and the status says whether
\* the job is behind its target (exportJobRepository.ts).
THEOREM ConfirmedTrue == ASSUME Separate PROVE Spec => []ConfirmedIsRemote
BY ExportInvariant, ShowsConfirmed, PTL

\* A row never goes back to an earlier revision, nor to another sale
\* (exportUpsert.ts, exportWorker.ts).
THEOREM SheetAdvances == ASSUME Separate PROVE Spec => SheetNeverRegresses
<1>1. ExportInv /\ [Next]_vars =>
        [\A tab \in Tabs : \A k \in DOMAIN sheet[tab] :
           /\ sheet'[tab][k].sale = sheet[tab][k].sale
           /\ sheet'[tab][k].version >= sheet[tab][k].version]_vars
  BY AdvanceStep DEF Advances
<1> QED
  BY <1>1, ExportInit, ExportStep, PTL DEF Spec, SheetNeverRegresses
===============================================================================
