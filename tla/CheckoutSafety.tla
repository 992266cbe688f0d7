---------------------------- MODULE CheckoutSafety ----------------------------
(* The safety properties of Checkout that its runs check, proved for any       *)
(* number of requests, products, carts, prices and tax rates.                  *)
EXTENDS CheckoutProofs

USE DEF Idle

\* The inductive invariant of CheckoutProofs, for the steps below to rest on.
LEMMA TypeInvariant == Spec => []TypeInv
BY InitType, StepType, PTL DEF Spec

-------------------------------------------------------------------------------
(* Only a commit and a void write sales, the receipt counter and the jobs.     *)

\* No other step touches the sales, the counter or the jobs.
LEMMA SalesSteps ==
  ASSUME [Next]_vars
  PROVE  \/ CommitSale
         \/ \E s \in DOMAIN sales : VoidSale(s)
         \/ UNCHANGED <<sales, receipts, jobs>>
<1>1. CASE Cash
  BY <1>1 DEF Cash, SubmitCash, RetryCash
<1>2. CASE Card
  <2>1. ASSUME NEW r \in Requests, NEW c \in Carts,
               \/ BeginCard(r, c) \/ ConfirmApproval(r, c)
               \/ ConfirmApprovalFails(r, c) \/ RetryCard(r, c)
        PROVE  UNCHANGED <<sales, receipts, jobs>>
    BY <2>1 DEF BeginCard, ConfirmApproval, ConfirmApprovalFails, RetryCard
  <2>2. ASSUME NEW r \in Requests,
               CloverCharges(r) \/ DeclineCard(r) \/ BecomeStale(r) \/ Resolve(r)
        PROVE  UNCHANGED <<sales, receipts, jobs>>
    BY <2>2 DEF CloverCharges, DeclineCard, BecomeStale, Resolve
  <2> QED
    BY <1>2, <2>1, <2>2 DEF Card
<1>3. CASE Handler
  BY <1>3 DEF Handler, Phase2Fails, RecordCommitFailed, RecordCommitFailedLost,
              RecordFailureAudit
<1>4. CASE Crash
  BY <1>4 DEF Crash
<1>5. CASE BackOffice
  BY <1>5 DEF BackOffice, CreateProduct, UpdateProduct, ArchiveProduct, AdjustStock,
              UpdateTaxRate, UpdateBusinessConfig
<1>6. CASE UNCHANGED vars
  BY <1>6 DEF vars
<1> QED
  BY <1>1, <1>2, <1>3, <1>4, <1>5, <1>6 DEF Next

\* What a commit and a void do to the list of sales.
LEMMA CommitSales ==
  ASSUME TypeInv, CommitSale
  PROVE  /\ Len(sales') = Len(sales) + 1
         /\ DOMAIN sales' = DOMAIN sales \cup {Len(sales) + 1}
         /\ Len(sales) + 1 \notin DOMAIN sales
         /\ \A s \in DOMAIN sales : sales'[s] = sales[s]
         /\ sales'[Len(sales) + 1] = NewSale(op.request, op.cart)
<1> DEFINE new == NewSale(op.request, op.cart)
<1>1. sales' = Append(sales, new)
  BY DEF CommitSale
<1>2. sales \in Seq(Sale)
  BY DEF TypeInv, TypeOK
<1>3. new \in Sale
  BY NextStage, SaleType DEF TypeInv, CommitSale, Phase2Accepts
<1> HIDE DEF new
<1>4. Len(sales') = Len(sales) + 1 /\ DOMAIN sales = 1..Len(sales) /\ Len(sales) \in Nat
  BY <1>1, <1>2, <1>3
<1>5. DOMAIN sales' = 1..(Len(sales) + 1)
  BY <1>1, <1>2, <1>3
<1>6. sales'[Len(sales) + 1] = new
  BY <1>1, <1>2, <1>3
<1>7. \A s \in DOMAIN sales : sales'[s] = sales[s]
  BY <1>1, <1>2, <1>3
<1> QED
  BY <1>4, <1>5, <1>6, <1>7 DEF new

\* A void changes the status and the revision of one sale and nothing else of it.
LEMMA VoidSales ==
  ASSUME TypeInv, NEW v \in DOMAIN sales, VoidSale(v)
  PROVE  /\ Len(sales') = Len(sales)
         /\ DOMAIN sales' = DOMAIN sales
         /\ \A s \in DOMAIN sales :
              /\ s # v => sales'[s] = sales[s]
              /\ sales'[s].request = sales[s].request
              /\ sales'[s].fingerprint = sales[s].fingerprint
              /\ sales'[s].method = sales[s].method
              /\ sales'[s].total = sales[s].total
              /\ sales'[s].receipt = sales[s].receipt
         /\ sales'[v].version = sales[v].version + 1
<1>1. sales \in Seq(Sale)
  BY DEF TypeInv, TypeOK
<1>2. sales' = [sales EXCEPT ![v].status = "VOIDED", ![v].version = @ + 1]
  BY DEF VoidSale
<1>3. \A s \in DOMAIN sales : sales[s] \in Sale
  BY <1>1
<1>4. sales'[v] = [sales[v] EXCEPT !.status = "VOIDED", !.version = sales[v].version + 1]
  BY <1>1, <1>2
<1>5. \A s \in DOMAIN sales : s # v => sales'[s] = sales[s]
  BY <1>1, <1>2
<1>6. Len(sales') = Len(sales) /\ DOMAIN sales' = DOMAIN sales
  BY <1>1, <1>2
<1>7. /\ sales'[v].request = sales[v].request
      /\ sales'[v].fingerprint = sales[v].fingerprint
      /\ sales'[v].method = sales[v].method
      /\ sales'[v].total = sales[v].total
      /\ sales'[v].receipt = sales[v].receipt
      /\ sales'[v].version = sales[v].version + 1
  BY <1>3, <1>4 DEF Sale
<1> QED
  BY <1>5, <1>6, <1>7

-------------------------------------------------------------------------------

\* A receipt number is never given twice and never lost to a sale that rolls back.
THEOREM ReceiptsSequential == Spec => []ReceiptsInSequence
<1>1. Init => ReceiptsInSequence
  BY DEF Init, ReceiptsInSequence
<1>2. TypeInv /\ ReceiptsInSequence /\ [Next]_vars => ReceiptsInSequence'
  <2> SUFFICES ASSUME TypeInv, ReceiptsInSequence, [Next]_vars
               PROVE  ReceiptsInSequence'
    OBVIOUS
  <2>1. CASE CommitSale
    <3>1. receipts' = receipts + 1 /\ receipts = Len(sales)
      BY <2>1 DEF CommitSale, ReceiptsInSequence
    <3>2. NewSale(op.request, op.cart).receipt = receipts + 1
      BY DEF NewSale
    <3> QED
      BY <2>1, <3>1, <3>2, CommitSales DEF ReceiptsInSequence
  <2>2. ASSUME NEW v \in DOMAIN sales, VoidSale(v)
        PROVE  ReceiptsInSequence'
    BY <2>2, VoidSales DEF VoidSale, ReceiptsInSequence
  <2>3. CASE UNCHANGED <<sales, receipts, jobs>>
    BY <2>3 DEF ReceiptsInSequence
  <2> QED
    BY <2>1, <2>2, <2>3, SalesSteps
<1> QED
  BY <1>1, <1>2, TypeInvariant, PTL DEF Spec

\* The export job of every sale aims at the sale's current revision, so the
\* worker never finds a job it cannot serve.
THEOREM JobsAim == Spec => []JobsAimAtSales
<1>1. Init => JobsAimAtSales
  BY DEF Init, JobsAimAtSales
<1>2. TypeInv /\ JobsAimAtSales /\ [Next]_vars => JobsAimAtSales'
  <2> SUFFICES ASSUME TypeInv, JobsAimAtSales, [Next]_vars
               PROVE  JobsAimAtSales'
    OBVIOUS
  <2>1. jobs \in Seq(Job) /\ sales \in Seq(Sale) /\ DOMAIN jobs = DOMAIN sales
    BY DEF TypeInv, TypeOK, JobsAimAtSales
  <2>2. CASE CommitSale
    <3>1. jobs' = Append(jobs, NewJob)
      BY <2>2 DEF CommitSale
    <3>2. NewJob \in Job /\ NewJob.target = 1
      BY DEF NewJob, Job, JobStatus
    <3>3. Len(jobs) = Len(sales)
      BY <2>1
    <3>4. /\ DOMAIN jobs' = DOMAIN jobs \cup {Len(sales) + 1}
          /\ jobs'[Len(sales) + 1] = NewJob
          /\ \A s \in DOMAIN jobs : jobs'[s] = jobs[s]
      BY <2>1, <3>1, <3>2, <3>3
    <3>5. NewSale(op.request, op.cart).version = 1
      BY DEF NewSale
    <3> QED
      BY <2>1, <2>2, <3>2, <3>4, <3>5, CommitSales DEF JobsAimAtSales
  <2>3. ASSUME NEW v \in DOMAIN sales, VoidSale(v)
        PROVE  JobsAimAtSales'
    <3> DEFINE version == sales[v].version + 1
    <3>1. jobs' = [jobs EXCEPT ![v] = RequeueForVoid(jobs[v], version)]
      BY <2>3 DEF VoidSale
    <3>2. sales'[v].version = version
      BY <2>3, VoidSales
    <3> HIDE DEF version
    <3>3. jobs[v] \in Job
      BY <2>1
    <3>4. RequeueForVoid(jobs[v], version).target = version
      BY <3>3 DEF RequeueForVoid, Job
    <3>5. /\ DOMAIN jobs' = DOMAIN jobs
          /\ jobs'[v].target = version
          /\ \A s \in DOMAIN jobs : s # v => jobs'[s] = jobs[s]
      BY <2>1, <3>1, <3>4
    <3> QED
      BY <2>1, <2>3, <3>2, <3>5, VoidSales DEF JobsAimAtSales
  <2>4. CASE UNCHANGED <<sales, receipts, jobs>>
    BY <2>4 DEF JobsAimAtSales
  <2> QED
    BY <2>2, <2>3, <2>4, SalesSteps
<1> QED
  BY <1>1, <1>2, TypeInvariant, PTL DEF Spec

-------------------------------------------------------------------------------
(* Payments.  The handler in flight never holds a declined request, and holds  *)
(* a Card request only if the terminal charged it; a row that still waits for  *)
(* its payment is a Card row.  With that, what is on record of a charge stays  *)
(* on record.                                                                  *)

InFlightPaid ==
  op # Idle =>
    /\ ~Declined(rows[op.request])
    /\ rows[op.request].method = "CARD" => op.request \in DOMAIN clover
    /\ op.at # "AUDIT" => rows[op.request].status # "PENDING_PAYMENT"

AwaitsCard ==
  \A r \in DOMAIN rows :
    /\ rows[r].status = "PENDING_PAYMENT" =>
         rows[r].method = "CARD" /\ ~Declined(rows[r])
    /\ Declined(rows[r]) => rows[r].method = "CARD" /\ rows[r].status = "COMMIT_FAILED"

PaymentInv == TypeInv /\ InFlightPaid /\ AwaitsCard /\ ChargeOnRecord

\* A Cash request keeps the payment invariant and every row before it: a new id
\* is no charged id, and a retry writes nothing yet.
LEMMA CashPaid ==
  ASSUME PaymentInv, NEW r \in Requests, NEW c \in Carts,
         RetryCash(r, c) \/ \E fp \in Reviews(c) : SubmitCash(r, c, fp)
  PROVE  /\ InFlightPaid' /\ AwaitsCard' /\ ChargeOnRecord'
         /\ \A q \in DOMAIN rows : Kept(q)
<1> USE DEF PaymentInv, TypeInv
<1>1. CASE RetryCash(r, c)
  <2>1. op' # Idle /\ op'.request = r /\ op'.at = "PHASE2"
    BY <1>1 DEF RetryCash, Phase2
  <2> QED
    BY <1>1, <2>1 DEF RetryCash, InFlightPaid, AwaitsCard, ChargeOnRecord, Kept,
                      Eligible, Declined
<1>2. ASSUME NEW fp \in Reviews(c), SubmitCash(r, c, fp)
      PROVE  /\ InFlightPaid' /\ AwaitsCard' /\ ChargeOnRecord'
             /\ \A q \in DOMAIN rows : Kept(q)
  <2> DEFINE row == NewRow(fp, c, "SUBMITTED")
  <2>1. row.method = "CASH" /\ row.status = "SUBMITTED" /\ row.failure = "NONE"
    BY <1>2 DEF SubmitCash, NewRow
  <2>2. rows' = Extend(rows, r, row) /\ r \notin DOMAIN rows
    BY <1>2 DEF SubmitCash
  <2> HIDE DEF row
  <2>3. /\ DOMAIN rows' = DOMAIN rows \cup {r}
        /\ rows'[r] = row
        /\ \A q \in DOMAIN rows : rows'[q] = rows[q]
    BY <2>2 DEF Extend
  <2>4. op' # Idle /\ op'.request = r /\ op'.at = "PHASE2"
    BY <1>2 DEF SubmitCash, Phase2
  <2>5. InFlightPaid'
    BY <2>1, <2>3, <2>4 DEF InFlightPaid, Declined
  <2>6. AwaitsCard'
    BY <2>1, <2>3 DEF AwaitsCard, Declined
  <2>7. ChargeOnRecord' /\ \A q \in DOMAIN rows : Kept(q)
    BY <1>2, <2>3, <2>2 DEF SubmitCash, ChargeOnRecord, Kept, TypeOK
  <2> QED
    BY <2>5, <2>6, <2>7
<1> QED
  BY <1>1, <1>2

\* One row is updated and keeps its evidence: what that takes.
LEMMA RowReplaced ==
  ASSUME TypeInv, NEW r \in DOMAIN rows, NEW row \in Row, rows' = [rows EXCEPT ![r] = row],
         row.fingerprint = rows[r].fingerprint,
         row.method = rows[r].method,
         row.intended = rows[r].intended,
         rows[r].approved => row.approved,
         rows[r].status # "COMPLETED",
         ~Declined(rows[r])
  PROVE  /\ DOMAIN rows' = DOMAIN rows
         /\ rows'[r] = row
         /\ \A q \in DOMAIN rows : q # r => rows'[q] = rows[q]
         /\ \A q \in DOMAIN rows : Kept(q)
<1>1. /\ DOMAIN rows' = DOMAIN rows
      /\ rows'[r] = row
      /\ \A q \in DOMAIN rows : q # r => rows'[q] = rows[q]
  BY DEF TypeInv, TypeOK
<1> QED
  BY <1>1 DEF Kept

\* So does every step of a Card attempt before Phase 2: only an undecided row is
\* written, and only a row without a charge is declined.
LEMMA CardPaid ==
  ASSUME PaymentInv, NEW r \in Requests,
         \/ CloverCharges(r) \/ DeclineCard(r) \/ BecomeStale(r) \/ Resolve(r)
         \/ \E c \in Carts : \/ BeginCard(r, c) \/ ConfirmApproval(r, c)
                             \/ ConfirmApprovalFails(r, c) \/ RetryCard(r, c)
  PROVE  /\ InFlightPaid' /\ AwaitsCard' /\ ChargeOnRecord'
         /\ \A q \in DOMAIN rows : Kept(q)
<1> USE DEF PaymentInv
<1>1. /\ r \in DOMAIN rows => rows[r] \in Row
      /\ DOMAIN clover \subseteq DOMAIN rows
      /\ op # Idle => op.request \in DOMAIN rows
  BY DEF TypeInv, TypeOK
<1>2. ASSUME NEW c \in Carts, BeginCard(r, c)
      PROVE  /\ InFlightPaid' /\ AwaitsCard' /\ ChargeOnRecord'
             /\ \A q \in DOMAIN rows : Kept(q)
  <2> DEFINE row == NewRow(CurrentFingerprint(c), c, "PENDING_PAYMENT")
  <2>1. row.method = "CARD" /\ row.status = "PENDING_PAYMENT" /\ row.failure = "NONE"
    BY <1>2 DEF BeginCard, NewRow
  <2>2. rows' = Extend(rows, r, row) /\ r \notin DOMAIN rows
    BY <1>2 DEF BeginCard
  <2> HIDE DEF row
  <2>3. /\ DOMAIN rows' = DOMAIN rows \cup {r}
        /\ rows'[r] = row
        /\ \A q \in DOMAIN rows : rows'[q] = rows[q]
    BY <2>2 DEF Extend
  <2>4. InFlightPaid'
    BY <1>2 DEF BeginCard, InFlightPaid
  <2>5. AwaitsCard'
    BY <2>1, <2>3 DEF AwaitsCard, Declined
  <2>6. ChargeOnRecord' /\ \A q \in DOMAIN rows : Kept(q)
    BY <1>2, <2>3, <2>2 DEF BeginCard, ChargeOnRecord, Kept, TypeInv, TypeOK
  <2> QED
    BY <2>4, <2>5, <2>6
<1>3. CASE CloverCharges(r)
  <2>1. /\ DOMAIN clover' = DOMAIN clover \cup {r}
        /\ clover'[r] = rows[r].intended
        /\ \A q \in DOMAIN clover : clover'[q] = clover[q]
    BY <1>3 DEF CloverCharges, Extend
  <2> QED
    BY <1>3, <2>1 DEF CloverCharges, InFlightPaid, AwaitsCard, ChargeOnRecord, Kept, Declined
<1>4. ASSUME NEW c \in Carts, ConfirmApproval(r, c)
      PROVE  /\ InFlightPaid' /\ AwaitsCard' /\ ChargeOnRecord'
             /\ \A q \in DOMAIN rows : Kept(q)
  <2> DEFINE row == [rows[r] EXCEPT !.status = "SUBMITTED", !.approved = TRUE]
  <2>1. /\ r \in DOMAIN rows
        /\ rows[r].status = "PENDING_PAYMENT"
        /\ ~Declined(rows[r])
        /\ r \in DOMAIN clover
        /\ UNCHANGED clover
    BY <1>4 DEF ConfirmApproval, MayCompleteCard, AwaitsCard
  <2>2. rows' = [rows EXCEPT ![r] = row]
    BY <1>4 DEF ConfirmApproval
  <2>3. /\ row \in Row
        /\ row.status = "SUBMITTED" /\ row.approved
        /\ row.failure = rows[r].failure
        /\ row.fingerprint = rows[r].fingerprint
        /\ row.method = rows[r].method
        /\ row.intended = rows[r].intended
    BY <1>1, <2>1 DEF Row, RowStatus
  <2> HIDE DEF row
  <2>4. /\ DOMAIN rows' = DOMAIN rows
        /\ rows'[r] = row
        /\ \A q \in DOMAIN rows : q # r => rows'[q] = rows[q]
        /\ \A q \in DOMAIN rows : Kept(q)
    BY <2>1, <2>2, <2>3, RowReplaced
  <2>5. op' # Idle /\ op'.request = r /\ op'.at = "PHASE2"
    BY <1>4 DEF ConfirmApproval, Phase2
  <2>6. InFlightPaid'
    BY <2>1, <2>3, <2>4, <2>5 DEF InFlightPaid, Declined
  <2>7. AwaitsCard'
    BY <2>1, <2>3, <2>4 DEF AwaitsCard, Declined
  <2>8. ChargeOnRecord'
    BY <1>1, <2>1, <2>3, <2>4 DEF ChargeOnRecord, Declined
  <2> QED
    BY <2>4, <2>6, <2>7, <2>8
<1>5. ASSUME NEW c \in Carts, ConfirmApprovalFails(r, c) \/ RetryCard(r, c)
      PROVE  /\ InFlightPaid' /\ AwaitsCard' /\ ChargeOnRecord'
             /\ \A q \in DOMAIN rows : Kept(q)
  <2>1. /\ r \in DOMAIN rows /\ r \in DOMAIN clover
        /\ UNCHANGED <<rows, clover>>
        /\ op' # Idle /\ op'.request = r
        /\ ~Declined(rows[r])
        /\ op'.at # "AUDIT" => rows[r].status # "PENDING_PAYMENT"
    <3>1. CASE ConfirmApprovalFails(r, c)
      BY <3>1 DEF ConfirmApprovalFails, MayCompleteCard, Phase2, AwaitsCard
    <3>2. CASE RetryCard(r, c)
      BY <3>2 DEF RetryCard, MayCompleteCard, Phase2, Eligible, Declined
    <3> QED
      BY <1>5, <3>1, <3>2
  <2> QED
    BY <2>1 DEF InFlightPaid, AwaitsCard, ChargeOnRecord, Kept, Declined
<1>6. CASE DeclineCard(r)
  <2> DEFINE row == [rows[r] EXCEPT !.status = "COMMIT_FAILED", !.failure = "CLOVER_DECLINED"]
  <2>1. /\ r \in DOMAIN rows /\ r \notin DOMAIN clover
        /\ rows[r].status = "PENDING_PAYMENT" /\ rows[r].method = "CARD"
        /\ ~Declined(rows[r])
        /\ op = Idle /\ UNCHANGED <<op, clover>>
    BY <1>6 DEF DeclineCard, AwaitsCard
  <2>2. rows' = [rows EXCEPT ![r] = row]
    BY <1>6 DEF DeclineCard
  <2>3. /\ row \in Row
        /\ row.status = "COMMIT_FAILED"
        /\ row.approved = rows[r].approved
        /\ row.fingerprint = rows[r].fingerprint
        /\ row.method = rows[r].method
        /\ row.intended = rows[r].intended
    BY <1>1, <2>1 DEF Row, RowStatus, FailureCode
  <2> HIDE DEF row
  <2>4. /\ DOMAIN rows' = DOMAIN rows
        /\ rows'[r] = row
        /\ \A q \in DOMAIN rows : q # r => rows'[q] = rows[q]
        /\ \A q \in DOMAIN rows : Kept(q)
    BY <2>1, <2>2, <2>3, RowReplaced
  <2>5. InFlightPaid'
    BY <2>1 DEF InFlightPaid
  <2>6. AwaitsCard'
    BY <2>1, <2>3, <2>4 DEF AwaitsCard, Declined
  <2>7. ChargeOnRecord'
    BY <1>1, <2>1, <2>4 DEF ChargeOnRecord
  <2> QED
    BY <2>4, <2>5, <2>6, <2>7
<1>7. CASE BecomeStale(r) \/ Resolve(r)
  <2>1. /\ r \in DOMAIN rows
        /\ UNCHANGED <<op, clover>>
        /\ DOMAIN rows' = DOMAIN rows
        /\ \A q \in DOMAIN rows :
             /\ rows'[q].fingerprint = rows[q].fingerprint
             /\ rows'[q].method = rows[q].method
             /\ rows'[q].intended = rows[q].intended
             /\ rows'[q].approved = rows[q].approved
             /\ rows'[q].status = rows[q].status
             /\ rows'[q].failure = rows[q].failure
             /\ rows'[q].sale = rows[q].sale
    <3> DEFINE row == IF BecomeStale(r) THEN [rows[r] EXCEPT !.stale = TRUE]
                      ELSE [rows[r] EXCEPT !.resolution = "BY_HAND"]
    <3>1. r \in DOMAIN rows /\ UNCHANGED <<op, clover>> /\ rows' = [rows EXCEPT ![r] = row]
      BY <1>7 DEF BecomeStale, Resolve
    <3>2. /\ row.fingerprint = rows[r].fingerprint
          /\ row.method = rows[r].method
          /\ row.intended = rows[r].intended
          /\ row.approved = rows[r].approved
          /\ row.status = rows[r].status
          /\ row.failure = rows[r].failure
          /\ row.sale = rows[r].sale
      BY <1>1, <3>1 DEF Row
    <3> HIDE DEF row
    <3> QED
      BY <3>1, <3>2 DEF TypeInv, TypeOK
  <2>2. InFlightPaid'
    BY <1>1, <2>1 DEF InFlightPaid, Declined
  <2>3. AwaitsCard' /\ ChargeOnRecord'
    BY <1>1, <2>1 DEF AwaitsCard, ChargeOnRecord, Declined
  <2> QED
    BY <2>1, <2>2, <2>3 DEF Kept, Declined
<1> QED
  BY <1>2, <1>3, <1>4, <1>5, <1>6, <1>7

\* The row of a commit.
LEMMA CommittedRow ==
  ASSUME PaymentInv, CommitSale
  PROVE  LET r == op.request
             row == MarkCompleted(rows[r], Len(sales) + 1)
         IN /\ r \in DOMAIN rows /\ r \in Requests
            /\ rows[r].status \in Eligible
            /\ ~Declined(rows[r])
            /\ rows' = [rows EXCEPT ![r] = row]
            /\ row \in Row
            /\ row.fingerprint = rows[r].fingerprint
            /\ row.method = rows[r].method
            /\ row.intended = rows[r].intended
            /\ row.approved = rows[r].approved
            /\ row.status = "COMPLETED"
            /\ row.failure = "NONE"
            /\ row.sale = Len(sales) + 1
<1> DEFINE r == op.request
           sale == Len(sales) + 1
<1>1. op # Idle /\ r \in DOMAIN rows /\ r \in Requests /\ rows[r] \in Row
  BY NextStage DEF PaymentInv, TypeInv, CommitSale
<1>2. rows[r].status \in Eligible /\ ~Declined(rows[r])
  BY <1>1 DEF CommitSale, Phase2Accepts, PaymentInv, InFlightPaid
<1>3. sale \in Nat
  BY DEF PaymentInv, TypeInv, TypeOK
<1>4. rows' = [rows EXCEPT ![r] = MarkCompleted(rows[r], sale)]
  BY DEF CommitSale
<1> HIDE DEF sale
<1>5. /\ MarkCompleted(rows[r], sale) \in Row
      /\ MarkCompleted(rows[r], sale).fingerprint = rows[r].fingerprint
      /\ MarkCompleted(rows[r], sale).method = rows[r].method
      /\ MarkCompleted(rows[r], sale).intended = rows[r].intended
      /\ MarkCompleted(rows[r], sale).approved = rows[r].approved
      /\ MarkCompleted(rows[r], sale).status = "COMPLETED"
      /\ MarkCompleted(rows[r], sale).failure = "NONE"
      /\ MarkCompleted(rows[r], sale).sale = sale
  BY <1>1, <1>3 DEF MarkCompleted, Resolution, Row, RowStatus, FailureCode
<1> QED
  BY <1>1, <1>2, <1>4, <1>5 DEF sale

\* So does every transaction of a handler in flight: it writes only a row that is
\* eligible, and a Card row in flight carries its approval.
LEMMA HandlerPaid ==
  ASSUME PaymentInv, Handler
  PROVE  /\ InFlightPaid' /\ AwaitsCard' /\ ChargeOnRecord'
         /\ \A q \in DOMAIN rows : Kept(q)
<1>1. /\ op # Idle => op.request \in DOMAIN rows
      /\ DOMAIN clover \subseteq DOMAIN rows
      /\ PaymentInv
  BY DEF PaymentInv, TypeInv, TypeOK
<1>2. CASE CommitSale
  <2> DEFINE r == op.request
             row == MarkCompleted(rows[r], Len(sales) + 1)
  <2>1. /\ r \in DOMAIN rows
        /\ rows[r].status \in Eligible
        /\ ~Declined(rows[r])
        /\ rows' = [rows EXCEPT ![r] = row]
        /\ row \in Row
        /\ row.fingerprint = rows[r].fingerprint
        /\ row.method = rows[r].method
        /\ row.intended = rows[r].intended
        /\ row.approved = rows[r].approved
        /\ row.status = "COMPLETED"
        /\ row.failure = "NONE"
    BY <1>2, CommittedRow
  <2> HIDE DEF r, row
  <2>2. /\ DOMAIN rows' = DOMAIN rows
        /\ rows'[r] = row
        /\ \A q \in DOMAIN rows : q # r => rows'[q] = rows[q]
        /\ \A q \in DOMAIN rows : Kept(q)
    BY <1>1, <2>1, RowReplaced DEF PaymentInv, Eligible
  <2>3. /\ UNCHANGED clover
        /\ op # Idle
        /\ op' # Idle => op'.request = r
    BY <1>2, NextStage DEF PaymentInv, TypeInv, CommitSale, FailureCode, r
  <2>4. AwaitsCard'
    BY <1>1, <2>1, <2>2 DEF PaymentInv, AwaitsCard, Declined
  <2>5. ChargeOnRecord'
    BY <1>1, <2>1, <2>2, <2>3 DEF PaymentInv, ChargeOnRecord, Eligible
  <2>6. InFlightPaid'
    BY <2>1, <2>2, <2>3 DEF PaymentInv, InFlightPaid, Declined, r
  <2> QED
    BY <2>2, <2>4, <2>5, <2>6
<1>3. ASSUME op.at = "RECORD", AfterRecord
      PROVE  op # Idle /\ (op' # Idle => op'.request = op.request /\ op'.at = "AUDIT")
  <2>1. op \in InFlight
    BY <1>1, <1>3 DEF PaymentInv, TypeInv, TypeOK
  <2> QED
    BY <1>3, <2>1 DEF AfterRecord, InFlight
<1>4. CASE Phase2Fails \/ RecordCommitFailedLost \/ RecordFailureAudit
  <2>1. UNCHANGED <<rows, clover>>
    BY <1>4 DEF Phase2Fails, RecordCommitFailedLost, RecordFailureAudit
  <2>2. op' # Idle => /\ op # Idle /\ op'.request = op.request
                      /\ op'.at # "AUDIT" => op.at # "AUDIT"
    <3>1. CASE Phase2Fails
      <4>1. op \in InFlight /\ op # Idle /\ op.at # "AUDIT"
        BY <1>1, <3>1 DEF PaymentInv, TypeInv, TypeOK, Phase2Fails
      <4> QED
        BY <3>1, <4>1 DEF Phase2Fails, InFlight
    <3>2. CASE RecordCommitFailedLost
      BY <1>3, <3>2 DEF RecordCommitFailedLost
    <3>3. CASE RecordFailureAudit
      BY <3>3 DEF RecordFailureAudit
    <3> QED
      BY <1>4, <3>1, <3>2, <3>3
  <2>3. InFlightPaid'
    BY <1>1, <2>1, <2>2 DEF PaymentInv, InFlightPaid, Declined
  <2> QED
    BY <1>1, <2>1, <2>3 DEF PaymentInv, AwaitsCard, ChargeOnRecord, Kept, Declined
<1>5. CASE RecordCommitFailed
  <2> DEFINE r == op.request
             row == MarkCommitFailed(rows[r], op.code)
  <2>1. /\ op # Idle
        /\ r \in DOMAIN rows
        /\ rows[r] \in Row
        /\ op.code \in FailureCode \ {"CLOVER_DECLINED"}
        /\ ~Declined(rows[r])
    BY <1>1, <1>5, NextStage DEF PaymentInv, TypeInv, RecordCommitFailed, InFlightPaid
  <2>2. UNCHANGED clover /\ rows' = [rows EXCEPT ![r] = row]
    BY <1>5 DEF RecordCommitFailed
  <2>3. op' # Idle => op'.request = r /\ op'.at = "AUDIT"
    BY <1>3, <1>5 DEF RecordCommitFailed
  <2>4. /\ row.fingerprint = rows[r].fingerprint
        /\ row.method = rows[r].method
        /\ row.intended = rows[r].intended
        /\ row.approved = rows[r].approved
        /\ row.sale = rows[r].sale
        /\ row.failure # "CLOVER_DECLINED"
        /\ \/ row.status = "COMMIT_FAILED" /\ rows[r].status \in Eligible
           \/ row = rows[r]
    BY <2>1 DEF MarkCommitFailed, Row, Declined
  <2> HIDE DEF row
  <2>5. /\ DOMAIN rows' = DOMAIN rows
        /\ rows'[r] = row
        /\ \A q \in DOMAIN rows : q # r => rows'[q] = rows[q]
    BY <2>1, <2>2 DEF PaymentInv, TypeInv, TypeOK
  <2> HIDE DEF r
  <2>6. InFlightPaid'
    BY <1>1, <2>1, <2>2, <2>3, <2>4, <2>5 DEF PaymentInv, InFlightPaid, Declined, r
  <2>7. AwaitsCard'
    BY <1>1, <2>1, <2>4, <2>5 DEF PaymentInv, AwaitsCard, Declined
  <2>8. ChargeOnRecord'
    BY <1>1, <2>2, <2>4, <2>5 DEF PaymentInv, ChargeOnRecord, Eligible
  <2>9. \A q \in DOMAIN rows : Kept(q)
    BY <2>1, <2>4, <2>5 DEF Kept, Eligible
  <2> QED
    BY <2>6, <2>7, <2>8, <2>9
<1> QED
  BY <1>2, <1>4, <1>5 DEF Handler

\* The inductive step of the payment invariant; every row keeps its evidence.
LEMMA PaymentStep ==
  ASSUME PaymentInv, [Next]_vars
  PROVE  PaymentInv' /\ \A q \in DOMAIN rows : Kept(q)
<1>1. TypeInv'
  BY StepType DEF PaymentInv
<1>2. CASE Cash
  BY <1>1, <1>2, CashPaid DEF Cash, PaymentInv
<1>3. CASE Card
  BY <1>1, <1>3, CardPaid DEF Card, PaymentInv
<1>4. CASE Handler
  BY <1>1, <1>4, HandlerPaid DEF PaymentInv
<1>5. ASSUME UNCHANGED <<rows, clover>>, op' = Idle \/ UNCHANGED op
      PROVE  PaymentInv' /\ \A q \in DOMAIN rows : Kept(q)
  <2>1. InFlightPaid' /\ AwaitsCard' /\ ChargeOnRecord'
    BY <1>5 DEF PaymentInv, InFlightPaid, AwaitsCard, ChargeOnRecord, Declined
  <2> QED
    BY <1>1, <1>5, <2>1 DEF PaymentInv, Kept
<1>6. CASE Crash
  BY <1>5, <1>6 DEF Crash
<1>7. CASE BackOffice
  <2>1. UNCHANGED <<rows, clover, op>>
    BY <1>7 DEF BackOffice, VoidSale, CreateProduct, UpdateProduct, ArchiveProduct,
                AdjustStock, UpdateTaxRate, UpdateBusinessConfig
  <2> QED
    BY <1>5, <2>1
<1>8. CASE UNCHANGED vars
  BY <1>5, <1>8 DEF vars
<1> QED
  BY <1>2, <1>3, <1>4, <1>6, <1>7, <1>8 DEF Next

\* The payment invariant holds in every state.
LEMMA PaymentInvariant == Spec => []PaymentInv
<1>1. Init => PaymentInv
  <2> SUFFICES ASSUME Init PROVE PaymentInv
    OBVIOUS
  <2>1. TypeInv
    BY InitType
  <2>2. InFlightPaid /\ AwaitsCard /\ ChargeOnRecord
    BY DEF Init, InFlightPaid, AwaitsCard, ChargeOnRecord
  <2> QED
    BY <2>1, <2>2 DEF PaymentInv
<1>2. PaymentInv /\ [Next]_vars => PaymentInv'
  BY PaymentStep
<1> QED
  BY <1>1, <1>2, PTL DEF Spec

\* Whatever is retried, fails or crashes after the terminal charged a card, there
\* is a row with the amount charged that nobody can decline.
THEOREM ChargesRecorded == Spec => []ChargeOnRecord
<1>1. PaymentInv => ChargeOnRecord
  BY DEF PaymentInv
<1> QED
  BY <1>1, PaymentInvariant, PTL

\* No step rewrites what was reviewed, intended or approved, and none reopens a
\* completed or declined request.
THEOREM EvidenceKept == Spec => EvidenceIsKept
<1>1. PaymentInv /\ [Next]_vars => [\A r \in DOMAIN rows : Kept(r)]_vars
  BY PaymentStep
<1> QED
  BY <1>1, PaymentInvariant, PTL DEF Spec, EvidenceIsKept

-------------------------------------------------------------------------------
(* Sales and requests.                                                         *)

\* Nothing but a commit completes a request.
LEMMA CompletedBefore ==
  ASSUME PaymentInv, [Next]_vars, ~CommitSale,
         NEW r \in DOMAIN rows', rows'[r].status = "COMPLETED"
  PROVE  r \in DOMAIN rows /\ rows[r].status = "COMPLETED"
<1>1. rows \in [DOMAIN rows -> Row]
  BY DEF PaymentInv, TypeInv, TypeOK
<1>2. CASE UNCHANGED rows
  BY <1>2
<1>3. ASSUME NEW q, NEW fp, NEW c, NEW status \in {"SUBMITTED", "PENDING_PAYMENT"},
             rows' = Extend(rows, q, NewRow(fp, c, status)), q \notin DOMAIN rows
      PROVE  r \in DOMAIN rows /\ rows[r].status = "COMPLETED"
  BY <1>3 DEF Extend, NewRow
<1>4. ASSUME NEW q \in DOMAIN rows, NEW row, rows' = [rows EXCEPT ![q] = row],
             row.status # "COMPLETED" \/ row.status = rows[q].status
      PROVE  r \in DOMAIN rows /\ rows[r].status = "COMPLETED"
  BY <1>1, <1>4
<1>5. ASSUME NEW q \in Requests, NEW c \in Carts, NEW fp \in Reviews(c), SubmitCash(q, c, fp)
      PROVE  r \in DOMAIN rows /\ rows[r].status = "COMPLETED"
  BY <1>3, <1>5 DEF SubmitCash
<1>6. ASSUME NEW q \in Requests, NEW c \in Carts, BeginCard(q, c)
      PROVE  r \in DOMAIN rows /\ rows[r].status = "COMPLETED"
  BY <1>3, <1>6 DEF BeginCard
<1>7. ASSUME NEW q \in Requests, NEW c \in Carts, ConfirmApproval(q, c)
      PROVE  r \in DOMAIN rows /\ rows[r].status = "COMPLETED"
  <2> DEFINE row == [rows[q] EXCEPT !.status = "SUBMITTED", !.approved = TRUE]
  <2>1. q \in DOMAIN rows /\ rows[q] \in Row /\ rows' = [rows EXCEPT ![q] = row]
    BY <1>1, <1>7 DEF ConfirmApproval, MayCompleteCard
  <2>2. row.status = "SUBMITTED"
    BY <2>1 DEF Row
  <2> QED
    BY <1>4, <2>1, <2>2
<1>8. ASSUME NEW q \in Requests, DeclineCard(q)
      PROVE  r \in DOMAIN rows /\ rows[r].status = "COMPLETED"
  <2> DEFINE row == [rows[q] EXCEPT !.status = "COMMIT_FAILED", !.failure = "CLOVER_DECLINED"]
  <2>1. q \in DOMAIN rows /\ rows[q] \in Row /\ rows' = [rows EXCEPT ![q] = row]
    BY <1>1, <1>8 DEF DeclineCard
  <2>2. row.status = "COMMIT_FAILED"
    BY <2>1 DEF Row
  <2> QED
    BY <1>4, <2>1, <2>2
<1>9. ASSUME NEW q \in Requests, BecomeStale(q)
      PROVE  r \in DOMAIN rows /\ rows[r].status = "COMPLETED"
  <2> DEFINE row == [rows[q] EXCEPT !.stale = TRUE]
  <2>1. q \in DOMAIN rows /\ rows[q] \in Row /\ rows' = [rows EXCEPT ![q] = row]
    BY <1>1, <1>9 DEF BecomeStale
  <2>2. row.status = rows[q].status
    BY <2>1 DEF Row
  <2> QED
    BY <1>4, <2>1, <2>2
<1>10. ASSUME NEW q \in Requests, Resolve(q)
       PROVE  r \in DOMAIN rows /\ rows[r].status = "COMPLETED"
  <2> DEFINE row == [rows[q] EXCEPT !.resolution = "BY_HAND"]
  <2>1. q \in DOMAIN rows /\ rows[q] \in Row /\ rows' = [rows EXCEPT ![q] = row]
    BY <1>1, <1>10 DEF Resolve
  <2>2. row.status = rows[q].status
    BY <2>1 DEF Row
  <2> QED
    BY <1>4, <2>1, <2>2
<1>11. CASE RecordCommitFailed
  <2> DEFINE row == MarkCommitFailed(rows[op.request], op.code)
  <2>1. /\ op.request \in DOMAIN rows /\ rows[op.request] \in Row
        /\ rows' = [rows EXCEPT ![op.request] = row]
    BY <1>11, NextStage DEF PaymentInv, TypeInv, RecordCommitFailed
  <2>2. row.status # "COMPLETED" \/ row.status = rows[op.request].status
    BY <2>1 DEF MarkCommitFailed, Row
  <2> QED
    BY <1>4, <2>1, <2>2
<1>12. CASE Cash
  BY <1>2, <1>5, <1>12 DEF Cash, RetryCash
<1>13. CASE Card
  BY <1>2, <1>6, <1>7, <1>8, <1>9, <1>10, <1>13
     DEF Card, CloverCharges, ConfirmApprovalFails, RetryCard
<1>14. CASE Handler
  BY <1>2, <1>11, <1>14 DEF Handler, Phase2Fails, RecordCommitFailedLost, RecordFailureAudit
<1>15. CASE BackOffice
  BY <1>2, <1>15 DEF BackOffice, VoidSale, CreateProduct, UpdateProduct, ArchiveProduct,
                     AdjustStock, UpdateTaxRate, UpdateBusinessConfig
<1> QED
  BY <1>2, <1>12, <1>13, <1>14, <1>15 DEF Next, Crash, vars

\* However often a request is sent, and wherever its handler fails or dies, it
\* becomes at most one sale, and its row names that sale.
THEOREM SellsOnce == Spec => []SoldOnce
<1>1. Init => SoldOnce
  BY DEF Init, SoldOnce
<1>2. PaymentInv /\ SoldOnce /\ [Next]_vars => SoldOnce'
  <2> SUFFICES ASSUME PaymentInv, SoldOnce, [Next]_vars
               PROVE  SoldOnce'
    OBVIOUS
  <2>1. \A q \in DOMAIN rows : Kept(q)
    BY PaymentStep
  <2>2. TypeInv
    BY DEF PaymentInv
  <2>3. CASE CommitSale
    <3> DEFINE r == op.request
               new == Len(sales) + 1
               row == MarkCompleted(rows[r], new)
    <3>1. /\ r \in DOMAIN rows
          /\ rows[r].status \in Eligible
          /\ rows' = [rows EXCEPT ![r] = row]
          /\ row.status = "COMPLETED"
          /\ row.sale = new
      BY <2>3, CommittedRow
    <3>2. /\ DOMAIN sales' = DOMAIN sales \cup {new}
          /\ new \notin DOMAIN sales
          /\ \A s \in DOMAIN sales : sales'[s] = sales[s]
          /\ sales'[new] = NewSale(r, op.cart)
      BY <2>2, <2>3, CommitSales
    <3>5. NewSale(r, op.cart).request = r
      BY DEF NewSale
    <3> HIDE DEF r, new, row
    <3>3. /\ DOMAIN rows' = DOMAIN rows
          /\ rows'[r] = row
          /\ \A q \in DOMAIN rows : q # r => rows'[q] = rows[q]
      BY <2>2, <3>1 DEF TypeInv, TypeOK
    <3>4. \A s \in DOMAIN sales : sales[s].request # r
      BY <3>1 DEF SoldOnce, Eligible
    <3> QED
      BY <3>1, <3>2, <3>3, <3>4, <3>5 DEF SoldOnce
  <2>4. CASE ~CommitSale
    <3>1. /\ DOMAIN sales' = DOMAIN sales
          /\ \A s \in DOMAIN sales : sales'[s].request = sales[s].request
      BY <2>2, <2>4, SalesSteps, VoidSales
    <3>2. \A r \in DOMAIN rows' :
            rows'[r].status = "COMPLETED" => r \in DOMAIN rows /\ rows[r].status = "COMPLETED"
      BY <2>4, CompletedBefore
    <3> QED
      BY <2>1, <3>1, <3>2 DEF SoldOnce, Kept
  <2> QED
    BY <2>3, <2>4
<1> QED
  BY <1>1, <1>2, PaymentInvariant, PTL DEF Spec

\* A sale is recorded for what was reviewed, and a Card sale for exactly what the
\* terminal charged, whatever changed in between.
THEOREM SellsAsCharged == Spec => []SoldAsCharged
<1>1. Init => SoldAsCharged
  BY DEF Init, SoldAsCharged
<1>2. PaymentInv /\ SoldOnce /\ SoldAsCharged /\ [Next]_vars => SoldAsCharged'
  <2> SUFFICES ASSUME PaymentInv, SoldOnce, SoldAsCharged, [Next]_vars
               PROVE  SoldAsCharged'
    OBVIOUS
  <2>1. \A q \in DOMAIN rows : Kept(q)
    BY PaymentStep
  <2>2. TypeInv /\ DOMAIN clover \subseteq DOMAIN rows
    BY DEF PaymentInv, TypeInv, TypeOK
  <2>3. \A q \in DOMAIN clover : q \in DOMAIN clover' /\ clover'[q] = clover[q]
    <3>1. CASE \E r \in Requests : CloverCharges(r)
      BY <3>1 DEF CloverCharges, Extend
    <3>2. CASE ~\E r \in Requests : CloverCharges(r)
      <4>1. UNCHANGED clover
        BY <3>2 DEF Next, vars, Cash, SubmitCash, RetryCash, Card, BeginCard, ConfirmApproval,
             ConfirmApprovalFails, RetryCard, DeclineCard, BecomeStale, Resolve, Handler,
             CommitSale, Phase2Fails, RecordCommitFailed, RecordCommitFailedLost,
             RecordFailureAudit, Crash, BackOffice, VoidSale, CreateProduct, UpdateProduct,
             ArchiveProduct, AdjustStock, UpdateTaxRate, UpdateBusinessConfig
      <4> QED
        BY <4>1
    <3> QED
      BY <3>1, <3>2
  <2>4. \A s \in DOMAIN sales : sales[s].request \in DOMAIN rows
    BY DEF SoldOnce
  <2>5. ASSUME NEW s \in DOMAIN sales, s \in DOMAIN sales',
               sales'[s].request = sales[s].request,
               sales'[s].fingerprint = sales[s].fingerprint,
               sales'[s].method = sales[s].method,
               sales'[s].total = sales[s].total
        PROVE  LET sale == sales'[s] IN
               /\ sale.fingerprint = rows'[sale.request].fingerprint
               /\ sale.total = Total[sale.fingerprint.cart][sale.fingerprint.tax]
               /\ sale.method = "CARD" => /\ sale.request \in DOMAIN clover'
                                          /\ sale.total = clover'[sale.request]
    BY <2>1, <2>3, <2>4, <2>5 DEF SoldAsCharged, Kept
  <2>6. CASE CommitSale
    <3> DEFINE r == op.request
               c == op.cart
               new == Len(sales) + 1
    <3>1. /\ DOMAIN sales' = DOMAIN sales \cup {new}
          /\ \A s \in DOMAIN sales : sales'[s] = sales[s]
          /\ sales'[new] = NewSale(r, c)
      BY <2>2, <2>6, CommitSales
    <3>2. /\ r \in DOMAIN rows
          /\ rows[r].fingerprint = CurrentFingerprint(c)
          /\ rows[r].method = Method[c]
          /\ rows[r].method = "CARD" => /\ rows[r].intended = Total[c][taxRate]
                                        /\ r \in DOMAIN clover
      BY <2>2, <2>6, NextStage DEF CommitSale, Phase2Accepts, PaymentInv, InFlightPaid, TypeInv
    <3>3. /\ NewSale(r, c).request = r
          /\ NewSale(r, c).fingerprint = CurrentFingerprint(c)
          /\ NewSale(r, c).method = Method[c]
          /\ NewSale(r, c).total = Total[c][taxRate]
          /\ CurrentFingerprint(c).cart = c
          /\ CurrentFingerprint(c).tax = taxRate
      BY DEF NewSale, CurrentFingerprint
    <3>4. \A q \in DOMAIN clover : rows[q].intended = clover[q]
      BY DEF PaymentInv, ChargeOnRecord
    <3> HIDE DEF r, c, new
    <3>5. LET sale == sales'[new] IN
          /\ sale.fingerprint = rows'[sale.request].fingerprint
          /\ sale.total = Total[sale.fingerprint.cart][sale.fingerprint.tax]
          /\ sale.method = "CARD" => /\ sale.request \in DOMAIN clover'
                                     /\ sale.total = clover'[sale.request]
      BY <2>1, <2>3, <3>1, <3>2, <3>3, <3>4 DEF Kept
    <3> QED
      BY <2>5, <3>1, <3>5 DEF SoldAsCharged
  <2>7. ASSUME NEW v \in DOMAIN sales, VoidSale(v)
        PROVE  SoldAsCharged'
    BY <2>2, <2>5, <2>7, VoidSales DEF SoldAsCharged
  <2>8. CASE UNCHANGED <<sales, receipts, jobs>>
    BY <2>5, <2>8 DEF SoldAsCharged
  <2> QED
    BY <2>6, <2>7, <2>8, SalesSteps
<1> QED
  BY <1>1, <1>2, PaymentInvariant, SellsOnce, PTL DEF Spec
===============================================================================
