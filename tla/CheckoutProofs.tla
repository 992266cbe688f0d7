---------------------------- MODULE CheckoutProofs ----------------------------
(* What holds of Checkout for any number of requests, products, carts, prices  *)
(* and tax rates: its type, and that the movements of a product explain its    *)
(* quantity.                                                                   *)
EXTENDS Checkout, TLAPS

USE DEF Idle

-------------------------------------------------------------------------------
(* Type correctness.  A void adds to the stock what a SALE movement took, so   *)
(* that the stock stays in Nat depends on the movements already recorded.      *)

SalesTakeStock ==
  \A p \in Products : \A k \in DOMAIN ledger[p] :
    ledger[p][k].type = "SALE" => ledger[p][k].after <= ledger[p][k].before

TypeInv == TypeOK /\ SalesTakeStock

\* The variables a payment attempt never touches before it becomes a sale.
shopFloor == <<sales, receipts, jobs, catalog, settings>>

\* Adding a pair to a function keeps the type of its values.
LEMMA ExtendType ==
  ASSUME NEW T, NEW f, f \in [DOMAIN f -> T], NEW x, NEW y \in T
  PROVE  Extend(f, x, y) \in [DOMAIN f \cup {x} -> T]
BY DEF Extend

\* The rows of checkout_requests keep their type under an insert and an update.
LEMMA RowInserted ==
  ASSUME TypeOK, NEW r \in Requests, NEW row \in Row, rows' = Extend(rows, r, row)
  PROVE  /\ rows' \in [DOMAIN rows' -> Row]
         /\ DOMAIN rows' = DOMAIN rows \cup {r}
         /\ DOMAIN rows' \subseteq Requests
<1>1. rows \in [DOMAIN rows -> Row] /\ DOMAIN rows \subseteq Requests
  BY DEF TypeOK
<1> QED
  BY <1>1 DEF Extend

\* An UPDATE of one row keeps the set of recorded requests.
LEMMA RowUpdated ==
  ASSUME TypeOK, NEW r \in DOMAIN rows, NEW row \in Row,
         rows' = [rows EXCEPT ![r] = row]
  PROVE  /\ rows' \in [DOMAIN rows' -> Row]
         /\ DOMAIN rows' = DOMAIN rows
         /\ DOMAIN rows' \subseteq Requests
<1>1. rows \in [DOMAIN rows -> Row] /\ DOMAIN rows \subseteq Requests
  BY DEF TypeOK
<1> QED
  BY <1>1

\* A step that leaves the shop floor alone is well typed if what it does to the
\* rows, the handler and the audit trail is.
LEMMA FloorUntouched ==
  ASSUME TypeInv, UNCHANGED shopFloor, UNCHANGED clover,
         rows' \in [DOMAIN rows' -> Row],
         DOMAIN rows \subseteq DOMAIN rows',
         DOMAIN rows' \subseteq Requests,
         op' \in {Idle} \cup InFlight,
         op' # Idle => op'.request \in DOMAIN rows',
         audits' \subseteq Audit
  PROVE  TypeInv'
BY DEF TypeInv, TypeOK, SalesTakeStock, shopFloor, catalog, settings

\* The row a submission inserts is a row of the schema: with the tax rate set,
\* the intended total is a number.
LEMMA NewRowType ==
  ASSUME TypeOK, NEW c \in Carts, NEW fp \in Fingerprint, NEW status \in RowStatus,
         Completable(c)
  PROVE  NewRow(fp, c, status) \in Row
<1>1. Total[c][taxRate] \in Nat
  BY CartAssumption DEF TypeOK, Completable
<1>2. Method[c] \in {"CASH", "CARD"}
  BY CartAssumption
<1> QED
  BY <1>1, <1>2 DEF NewRow, Row, FailureCode

\* What an earlier review answered is a fingerprint.
LEMMA ReviewType ==
  ASSUME NEW c \in Carts, NEW fp \in Reviews(c)
  PROVE  fp \in Fingerprint
BY DEF Reviews, Fingerprint

\* So is what is hashed at Phase 2, once recalculateCheckout accepted the cart.
LEMMA FingerprintType ==
  ASSUME TypeOK, NEW c \in Carts, Completable(c)
  PROVE  CurrentFingerprint(c) \in Fingerprint
BY DEF TypeOK, Completable, CurrentFingerprint, Fingerprint

\* A handler starts at Phase 2, or at the audit when Step B did not commit.
LEMMA InFlightType ==
  ASSUME NEW r \in Requests, NEW c \in Carts
  PROVE  /\ Phase2(r, c) \in InFlight
         /\ Phase2(r, c).request = r
         /\ [Phase2(r, c) EXCEPT !.at = "AUDIT", !.code = "SALE_COMMIT_FAILED"]
              \in InFlight
BY DEF Phase2, InFlight, FailureCode

-------------------------------------------------------------------------------

\* An empty database is well typed.
THEOREM InitType == Init => TypeInv
<1> SUFFICES ASSUME Init PROVE TypeInv
  OBVIOUS
<1>1. sales \in Seq(Sale) /\ jobs \in Seq(Job) /\ ledger \in [Products -> Seq(Movement)]
  BY DEF Init
<1>2. rows \in [DOMAIN rows -> Row] /\ DOMAIN rows \subseteq Requests
  BY DEF Init
<1>3. clover \in [DOMAIN clover -> Nat] /\ DOMAIN clover \subseteq DOMAIN rows
  BY DEF Init
<1>4. TypeOK
  BY <1>1, <1>2, <1>3 DEF Init, TypeOK
<1>5. \A p \in Products : DOMAIN ledger[p] = {}
  BY DEF Init
<1>6. SalesTakeStock
  BY <1>5 DEF SalesTakeStock
<1> QED
  BY <1>4, <1>6 DEF TypeInv

\* completeCashSale up to Phase 2, for a new and for a recorded request.
LEMMA CashType ==
  ASSUME TypeInv, NEW r \in Requests, NEW c \in Carts,
         RetryCash(r, c) \/ \E fp \in Reviews(c) : SubmitCash(r, c, fp)
  PROVE  TypeInv'
<1> USE DEF TypeInv
<1>1. CASE RetryCash(r, c)
  BY <1>1, FloorUntouched, InFlightType DEF RetryCash, TypeOK, shopFloor
<1>2. ASSUME NEW fp \in Reviews(c), SubmitCash(r, c, fp)
      PROVE  TypeInv'
  <2>1. NewRow(fp, c, "SUBMITTED") \in Row
    BY <1>2, ReviewType, NewRowType DEF SubmitCash, RowStatus
  <2>2. rows' \in [DOMAIN rows' -> Row] /\ DOMAIN rows' = DOMAIN rows \cup {r}
                                        /\ DOMAIN rows' \subseteq Requests
    BY <1>2, <2>1, RowInserted DEF SubmitCash
  <2> QED
    BY <1>2, <2>2, FloorUntouched, InFlightType DEF SubmitCash, TypeOK, shopFloor
<1> QED
  BY <1>1, <1>2

\* Every step of a Card attempt before and beside Phase 2: begin, charge, confirm,
\* retry, decline, become stale, resolve.
LEMMA CardType ==
  ASSUME TypeInv, NEW r \in Requests,
         \/ CloverCharges(r) \/ DeclineCard(r) \/ BecomeStale(r) \/ Resolve(r)
         \/ \E c \in Carts : \/ BeginCard(r, c) \/ ConfirmApproval(r, c)
                             \/ ConfirmApprovalFails(r, c) \/ RetryCard(r, c)
  PROVE  TypeInv'
<1> USE DEF TypeInv, shopFloor
<1>1. r \in DOMAIN rows => rows[r] \in Row
  BY DEF TypeOK
<1>2. ASSUME NEW c \in Carts, BeginCard(r, c)
      PROVE  TypeInv'
  <2>1. NewRow(CurrentFingerprint(c), c, "PENDING_PAYMENT") \in Row
    BY <1>2, FingerprintType, NewRowType DEF BeginCard, RowStatus
  <2>2. rows' \in [DOMAIN rows' -> Row] /\ DOMAIN rows' = DOMAIN rows \cup {r}
                                        /\ DOMAIN rows' \subseteq Requests
    BY <1>2, <2>1, RowInserted DEF BeginCard
  <2> QED
    BY <1>2, <2>2, FloorUntouched DEF BeginCard, TypeOK
<1>3. CASE CloverCharges(r)
  BY <1>3 DEF CloverCharges, Extend, TypeOK, SalesTakeStock, Row, catalog, settings
<1>4. ASSUME NEW c \in Carts, ConfirmApproval(r, c)
      PROVE  TypeInv'
  <2>1. [rows[r] EXCEPT !.status = "SUBMITTED", !.approved = TRUE] \in Row
    BY <1>1, <1>4 DEF ConfirmApproval, MayCompleteCard, Row, RowStatus
  <2>2. rows' = [rows EXCEPT ![r] = [rows[r] EXCEPT !.status = "SUBMITTED",
                                                    !.approved = TRUE]]
    BY <1>4 DEF ConfirmApproval, MayCompleteCard, TypeOK
  <2>3. rows' \in [DOMAIN rows' -> Row] /\ DOMAIN rows' = DOMAIN rows
    BY <1>4, <2>1, <2>2, RowUpdated DEF ConfirmApproval, MayCompleteCard
  <2>4. /\ r \in DOMAIN rows
        /\ op' = Phase2(r, c)
        /\ UNCHANGED shopFloor /\ UNCHANGED clover /\ UNCHANGED audits
    BY <1>4 DEF ConfirmApproval, MayCompleteCard, shopFloor
  <2>5. op' \in {Idle} \cup InFlight /\ op'.request = r
    BY <2>4, InFlightType
  <2> QED
    BY <2>3, <2>4, <2>5, FloorUntouched DEF TypeInv, TypeOK
<1>5. ASSUME NEW c \in Carts, ConfirmApprovalFails(r, c)
      PROVE  TypeInv'
  BY <1>5, FloorUntouched, InFlightType DEF ConfirmApprovalFails, MayCompleteCard, TypeOK, Phase2
<1>6. ASSUME NEW c \in Carts, RetryCard(r, c)
      PROVE  TypeInv'
  BY <1>6, FloorUntouched, InFlightType DEF RetryCard, MayCompleteCard, TypeOK
<1>7. CASE DeclineCard(r)
  <2>1. [rows[r] EXCEPT !.status = "COMMIT_FAILED", !.failure = "CLOVER_DECLINED"] \in Row
    BY <1>1, <1>7 DEF DeclineCard, Row, RowStatus, FailureCode
  <2>2. rows' = [rows EXCEPT ![r] = [rows[r] EXCEPT !.status = "COMMIT_FAILED",
                                                    !.failure = "CLOVER_DECLINED"]]
    BY <1>7 DEF DeclineCard, TypeOK
  <2>3. rows' \in [DOMAIN rows' -> Row] /\ DOMAIN rows' = DOMAIN rows
    BY <1>7, <2>1, <2>2, RowUpdated DEF DeclineCard
  <2> QED
    BY <1>7, <2>3, FloorUntouched DEF DeclineCard, TypeOK
<1>8. CASE BecomeStale(r)
  <2>1. [rows[r] EXCEPT !.stale = TRUE] \in Row
    BY <1>1, <1>8 DEF BecomeStale, Row
  <2>2. rows' \in [DOMAIN rows' -> Row] /\ DOMAIN rows' = DOMAIN rows
    BY <1>8, <2>1, RowUpdated DEF BecomeStale
  <2> QED
    BY <1>8, <2>2, FloorUntouched DEF BecomeStale, TypeOK
<1>9. CASE Resolve(r)
  <2>1. [rows[r] EXCEPT !.resolution = "BY_HAND"] \in Row
    BY <1>1, <1>9 DEF Resolve, Row
  <2>2. rows' \in [DOMAIN rows' -> Row] /\ DOMAIN rows' = DOMAIN rows
    BY <1>9, <2>1, RowUpdated DEF Resolve
  <2> QED
    BY <1>9, <2>2, FloorUntouched DEF Resolve, TypeOK
<1> QED
  BY <1>2, <1>3, <1>4, <1>5, <1>6, <1>7, <1>8, <1>9

\* What a handler in flight leaves in op.
LEMMA NextStage ==
  ASSUME TypeOK, op.at \in {"PHASE2", "RECORD", "AUDIT"}
  PROVE  /\ op # Idle
         /\ op.request \in DOMAIN rows
         /\ op.request \in Requests
         /\ rows[op.request] \in Row
         /\ op.cart \in Carts
         /\ op.code \in FailureCode \ {"CLOVER_DECLINED"}
         /\ \A code \in FailureCode \ {"CLOVER_DECLINED"} :
              /\ [op EXCEPT !.at = "RECORD", !.code = code] \in InFlight
              /\ [op EXCEPT !.at = "RECORD", !.code = code].request = op.request
         /\ [op EXCEPT !.at = "AUDIT"] \in InFlight
         /\ [op EXCEPT !.at = "AUDIT"].request = op.request
<1>1. op # Idle
  OBVIOUS
<1> QED
  BY <1>1 DEF TypeOK, InFlight

\* A commit takes no more than is on the shelf, because Phase 2 checks the stock
\* in the same transaction; the SALE movements it appends take stock.
LEMMA DeductType ==
  ASSUME TypeInv, NEW c \in Carts, NEW sale \in Nat, Completable(c), Deduct(c, sale)
  PROVE  /\ stock' \in [Products -> Nat]
         /\ ledger' \in [Products -> Seq(Movement)]
         /\ SalesTakeStock'
<1> USE DEF TypeInv
<1>1. \A p \in Products : Demand[c][p] \in Nat /\ stock[p] \in Nat
  BY CartAssumption DEF TypeOK
<1>2. \A p \in Products : stock[p] - Demand[c][p] \in Nat /\ stock[p] - Demand[c][p] <= stock[p]
  BY <1>1 DEF Completable, Wanted
<1>3. \A p \in Products : ledger[p] \in Seq(Movement)
  BY DEF TypeOK
<1>4. stock' = [p \in Products |-> stock[p] - Demand[c][p]]
  BY DEF Deduct
<1>5. \A p \in Products :
        /\ ledger'[p] \in Seq(Movement)
        /\ \A k \in DOMAIN ledger'[p] :
             ledger'[p][k].type = "SALE" => ledger'[p][k].after <= ledger'[p][k].before
  <2> SUFFICES ASSUME NEW p \in Products
               PROVE  /\ ledger'[p] \in Seq(Movement)
                      /\ \A k \in DOMAIN ledger'[p] :
                           ledger'[p][k].type = "SALE" => ledger'[p][k].after <= ledger'[p][k].before
    OBVIOUS
  <2>1. CASE p \in Wanted(c)
    <3> DEFINE m == [type |-> "SALE", sale |-> sale, reverses |-> 0,
                     before |-> stock[p], after |-> stock[p] - Demand[c][p]]
    <3>1. ledger'[p] = Append(ledger[p], m)
      BY <2>1 DEF Deduct, Move
    <3>2. m \in Movement /\ m.after <= m.before
      BY <1>1, <1>2 DEF Movement, MovementType
    <3> HIDE DEF m
    <3> QED
      BY <3>1, <3>2, <1>3 DEF SalesTakeStock
  <2>2. CASE p \notin Wanted(c)
    BY <2>2, <1>3 DEF Deduct, SalesTakeStock
  <2> QED
    BY <2>1, <2>2
<1>6. ledger' \in [Products -> Seq(Movement)]
  BY <1>5 DEF Deduct
<1> QED
  BY <1>2, <1>4, <1>5, <1>6 DEF SalesTakeStock

\* The sale that Phase 2 inserts is a sale of the schema.
LEMMA SaleType ==
  ASSUME TypeOK, NEW r \in Requests, NEW c \in Carts, Completable(c)
  PROVE  NewSale(r, c) \in Sale
<1>1. Total[c][taxRate] \in Nat /\ Method[c] \in {"CASH", "CARD"}
  BY CartAssumption DEF TypeOK, Completable
<1>2. receipts + 1 \in Nat
  BY DEF TypeOK
<1> QED
  BY <1>1, <1>2, FingerprintType DEF NewSale, Sale

\* The transactions of a handler: the commit, its failure and what records it.
LEMMA HandlerType ==
  ASSUME TypeInv, Handler
  PROVE  TypeInv'
<1> USE DEF TypeInv, shopFloor
<1>1. CASE CommitSale
  <2> DEFINE r == op.request
             c == op.cart
             sale == Len(sales) + 1
             row == MarkCompleted(rows[r], sale)
  <2>1. op # Idle /\ r \in DOMAIN rows /\ r \in Requests /\ rows[r] \in Row /\ c \in Carts
    BY <1>1, NextStage DEF CommitSale
  <2>2. Completable(c)
    BY <1>1 DEF CommitSale, Phase2Accepts
  <2>3. sale \in Nat /\ sale > 0
    BY DEF TypeOK
  <2>4. row \in Row
    BY <2>1, <2>3 DEF MarkCompleted, Resolution, Row, RowStatus, FailureCode
  <2>5. rows' = [rows EXCEPT ![r] = row]
    BY <1>1 DEF CommitSale
  <2>6. sales' = Append(sales, NewSale(r, c)) /\ jobs' = Append(jobs, NewJob)
    BY <1>1 DEF CommitSale
  <2>7. Deduct(c, sale)
    BY <1>1 DEF CommitSale
  <2>8. audits' \subseteq Audit
    BY <1>1, <2>3 DEF CommitSale, TypeOK, Audit
  <2> HIDE DEF r, c, sale, row
  <2>9. sales' \in Seq(Sale)
    BY <2>1, <2>2, <2>6, SaleType DEF TypeOK
  <2>10. NewJob \in Job
    BY DEF NewJob, Job, JobStatus
  <2>11. jobs' \in Seq(Job)
    BY <2>6, <2>10 DEF TypeOK
  <2>12. /\ rows' \in [DOMAIN rows' -> Row]
         /\ DOMAIN rows' = DOMAIN rows
    BY <2>1, <2>4, <2>5, RowUpdated
  <2>13. /\ stock' \in [Products -> Nat]
         /\ ledger' \in [Products -> Seq(Movement)]
         /\ SalesTakeStock'
    BY <2>1, <2>2, <2>3, <2>7, DeductType
  <2>14. receipts' \in Nat
    BY <1>1 DEF CommitSale, TypeOK
  <2>15. op' \in {Idle} \cup InFlight /\ (op' # Idle => op'.request = op.request)
    BY <1>1, NextStage DEF CommitSale, FailureCode
  <2> QED
    BY <1>1, <2>1, <2>8, <2>9, <2>11, <2>12, <2>13, <2>14, <2>15
       DEF CommitSale, TypeOK, settings, r
<1>2. CASE Phase2Fails
  <2>1. op' \in InFlight /\ op'.request \in DOMAIN rows
    <3>1. /\ op.at \in {"PHASE2", "RECORD", "AUDIT"}
          /\ \E code \in FailureCode \ {"CLOVER_DECLINED"} :
               op' = [op EXCEPT !.at = "RECORD", !.code = code]
      BY <1>2 DEF Phase2Fails, FailureCode
    <3> QED
      BY <3>1, NextStage
  <2> QED
    BY <1>2, <2>1, FloorUntouched DEF Phase2Fails, TypeOK
<1>3. ASSUME op.at = "RECORD", AfterRecord
      PROVE  op' \in {Idle} \cup InFlight /\ (op' # Idle => op'.request = op.request)
  BY <1>3, NextStage DEF AfterRecord
<1>4. CASE RecordCommitFailed
  <2> DEFINE row == MarkCommitFailed(rows[op.request], op.code)
  <2>1. /\ op.request \in DOMAIN rows
        /\ rows[op.request] \in Row
        /\ op.code \in FailureCode
    BY <1>4, NextStage DEF RecordCommitFailed
  <2>2. row \in Row
    BY <2>1 DEF MarkCommitFailed, Row, RowStatus
  <2>3. rows' = [rows EXCEPT ![op.request] = row]
    BY <1>4 DEF RecordCommitFailed
  <2> HIDE DEF row
  <2>4. rows' \in [DOMAIN rows' -> Row] /\ DOMAIN rows' = DOMAIN rows
    BY <2>1, <2>2, <2>3, RowUpdated
  <2> QED
    BY <1>3, <1>4, <2>1, <2>4, FloorUntouched DEF RecordCommitFailed, TypeOK
<1>5. CASE RecordCommitFailedLost
  BY <1>3, <1>5, NextStage, FloorUntouched DEF RecordCommitFailedLost, TypeOK
<1>6. CASE RecordFailureAudit
  <2>1. audits' \subseteq Audit
    <3>1. op.request \in Requests
      BY <1>6, NextStage DEF RecordFailureAudit
    <3>2. <<"CARD_LOCAL_COMMIT_FAILURE", op.request>> \in Audit
      BY <3>1 DEF Audit
    <3> QED
      BY <1>6, <3>2 DEF RecordFailureAudit, TypeOK
  <2> QED
    BY <1>6, <2>1, FloorUntouched DEF RecordFailureAudit, TypeOK
<1> QED
  BY <1>1, <1>2, <1>4, <1>5, <1>6 DEF Handler

\* The process dies: nothing but the handler is lost.
LEMMA CrashType ==
  ASSUME TypeInv, Crash
  PROVE  TypeInv'
BY FloorUntouched DEF Crash, TypeInv, TypeOK, shopFloor

\* A void puts the reversal of each SALE movement on top of the current stock.
LEMMA ReturnType ==
  ASSUME TypeInv, NEW s \in Nat, ReturnToStock(s)
  PROVE  /\ stock' \in [Products -> Nat]
         /\ ledger' \in [Products -> Seq(Movement)]
         /\ SalesTakeStock'
<1> DEFINE sold(p) == OriginalMovements(p, s) # {}
           original(p) == CHOOSE k \in OriginalMovements(p, s) : TRUE
           after(p) == stock[p] + Restored(p, original(p))
<1>1. /\ stock' = [p \in Products |-> IF sold(p) THEN after(p) ELSE stock[p]]
      /\ ledger' = [p \in Products |->
                      IF sold(p) THEN Move(p, "VOID_REVERSAL", s, original(p), after(p))
                      ELSE ledger[p]]
  BY DEF ReturnToStock
<1>2. \A p \in Products :
        /\ stock'[p] \in Nat
        /\ ledger'[p] \in Seq(Movement)
        /\ \A k \in DOMAIN ledger'[p] :
             ledger'[p][k].type = "SALE" => ledger'[p][k].after <= ledger'[p][k].before
  <2> SUFFICES ASSUME NEW p \in Products
               PROVE  /\ stock'[p] \in Nat
                      /\ ledger'[p] \in Seq(Movement)
                      /\ \A k \in DOMAIN ledger'[p] :
                           ledger'[p][k].type = "SALE" =>
                             ledger'[p][k].after <= ledger'[p][k].before
    OBVIOUS
  <2>1. ledger[p] \in Seq(Movement) /\ stock[p] \in Nat
    BY DEF TypeInv, TypeOK
  <2>2. \A k \in DOMAIN ledger[p] :
          ledger[p][k].type = "SALE" => ledger[p][k].after <= ledger[p][k].before
    BY DEF TypeInv, SalesTakeStock
  <2>3. CASE sold(p)
    <3> DEFINE o == original(p)
               m == [type |-> "VOID_REVERSAL", sale |-> s, reverses |-> o,
                     before |-> stock[p], after |-> after(p)]
    <3>1. o \in OriginalMovements(p, s)
      BY <2>3
    <3>2. /\ ledger'[p] = Append(ledger[p], m)
          /\ stock'[p] = after(p)
      BY <1>1, <2>3 DEF Move
    <3> HIDE DEF o
    <3>3. /\ o \in DOMAIN ledger[p] /\ o \in Nat
          /\ ledger[p][o] \in Movement
          /\ ledger[p][o].type = "SALE"
      BY <2>1, <3>1 DEF OriginalMovements
    <3>4. Restored(p, o) \in Nat
      BY <2>2, <3>3 DEF Restored, Movement
    <3>5. after(p) \in Nat
      BY <2>1, <3>4 DEF o
    <3> HIDE DEF after
    <3>6. m \in Movement /\ m.type # "SALE"
      BY <2>1, <3>3, <3>5 DEF Movement, MovementType
    <3> HIDE DEF m
    <3> QED
      BY <2>1, <2>2, <3>2, <3>5, <3>6
  <2>4. CASE ~sold(p)
    BY <1>1, <2>1, <2>2, <2>4
  <2> QED
    BY <2>3, <2>4
<1> HIDE DEF sold, original, after
<1> QED
  BY <1>1, <1>2 DEF SalesTakeStock

\* The job a void leaves is a job of the schema.
LEMMA RequeuedType ==
  ASSUME NEW job \in Job, NEW version \in Nat \ {0}
  PROVE  RequeueForVoid(job, version) \in Job
BY DEF RequeueForVoid, Job, JobStatus

\* voidSale, which adds to the shelf only what SALE movements took from it.
LEMMA VoidType ==
  ASSUME TypeInv, NEW s \in DOMAIN sales, VoidSale(s)
  PROVE  TypeInv'
<1> USE DEF TypeInv
<1>1. s \in Nat /\ sales[s] \in Sale
  BY DEF TypeOK
<1> DEFINE version == sales[s].version + 1
<1>2. version \in Nat \ {0}
  BY <1>1 DEF Sale
<1>3. /\ sales' = [sales EXCEPT ![s] = [sales[s] EXCEPT !.status = "VOIDED",
                                                        !.version = version]]
      /\ jobs' = [jobs EXCEPT ![s] = RequeueForVoid(jobs[s], version)]
  BY DEF VoidSale
<1> HIDE DEF version
<1>4. sales' \in Seq(Sale) /\ jobs' \in Seq(Job)
  <2>1. [sales[s] EXCEPT !.status = "VOIDED", !.version = version] \in Sale
    BY <1>1, <1>2 DEF Sale
  <2>2. sales' \in Seq(Sale)
    BY <1>3, <2>1 DEF TypeOK
  <2>3. CASE s \in DOMAIN jobs
    <3>1. RequeueForVoid(jobs[s], version) \in Job
      BY <1>2, <2>3, RequeuedType DEF TypeOK
    <3> QED
      BY <1>3, <2>2, <2>3, <3>1 DEF TypeOK
  <2>4. CASE s \notin DOMAIN jobs
    <3>1. jobs' = jobs
      BY <1>3, <2>4 DEF TypeOK
    <3> QED
      BY <2>2, <3>1 DEF TypeOK
  <2> QED
    BY <2>3, <2>4
<1>5. audits' \subseteq Audit
  <2>1. <<"SALE_VOIDED", s>> \in Audit
    BY <1>1 DEF Audit
  <2> QED
    BY <2>1 DEF VoidSale, TypeOK
<1>6. /\ stock' \in [Products -> Nat]
      /\ ledger' \in [Products -> Seq(Movement)]
      /\ SalesTakeStock'
  BY <1>1, ReturnType DEF VoidSale
<1> QED
  BY <1>4, <1>5, <1>6 DEF VoidSale, TypeOK, settings

\* One movement more, of a kind that is not SALE.
LEMMA CountedType ==
  ASSUME TypeInv, NEW p \in Products, NEW after \in 0..StockMax,
         NEW type \in {"INITIAL_STOCK", "MANUAL_ADJUSTMENT"},
         ledger' = [ledger EXCEPT ![p] = Move(p, type, 0, 0, after)]
  PROVE  ledger' \in [Products -> Seq(Movement)] /\ SalesTakeStock'
<1> DEFINE m == [type |-> type, sale |-> 0, reverses |-> 0,
                 before |-> stock[p], after |-> after]
<1>1. m \in Movement /\ m.type # "SALE"
  BY BoundAssumption DEF TypeInv, TypeOK, Movement, MovementType
<1>2. ledger' = [ledger EXCEPT ![p] = Append(ledger[p], m)]
  BY DEF Move
<1> HIDE DEF m
<1>3. /\ \A q \in Products : ledger[q] \in Seq(Movement)
      /\ ledger = [q \in Products |-> ledger[q]]
  BY DEF TypeInv, TypeOK
<1>4. /\ \A q \in Products : ledger'[q] = IF q = p THEN Append(ledger[p], m) ELSE ledger[q]
      /\ ledger' = [q \in Products |-> ledger'[q]]
  BY <1>2, <1>3
<1>5. \A q \in Products :
        /\ ledger'[q] \in Seq(Movement)
        /\ \A k \in DOMAIN ledger'[q] :
             ledger'[q][k].type = "SALE" => ledger'[q][k].after <= ledger'[q][k].before
  <2> SUFFICES ASSUME NEW q \in Products
               PROVE  /\ ledger'[q] \in Seq(Movement)
                      /\ \A k \in DOMAIN ledger'[q] :
                           ledger'[q][k].type = "SALE" =>
                             ledger'[q][k].after <= ledger'[q][k].before
    OBVIOUS
  <2>1. CASE q = p
    <3>1. ledger'[q] = Append(ledger[q], m)
      BY <1>4, <2>1
    <3>2. \A k \in DOMAIN ledger[q] :
            ledger[q][k].type = "SALE" => ledger[q][k].after <= ledger[q][k].before
      BY DEF TypeInv, SalesTakeStock
    <3>3. ledger[q] \in Seq(Movement)
      BY <1>3
    <3> QED
      BY <1>1, <3>1, <3>2, <3>3
  <2>2. CASE q # p
    <3>1. ledger'[q] = ledger[q]
      BY <1>4, <2>2
    <3> QED
      BY <1>3, <3>1 DEF TypeInv, SalesTakeStock
  <2> QED
    BY <2>1, <2>2
<1> QED
  BY <1>4, <1>5 DEF SalesTakeStock

\* Voids, products, inventory counts and settings.
LEMMA BackOfficeType ==
  ASSUME TypeInv, BackOffice
  PROVE  TypeInv'
<1> USE DEF TypeInv
<1>1. ASSUME NEW p \in Products, NEW cents \in Prices, NEW quantity \in 0..StockMax,
             CreateProduct(p, cents, quantity)
      PROVE  TypeInv'
  <2>1. ledger' \in [Products -> Seq(Movement)] /\ SalesTakeStock'
    <3>1. CASE quantity > 0
      BY <1>1, <3>1, CountedType DEF CreateProduct
    <3>2. CASE ~(quantity > 0)
      BY <1>1, <3>2 DEF CreateProduct, TypeOK, SalesTakeStock
    <3> QED
      BY <3>1, <3>2
  <2> QED
    BY <1>1, <2>1, BoundAssumption DEF CreateProduct, TypeOK, settings
<1>2. ASSUME NEW p \in Products, NEW cents \in Prices, UpdateProduct(p, cents)
      PROVE  TypeInv'
  BY <1>2 DEF UpdateProduct, TypeOK, SalesTakeStock, settings
<1>3. ASSUME NEW p \in Products, ArchiveProduct(p)
      PROVE  TypeInv'
  BY <1>3 DEF ArchiveProduct, TypeOK, SalesTakeStock, settings
<1>4. ASSUME NEW p \in Products, NEW after \in 0..StockMax, AdjustStock(p, after)
      PROVE  TypeInv'
  <2>1. ledger' \in [Products -> Seq(Movement)] /\ SalesTakeStock'
    BY <1>4, CountedType DEF AdjustStock
  <2>2. audits' \subseteq Audit
    BY <1>4 DEF AdjustStock, TypeOK, Audit
  <2> QED
    BY <1>4, <2>1, <2>2, BoundAssumption DEF AdjustStock, TypeOK, settings
<1>5. ASSUME NEW t \in TaxRates, UpdateTaxRate(t)
      PROVE  TypeInv'
  BY <1>5 DEF UpdateTaxRate, TypeOK, SalesTakeStock, catalog, Audit
<1>6. CASE UpdateBusinessConfig
  BY <1>6 DEF UpdateBusinessConfig, TypeOK, SalesTakeStock, catalog, Audit
<1> QED
  BY <1>1, <1>2, <1>3, <1>4, <1>5, <1>6, VoidType DEF BackOffice

\* The inductive step of TypeCorrect, one fact per handler.
LEMMA StepType == TypeInv /\ [Next]_vars => TypeInv'
<1> SUFFICES ASSUME TypeInv, [Next]_vars PROVE TypeInv'
  OBVIOUS
<1>1. CASE Cash
  BY <1>1, CashType DEF Cash
<1>2. CASE Card
  BY <1>2, CardType DEF Card
<1>3. CASE Handler
  BY <1>3, HandlerType
<1>4. CASE Crash
  BY <1>4, CrashType
<1>5. CASE BackOffice
  BY <1>5, BackOfficeType
<1>6. CASE UNCHANGED vars
  BY <1>6 DEF vars, TypeInv, TypeOK, SalesTakeStock, catalog, settings
<1> QED
  BY <1>1, <1>2, <1>3, <1>4, <1>5, <1>6 DEF Next

\* The tables keep the shape of the schema, the stock of every product in
\* particular never goes below zero, for any catalog and any carts.
THEOREM TypeCorrect == Spec => []TypeOK
<1>1. Spec => []TypeInv
  BY InitType, StepType, PTL DEF Spec
<1>2. TypeInv => TypeOK
  BY DEF TypeInv
<1> QED
  BY <1>1, <1>2, PTL

-------------------------------------------------------------------------------
(* LedgerExplainsStock says of every product that its ledger explains its      *)
(* quantity.  It is inductive with one more fact: a product that was not       *)
(* created yet has no movements.                                               *)

Explains(moves, quantity) ==
  /\ \A k \in DOMAIN moves :
       /\ moves[k].before # moves[k].after
       /\ moves[k].before = IF k = 1 THEN 0 ELSE moves[k - 1].after
  /\ quantity = IF moves = <<>> THEN 0 ELSE moves[Len(moves)].after

NothingBeforeCreation == \A p \in Products : shelf[p] = "ABSENT" => ledger[p] = <<>>

LedgerInv == TypeInv /\ LedgerExplainsStock /\ NothingBeforeCreation

\* A movement from the current quantity to another one.
LEMMA Explained ==
  ASSUME NEW moves \in Seq(Movement), NEW quantity, Explains(moves, quantity),
         NEW m \in Movement, m.before = quantity, m.after # quantity
  PROVE  Explains(Append(moves, m), m.after)
<1> DEFINE more == Append(moves, m)
<1>1. /\ Len(moves) \in Nat
      /\ DOMAIN moves = 1..Len(moves)
      /\ Len(more) = Len(moves) + 1
      /\ DOMAIN more = 1..(Len(moves) + 1)
      /\ more # <<>>
      /\ more[Len(moves) + 1] = m
      /\ \A k \in 1..Len(moves) : more[k] = moves[k]
  OBVIOUS
<1>2. moves = <<>> <=> Len(moves) = 0
  OBVIOUS
<1> HIDE DEF more
<1>3. ASSUME NEW k \in 1..Len(moves)
      PROVE  /\ more[k].before # more[k].after
             /\ more[k].before = IF k = 1 THEN 0 ELSE more[k - 1].after
  BY <1>1, <1>3 DEF Explains
<1>4. m.before = IF Len(moves) = 0 THEN 0 ELSE more[Len(moves)].after
  BY <1>1, <1>2 DEF Explains
<1>5. \A k \in DOMAIN more :
        /\ more[k].before # more[k].after
        /\ more[k].before = IF k = 1 THEN 0 ELSE more[k - 1].after
  <2> SUFFICES ASSUME NEW k \in 1..(Len(moves) + 1)
               PROVE  /\ more[k].before # more[k].after
                      /\ more[k].before = IF k = 1 THEN 0 ELSE more[k - 1].after
    BY <1>1
  <2>1. CASE k \in 1..Len(moves)
    BY <2>1, <1>3
  <2>2. CASE k = Len(moves) + 1
    BY <2>2, <1>1, <1>4
  <2> QED
    BY <2>1, <2>2, <1>1
<1> QED
  BY <1>1, <1>5 DEF Explains, more

\* What LedgerInv says of one product.
LEMMA OfProduct ==
  ASSUME LedgerInv, NEW p \in Products
  PROVE  /\ Explains(ledger[p], stock[p])
         /\ ledger[p] \in Seq(Movement)
         /\ stock[p] \in Nat
         /\ shelf[p] = "ABSENT" => ledger[p] = <<>> /\ stock[p] = 0
BY DEF LedgerInv, LedgerExplainsStock, NothingBeforeCreation, Explains, TypeInv, TypeOK

\* The invariant after a step, from what the step does to each product.
LEMMA ByProduct ==
  ASSUME TypeInv',
         \A p \in Products : /\ Explains(ledger'[p], stock'[p])
                             /\ shelf'[p] = "ABSENT" => ledger'[p] = <<>>
  PROVE  LedgerInv'
BY DEF LedgerInv, LedgerExplainsStock, NothingBeforeCreation, Explains

\* A step that leaves the catalog's quantities alone and creates nothing.
LEMMA QuantitiesUntouched ==
  ASSUME LedgerInv, TypeInv', UNCHANGED <<stock, ledger>>,
         \A p \in Products : shelf'[p] = "ABSENT" => shelf[p] = "ABSENT"
  PROVE  LedgerInv'
BY OfProduct, ByProduct

\* No database, no movements.
LEMMA InitLedger == Init => LedgerInv
<1> SUFFICES ASSUME Init PROVE LedgerInv
  OBVIOUS
<1>1. \A p \in Products : ledger[p] = <<>> /\ stock[p] = 0
  BY DEF Init
<1> QED
  BY <1>1, InitType DEF LedgerInv, LedgerExplainsStock, NothingBeforeCreation

\* A commit moves each product of its cart down from what was checked in the same
\* transaction, and touches no other; all of them are on sale.
LEMMA CommitLedger ==
  ASSUME LedgerInv, TypeInv', CommitSale
  PROVE  LedgerInv'
<1> DEFINE c == op.cart
           sale == Len(sales) + 1
<1>1. /\ Completable(c)
      /\ Deduct(c, sale)
      /\ UNCHANGED shelf
  BY DEF CommitSale, Phase2Accepts
<1>2. c \in Carts
  BY NextStage DEF LedgerInv, TypeInv, CommitSale
<1>3. sale \in Nat
  BY DEF LedgerInv, TypeInv, TypeOK
<1> HIDE DEF c, sale
<1>4. ASSUME NEW p \in Products
      PROVE  /\ Explains(ledger'[p], stock'[p])
             /\ shelf'[p] = "ABSENT" => ledger'[p] = <<>>
  <2>1. /\ Explains(ledger[p], stock[p])
        /\ ledger[p] \in Seq(Movement)
        /\ stock[p] \in Nat
        /\ shelf[p] = "ABSENT" => ledger[p] = <<>>
    BY OfProduct
  <2>2. Demand[c][p] \in Nat
    BY <1>2, CartAssumption
  <2>3. stock'[p] = stock[p] - Demand[c][p]
    BY <1>1 DEF Deduct
  <2>4. CASE p \in Wanted(c)
    <3> DEFINE m == [type |-> "SALE", sale |-> sale, reverses |-> 0,
                     before |-> stock[p], after |-> stock[p] - Demand[c][p]]
    <3>1. ledger'[p] = Append(ledger[p], m)
      BY <1>1, <2>4 DEF Deduct, Move
    <3>2. Demand[c][p] > 0 /\ Demand[c][p] <= stock[p] /\ shelf[p] = "ACTIVE"
      BY <1>1, <2>4 DEF Completable, Wanted
    <3>3. m \in Movement
      BY <1>3, <2>1, <2>2, <3>2 DEF Movement, MovementType
    <3>4. m.before = stock[p] /\ m.after = stock'[p] /\ m.after # stock[p]
      BY <2>1, <2>2, <2>3, <3>2
    <3> HIDE DEF m
    <3> QED
      BY <1>1, <2>1, <3>1, <3>2, <3>3, <3>4, Explained
  <2>5. CASE p \notin Wanted(c)
    <3>1. ledger'[p] = ledger[p]
      BY <1>1, <2>5 DEF Deduct
    <3>2. stock'[p] = stock[p]
      BY <2>1, <2>2, <2>3, <2>5 DEF Wanted
    <3> QED
      BY <1>1, <2>1, <3>1, <3>2
  <2> QED
    BY <2>4, <2>5
<1> QED
  BY <1>4, ByProduct

\* A void moves each product of the sale up by what its SALE movement took.
LEMMA VoidLedger ==
  ASSUME LedgerInv, TypeInv', NEW s \in DOMAIN sales, VoidSale(s)
  PROVE  LedgerInv'
<1> DEFINE sold(p) == OriginalMovements(p, s) # {}
           original(p) == CHOOSE k \in OriginalMovements(p, s) : TRUE
           after(p) == stock[p] + Restored(p, original(p))
<1>1. /\ stock' = [p \in Products |-> IF sold(p) THEN after(p) ELSE stock[p]]
      /\ ledger' = [p \in Products |->
                      IF sold(p) THEN Move(p, "VOID_REVERSAL", s, original(p), after(p))
                      ELSE ledger[p]]
      /\ UNCHANGED shelf
  BY DEF VoidSale, ReturnToStock
<1>2. s \in Nat
  BY DEF LedgerInv, TypeInv, TypeOK
<1>3. ASSUME NEW p \in Products
      PROVE  /\ Explains(ledger'[p], stock'[p])
             /\ shelf'[p] = "ABSENT" => ledger'[p] = <<>>
  <2>1. /\ Explains(ledger[p], stock[p])
        /\ ledger[p] \in Seq(Movement)
        /\ stock[p] \in Nat
        /\ shelf[p] = "ABSENT" => ledger[p] = <<>>
    BY OfProduct
  <2>2. CASE sold(p)
    <3> DEFINE o == original(p)
               m == [type |-> "VOID_REVERSAL", sale |-> s, reverses |-> o,
                     before |-> stock[p], after |-> after(p)]
    <3>1. o \in OriginalMovements(p, s)
      BY <2>2
    <3>2. /\ ledger'[p] = Append(ledger[p], m)
          /\ stock'[p] = after(p)
      BY <1>1, <2>2 DEF Move
    <3> HIDE DEF o
    <3>3. /\ o \in DOMAIN ledger[p] /\ o \in Nat
          /\ ledger[p][o] \in Movement
          /\ ledger[p][o].type = "SALE"
      BY <2>1, <3>1 DEF OriginalMovements
    <3>4. ledger[p][o].after <= ledger[p][o].before
      BY <3>3 DEF LedgerInv, TypeInv, SalesTakeStock
    <3>5. ledger[p][o].after # ledger[p][o].before
      BY <2>1, <3>3 DEF Explains
    <3>6. Restored(p, o) \in Nat \ {0}
      BY <3>3, <3>4, <3>5 DEF Restored, Movement
    <3>7. after(p) \in Nat /\ after(p) # stock[p]
      BY <2>1, <3>6 DEF o
    <3> HIDE DEF after
    <3>8. m \in Movement /\ m.before = stock[p] /\ m.after = after(p)
      BY <1>2, <2>1, <3>3, <3>7 DEF Movement, MovementType
    <3>9. shelf[p] # "ABSENT"
      BY <2>1, <3>3
    <3> HIDE DEF m
    <3> QED
      BY <1>1, <2>1, <3>2, <3>7, <3>8, <3>9, Explained
  <2>3. CASE ~sold(p)
    BY <1>1, <2>1, <2>3
  <2> QED
    BY <2>2, <2>3
<1> HIDE DEF sold, original, after
<1> QED
  BY <1>3, ByProduct

\* A count or a correction of one product.
LEMMA CountedLedger ==
  ASSUME LedgerInv, TypeInv', NEW p \in Products, NEW after \in 0..StockMax,
         after # stock[p],
         NEW type \in {"INITIAL_STOCK", "MANUAL_ADJUSTMENT"},
         ledger' = [ledger EXCEPT ![p] = Move(p, type, 0, 0, after)],
         stock' = [stock EXCEPT ![p] = after],
         shelf'[p] # "ABSENT",
         \A q \in Products \ {p} : shelf'[q] = shelf[q]
  PROVE  LedgerInv'
<1> DEFINE m == [type |-> type, sale |-> 0, reverses |-> 0,
                 before |-> stock[p], after |-> after]
<1>1. after \in Nat
  BY BoundAssumption
<1>2. /\ m \in Movement /\ m.before = stock[p] /\ m.after = after
      /\ ledger' = [ledger EXCEPT ![p] = Append(ledger[p], m)]
  BY <1>1, OfProduct DEF Move, Movement, MovementType
<1> HIDE DEF m
<1>3. /\ ledger \in [Products -> Seq(Movement)]
      /\ stock \in [Products -> Nat]
  BY DEF LedgerInv, TypeInv, TypeOK
<1>4. ASSUME NEW q \in Products
      PROVE  /\ Explains(ledger'[q], stock'[q])
             /\ shelf'[q] = "ABSENT" => ledger'[q] = <<>>
  <2>1. CASE q = p
    <3>1. ledger'[q] = Append(ledger[p], m) /\ stock'[q] = m.after
      BY <1>2, <1>3, <2>1
    <3>2. /\ Explains(ledger[p], stock[p])
          /\ ledger[p] \in Seq(Movement)
      BY OfProduct
    <3>3. Explains(Append(ledger[p], m), m.after)
      BY <1>2, <3>2, Explained
    <3> QED
      BY <2>1, <3>1, <3>3
  <2>2. CASE q # p
    <3>1. ledger'[q] = ledger[q] /\ stock'[q] = stock[q] /\ shelf'[q] = shelf[q]
      BY <1>2, <1>3, <2>2
    <3> QED
      BY <3>1, OfProduct
  <2> QED
    BY <2>1, <2>2
<1> QED
  BY <1>4, ByProduct

\* Products are created with their starting quantity as the first movement, or
\* with none; archiving and repricing move nothing.
LEMMA BackOfficeLedger ==
  ASSUME LedgerInv, TypeInv', BackOffice
  PROVE  LedgerInv'
<1>1. ASSUME NEW p \in Products, NEW cents \in Prices, NEW quantity \in 0..StockMax,
             CreateProduct(p, cents, quantity)
      PROVE  LedgerInv'
  <2>1. /\ stock[p] = 0 /\ ledger[p] = <<>>
        /\ shelf' = [shelf EXCEPT ![p] = "ACTIVE"]
        /\ stock' = [stock EXCEPT ![p] = quantity]
    BY <1>1, OfProduct DEF CreateProduct
  <2>2. shelf'[p] # "ABSENT" /\ \A q \in Products \ {p} : shelf'[q] = shelf[q]
    BY <2>1 DEF LedgerInv, TypeInv, TypeOK
  <2>3. CASE quantity > 0
    <3>1. /\ quantity # stock[p]
          /\ ledger' = [ledger EXCEPT ![p] = Move(p, "INITIAL_STOCK", 0, 0, quantity)]
      BY <1>1, <2>1, <2>3 DEF CreateProduct
    <3> QED
      BY <2>1, <2>2, <3>1, CountedLedger
  <2>4. CASE ~(quantity > 0)
    <3>1. quantity = 0
      BY <2>4, BoundAssumption
    <3>2. stock' = stock /\ ledger' = ledger
      BY <1>1, <2>1, <2>4, <3>1 DEF CreateProduct, LedgerInv, TypeInv, TypeOK
    <3>3. \A q \in Products : shelf'[q] = "ABSENT" => shelf[q] = "ABSENT"
      BY <2>2
    <3> QED
      BY <3>2, <3>3, QuantitiesUntouched
  <2> QED
    BY <2>3, <2>4
<1>2. ASSUME NEW p \in Products, NEW cents \in Prices, UpdateProduct(p, cents)
      PROVE  LedgerInv'
  BY <1>2, QuantitiesUntouched DEF UpdateProduct
<1>3. ASSUME NEW p \in Products, ArchiveProduct(p)
      PROVE  LedgerInv'
  <2>1. \A q \in Products : shelf'[q] = "ABSENT" => shelf[q] = "ABSENT"
    BY <1>3 DEF ArchiveProduct, LedgerInv, TypeInv, TypeOK
  <2> QED
    BY <1>3, <2>1, QuantitiesUntouched DEF ArchiveProduct
<1>4. ASSUME NEW p \in Products, NEW after \in 0..StockMax, AdjustStock(p, after)
      PROVE  LedgerInv'
  BY <1>4, CountedLedger DEF AdjustStock
<1>5. ASSUME NEW t \in TaxRates, UpdateTaxRate(t)
      PROVE  LedgerInv'
  BY <1>5, QuantitiesUntouched DEF UpdateTaxRate, catalog
<1>6. CASE UpdateBusinessConfig
  BY <1>6, QuantitiesUntouched DEF UpdateBusinessConfig, catalog
<1> QED
  BY <1>1, <1>2, <1>3, <1>4, <1>5, <1>6, VoidLedger DEF BackOffice

\* Only a commit and the back office move goods.
LEMMA StepLedger == LedgerInv /\ [Next]_vars => LedgerInv'
<1> SUFFICES ASSUME LedgerInv, [Next]_vars PROVE LedgerInv'
  OBVIOUS
<1>1. TypeInv'
  BY StepType DEF LedgerInv
<1>2. CASE Cash
  BY <1>1, <1>2, QuantitiesUntouched DEF Cash, SubmitCash, RetryCash, catalog
<1>3. CASE Card
  BY <1>1, <1>3, QuantitiesUntouched
  DEF Card, BeginCard, ConfirmApproval, ConfirmApprovalFails, RetryCard, CloverCharges,
      DeclineCard, BecomeStale, Resolve, catalog
<1>4. CASE CommitSale
  BY <1>1, <1>4, CommitLedger
<1>5. CASE Phase2Fails \/ RecordCommitFailed \/ RecordCommitFailedLost \/ RecordFailureAudit
  BY <1>1, <1>5, QuantitiesUntouched
  DEF Phase2Fails, RecordCommitFailed, RecordCommitFailedLost, RecordFailureAudit, catalog
<1>6. CASE Crash
  BY <1>1, <1>6, QuantitiesUntouched DEF Crash, catalog
<1>7. CASE BackOffice
  BY <1>1, <1>7, BackOfficeLedger
<1>8. CASE UNCHANGED vars
  BY <1>1, <1>8, QuantitiesUntouched DEF vars, catalog
<1> QED
  BY <1>2, <1>3, <1>4, <1>5, <1>6, <1>7, <1>8 DEF Next, Handler

\* Sales, voids, counts and corrections, in any order and number, leave a ledger
\* from which the quantity on hand can be recomputed, with no gap and no movement
\* of nothing.
THEOREM LedgerExplains == Spec => []LedgerExplainsStock
<1>1. LedgerInv => LedgerExplainsStock
  BY DEF LedgerInv
<1> QED
  BY <1>1, InitLedger, StepLedger, PTL DEF Spec
===============================================================================
