------------------------------- MODULE Checkout -------------------------------
(* The checkout, reconciliation, void and inventory core of the point of sale  *)
(* (src/main/checkout, src/main/reconciliation, src/main/void,                 *)
(* src/main/inventory, src/main/products, src/main/settings).                  *)
(*                                                                             *)
(* All of this code is synchronous and runs in one process over one SQLite     *)
(* connection: a db.transaction(...).immediate() is one atomic step, and no    *)
(* other handler runs between two transactions of one handler call.  What can  *)
(* happen there is that a transaction fails or that the process dies, so a     *)
(* handler that runs several transactions is several actions, with op the      *)
(* handler in flight.                                                          *)
(*                                                                             *)
(* A cart is a checkout payload: its customer, payment method and lines, the   *)
(* lines with the sold prices.  Method, Demand, Sold and Total give what the   *)
(* code computes of it.                                                        *)
(*                                                                             *)
(* Operators whose comment starts with "Mutated:" are defective variants of    *)
(* the definition that follows them.  Nothing uses them: each shows that a     *)
(* property of the project would notice that defect.                           *)
EXTENDS Integers, Sequences, FiniteSets, ExportJobs

CONSTANTS
  Requests,         \* request ids (UUIDs of the renderer)
  Products,         \* product ids
  Carts,            \* checkout payloads
  Prices,           \* selling prices in cents
  TaxRates,         \* tax rates in basis points
  Unset,            \* the tax rate of a store that never saved one
  Method,           \* [Carts -> {"CASH", "CARD"}]
  Demand,           \* [Carts -> [Products -> Nat]]: quantity per product
  Total,            \* [Carts -> [TaxRates -> Nat]]: total_cents
  Sold,             \* [Carts -> [Products -> SUBSET Nat]]: prices of its lines
  LineQuantityMax,  \* CART_LINE_QUANTITY_MAX
  TotalMax,         \* CHECKOUT_TOTAL_CENTS_MAX
  StockMax,         \* bound on the quantity a count or an adjustment enters
  LedgerMax         \* bound on the adjustments: no adjustment past this length

ASSUME CartAssumption ==
  /\ Method \in [Carts -> {"CASH", "CARD"}]
  /\ Demand \in [Carts -> [Products -> Nat]]
  /\ Total \in [Carts -> [TaxRates -> Nat]]
  /\ Sold \in [Carts -> [Products -> SUBSET Nat]]
  /\ \A c \in Carts : \E p \in Products : Demand[c][p] > 0

ASSUME SettingAssumption ==
  /\ Prices \subseteq Nat
  /\ TaxRates \subseteq Nat
  /\ Unset \notin TaxRates

ASSUME BoundAssumption ==
  /\ LineQuantityMax \in Nat
  /\ TotalMax \in Nat
  /\ StockMax \in Nat
  /\ LedgerMax \in Nat

VARIABLES
  rows,        \* checkout_requests: a function from the request ids recorded
  sales,       \* sales, sale_items and payments, in order of commit
  receipts,    \* counters.receipt_number
  jobs,        \* google_sheet_export_jobs: the job of each sale
  shelf,       \* products.is_active, "ABSENT" before the product is created
  price,       \* products.selling_price_cents
  stock,       \* products.quantity_on_hand
  ledger,      \* inventory_movements of each product, in order of commit
  taxRate,     \* settings.tax_rate_bps
  configured,  \* readBusinessConfig(db).configured
  audits,      \* the kinds of audit_events recorded about each subject
  op,          \* the handler in flight
  clover       \* external: what the Clover terminal charged for each request

catalog == <<shelf, price, stock, ledger>>
settings == <<taxRate, configured>>
vars == <<rows, sales, receipts, jobs, shelf, price, stock, ledger, taxRate,
          configured, audits, op, clover>>

-------------------------------------------------------------------------------
(* Rows.                                                                       *)

RowStatus == {"PENDING_PAYMENT", "SUBMITTED", "COMPLETED", "COMMIT_FAILED"}
FailureCode == {"NONE", "CLOVER_DECLINED", "REJECTED", "SALE_COMMIT_FAILED"}

\* What request_fingerprint is a hash of: the payload and the listed prices and
\* tax rate the review showed (0 stands for a product that is not in the cart).
Fingerprint == [cart: Carts, listed: [Products -> Prices \cup {0}], tax: TaxRates]

Row == [fingerprint: Fingerprint, method: {"CASH", "CARD"}, intended: Nat,
        status: RowStatus, approved: BOOLEAN, failure: FailureCode,
        sale: Nat, stale: BOOLEAN, resolution: {"OPEN", "BY_HAND", "ON_RETRY"}]

Sale == [request: Requests, fingerprint: Fingerprint, method: {"CASH", "CARD"},
         total: Nat, receipt: Nat, status: {"COMPLETED", "VOIDED"}, version: Nat]

MovementType == {"INITIAL_STOCK", "SALE", "VOID_REVERSAL", "MANUAL_ADJUSTMENT"}

\* sale = 0 and reverses = 0 stand for NULL; reverses is the position of the
\* reversed movement in the product's own ledger.
Movement == [type: MovementType, sale: Nat, reverses: Nat, before: Nat, after: Nat]

Idle == [at |-> "IDLE"]
InFlight == [at: {"PHASE2", "RECORD", "AUDIT"}, request: Requests, cart: Carts,
             code: FailureCode \ {"CLOVER_DECLINED"}]

Phase2(r, c) == [at |-> "PHASE2", request |-> r, cart |-> c, code |-> "NONE"]

\* Statuses runSalePhase2 and markCheckoutRequestCommitFailed accept.
Eligible == {"SUBMITTED", "COMMIT_FAILED"}

Extend(f, x, y) == [z \in DOMAIN f \cup {x} |-> IF z = x THEN y ELSE f[z]]

NewRow(fp, c, status) ==
  [fingerprint |-> fp, method |-> Method[c], intended |-> Total[c][taxRate],
   status |-> status, approved |-> FALSE, failure |-> "NONE", sale |-> 0,
   stale |-> FALSE, resolution |-> "OPEN"]

Audit == ({"SALE_COMPLETED", "PRICE_OVERRIDE", "SALE_VOIDED"} \X Nat)
         \cup ({"CARD_LOCAL_COMMIT_FAILURE"} \X Requests)
         \cup ({"INVENTORY_ADJUSTED"} \X Products)
         \cup ({"SETTING_CHANGED"} \X {"tax_rate_bps", "business_information"})

-------------------------------------------------------------------------------
(* recalculateCheckout, against the current rows of products and settings.     *)

Wanted(c) == {p \in Products : Demand[c][p] > 0}

\* Mutated: the stock check is left to the review.
CompletableIgnoringStock(c) ==
  /\ \A p \in Wanted(c) : shelf[p] = "ACTIVE" /\ Demand[c][p] <= LineQuantityMax
  /\ taxRate # Unset
  /\ Total[c][taxRate] <= TotalMax

\* Every exception it can throw, negated: a product missing or archived, the
\* aggregated quantity above the line maximum or the stock, no tax rate, a
\* total above the ceiling.
Completable(c) ==
  /\ \A p \in Wanted(c) : /\ shelf[p] = "ACTIVE"
                          /\ Demand[c][p] <= LineQuantityMax
                          /\ Demand[c][p] <= stock[p]
  /\ taxRate # Unset
  /\ Total[c][taxRate] <= TotalMax

CurrentFingerprint(c) ==
  [cart   |-> c,
   listed |-> [p \in Products |-> IF Demand[c][p] > 0 THEN price[p] ELSE 0],
   tax    |-> taxRate]

\* An override is a line sold at another price than the one listed.
Overridden(fp) ==
  \E p \in Products : \E s \in Sold[fp.cart][p] : s # fp.listed[p]

-------------------------------------------------------------------------------
(* Phase 1.                                                                    *)

\* What an earlier review of the cart may have answered: any prices and tax rate,
\* as they may have been in force then and been changed since without a trace.
Reviews(c) ==
  [cart   : {c},
   listed : {l \in [Products -> Prices \cup {0}] :
               \A p \in Products : IF p \in Wanted(c) THEN l[p] \in Prices ELSE l[p] = 0},
   tax    : TaxRates]

\* Mutated: INSERT OR REPLACE.
SubmitCashReplacing(r, c, fp) ==
  /\ op = Idle
  /\ Method[c] = "CASH"
  /\ configured
  /\ Completable(c)
  /\ rows' = Extend(rows, r, NewRow(fp, c, "SUBMITTED"))
  /\ op' = Phase2(r, c)
  /\ UNCHANGED <<sales, receipts, jobs, catalog, settings, audits, clover>>

\* completeCashSale with a new request id: it is inserted if it plainly can be
\* completed; its fingerprint is not compared with the current one here.
SubmitCash(r, c, fp) ==
  /\ op = Idle
  /\ Method[c] = "CASH"
  /\ r \notin DOMAIN rows
  /\ configured
  /\ Completable(c)
  /\ rows' = Extend(rows, r, NewRow(fp, c, "SUBMITTED"))
  /\ op' = Phase2(r, c)
  /\ UNCHANGED <<sales, receipts, jobs, catalog, settings, audits, clover>>

\* completeCashSale with a recorded id, sent with its fingerprint but maybe not
\* with the payload reviewed.  A COMPLETED row is answered from the sale it
\* names, any other row that is not eligible is refused: nothing changes.
RetryCash(r, c) ==
  /\ op = Idle
  /\ Method[c] = "CASH"
  /\ r \in DOMAIN rows
  /\ rows[r].method = "CASH"
  /\ rows[r].status \in Eligible
  /\ op' = Phase2(r, c)
  /\ UNCHANGED <<rows, sales, receipts, jobs, catalog, settings, audits, clover>>

\* beginCard: Step A.  Only a new request changes anything, and only one whose
\* current fingerprint is the one reviewed.
BeginCard(r, c) ==
  /\ op = Idle
  /\ Method[c] = "CARD"
  /\ r \notin DOMAIN rows
  /\ configured
  /\ Completable(c)
  /\ rows' = Extend(rows, r, NewRow(CurrentFingerprint(c), c, "PENDING_PAYMENT"))
  /\ UNCHANGED <<sales, receipts, jobs, catalog, settings, audits, op, clover>>

\* External: the terminal charges the amount beginCard told the cashier.
CloverCharges(r) ==
  /\ r \in DOMAIN rows \ DOMAIN clover
  /\ rows[r].status = "PENDING_PAYMENT"
  /\ clover' = Extend(clover, r, rows[r].intended)
  /\ UNCHANGED <<rows, sales, receipts, jobs, catalog, settings, audits, op>>

\* completeCard up to Phase 2, called by a cashier who saw the terminal approve.
\* The checkout payload c comes with the call and may not be the one reviewed.
MayCompleteCard(r, c) ==
  /\ op = Idle
  /\ r \in DOMAIN rows
  /\ rows[r].method = "CARD"
  /\ Method[c] = "CARD"
  /\ r \in DOMAIN clover

\* Mutated: the status advances without the approval timestamp.
ConfirmApprovalUnstamped(r, c) ==
  /\ MayCompleteCard(r, c)
  /\ rows[r].status = "PENDING_PAYMENT"
  /\ rows' = [rows EXCEPT ![r].status = "SUBMITTED"]
  /\ op' = Phase2(r, c)
  /\ UNCHANGED <<sales, receipts, jobs, catalog, settings, audits, clover>>

\* Step B commits: confirmCardCheckoutApproval.
ConfirmApproval(r, c) ==
  /\ MayCompleteCard(r, c)
  /\ rows[r].status = "PENDING_PAYMENT"
  /\ rows' = [rows EXCEPT ![r].status = "SUBMITTED", ![r].approved = TRUE]
  /\ op' = Phase2(r, c)
  /\ UNCHANGED <<sales, receipts, jobs, catalog, settings, audits, clover>>

\* Step B does not commit: Phase 2 is not attempted, only the audit is.
ConfirmApprovalFails(r, c) ==
  /\ MayCompleteCard(r, c)
  /\ rows[r].status = "PENDING_PAYMENT"
  /\ op' = [Phase2(r, c) EXCEPT !.at = "AUDIT", !.code = "SALE_COMMIT_FAILED"]
  /\ UNCHANGED <<rows, sales, receipts, jobs, catalog, settings, audits, clover>>

\* A retry of an approved attempt, which skips Step B.
RetryCard(r, c) ==
  /\ MayCompleteCard(r, c)
  /\ rows[r].status \in Eligible
  /\ rows[r].failure # "CLOVER_DECLINED"
  /\ op' = Phase2(r, c)
  /\ UNCHANGED <<rows, sales, receipts, jobs, catalog, settings, audits, clover>>

\* declineCard, called by a cashier whose terminal did not approve.
DeclineCard(r) ==
  /\ op = Idle
  /\ r \in DOMAIN rows \ DOMAIN clover
  /\ rows[r].method = "CARD"
  /\ rows[r].status = "PENDING_PAYMENT"
  /\ rows' = [rows EXCEPT ![r].status = "COMMIT_FAILED",
                          ![r].failure = "CLOVER_DECLINED"]
  /\ UNCHANGED <<sales, receipts, jobs, catalog, settings, audits, op, clover>>

-------------------------------------------------------------------------------
(* Phase 2: runSalePhase2, one transaction.                                    *)

\* Mutated: no drift gate, the intended total alone is compared.
Phase2AcceptsDrift(r, c) ==
  /\ rows[r].status \in Eligible
  /\ rows[r].method = Method[c]
  /\ Completable(c)
  /\ rows[r].method = "CARD" => rows[r].intended = Total[c][taxRate]
  /\ configured

Phase2Accepts(r, c) ==
  /\ rows[r].status \in Eligible
  /\ rows[r].method = Method[c]
  /\ Completable(c)
  /\ rows[r].fingerprint = CurrentFingerprint(c)
  /\ rows[r].method = "CARD" => rows[r].intended = Total[c][taxRate]
  /\ configured

NewSale(r, c) ==
  [request |-> r, fingerprint |-> CurrentFingerprint(c), method |-> Method[c],
   total |-> Total[c][taxRate], receipt |-> receipts + 1,
   status |-> "COMPLETED", version |-> 1]

\* setProductQuantity and insertMovement: the ledger of a product grows by a
\* movement from its current quantity to the new one.
Move(p, type, sale, reverses, after) ==
  Append(ledger[p], [type |-> type, sale |-> sale, reverses |-> reverses,
                     before |-> stock[p], after |-> after])

Deduct(c, sale) ==
  /\ stock' = [p \in Products |-> stock[p] - Demand[c][p]]
  /\ ledger' = [p \in Products |->
                  IF p \in Wanted(c)
                  THEN Move(p, "SALE", sale, 0, stock[p] - Demand[c][p])
                  ELSE ledger[p]]

\* A Card retry that started from an incident closes it.
Resolution(row) ==
  IF row.method = "CARD" /\ row.status = "COMMIT_FAILED"
                         /\ row.failure # "CLOVER_DECLINED"
  THEN "ON_RETRY" ELSE row.resolution

\* Mutated: the sale is linked but the row stays eligible.
MarkLinked(row, sale) ==
  [row EXCEPT !.sale = sale, !.failure = "NONE", !.resolution = Resolution(row)]

MarkCompleted(row, sale) ==
  [row EXCEPT !.status = "COMPLETED", !.sale = sale, !.failure = "NONE",
              !.resolution = Resolution(row)]

\* The one transaction of the sale.  A Card handler reads the sale back inside
\* its try: when summarize throws, the committed sale is answered as a failure.
CommitSale ==
  /\ op.at = "PHASE2"
  /\ Phase2Accepts(op.request, op.cart)
  /\ LET r == op.request
         c == op.cart
         sale == Len(sales) + 1
     IN /\ sales' = Append(sales, NewSale(r, c))
        /\ receipts' = receipts + 1
        /\ Deduct(c, sale)
        /\ jobs' = Append(jobs, NewJob)
        /\ audits' = audits \cup {<<"SALE_COMPLETED", sale>>} \cup
             (IF Overridden(CurrentFingerprint(c))
              THEN {<<"PRICE_OVERRIDE", sale>>} ELSE {})
        /\ rows' = [rows EXCEPT ![r] = MarkCompleted(@, sale)]
  /\ \/ op' = Idle
     \/ /\ Method[op.cart] = "CARD"
        /\ op' = [op EXCEPT !.at = "RECORD", !.code = "SALE_COMMIT_FAILED"]
  /\ UNCHANGED <<shelf, price, settings, clover>>

\* Mutated: the receipt counter is not rolled back with the sale.
Phase2FailsKeepingNumber ==
  /\ op.at = "PHASE2"
  /\ ~Phase2Accepts(op.request, op.cart)
  /\ op' = [op EXCEPT !.at = "RECORD", !.code = "REJECTED"]
  /\ receipts' = receipts + 1
  /\ UNCHANGED <<rows, sales, jobs, catalog, settings, audits, clover>>

\* Phase 2 rolls back, because it rejects the checkout or because the
\* transaction itself fails.
Phase2Fails ==
  /\ op.at = "PHASE2"
  /\ \/ /\ ~Phase2Accepts(op.request, op.cart)
        /\ op' = [op EXCEPT !.at = "RECORD", !.code = "REJECTED"]
     \/ op' = [op EXCEPT !.at = "RECORD", !.code = "SALE_COMMIT_FAILED"]
  /\ UNCHANGED <<rows, sales, receipts, jobs, catalog, settings, audits, clover>>

MarkCommitFailed(row, code) ==
  IF row.status \in Eligible
  THEN [row EXCEPT !.status = "COMMIT_FAILED", !.failure = code] ELSE row

AfterRecord ==
  op' = IF Method[op.cart] = "CARD" THEN [op EXCEPT !.at = "AUDIT"] ELSE Idle

\* recordCommitFailed / recordCardCommitFailed, a transaction of its own.
RecordCommitFailed ==
  /\ op.at = "RECORD"
  /\ rows' = [rows EXCEPT ![op.request] = MarkCommitFailed(@, op.code)]
  /\ AfterRecord
  /\ UNCHANGED <<sales, receipts, jobs, catalog, settings, audits, clover>>

\* It is best-effort: its failure is swallowed.
RecordCommitFailedLost ==
  /\ op.at = "RECORD"
  /\ AfterRecord
  /\ UNCHANGED <<rows, sales, receipts, jobs, catalog, settings, audits, clover>>

\* recordCardCommitFailureAudit, a transaction of its own; losing it is the
\* same as a crash before it.
RecordFailureAudit ==
  /\ op.at = "AUDIT"
  /\ audits' = audits \cup {<<"CARD_LOCAL_COMMIT_FAILURE", op.request>>}
  /\ op' = Idle
  /\ UNCHANGED <<rows, sales, receipts, jobs, catalog, settings, clover>>

\* The process dies between two transactions of a handler.
Crash ==
  /\ op # Idle
  /\ op' = Idle
  /\ UNCHANGED <<rows, sales, receipts, jobs, catalog, settings, audits, clover>>

-------------------------------------------------------------------------------
(* Reconciliation.                                                             *)

\* RECONCILIATION_STALE_MINUTES pass while a Card request waits for its payment.
BecomeStale(r) ==
  /\ r \in DOMAIN rows
  /\ rows[r].status = "PENDING_PAYMENT"
  /\ ~rows[r].stale
  /\ rows' = [rows EXCEPT ![r].stale = TRUE]
  /\ UNCHANGED <<sales, receipts, jobs, catalog, settings, audits, op, clover>>

IsIncident(row) ==
  \/ row.status = "COMMIT_FAILED" /\ row.failure # "CLOVER_DECLINED"
  \/ row.status = "PENDING_PAYMENT" /\ row.stale

\* listUnresolvedCardIncidents
InQueue(row) == row.method = "CARD" /\ row.resolution = "OPEN" /\ IsIncident(row)

\* reconciliationService.resolve: a person closes an incident with a note.
Resolve(r) ==
  /\ op = Idle
  /\ r \in DOMAIN rows
  /\ InQueue(rows[r])
  /\ rows' = [rows EXCEPT ![r].resolution = "BY_HAND"]
  /\ UNCHANGED <<sales, receipts, jobs, catalog, settings, audits, op, clover>>

-------------------------------------------------------------------------------
(* Void.                                                                       *)

\* listOriginalSaleMovements, for one product: positions in its ledger.
OriginalMovements(p, s) ==
  {k \in DOMAIN ledger[p] : ledger[p][k].type = "SALE" /\ ledger[p][k].sale = s}

Restored(p, k) == ledger[p][k].before - ledger[p][k].after

\* Mutated: the product gets back the quantity it had before the sale.
ReturnToOldStock(s) ==
  LET sold(p) == OriginalMovements(p, s) # {}
      original(p) == CHOOSE k \in OriginalMovements(p, s) : TRUE
      after(p) == ledger[p][original(p)].before
  IN /\ stock' = [p \in Products |-> IF sold(p) THEN after(p) ELSE stock[p]]
     /\ ledger' = [p \in Products |->
                     IF sold(p)
                     THEN Move(p, "VOID_REVERSAL", s, original(p), after(p))
                     ELSE ledger[p]]

\* The reversal is added to what the product holds now, archived or not.
ReturnToStock(s) ==
  LET sold(p) == OriginalMovements(p, s) # {}
      original(p) == CHOOSE k \in OriginalMovements(p, s) : TRUE
      after(p) == stock[p] + Restored(p, original(p))
  IN /\ stock' = [p \in Products |-> IF sold(p) THEN after(p) ELSE stock[p]]
     /\ ledger' = [p \in Products |->
                     IF sold(p)
                     THEN Move(p, "VOID_REVERSAL", s, original(p), after(p))
                     ELSE ledger[p]]

\* voidService.voidSale, one transaction.
VoidSale(s) ==
  /\ op = Idle
  /\ s \in DOMAIN sales
  /\ sales[s].status = "COMPLETED"
  /\ \E p \in Products : OriginalMovements(p, s) # {}
  /\ sales' = [sales EXCEPT ![s].status = "VOIDED", ![s].version = @ + 1]
  /\ ReturnToStock(s)
  /\ jobs' = [jobs EXCEPT ![s] = RequeueForVoid(@, sales[s].version + 1)]
  /\ audits' = audits \cup {<<"SALE_VOIDED", s>>}
  /\ UNCHANGED <<rows, receipts, shelf, price, settings, op, clover>>

-------------------------------------------------------------------------------
(* The back office: products, inventory counts, settings.                      *)

\* Mutated: the starting quantity has no movement.
CreateProductUnrecorded(p, cents, quantity) ==
  /\ op = Idle
  /\ shelf[p] = "ABSENT"
  /\ shelf' = [shelf EXCEPT ![p] = "ACTIVE"]
  /\ price' = [price EXCEPT ![p] = cents]
  /\ stock' = [stock EXCEPT ![p] = quantity]
  /\ UNCHANGED <<rows, sales, receipts, jobs, ledger, settings, audits, op, clover>>

\* productService.create; a quantity of 0 writes no movement.
CreateProduct(p, cents, quantity) ==
  /\ op = Idle
  /\ shelf[p] = "ABSENT"
  /\ shelf' = [shelf EXCEPT ![p] = "ACTIVE"]
  /\ price' = [price EXCEPT ![p] = cents]
  /\ stock' = [stock EXCEPT ![p] = quantity]
  /\ ledger' = IF quantity > 0
               THEN [ledger EXCEPT ![p] = Move(p, "INITIAL_STOCK", 0, 0, quantity)]
               ELSE ledger
  /\ UNCHANGED <<rows, sales, receipts, jobs, settings, audits, op, clover>>

\* productService.update never writes the quantity.
UpdateProduct(p, cents) ==
  /\ op = Idle
  /\ shelf[p] # "ABSENT"
  /\ price' = [price EXCEPT ![p] = cents]
  /\ UNCHANGED <<rows, sales, receipts, jobs, shelf, stock, ledger, settings,
                 audits, op, clover>>

\* productService.archive
ArchiveProduct(p) ==
  /\ op = Idle
  /\ shelf[p] = "ACTIVE"
  /\ shelf' = [shelf EXCEPT ![p] = "ARCHIVED"]
  /\ UNCHANGED <<rows, sales, receipts, jobs, price, stock, ledger, settings,
                 audits, op, clover>>

\* inventoryService.adjust: by a delta or to a target, never to no change.
AdjustStock(p, after) ==
  /\ op = Idle
  /\ Len(ledger[p]) < LedgerMax
  /\ shelf[p] # "ABSENT"
  /\ after # stock[p]
  /\ stock' = [stock EXCEPT ![p] = after]
  /\ ledger' = [ledger EXCEPT ![p] = Move(p, "MANUAL_ADJUSTMENT", 0, 0, after)]
  /\ audits' = audits \cup {<<"INVENTORY_ADJUSTED", p>>}
  /\ UNCHANGED <<rows, sales, receipts, jobs, shelf, price, settings, op, clover>>

\* settingsService.updateTaxRate refuses the rate already stored.
UpdateTaxRate(t) ==
  /\ op = Idle
  /\ taxRate # t
  /\ taxRate' = t
  /\ audits' = audits \cup {<<"SETTING_CHANGED", "tax_rate_bps">>}
  /\ UNCHANGED <<rows, sales, receipts, jobs, catalog, configured, op, clover>>

\* settingsService.updateBusinessConfig, once with the required fields filled.
UpdateBusinessConfig ==
  /\ op = Idle
  /\ ~configured
  /\ configured' = TRUE
  /\ audits' = audits \cup {<<"SETTING_CHANGED", "business_information">>}
  /\ UNCHANGED <<rows, sales, receipts, jobs, catalog, taxRate, op, clover>>

-------------------------------------------------------------------------------
Init ==
  /\ rows = [r \in {} |-> Idle]
  /\ sales = <<>>
  /\ receipts = 0
  /\ jobs = <<>>
  /\ shelf = [p \in Products |-> "ABSENT"]
  /\ price = [p \in Products |-> 0]
  /\ stock = [p \in Products |-> 0]
  /\ ledger = [p \in Products |-> <<>>]
  /\ taxRate = Unset
  /\ configured = FALSE
  /\ audits = {}
  /\ op = Idle
  /\ clover = [r \in {} |-> 0]

Card ==
  \E r \in Requests :
    \/ \E c \in Carts : \/ BeginCard(r, c)
                        \/ ConfirmApproval(r, c)
                        \/ ConfirmApprovalFails(r, c)
                        \/ RetryCard(r, c)
    \/ CloverCharges(r)
    \/ DeclineCard(r)
    \/ BecomeStale(r)
    \/ Resolve(r)

Cash ==
  \E r \in Requests, c \in Carts :
    \/ \E fp \in Reviews(c) : SubmitCash(r, c, fp)
    \/ RetryCash(r, c)

\* The steps of the handler in flight.
Handler ==
  \/ CommitSale
  \/ Phase2Fails
  \/ RecordCommitFailed
  \/ RecordCommitFailedLost
  \/ RecordFailureAudit

BackOffice ==
  \/ \E s \in DOMAIN sales : VoidSale(s)
  \/ \E p \in Products :
       \/ \E cents \in Prices : \/ \E q \in 0..StockMax : CreateProduct(p, cents, q)
                                \/ UpdateProduct(p, cents)
       \/ ArchiveProduct(p)
       \/ \E after \in 0..StockMax : AdjustStock(p, after)
  \/ \E t \in TaxRates : UpdateTaxRate(t)
  \/ UpdateBusinessConfig

Next == Cash \/ Card \/ Handler \/ Crash \/ BackOffice

Spec == Init /\ [][Next]_vars
-------------------------------------------------------------------------------
(* Properties.                                                                 *)

\* The tables have the shape of the schema; stock is never negative.
TypeOK ==
  /\ DOMAIN rows \subseteq Requests
  /\ rows \in [DOMAIN rows -> Row]
  /\ sales \in Seq(Sale)
  /\ receipts \in Nat
  /\ jobs \in Seq(Job)
  /\ shelf \in [Products -> {"ABSENT", "ACTIVE", "ARCHIVED"}]
  /\ price \in [Products -> Prices \cup {0}]
  /\ stock \in [Products -> Nat]
  /\ ledger \in [Products -> Seq(Movement)]
  /\ taxRate \in TaxRates \cup {Unset}
  /\ configured \in BOOLEAN
  /\ audits \subseteq Audit
  /\ op \in {Idle} \cup InFlight
  /\ op # Idle => op.request \in DOMAIN rows
  /\ DOMAIN clover \subseteq DOMAIN rows
  /\ clover \in [DOMAIN clover -> Nat]

\* A request id is never turned into two sales, whatever is retried, fails or
\* crashes, and a completed request names exactly the sale it became.
SoldOnce ==
  /\ \A s \in DOMAIN sales :
       /\ sales[s].request \in DOMAIN rows
       /\ rows[sales[s].request].status = "COMPLETED"
       /\ rows[sales[s].request].sale = s
  /\ \A r \in DOMAIN rows :
       rows[r].status = "COMPLETED" =>
         rows[r].sale \in DOMAIN sales /\ sales[rows[r].sale].request = r

\* A Card sale is recorded for exactly what the terminal charged, and any sale
\* for what the cashier reviewed, however prices, rates and stock moved between
\* the review, the payment, a failure and a later retry.
SoldAsCharged ==
  \A s \in DOMAIN sales :
    LET sale == sales[s] IN
    /\ sale.fingerprint = rows[sale.request].fingerprint
    /\ sale.total = Total[sale.fingerprint.cart][sale.fingerprint.tax]
    /\ sale.method = "CARD" => /\ sale.request \in DOMAIN clover
                               /\ sale.total = clover[sale.request]

\* A charge always has its durable row: a Card row with the amount charged, not
\* declined, and with the approval on it unless it still awaits Step B.
ChargeOnRecord ==
  \A r \in DOMAIN clover :
    /\ rows[r].method = "CARD"
    /\ rows[r].intended = clover[r]
    /\ rows[r].failure # "CLOVER_DECLINED"
    /\ rows[r].status = "PENDING_PAYMENT" \/ rows[r].approved

\* Receipt numbers are the sales in order: none is reused, and none is lost to
\* a sale that rolled back.
ReceiptsInSequence ==
  /\ receipts = Len(sales)
  /\ \A s \in DOMAIN sales : sales[s].receipt = s

\* The movements of a product explain its quantity: each starts where the one
\* before it ended, the first from an empty shelf, the last at what is on hand.
LedgerExplainsStock ==
  \A p \in Products :
    LET moves == ledger[p] IN
    /\ \A k \in DOMAIN moves :
         /\ moves[k].before # moves[k].after
         /\ moves[k].before = IF k = 1 THEN 0 ELSE moves[k - 1].after
    /\ stock[p] = IF moves = <<>> THEN 0 ELSE moves[Len(moves)].after

Reversals(p, k) ==
  {j \in DOMAIN ledger[p] : ledger[p][j].type = "VOID_REVERSAL" /\ ledger[p][j].reverses = k}

\* A sale takes from the shelf what its cart holds, once per product; a void
\* gives exactly that back, once, and nothing else does.
VoidReturnsWhatWasSold ==
  \A s \in DOMAIN sales, p \in Products :
    LET sold == OriginalMovements(p, s)
        demand == Demand[sales[s].fingerprint.cart][p]
    IN /\ Cardinality(sold) = IF demand > 0 THEN 1 ELSE 0
       /\ \A k \in sold :
            /\ Restored(p, k) = demand
            /\ Cardinality(Reversals(p, k)) = IF sales[s].status = "VOIDED" THEN 1 ELSE 0
            /\ \A j \in Reversals(p, k) : /\ Restored(p, j) = -demand
                                          /\ ledger[p][j].sale = s

\* Every sale has its export job, and the job always aims at the sale's current
\* revision: the worker never meets its "invariant" outcome.
JobsAimAtSales ==
  /\ DOMAIN jobs = DOMAIN sales
  /\ \A s \in DOMAIN sales : jobs[s].target = sales[s].version

Declined(row) == row.failure = "CLOVER_DECLINED"

Kept(r) ==
  /\ r \in DOMAIN rows'
  /\ rows'[r].fingerprint = rows[r].fingerprint
  /\ rows'[r].method = rows[r].method
  /\ rows'[r].intended = rows[r].intended
  /\ rows[r].approved => rows'[r].approved
  /\ rows[r].status = "COMPLETED" \/ Declined(rows[r]) =>
       /\ rows'[r].status = rows[r].status
       /\ rows'[r].sale = rows[r].sale
       /\ rows'[r].failure = rows[r].failure

\* Evidence is never rewritten: no step deletes a request or changes what was
\* reviewed, intended or approved, and a completed or declined one is final.
EvidenceIsKept == [][\A r \in DOMAIN rows : Kept(r)]_vars

\* The refinement mapping to Shop.
Outcome(r) ==
  IF r \notin DOMAIN rows THEN "NONE"
  ELSE IF Declined(rows[r]) THEN "REFUSED"
  ELSE IF rows[r].status # "COMPLETED" THEN "OPEN"
  ELSE IF sales[rows[r].sale].status = "COMPLETED" THEN "SOLD" ELSE "RETURNED"

Taken(r) ==
  IF r \in DOMAIN rows /\ rows[r].status = "COMPLETED" THEN sales[rows[r].sale].total ELSE 0

DealGoods(fp) == Demand[fp.cart]
DealPrice(fp) == Total[fp.cart][fp.tax]

Abstract == INSTANCE Shop WITH
  Deals   <- Fingerprint,
  NoDeal  <- Idle,
  Goods   <- DealGoods,
  Price   <- DealPrice,
  outcome <- [r \in Requests |-> Outcome(r)],
  deal    <- [r \in Requests |-> IF r \in DOMAIN rows THEN rows[r].fingerprint ELSE Idle],
  taken   <- [r \in Requests |-> Taken(r)],
  onHand  <- stock

\* The tables implement Shop: through every failure, crash and retry a request
\* has one outcome, and goods and money move only with it.
ImplementsShop == Abstract!Spec

\* REQ-RECONCILE-004 and DATA_MODEL 31B: with no handler running, a charge with
\* no sale is in the queue once it is old enough, until a person resolves it.
ChargeNeverForgotten ==
  op = Idle =>
    \A r \in DOMAIN clover :
      \/ rows[r].status = "COMPLETED"
      \/ rows[r].status = "PENDING_PAYMENT" /\ ~rows[r].stale
      \/ rows[r].resolution # "OPEN"
      \/ InQueue(rows[r])
===============================================================================
