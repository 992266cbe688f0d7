--------------------------- MODULE CheckoutReturns ---------------------------
(* What a void gives back, and that the tables implement Shop, for any number  *)
(* of requests, products, carts, prices and tax rates.                         *)
EXTENDS CheckoutProofs, CheckoutSafety, FiniteSetTheorems

USE DEF Idle

-------------------------------------------------------------------------------
(* The movements of one product against the list of sales.  Each SALE movement *)
(* is the only one of its sale and took what the cart holds, and each product  *)
(* of a cart has one; each reversal is the only one of its SALE movement, gives*)
(* back what that took and belongs to a voided sale, and each SALE movement of *)
(* a voided sale has one.                                                      *)

Took(moves, k) == moves[k].before - moves[k].after

Wants(sold, s, p) == Demand[sold[s].fingerprint.cart][p]

SalesMatch(moves, sold, p) ==
  /\ \A k \in DOMAIN moves : moves[k].type = "SALE" =>
       /\ moves[k].sale \in DOMAIN sold
       /\ Took(moves, k) = Wants(sold, moves[k].sale, p)
       /\ Wants(sold, moves[k].sale, p) > 0
       /\ \A i \in DOMAIN moves :
            moves[i].type = "SALE" /\ moves[i].sale = moves[k].sale => i = k
  /\ \A s \in DOMAIN sold : Wants(sold, s, p) > 0 =>
       \E k \in DOMAIN moves : moves[k].type = "SALE" /\ moves[k].sale = s

ReversalsMatch(moves, sold) ==
  /\ \A j \in DOMAIN moves : moves[j].type = "VOID_REVERSAL" =>
       /\ moves[j].reverses \in DOMAIN moves
       /\ moves[moves[j].reverses].type = "SALE"
       /\ moves[j].sale = moves[moves[j].reverses].sale
       /\ sold[moves[j].sale].status = "VOIDED"
       /\ Took(moves, j) = -Took(moves, moves[j].reverses)
       /\ \A i \in DOMAIN moves :
            moves[i].type = "VOID_REVERSAL" /\ moves[i].reverses = moves[j].reverses => i = j
  /\ \A k \in DOMAIN moves :
       moves[k].type = "SALE" /\ sold[moves[k].sale].status = "VOIDED" =>
         \E j \in DOMAIN moves : moves[j].type = "VOID_REVERSAL" /\ moves[j].reverses = k

Matched(moves, sold, p) == SalesMatch(moves, sold, p) /\ ReversalsMatch(moves, sold)

ReturnsInv == LedgerInv /\ \A p \in Products : Matched(ledger[p], sales, p)

\* A longer ledger begins with the shorter one.
LEMMA Lengthened ==
  ASSUME NEW moves \in Seq(Movement), NEW m \in Movement
  PROVE  LET more == Append(moves, m) IN
         /\ DOMAIN more = DOMAIN moves \cup {Len(moves) + 1}
         /\ Len(moves) + 1 \notin DOMAIN moves
         /\ \A k \in DOMAIN moves : more[k] = moves[k]
         /\ more[Len(moves) + 1] = m
<1>1. DOMAIN moves = 1..Len(moves) /\ Len(moves) \in Nat
  OBVIOUS
<1>2. DOMAIN Append(moves, m) = 1..(Len(moves) + 1)
  OBVIOUS
<1> QED
  BY <1>1, <1>2

\* A movement that is neither a sale nor a reversal changes no match.
LEMMA MatchedCount ==
  ASSUME NEW moves \in Seq(Movement), NEW sold, NEW p, Matched(moves, sold, p),
         NEW m \in Movement, m.type \notin {"SALE", "VOID_REVERSAL"}
  PROVE  Matched(Append(moves, m), sold, p)
<1> DEFINE more == Append(moves, m)
           new == Len(moves) + 1
<1>1. /\ DOMAIN more = DOMAIN moves \cup {new}
      /\ new \notin DOMAIN moves
      /\ \A k \in DOMAIN moves : more[k] = moves[k]
      /\ more[new] = m
  BY Lengthened
<1> HIDE DEF more, new
<1>2. \A k \in DOMAIN moves : Took(more, k) = Took(moves, k)
  BY <1>1 DEF Took
<1>3. SalesMatch(more, sold, p)
  BY <1>1, <1>2 DEF Matched, SalesMatch
<1>4. ReversalsMatch(more, sold)
  BY <1>1, <1>2 DEF Matched, ReversalsMatch
<1> QED
  BY <1>3, <1>4 DEF Matched, more

\* A sale that does not want the product leaves its movements alone.
LEMMA MatchedOtherSale ==
  ASSUME NEW moves, NEW sold, NEW p, Matched(moves, sold, p),
         NEW longer, NEW new, DOMAIN longer = DOMAIN sold \cup {new},
         new \notin DOMAIN sold,
         \A s \in DOMAIN sold : longer[s] = sold[s],
         ~(Wants(longer, new, p) > 0)
  PROVE  Matched(moves, longer, p)
<1>1. \A s \in DOMAIN sold : Wants(longer, s, p) = Wants(sold, s, p)
  BY DEF Wants
<1>2. SalesMatch(moves, longer, p)
  BY <1>1 DEF Matched, SalesMatch
<1>3. ReversalsMatch(moves, longer)
  BY DEF Matched, SalesMatch, ReversalsMatch
<1> QED
  BY <1>2, <1>3 DEF Matched

\* A sale that wants it appends one movement, which takes what it wants.
LEMMA MatchedSale ==
  ASSUME NEW moves \in Seq(Movement), NEW sold, NEW p, Matched(moves, sold, p),
         NEW longer, NEW new, DOMAIN longer = DOMAIN sold \cup {new},
         new \notin DOMAIN sold,
         \A s \in DOMAIN sold : longer[s] = sold[s],
         longer[new].status = "COMPLETED",
         Wants(longer, new, p) > 0,
         NEW m \in Movement, m.type = "SALE", m.sale = new,
         m.before - m.after = Wants(longer, new, p)
  PROVE  Matched(Append(moves, m), longer, p)
<1> DEFINE more == Append(moves, m)
           last == Len(moves) + 1
<1>1. /\ DOMAIN more = DOMAIN moves \cup {last}
      /\ last \notin DOMAIN moves
      /\ \A k \in DOMAIN moves : more[k] = moves[k]
      /\ more[last] = m
  BY Lengthened
<1> HIDE DEF more, last
<1>2. /\ \A k \in DOMAIN moves : Took(more, k) = Took(moves, k)
      /\ Took(more, last) = Wants(longer, new, p)
  BY <1>1 DEF Took
<1>3. \A s \in DOMAIN sold : Wants(longer, s, p) = Wants(sold, s, p)
  BY DEF Wants
<1>4. SalesMatch(more, longer, p)
  BY <1>1, <1>2, <1>3 DEF Matched, SalesMatch
<1>5. ReversalsMatch(more, longer)
  <2>1. \A k \in DOMAIN moves : moves[k].type = "SALE" =>
          moves[k].sale \in DOMAIN sold /\ longer[moves[k].sale] = sold[moves[k].sale]
    BY DEF Matched, SalesMatch
  <2>2. ASSUME NEW j \in DOMAIN more, more[j].type = "VOID_REVERSAL"
        PROVE  /\ more[j].reverses \in DOMAIN more
               /\ more[more[j].reverses].type = "SALE"
               /\ more[j].sale = more[more[j].reverses].sale
               /\ longer[more[j].sale].status = "VOIDED"
               /\ Took(more, j) = -Took(more, more[j].reverses)
               /\ \A i \in DOMAIN more :
                    more[i].type = "VOID_REVERSAL" /\ more[i].reverses = more[j].reverses => i = j
    BY <1>1, <1>2, <2>1, <2>2 DEF Matched, ReversalsMatch
  <2>3. ASSUME NEW k \in DOMAIN more, more[k].type = "SALE",
               longer[more[k].sale].status = "VOIDED"
        PROVE  \E j \in DOMAIN more :
                 more[j].type = "VOID_REVERSAL" /\ more[j].reverses = k
    <3>1. k \in DOMAIN moves /\ moves[k].type = "SALE" /\ sold[moves[k].sale].status = "VOIDED"
      BY <1>1, <2>1, <2>3
    <3>2. PICK j \in DOMAIN moves : moves[j].type = "VOID_REVERSAL" /\ moves[j].reverses = k
      BY <3>1 DEF Matched, ReversalsMatch
    <3> QED
      BY <1>1, <3>2
  <2> QED
    BY <2>2, <2>3 DEF ReversalsMatch
<1> QED
  BY <1>4, <1>5 DEF Matched, more

\* A void of a sale without this product.
LEMMA MatchedOtherVoid ==
  ASSUME NEW moves, NEW sold, NEW p, Matched(moves, sold, p), NEW v \in DOMAIN sold,
         \A k \in DOMAIN moves : ~(moves[k].type = "SALE" /\ moves[k].sale = v),
         NEW after, DOMAIN after = DOMAIN sold,
         \A s \in DOMAIN sold : /\ s # v => after[s] = sold[s]
                                /\ after[s].fingerprint = sold[s].fingerprint
  PROVE  Matched(moves, after, p)
<1>1. \A s \in DOMAIN sold : Wants(after, s, p) = Wants(sold, s, p)
  BY DEF Wants
<1>2. SalesMatch(moves, after, p)
  BY <1>1 DEF Matched, SalesMatch
<1>3. ReversalsMatch(moves, after)
  BY DEF Matched, SalesMatch, ReversalsMatch
<1> QED
  BY <1>2, <1>3 DEF Matched

\* A void of a sale with it appends the reversal of its movement o.
LEMMA MatchedVoid ==
  ASSUME NEW moves \in Seq(Movement), NEW sold, NEW p, Matched(moves, sold, p),
         NEW v \in DOMAIN sold, sold[v].status = "COMPLETED",
         NEW o \in DOMAIN moves, moves[o].type = "SALE", moves[o].sale = v,
         NEW after, DOMAIN after = DOMAIN sold,
         \A s \in DOMAIN sold : /\ s # v => after[s] = sold[s]
                                /\ after[s].fingerprint = sold[s].fingerprint,
         after[v].status = "VOIDED",
         NEW m \in Movement, m.type = "VOID_REVERSAL", m.sale = v, m.reverses = o,
         m.after = m.before + Took(moves, o)
  PROVE  Matched(Append(moves, m), after, p)
<1> DEFINE more == Append(moves, m)
           last == Len(moves) + 1
<1>1. /\ DOMAIN more = DOMAIN moves \cup {last}
      /\ last \notin DOMAIN moves
      /\ \A k \in DOMAIN moves : more[k] = moves[k]
      /\ more[last] = m
  BY Lengthened
<1> HIDE DEF more, last
<1>2. moves[o] \in Movement
  OBVIOUS
<1>3. \A k \in DOMAIN moves : Took(more, k) = Took(moves, k)
  BY <1>1 DEF Took
<1>4. Took(more, last) = -Took(moves, o)
  BY <1>1, <1>2 DEF Took, Movement
<1>5. \A s \in DOMAIN sold : Wants(after, s, p) = Wants(sold, s, p)
  BY DEF Wants
<1>6. SalesMatch(more, after, p)
  BY <1>1, <1>3, <1>5 DEF Matched, SalesMatch
<1>7. ReversalsMatch(more, after)
  <2>1. \A k \in DOMAIN moves :
          moves[k].type = "SALE" /\ moves[k].sale = v => k = o
    BY DEF Matched, SalesMatch
  <2>2. ~\E j \in DOMAIN moves : moves[j].type = "VOID_REVERSAL" /\ moves[j].reverses = o
    BY DEF Matched, ReversalsMatch
  <2>3. ASSUME NEW j \in DOMAIN more, more[j].type = "VOID_REVERSAL"
        PROVE  /\ more[j].reverses \in DOMAIN more
               /\ more[more[j].reverses].type = "SALE"
               /\ more[j].sale = more[more[j].reverses].sale
               /\ after[more[j].sale].status = "VOIDED"
               /\ Took(more, j) = -Took(more, more[j].reverses)
               /\ \A i \in DOMAIN more :
                    more[i].type = "VOID_REVERSAL" /\ more[i].reverses = more[j].reverses => i = j
    <3>1. CASE j = last
      BY <1>1, <1>3, <1>4, <2>2, <3>1
    <3>2. CASE j \in DOMAIN moves
      BY <1>1, <1>3, <2>2, <2>3, <3>2 DEF Matched, SalesMatch, ReversalsMatch
    <3> QED
      BY <1>1, <3>1, <3>2
  <2>4. ASSUME NEW k \in DOMAIN more, more[k].type = "SALE",
               after[more[k].sale].status = "VOIDED"
        PROVE  \E j \in DOMAIN more :
                 more[j].type = "VOID_REVERSAL" /\ more[j].reverses = k
    <3>1. k \in DOMAIN moves
      BY <1>1, <2>4
    <3>2. CASE moves[k].sale = v
      BY <1>1, <2>1, <2>4, <3>1, <3>2
    <3>3. CASE moves[k].sale # v
      <4>1. moves[k].type = "SALE" /\ sold[moves[k].sale].status = "VOIDED"
        BY <1>1, <2>4, <3>1, <3>3 DEF Matched, SalesMatch
      <4>2. PICK j \in DOMAIN moves : moves[j].type = "VOID_REVERSAL" /\ moves[j].reverses = k
        BY <3>1, <4>1 DEF Matched, ReversalsMatch
      <4> QED
        BY <1>1, <4>2
    <3> QED
      BY <3>2, <3>3
  <2> QED
    BY <2>3, <2>4 DEF ReversalsMatch
<1> QED
  BY <1>6, <1>7 DEF Matched, more

-------------------------------------------------------------------------------
(* Every step keeps the match.                                                 *)

\* No movements and no sales match.
LEMMA InitReturns == Init => ReturnsInv
<1> SUFFICES ASSUME Init PROVE ReturnsInv
  OBVIOUS
<1>1. DOMAIN sales = {} /\ \A p \in Products : DOMAIN ledger[p] = {}
  BY DEF Init
<1>2. ASSUME NEW p \in Products
      PROVE  Matched(ledger[p], sales, p)
  BY <1>1 DEF Matched, SalesMatch, ReversalsMatch
<1> QED
  BY <1>2, InitLedger DEF ReturnsInv

\* A commit: a product of its cart gets the one SALE movement of the new sale.
LEMMA CommitReturns ==
  ASSUME ReturnsInv, CommitSale, NEW p \in Products
  PROVE  Matched(ledger'[p], sales', p)
<1> DEFINE c == op.cart
           new == Len(sales) + 1
<1>1. /\ Matched(ledger[p], sales, p)
      /\ ledger[p] \in Seq(Movement)
      /\ stock[p] \in Nat
      /\ TypeInv
  BY OfProduct DEF ReturnsInv, LedgerInv
<1>2. /\ DOMAIN sales' = DOMAIN sales \cup {new}
      /\ new \notin DOMAIN sales
      /\ \A s \in DOMAIN sales : sales'[s] = sales[s]
      /\ sales'[new] = NewSale(op.request, c)
  BY <1>1, CommitSales
<1>3. Completable(c) /\ Deduct(c, new)
  BY DEF CommitSale, Phase2Accepts
<1>4. c \in Carts /\ new \in Nat
  <2>1. c \in Carts
    BY <1>1, NextStage DEF TypeInv, CommitSale
  <2>2. new \in Nat
    BY <1>1 DEF TypeInv, TypeOK
  <2> QED
    BY <2>1, <2>2
<1>5. sales'[new].status = "COMPLETED" /\ Wants(sales', new, p) = Demand[c][p]
  BY <1>2 DEF NewSale, CurrentFingerprint, Wants
<1>6. Demand[c][p] \in Nat
  BY <1>4, CartAssumption
<1> HIDE DEF c, new
<1>7. CASE p \in Wanted(c)
  <2> DEFINE m == [type |-> "SALE", sale |-> new, reverses |-> 0,
                   before |-> stock[p], after |-> stock[p] - Demand[c][p]]
  <2>1. ledger'[p] = Append(ledger[p], m)
    BY <1>3, <1>7 DEF Deduct, Move
  <2>2. Demand[c][p] > 0 /\ Demand[c][p] <= stock[p]
    BY <1>3, <1>7 DEF Completable, Wanted
  <2>3. /\ m \in Movement /\ m.type = "SALE" /\ m.sale = new
        /\ m.before - m.after = Demand[c][p]
    BY <1>1, <1>4, <1>6, <2>2 DEF Movement, MovementType
  <2> HIDE DEF m
  <2> QED
    BY <1>1, <1>2, <1>5, <2>1, <2>2, <2>3, MatchedSale
<1>8. CASE p \notin Wanted(c)
  <2>1. ledger'[p] = ledger[p]
    BY <1>3, <1>8 DEF Deduct
  <2>2. ~(Wants(sales', new, p) > 0)
    BY <1>5, <1>8 DEF Wanted
  <2> QED
    BY <1>1, <1>2, <2>1, <2>2, MatchedOtherSale
<1> QED
  BY <1>7, <1>8

\* The status a void leaves.
LEMMA VoidedStatus ==
  ASSUME TypeInv, NEW v \in DOMAIN sales, VoidSale(v)
  PROVE  sales'[v].status = "VOIDED"
<1>1. sales \in Seq(Sale) /\ sales[v] \in Sale
  BY DEF TypeInv, TypeOK
<1>2. sales'[v] = [sales[v] EXCEPT !.status = "VOIDED", !.version = sales[v].version + 1]
  BY <1>1 DEF VoidSale
<1> QED
  BY <1>1, <1>2 DEF Sale

\* A void: a product of the sale gets the one reversal of its SALE movement.
LEMMA VoidReturns ==
  ASSUME ReturnsInv, NEW v \in DOMAIN sales, VoidSale(v), NEW p \in Products
  PROVE  Matched(ledger'[p], sales', p)
<1> DEFINE sold(q) == OriginalMovements(q, v) # {}
           original(q) == CHOOSE k \in OriginalMovements(q, v) : TRUE
           after(q) == stock[q] + Restored(q, original(q))
<1>1. /\ Matched(ledger[p], sales, p)
      /\ ledger[p] \in Seq(Movement)
      /\ stock[p] \in Nat
      /\ TypeInv
      /\ v \in Nat
  BY OfProduct DEF ReturnsInv, LedgerInv, TypeInv, TypeOK
<1>2. /\ DOMAIN sales' = DOMAIN sales
      /\ \A s \in DOMAIN sales :
           /\ s # v => sales'[s] = sales[s]
           /\ sales'[s].fingerprint = sales[s].fingerprint
      /\ sales'[v].status = "VOIDED"
      /\ sales[v].status = "COMPLETED"
  BY <1>1, VoidSales, VoidedStatus DEF VoidSale
<1>3. ledger' = [q \in Products |->
                   IF sold(q) THEN Move(q, "VOID_REVERSAL", v, original(q), after(q))
                   ELSE ledger[q]]
  BY DEF VoidSale, ReturnToStock
<1>4. CASE sold(p)
  <2> DEFINE o == original(p)
             m == [type |-> "VOID_REVERSAL", sale |-> v, reverses |-> o,
                   before |-> stock[p], after |-> after(p)]
  <2>1. o \in OriginalMovements(p, v)
    BY <1>4
  <2>2. ledger'[p] = Append(ledger[p], m)
    BY <1>3, <1>4 DEF Move
  <2>3. after(p) = stock[p] + Took(ledger[p], o)
    BY DEF Took, Restored
  <2> HIDE DEF o, after
  <2>4. /\ o \in DOMAIN ledger[p] /\ o \in Nat
        /\ ledger[p][o] \in Movement
        /\ ledger[p][o].type = "SALE"
        /\ ledger[p][o].sale = v
    BY <1>1, <2>1 DEF OriginalMovements
  <2>5. Took(ledger[p], o) \in Nat
    BY <1>1, <2>4 DEF Took, Movement, TypeInv, SalesTakeStock
  <2>6. /\ m \in Movement /\ m.type = "VOID_REVERSAL" /\ m.sale = v /\ m.reverses = o
        /\ m.after = m.before + Took(ledger[p], o)
    BY <1>1, <2>3, <2>4, <2>5 DEF Movement, MovementType
  <2> HIDE DEF m
  <2> QED
    BY <1>1, <1>2, <2>2, <2>4, <2>6, MatchedVoid
<1>5. CASE ~sold(p)
  <2>1. ledger'[p] = ledger[p]
    BY <1>3, <1>5
  <2>2. \A k \in DOMAIN ledger[p] : ~(ledger[p][k].type = "SALE" /\ ledger[p][k].sale = v)
    BY <1>5 DEF OriginalMovements
  <2> QED
    BY <1>1, <1>2, <2>1, <2>2, MatchedOtherVoid
<1> QED
  BY <1>4, <1>5

\* A count or a correction of one product.
LEMMA CountedReturns ==
  ASSUME ReturnsInv, UNCHANGED sales, NEW q \in Products, NEW after \in 0..StockMax,
         NEW type \in {"INITIAL_STOCK", "MANUAL_ADJUSTMENT"},
         ledger' = [ledger EXCEPT ![q] = Move(q, type, 0, 0, after)],
         NEW p \in Products
  PROVE  Matched(ledger'[p], sales', p)
<1>1. /\ Matched(ledger[p], sales, p)
      /\ ledger[p] \in Seq(Movement)
      /\ stock[p] \in Nat
      /\ ledger \in [Products -> Seq(Movement)]
  BY OfProduct DEF ReturnsInv, LedgerInv, TypeInv, TypeOK
<1>2. after \in Nat
  BY BoundAssumption
<1>3. CASE p = q
  <2> DEFINE m == [type |-> type, sale |-> 0, reverses |-> 0,
                   before |-> stock[p], after |-> after]
  <2>1. m \in Movement /\ m.type \notin {"SALE", "VOID_REVERSAL"}
    BY <1>1, <1>2 DEF Movement, MovementType
  <2>2. ledger'[p] = Append(ledger[p], m)
    BY <1>1, <1>3 DEF Move
  <2> HIDE DEF m
  <2> QED
    BY <1>1, <2>1, <2>2, MatchedCount
<1>4. CASE p # q
  BY <1>1, <1>4
<1> QED
  BY <1>3, <1>4

\* The back office besides voids.
LEMMA BackOfficeReturns ==
  ASSUME ReturnsInv, BackOffice, NEW p \in Products
  PROVE  Matched(ledger'[p], sales', p)
<1>1. Matched(ledger[p], sales, p)
  BY DEF ReturnsInv
<1>2. ASSUME NEW q \in Products, NEW cents \in Prices, NEW quantity \in 0..StockMax,
             CreateProduct(q, cents, quantity)
      PROVE  Matched(ledger'[p], sales', p)
  <2>1. CASE quantity > 0
    BY <1>2, <2>1, CountedReturns DEF CreateProduct
  <2>2. CASE ~(quantity > 0)
    BY <1>1, <1>2, <2>2 DEF CreateProduct
  <2> QED
    BY <2>1, <2>2
<1>3. ASSUME NEW q \in Products, NEW after \in 0..StockMax, AdjustStock(q, after)
      PROVE  Matched(ledger'[p], sales', p)
  BY <1>3, CountedReturns DEF AdjustStock
<1>4. ASSUME NEW s \in DOMAIN sales, VoidSale(s)
      PROVE  Matched(ledger'[p], sales', p)
  BY <1>4, VoidReturns
<1> QED
  BY <1>1, <1>2, <1>3, <1>4
  DEF BackOffice, UpdateProduct, ArchiveProduct, UpdateTaxRate, UpdateBusinessConfig, catalog

\* Only a commit, a void and a count touch the movements or the sales.
LEMMA StepReturns == ReturnsInv /\ [Next]_vars => ReturnsInv'
<1> SUFFICES ASSUME ReturnsInv, [Next]_vars PROVE ReturnsInv'
  OBVIOUS
<1>1. LedgerInv'
  BY StepLedger DEF ReturnsInv
<1>2. ASSUME NEW p \in Products
      PROVE  Matched(ledger'[p], sales', p)
  <2>1. Matched(ledger[p], sales, p)
    BY DEF ReturnsInv
  <2>2. CASE Cash
    BY <2>1, <2>2 DEF Cash, SubmitCash, RetryCash, catalog
  <2>3. CASE Card
    BY <2>1, <2>3
    DEF Card, BeginCard, ConfirmApproval, ConfirmApprovalFails, RetryCard, CloverCharges,
        DeclineCard, BecomeStale, Resolve, catalog
  <2>4. CASE CommitSale
    BY <2>4, CommitReturns
  <2>5. CASE Phase2Fails \/ RecordCommitFailed \/ RecordCommitFailedLost \/ RecordFailureAudit
    BY <2>1, <2>5
    DEF Phase2Fails, RecordCommitFailed, RecordCommitFailedLost, RecordFailureAudit, catalog
  <2>6. CASE Crash
    BY <2>1, <2>6 DEF Crash, catalog
  <2>7. CASE BackOffice
    BY <2>7, BackOfficeReturns
  <2>8. CASE UNCHANGED vars
    BY <2>1, <2>8 DEF vars, catalog
  <2> QED
    BY <2>2, <2>3, <2>4, <2>5, <2>6, <2>7, <2>8 DEF Next, Handler
<1> QED
  BY <1>1, <1>2 DEF ReturnsInv

\* What voids rest on holds after every step.
LEMMA ReturnsInvariant == Spec => []ReturnsInv
BY InitReturns, StepReturns, PTL DEF Spec

\* The match, counted.
LEMMA MatchedCounts ==
  ASSUME ReturnsInv, NEW s \in DOMAIN sales, NEW p \in Products
  PROVE  LET sold == OriginalMovements(p, s)
             demand == Demand[sales[s].fingerprint.cart][p]
         IN /\ Cardinality(sold) = IF demand > 0 THEN 1 ELSE 0
            /\ \A k \in sold :
                 /\ Restored(p, k) = demand
                 /\ Cardinality(Reversals(p, k)) = IF sales[s].status = "VOIDED" THEN 1 ELSE 0
                 /\ \A j \in Reversals(p, k) : /\ Restored(p, j) = -demand
                                               /\ ledger[p][j].sale = s
<1> DEFINE sold == OriginalMovements(p, s)
           demand == Demand[sales[s].fingerprint.cart][p]
           moves == ledger[p]
<1>1. SalesMatch(moves, sales, p) /\ ReversalsMatch(moves, sales)
  BY DEF ReturnsInv, Matched
<1>2. Cardinality(sold) = IF demand > 0 THEN 1 ELSE 0
  <2>1. CASE demand > 0
    <3>1. PICK k \in DOMAIN moves : moves[k].type = "SALE" /\ moves[k].sale = s
      BY <1>1, <2>1 DEF SalesMatch, Wants
    <3>2. sold = {k}
      BY <1>1, <3>1 DEF SalesMatch, OriginalMovements
    <3> QED
      BY <2>1, <3>2, FS_Singleton
  <2>2. CASE ~(demand > 0)
    <3>1. sold = {}
      BY <1>1, <2>2 DEF SalesMatch, Wants, OriginalMovements
    <3> QED
      BY <2>2, <3>1, FS_EmptySet
  <2> QED
    BY <2>1, <2>2
<1>3. ASSUME NEW k \in sold
      PROVE  /\ Restored(p, k) = demand
             /\ Cardinality(Reversals(p, k)) = IF sales[s].status = "VOIDED" THEN 1 ELSE 0
             /\ \A j \in Reversals(p, k) : /\ Restored(p, j) = -demand
                                           /\ ledger[p][j].sale = s
  <2>1. k \in DOMAIN moves /\ moves[k].type = "SALE" /\ moves[k].sale = s
    BY <1>3 DEF OriginalMovements
  <2>2. Restored(p, k) = demand
    BY <1>1, <2>1 DEF SalesMatch, Wants, Took, Restored
  <2>3. \A j \in Reversals(p, k) :
          /\ Restored(p, j) = -demand
          /\ ledger[p][j].sale = s
          /\ sales[s].status = "VOIDED"
          /\ Reversals(p, k) = {j}
    BY <1>1, <2>1, <2>2 DEF ReversalsMatch, Took, Restored, Reversals
  <2>4. sales[s].status = "VOIDED" => Reversals(p, k) # {}
    BY <1>1, <2>1 DEF ReversalsMatch, Reversals
  <2>5. Cardinality(Reversals(p, k)) = IF sales[s].status = "VOIDED" THEN 1 ELSE 0
    <3>1. CASE sales[s].status = "VOIDED"
      <4>1. PICK j \in Reversals(p, k) : TRUE
        BY <2>4, <3>1
      <4>2. Reversals(p, k) = {j}
        BY <2>3, <4>1
      <4> QED
        BY <3>1, <4>2, FS_Singleton
    <3>2. CASE sales[s].status # "VOIDED"
      <4>1. Reversals(p, k) = {}
        BY <2>3, <3>2
      <4> QED
        BY <3>2, <4>1, FS_EmptySet
    <3> QED
      BY <3>1, <3>2
  <2> QED
    BY <2>2, <2>3, <2>5
<1> QED
  BY <1>2, <1>3

\* However sales, voids, counts and corrections interleave, a sale took from each
\* product what its cart holds in one movement, and its void gives exactly that
\* back, once, whatever the stock and the prices became meanwhile.
THEOREM VoidsReturn == Spec => []VoidReturnsWhatWasSold
<1>1. ReturnsInv => VoidReturnsWhatWasSold
  BY MatchedCounts DEF VoidReturnsWhatWasSold
<1> QED
  BY <1>1, ReturnsInvariant, PTL

-------------------------------------------------------------------------------
(* The tables implement Shop.  What Shop sees of a request.                    *)

Deal(r) == IF r \in DOMAIN rows THEN rows[r].fingerprint ELSE Idle

Seen(r) == <<Outcome(r), Deal(r), Taken(r)>>

ShopInv == ReturnsInv /\ PaymentInv /\ SoldOnce /\ SoldAsCharged

\* A step nobody sees.
LEMMA ShopStutters ==
  ASSUME UNCHANGED stock, \A r \in Requests : Seen(r)' = Seen(r)
  PROVE  UNCHANGED Abstract!vars
BY DEF Seen, Deal, Abstract!vars

\* A step that one request alone sees, and that leaves the shelf alone.
LEMMA ShopRecords ==
  ASSUME UNCHANGED stock, NEW r \in Requests,
         Outcome(r) = "NONE", Outcome(r)' = "OPEN",
         Deal(r)' \in Fingerprint, Taken(r)' = Taken(r),
         \A q \in Requests \ {r} : Seen(q)' = Seen(q)
  PROVE  Abstract!Record(r)
BY DEF Seen, Deal, Abstract!Record

\* The customer did not pay.
LEMMA ShopRefuses ==
  ASSUME UNCHANGED stock, NEW r \in Requests,
         Outcome(r) = "OPEN", Outcome(r)' = "REFUSED",
         Deal(r)' = Deal(r), Taken(r)' = Taken(r),
         \A q \in Requests \ {r} : Seen(q)' = Seen(q)
  PROVE  Abstract!Refuse(r)
BY DEF Seen, Deal, Abstract!Refuse

\* A sale.
LEMMA ShopSells ==
  ASSUME NEW r \in Requests, NEW fp,
         Outcome(r) = "OPEN", Outcome(r)' = "SOLD",
         Deal(r) = fp, Deal(r)' = fp, Taken(r)' = Total[fp.cart][fp.tax],
         \A q \in Requests \ {r} : Seen(q)' = Seen(q),
         \A p \in Products : Demand[fp.cart][p] <= stock[p],
         stock' = [p \in Products |-> stock[p] - Demand[fp.cart][p]]
  PROVE  Abstract!Sell(r)
BY DEF Seen, Deal, DealGoods, DealPrice, Abstract!Sell

\* A void.
LEMMA ShopTakesBack ==
  ASSUME NEW r \in Requests, NEW fp,
         Outcome(r) = "SOLD", Outcome(r)' = "RETURNED",
         Deal(r) = fp, Deal(r)' = fp, Taken(r)' = Taken(r),
         \A q \in Requests \ {r} : Seen(q)' = Seen(q),
         stock' = [p \in Products |-> stock[p] + Demand[fp.cart][p]]
  PROVE  Abstract!Return(r)
BY DEF Seen, Deal, DealGoods, Abstract!Return

\* A count or a correction of one product, which no request sees.
LEMMA ShopCounts ==
  ASSUME NEW p \in Products, NEW after \in Nat,
         stock \in [Products -> Nat],
         stock' = [stock EXCEPT ![p] = after],
         \A q \in Requests : Seen(q)' = Seen(q)
  PROVE  Abstract!Count(p)
BY DEF Seen, Deal, Abstract!Count

\* A request whose row and sales stay as they are looks the same.
LEMMA SeenUnchanged ==
  ASSUME UNCHANGED sales, NEW r, r \in DOMAIN rows' <=> r \in DOMAIN rows,
         r \in DOMAIN rows => rows'[r] = rows[r]
  PROVE  Seen(r)' = Seen(r)
<1>1. Outcome(r)' = Outcome(r)
  BY DEF Outcome
<1>2. Taken(r)' = Taken(r)
  BY DEF Taken
<1>3. Deal(r)' = Deal(r)
  BY DEF Deal
<1> QED
  BY <1>1, <1>2, <1>3 DEF Seen

\* An attempt that is neither sold nor declined is open, whatever its row says.
LEMMA SeenOpen ==
  ASSUME NEW r \in DOMAIN rows, ~Declined(rows[r]), rows[r].status # "COMPLETED"
  PROVE  Outcome(r) = "OPEN" /\ Taken(r) = 0 /\ Deal(r) = rows[r].fingerprint
BY DEF Outcome, Taken, Deal

\* An INSERT records a request.
LEMMA InsertRecords ==
  ASSUME UNCHANGED <<sales, stock>>, NEW r \in Requests, r \notin DOMAIN rows,
         NEW fp \in Fingerprint, NEW c, NEW status \in {"SUBMITTED", "PENDING_PAYMENT"},
         rows' = Extend(rows, r, NewRow(fp, c, status))
  PROVE  Abstract!Record(r)
<1>1. /\ r \in DOMAIN rows'
      /\ rows'[r] = NewRow(fp, c, status)
      /\ \A q \in Requests \ {r} : /\ q \in DOMAIN rows' <=> q \in DOMAIN rows
                                   /\ q \in DOMAIN rows => rows'[q] = rows[q]
  BY DEF Extend
<1>2. /\ rows'[r].fingerprint = fp
      /\ rows'[r].status # "COMPLETED"
      /\ rows'[r].failure = "NONE"
  BY <1>1 DEF NewRow
<1>3. Outcome(r) = "NONE" /\ Taken(r) = 0
  BY DEF Outcome, Taken
<1>4. Outcome(r)' = "OPEN" /\ Taken(r)' = 0 /\ Deal(r)' = fp
  BY <1>1, <1>2 DEF Outcome, Taken, Deal, Declined
<1>5. \A q \in Requests \ {r} : Seen(q)' = Seen(q)
  BY <1>1, SeenUnchanged
<1> QED
  BY <1>3, <1>4, <1>5, ShopRecords

\* An UPDATE of an open attempt that leaves it open is not seen.
LEMMA UpdateStutters ==
  ASSUME TypeOK, UNCHANGED <<sales, stock>>, NEW r \in DOMAIN rows, NEW row \in Row,
         rows' = [rows EXCEPT ![r] = row],
         ~Declined(rows[r]), rows[r].status # "COMPLETED",
         ~Declined(row), row.status # "COMPLETED",
         row.fingerprint = rows[r].fingerprint
  PROVE  UNCHANGED Abstract!vars
<1>1. /\ DOMAIN rows' = DOMAIN rows
      /\ rows'[r] = row
      /\ \A q \in DOMAIN rows : q # r => rows'[q] = rows[q]
  BY DEF TypeOK
<1>2. Outcome(r) = "OPEN" /\ Taken(r) = 0 /\ Deal(r) = rows[r].fingerprint
  BY SeenOpen
<1>3. Outcome(r)' = "OPEN" /\ Taken(r)' = 0 /\ Deal(r)' = row.fingerprint
  BY <1>1 DEF Outcome, Taken, Deal
<1>4. \A q \in Requests \ {r} : Seen(q)' = Seen(q)
  BY <1>1, SeenUnchanged
<1>5. Seen(r)' = Seen(r)
  BY <1>2, <1>3 DEF Seen
<1> QED
  BY <1>4, <1>5, ShopStutters

\* A decline.
LEMMA DeclineRefuses ==
  ASSUME PaymentInv, NEW r \in Requests, DeclineCard(r)
  PROVE  Abstract!Refuse(r)
<1> DEFINE row == [rows[r] EXCEPT !.status = "COMMIT_FAILED", !.failure = "CLOVER_DECLINED"]
<1>1. r \in DOMAIN rows /\ rows[r] \in Row /\ rows[r].status = "PENDING_PAYMENT"
  BY DEF PaymentInv, TypeInv, TypeOK, DeclineCard
<1>2. rows' = [rows EXCEPT ![r] = row] /\ UNCHANGED <<sales, stock>>
  BY DEF DeclineCard, catalog
<1>3. /\ row.status = "COMMIT_FAILED" /\ row.failure = "CLOVER_DECLINED"
      /\ row.fingerprint = rows[r].fingerprint
  BY <1>1 DEF Row
<1> HIDE DEF row
<1>4. /\ r \in DOMAIN rows'
      /\ rows'[r] = row
      /\ \A q \in Requests \ {r} : /\ q \in DOMAIN rows' <=> q \in DOMAIN rows
                                   /\ q \in DOMAIN rows => rows'[q] = rows[q]
  BY <1>1, <1>2 DEF PaymentInv, TypeInv, TypeOK
<1>5. Outcome(r) = "OPEN" /\ Taken(r) = 0 /\ Deal(r) = rows[r].fingerprint
  BY <1>1, SeenOpen DEF PaymentInv, AwaitsCard
<1>6. Outcome(r)' = "REFUSED" /\ Taken(r)' = 0 /\ Deal(r)' = row.fingerprint
  BY <1>3, <1>4 DEF Outcome, Taken, Deal, Declined
<1>7. \A q \in Requests \ {r} : Seen(q)' = Seen(q)
  BY <1>2, <1>4, SeenUnchanged
<1> QED
  BY <1>2, <1>3, <1>5, <1>6, <1>7, ShopRefuses

\* A commit sells what the row was reviewed for: the drift gate says that the
\* current fingerprint is the one on the row.
LEMMA CommitSells ==
  ASSUME ShopInv, CommitSale
  PROVE  \E r \in Requests : Abstract!Sell(r)
<1>0. op.request \in Requests
  BY NextStage DEF ShopInv, PaymentInv, TypeInv, CommitSale
<1> PICK r \in Requests : r = op.request
  BY <1>0
<1> PICK c : c = op.cart
  OBVIOUS
<1> PICK fp : fp = CurrentFingerprint(c)
  OBVIOUS
<1> DEFINE new == Len(sales) + 1
           row == MarkCompleted(rows[r], new)
<1>1. /\ TypeInv /\ PaymentInv
      /\ c \in Carts
      /\ \A p \in Products : Demand[c][p] \in Nat /\ stock[p] \in Nat
  <2>1. c \in Carts
    BY NextStage DEF ShopInv, PaymentInv, TypeInv, CommitSale
  <2> QED
    BY <2>1, CartAssumption DEF ShopInv, PaymentInv, TypeInv, TypeOK
<1>2. /\ Completable(c)
      /\ rows[r].fingerprint = fp
      /\ Deduct(c, new)
  BY DEF CommitSale, Phase2Accepts
<1>3. /\ r \in DOMAIN rows /\ r \in Requests
      /\ rows[r].status # "COMPLETED"
      /\ ~Declined(rows[r])
      /\ rows' = [rows EXCEPT ![r] = row]
      /\ row.fingerprint = rows[r].fingerprint
      /\ row.status = "COMPLETED"
      /\ row.failure = "NONE"
      /\ row.sale = new
  BY <1>1, CommittedRow DEF Eligible
<1>4. /\ \A s \in DOMAIN sales : sales'[s] = sales[s]
      /\ sales'[new] = NewSale(r, c)
  BY <1>1, CommitSales
<1>5. fp.cart = c /\ fp.tax = taxRate
  BY DEF CurrentFingerprint
<1>6. sales'[new].status = "COMPLETED" /\ sales'[new].total = Total[c][taxRate]
  BY <1>4 DEF NewSale
<1> HIDE DEF new, row
<1>7. /\ r \in DOMAIN rows'
      /\ rows'[r] = row
      /\ \A q \in Requests \ {r} : /\ q \in DOMAIN rows' <=> q \in DOMAIN rows
                                   /\ q \in DOMAIN rows => rows'[q] = rows[q]
  BY <1>1, <1>3 DEF TypeInv, TypeOK
<1>8. Outcome(r) = "OPEN" /\ Deal(r) = fp
  BY <1>2, <1>3, SeenOpen
<1>9. Outcome(r)' = "SOLD" /\ Deal(r)' = fp /\ Taken(r)' = Total[fp.cart][fp.tax]
  BY <1>2, <1>3, <1>5, <1>6, <1>7 DEF Outcome, Deal, Taken, Declined
<1>10. ASSUME NEW q \in Requests \ {r}
       PROVE  Seen(q)' = Seen(q)
  <2>1. q \in DOMAIN rows /\ rows[q].status = "COMPLETED" =>
          sales'[rows[q].sale] = sales[rows[q].sale]
    BY <1>4 DEF ShopInv, SoldOnce
  <2>2. Outcome(q)' = Outcome(q)
    BY <1>7, <2>1 DEF Outcome
  <2>3. Taken(q)' = Taken(q)
    BY <1>7, <2>1 DEF Taken
  <2>4. Deal(q)' = Deal(q)
    BY <1>7 DEF Deal
  <2> QED
    BY <2>2, <2>3, <2>4 DEF Seen
<1>11. \A p \in Products : Demand[fp.cart][p] <= stock[p]
  BY <1>1, <1>2, <1>5 DEF Completable, Wanted
<1>12. stock' = [p \in Products |-> stock[p] - Demand[fp.cart][p]]
  BY <1>2, <1>5 DEF Deduct
<1> QED
  BY <1>3, <1>8, <1>9, <1>10, <1>11, <1>12, ShopSells

\* A void takes back the deal of the request its sale names, because the SALE
\* movements of the sale are what the deal wanted.
LEMMA VoidTakesBack ==
  ASSUME ShopInv, NEW v \in DOMAIN sales, VoidSale(v)
  PROVE  \E r \in Requests : Abstract!Return(r)
<1> PICK r : r = sales[v].request
  OBVIOUS
<1> PICK fp : fp = sales[v].fingerprint
  OBVIOUS
<1>1. /\ TypeInv
      /\ \A p \in Products : stock[p] \in Nat
      /\ fp.cart \in Carts
  <2>1. sales[v] \in Sale
    BY DEF ShopInv, PaymentInv, TypeInv, TypeOK
  <2> QED
    BY <2>1 DEF ShopInv, PaymentInv, TypeInv, TypeOK, Sale, Fingerprint
<1>2. /\ r \in DOMAIN rows /\ r \in Requests
      /\ rows[r].status = "COMPLETED" /\ rows[r].sale = v
      /\ ~Declined(rows[r])
      /\ rows[r].fingerprint = fp
  BY <1>1 DEF ShopInv, SoldOnce, SoldAsCharged, PaymentInv, AwaitsCard, TypeInv, TypeOK
<1>3. /\ \A s \in DOMAIN sales : s # v => sales'[s] = sales[s]
      /\ sales'[v].total = sales[v].total
      /\ sales'[v].status = "VOIDED"
      /\ sales[v].status = "COMPLETED"
      /\ UNCHANGED rows
  BY <1>1, VoidSales, VoidedStatus DEF VoidSale
<1>4. Outcome(r) = "SOLD" /\ Deal(r) = fp
  BY <1>2, <1>3 DEF Outcome, Deal
<1>5. Outcome(r)' = "RETURNED" /\ Deal(r)' = fp /\ Taken(r)' = Taken(r)
  BY <1>2, <1>3 DEF Outcome, Deal, Taken
<1>6. ASSUME NEW q \in Requests \ {r}
      PROVE  Seen(q)' = Seen(q)
  <2>1. q \in DOMAIN rows /\ rows[q].status = "COMPLETED" =>
          sales'[rows[q].sale] = sales[rows[q].sale]
    BY <1>3 DEF ShopInv, SoldOnce
  <2>2. Outcome(q)' = Outcome(q)
    BY <1>3, <2>1 DEF Outcome
  <2>3. Taken(q)' = Taken(q)
    BY <1>3, <2>1 DEF Taken
  <2>4. Deal(q)' = Deal(q)
    BY <1>3 DEF Deal
  <2> QED
    BY <2>2, <2>3, <2>4 DEF Seen
<1>7. stock' = [p \in Products |-> stock[p] + Demand[fp.cart][p]]
  <2> DEFINE sold(p) == OriginalMovements(p, v) # {}
             original(p) == CHOOSE k \in OriginalMovements(p, v) : TRUE
             after(p) == stock[p] + Restored(p, original(p))
  <2>1. stock' = [p \in Products |-> IF sold(p) THEN after(p) ELSE stock[p]]
    BY DEF VoidSale, ReturnToStock
  <2>2. ASSUME NEW p \in Products
        PROVE  (IF sold(p) THEN after(p) ELSE stock[p]) = stock[p] + Demand[fp.cart][p]
    <3>1. SalesMatch(ledger[p], sales, p)
      BY DEF ShopInv, ReturnsInv, Matched
    <3>2. CASE sold(p)
      <4>1. original(p) \in OriginalMovements(p, v)
        BY <3>2
      <4>2. Restored(p, original(p)) = Demand[fp.cart][p]
        <5> HIDE DEF original
        <5> QED
          BY <3>1, <4>1 DEF SalesMatch, OriginalMovements, Restored, Took, Wants
      <4> QED
        BY <3>2, <4>2
    <3>3. CASE ~sold(p)
      <4>1. ~(Demand[fp.cart][p] > 0)
        BY <3>1, <3>3 DEF SalesMatch, OriginalMovements, Wants
      <4>2. Demand[fp.cart][p] \in Nat
        BY <1>1, CartAssumption
      <4> QED
        BY <1>1, <3>3, <4>1, <4>2
    <3> QED
      BY <3>2, <3>3
  <2> QED
    BY <2>1, <2>2
<1> QED
  BY <1>2, <1>4, <1>5, <1>6, <1>7, ShopTakesBack

\* A payment attempt on its way records, refuses or shows nothing.
LEMMA CardImplements ==
  ASSUME ShopInv, Card
  PROVE  [Abstract!Next]_(Abstract!vars)
<1>1. TypeOK /\ PaymentInv
  BY DEF ShopInv, PaymentInv, TypeInv
<1>2. ASSUME NEW r \in Requests, NEW c \in Carts, BeginCard(r, c)
      PROVE  Abstract!Next
  <2>1. CurrentFingerprint(c) \in Fingerprint
    BY <1>1, <1>2, FingerprintType DEF BeginCard
  <2>2. Abstract!Record(r)
    BY <1>2, <2>1, InsertRecords DEF BeginCard, catalog
  <2> QED
    BY <2>2 DEF Abstract!Next
<1>3. ASSUME NEW r \in Requests, NEW c \in Carts, ConfirmApproval(r, c)
      PROVE  UNCHANGED Abstract!vars
  <2> DEFINE row == [rows[r] EXCEPT !.status = "SUBMITTED", !.approved = TRUE]
  <2>1. /\ r \in DOMAIN rows /\ rows[r] \in Row /\ rows[r].status = "PENDING_PAYMENT"
        /\ rows' = [rows EXCEPT ![r] = row]
        /\ UNCHANGED <<sales, stock>>
    BY <1>1, <1>3 DEF ConfirmApproval, MayCompleteCard, TypeOK, catalog
  <2>2. ~Declined(rows[r])
    BY <1>1, <2>1 DEF PaymentInv, AwaitsCard
  <2>3. /\ row \in Row /\ ~Declined(row) /\ row.status = "SUBMITTED"
        /\ row.fingerprint = rows[r].fingerprint
    BY <2>1, <2>2 DEF Row, RowStatus, Declined
  <2> HIDE DEF row
  <2> QED
    BY <1>1, <2>1, <2>2, <2>3, UpdateStutters
<1>4. ASSUME NEW r \in Requests, DeclineCard(r)
      PROVE  Abstract!Next
  BY <1>1, <1>4, DeclineRefuses DEF Abstract!Next
<1>5. ASSUME NEW r \in Requests, BecomeStale(r)
      PROVE  UNCHANGED Abstract!vars
  <2> DEFINE row == [rows[r] EXCEPT !.stale = TRUE]
  <2>1. /\ r \in DOMAIN rows /\ rows[r] \in Row /\ rows[r].status = "PENDING_PAYMENT"
        /\ rows' = [rows EXCEPT ![r] = row]
        /\ UNCHANGED <<sales, stock>>
    BY <1>1, <1>5 DEF BecomeStale, TypeOK, catalog
  <2>2. ~Declined(rows[r])
    BY <1>1, <2>1 DEF PaymentInv, AwaitsCard
  <2>3. /\ row \in Row /\ ~Declined(row) /\ row.status = "PENDING_PAYMENT"
        /\ row.fingerprint = rows[r].fingerprint
    BY <2>1, <2>2 DEF Row, Declined
  <2> HIDE DEF row
  <2> QED
    BY <1>1, <2>1, <2>2, <2>3, UpdateStutters
<1>6. ASSUME NEW r \in Requests, Resolve(r)
      PROVE  UNCHANGED Abstract!vars
  <2> DEFINE row == [rows[r] EXCEPT !.resolution = "BY_HAND"]
  <2>1. /\ r \in DOMAIN rows /\ rows[r] \in Row /\ IsIncident(rows[r])
        /\ rows' = [rows EXCEPT ![r] = row]
        /\ UNCHANGED <<sales, stock>>
    BY <1>1, <1>6 DEF Resolve, InQueue, TypeOK, catalog
  <2>2. ~Declined(rows[r]) /\ rows[r].status # "COMPLETED"
    BY <1>1, <2>1 DEF PaymentInv, AwaitsCard, IsIncident, Declined
  <2>3. /\ row \in Row /\ ~Declined(row) /\ row.status # "COMPLETED"
        /\ row.fingerprint = rows[r].fingerprint
    BY <2>1, <2>2 DEF Row, Declined
  <2> HIDE DEF row
  <2> QED
    BY <1>1, <2>1, <2>2, <2>3, UpdateStutters
<1>7. ASSUME UNCHANGED <<rows, sales, stock>>
      PROVE  UNCHANGED Abstract!vars
  BY <1>7, SeenUnchanged, ShopStutters
<1>8. ASSUME NEW r \in Requests, NEW c \in Carts,
             ConfirmApprovalFails(r, c) \/ RetryCard(r, c)
      PROVE  UNCHANGED Abstract!vars
  BY <1>7, <1>8 DEF ConfirmApprovalFails, RetryCard, catalog
<1>9. ASSUME NEW r \in Requests, CloverCharges(r)
      PROVE  UNCHANGED Abstract!vars
  BY <1>7, <1>9 DEF CloverCharges, catalog
<1> QED
  BY <1>2, <1>3, <1>4, <1>5, <1>6, <1>8, <1>9 DEF Card

\* What a failed handler writes down keeps its attempt open.
LEMMA FailureStutters ==
  ASSUME ShopInv, RecordCommitFailed
  PROVE  UNCHANGED Abstract!vars
<1>1. /\ TypeOK /\ PaymentInv /\ op # Idle
      /\ op.request \in Requests
      /\ op.request \in DOMAIN rows
      /\ rows[op.request] \in Row
      /\ op.code \in FailureCode \ {"CLOVER_DECLINED"}
  BY NextStage DEF ShopInv, PaymentInv, TypeInv, RecordCommitFailed
<1>2. ~Declined(rows[op.request])
  BY <1>1 DEF PaymentInv, InFlightPaid
<1> PICK r \in Requests : r = op.request
  BY <1>1
<1> PICK row : row = MarkCommitFailed(rows[r], op.code)
  OBVIOUS
<1>3. rows' = [rows EXCEPT ![r] = row] /\ UNCHANGED <<sales, stock>>
  BY DEF RecordCommitFailed, catalog
<1>4. CASE rows[r].status \in Eligible
  <2>1. /\ row \in Row /\ ~Declined(row) /\ row.status = "COMMIT_FAILED"
        /\ row.fingerprint = rows[r].fingerprint
    BY <1>1, <1>4 DEF MarkCommitFailed, Row, RowStatus, Declined
  <2> QED
    BY <1>1, <1>2, <1>3, <1>4, <2>1, UpdateStutters DEF Eligible
<1>5. CASE rows[r].status \notin Eligible
  <2>1. UNCHANGED rows
    BY <1>1, <1>3, <1>5 DEF MarkCommitFailed, TypeOK
  <2> QED
    BY <1>3, <2>1, SeenUnchanged, ShopStutters
<1> QED
  BY <1>4, <1>5

\* Deliveries and corrections count a product; prices and settings are not seen.
LEMMA BackOfficeImplements ==
  ASSUME ShopInv, BackOffice
  PROVE  [Abstract!Next]_(Abstract!vars)
<1>1. stock \in [Products -> Nat]
  BY DEF ShopInv, PaymentInv, TypeInv, TypeOK
<1>2. ASSUME NEW p \in Products, NEW after \in 0..StockMax,
             stock' = [stock EXCEPT ![p] = after], UNCHANGED <<rows, sales>>
      PROVE  Abstract!Next
  <2>1. after \in Nat
    BY BoundAssumption
  <2>2. \A q \in Requests : Seen(q)' = Seen(q)
    BY <1>2, SeenUnchanged
  <2>3. Abstract!Count(p)
    BY <1>1, <1>2, <2>1, <2>2, ShopCounts
  <2> QED
    BY <2>3 DEF Abstract!Next
<1>3. ASSUME UNCHANGED <<rows, sales, stock>>
      PROVE  UNCHANGED Abstract!vars
  BY <1>3, SeenUnchanged, ShopStutters
<1>4. ASSUME NEW p \in Products, NEW cents \in Prices, NEW q \in 0..StockMax,
             CreateProduct(p, cents, q)
      PROVE  Abstract!Next
  BY <1>2, <1>4 DEF CreateProduct
<1>5. ASSUME NEW p \in Products, NEW after \in 0..StockMax, AdjustStock(p, after)
      PROVE  Abstract!Next
  BY <1>2, <1>5 DEF AdjustStock
<1>6. ASSUME NEW s \in DOMAIN sales, VoidSale(s)
      PROVE  Abstract!Next
  BY <1>6, VoidTakesBack DEF Abstract!Next
<1>7. ASSUME NEW p \in Products,
             ArchiveProduct(p) \/ \E cents \in Prices : UpdateProduct(p, cents)
      PROVE  UNCHANGED Abstract!vars
  BY <1>3, <1>7 DEF UpdateProduct, ArchiveProduct
<1>8. ASSUME UpdateBusinessConfig \/ \E t \in TaxRates : UpdateTaxRate(t)
      PROVE  UNCHANGED Abstract!vars
  BY <1>3, <1>8 DEF UpdateTaxRate, UpdateBusinessConfig, catalog
<1> QED
  BY <1>4, <1>5, <1>6, <1>7, <1>8 DEF BackOffice

\* Every step maps to a step of Shop or to none.
LEMMA StepImplements ==
  ASSUME ShopInv, [Next]_vars
  PROVE  [Abstract!Next]_(Abstract!vars)
<1>1. ASSUME UNCHANGED <<rows, sales, stock>>
      PROVE  UNCHANGED Abstract!vars
  BY <1>1, SeenUnchanged, ShopStutters
<1>2. ASSUME NEW r \in Requests, NEW c \in Carts, NEW fp \in Reviews(c), SubmitCash(r, c, fp)
      PROVE  Abstract!Next
  <2>1. fp \in Fingerprint
    BY ReviewType
  <2>2. Abstract!Record(r)
    BY <1>2, <2>1, InsertRecords DEF SubmitCash, catalog
  <2> QED
    BY <2>2 DEF Abstract!Next
<1>3. ASSUME NEW r \in Requests, NEW c \in Carts, RetryCash(r, c)
      PROVE  UNCHANGED Abstract!vars
  BY <1>1, <1>3 DEF RetryCash, catalog
<1>4. CASE CommitSale
  BY <1>4, CommitSells DEF Abstract!Next
<1>5. CASE Phase2Fails \/ RecordCommitFailedLost \/ RecordFailureAudit \/ Crash
  BY <1>1, <1>5 DEF Phase2Fails, RecordCommitFailedLost, RecordFailureAudit, Crash, catalog
<1>6. CASE UNCHANGED vars
  BY <1>1, <1>6 DEF vars, catalog
<1> QED
  BY <1>2, <1>3, <1>4, <1>5, <1>6, CardImplements, FailureStutters, BackOfficeImplements
  DEF Next, Cash, Handler

\* An empty database is an empty shop.
LEMMA InitImplements == Init => Abstract!Init
<1> SUFFICES ASSUME Init PROVE Abstract!Init
  OBVIOUS
<1>1. DOMAIN rows = {} /\ stock = [p \in Products |-> 0]
  BY DEF Init
<1>2. \A r \in Requests : Outcome(r) = "NONE" /\ Taken(r) = 0
  BY <1>1 DEF Outcome, Taken
<1> QED
  BY <1>1, <1>2 DEF Abstract!Init

\* Through every failure, crash and retry a request has one outcome, goods leave
\* the shelf only for the deal it recorded and are paid once at its price, and
\* they come back once and as they left.
THEOREM TablesImplementShop == Spec => ImplementsShop
<1>1. ShopInv /\ [Next]_vars => [Abstract!Next]_(Abstract!vars)
  BY StepImplements
<1>2. Spec => []ShopInv
  BY ReturnsInvariant, PaymentInvariant, SellsOnce, SellsAsCharged, PTL DEF ShopInv
<1> QED
  BY <1>1, <1>2, InitImplements, PTL DEF Spec, ImplementsShop, Abstract!Spec
===============================================================================
