--------------------------------- MODULE Shop ---------------------------------
(* What the checkout promises, without its transactions, failures, retries and *)
(* tables: every request has one outcome, goods leave the shelf only for the   *)
(* deal the customer agreed to, are paid once at its price, and come back only *)
(* once and only as they left.                                                 *)
EXTENDS Integers

CONSTANTS
  Requests,   \* checkout attempts
  Products,
  Deals,      \* what a review can show a customer
  NoDeal,
  Goods(_),   \* quantity of each product in a deal
  Price(_)    \* amount of a deal

VARIABLES
  outcome,    \* of each request
  deal,       \* what each request agreed to
  taken,      \* money taken for each request
  onHand      \* quantity of each product

vars == <<outcome, deal, taken, onHand>>

Init ==
  /\ outcome = [r \in Requests |-> "NONE"]
  /\ deal = [r \in Requests |-> NoDeal]
  /\ taken = [r \in Requests |-> 0]
  /\ onHand = [p \in Products |-> 0]

Record(r) ==
  /\ outcome[r] = "NONE"
  /\ outcome' = [outcome EXCEPT ![r] = "OPEN"]
  /\ deal'[r] \in Deals
  /\ deal' = [deal EXCEPT ![r] = deal'[r]]
  /\ UNCHANGED <<taken, onHand>>

\* The customer did not pay.
Refuse(r) ==
  /\ outcome[r] = "OPEN"
  /\ outcome' = [outcome EXCEPT ![r] = "REFUSED"]
  /\ UNCHANGED <<deal, taken, onHand>>

Sell(r) ==
  /\ outcome[r] = "OPEN"
  /\ \A p \in Products : Goods(deal[r])[p] <= onHand[p]
  /\ outcome' = [outcome EXCEPT ![r] = "SOLD"]
  /\ taken' = [taken EXCEPT ![r] = Price(deal[r])]
  /\ onHand' = [p \in Products |-> onHand[p] - Goods(deal[r])[p]]
  /\ UNCHANGED deal

Return(r) ==
  /\ outcome[r] = "SOLD"
  /\ outcome' = [outcome EXCEPT ![r] = "RETURNED"]
  /\ onHand' = [p \in Products |-> onHand[p] + Goods(deal[r])[p]]
  /\ UNCHANGED <<deal, taken>>

\* Deliveries and corrections: a person sets the quantity of one product.
Count(p) ==
  /\ onHand'[p] \in Nat
  /\ onHand' = [onHand EXCEPT ![p] = onHand'[p]]
  /\ UNCHANGED <<outcome, deal, taken>>

Next ==
  \/ \E r \in Requests : Record(r) \/ Refuse(r) \/ Sell(r) \/ Return(r)
  \/ \E p \in Products : Count(p)

Spec == Init /\ [][Next]_vars
===============================================================================
