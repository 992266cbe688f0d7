---------------------------- MODULE CheckoutScreen -----------------------------
(* The New Sale screen against the main process                                *)
(* (src/renderer/src/features/checkout/CheckoutPage.tsx, cart.ts,              *)
(* cardCheckout.ts, checkoutCompletion.ts, CardPaymentPanel.tsx,               *)
(* src/main/ipc/maintenanceIpc.ts, the draft cart of maintenanceCoordinator.ts)*)
(*                                                                             *)
(* The screen sends calls and goes on; the main process answers them one by    *)
(* one in their order, and every answer carries the cart that the handler on   *)
(* the screen closed over when it made the call.  The sales services are those *)
(* of Checkout, reduced to the rows of the requests.                           *)
EXTENDS Naturals, Sequences

CONSTANTS
  Goods,        \* products on the shelf
  MaxRequests,  \* bound on the reviews answered, each of which mints a request id
  MaxEdits,     \* bound on the changes to the cart
  MaxLookups,   \* bound on barcode lookups and new customers
  MaxVisits,    \* bound on the times the screen is left
  MaxSwaps,     \* bound on restores
  MaxCalls      \* bound on the calls under way

ASSUME ScreenAssumption == MaxRequests \in Nat

VARIABLES
  cart,       \* the draft cart
  attempt,    \* the Card attempt on the screen
  sold,       \* the request of the sale on the success screen, 0 for none
  busy,       \* which of reviewing and completing is set
  calls,      \* calls under way, in their order
  requests,   \* checkout_requests, and the sale of a COMPLETED one
  draftOpen,  \* draftCartOpen of the maintenance coordinator
  swapping,   \* a restore owns the database
  shown,      \* the review on the screen when a request was first sent
  charged,    \* requests the terminal charged
  spent       \* request ids, edits, lookups, visits and restores so far

screenVars == <<cart, attempt, sold, busy, calls, requests, draftOpen, swapping,
                shown, charged, spent>>

NoReview == [lines |-> {}, method |-> "NONE"]
EmptyCart == [lines |-> {}, method |-> "NONE", review |-> NoReview, id |-> 0]
NoAttempt == [phase |-> "IDLE", id |-> 0]
NoRequest == [status |-> "NONE", of |-> NoReview]
Counters == {"ids", "edits", "lookups", "visits", "swaps"}

-------------------------------------------------------------------------------
(* The cart and the calls.                                                     *)

\* invalidate, clearReview: a changed cart must be reviewed again.
Unreviewed(c) == [c EXCEPT !.review = NoReview, !.id = 0]

\* addProduct, removeLine, setPaymentMethod, clearCart.
Edits(c) ==
  {Unreviewed([c EXCEPT !.lines = l]) :
     l \in {c.lines \cup {p} : p \in Goods} \cup {c.lines \ {p} : p \in Goods}}
  \cup {Unreviewed([c EXCEPT !.method = m]) : m \in {"CASH", "CARD"}}
  \cup {EmptyCart}

Call(kind, c, id) ==
  [kind |-> kind, cart |-> c, id |-> id, visit |-> spent["visits"], answer |-> "NONE"]

\* The effect on cartActive.
Notes(c) ==
  IF (c.lines = {}) = (cart.lines = {}) THEN <<>>
  ELSE <<Call(IF c.lines = {} THEN "CART_CLOSED" ELSE "CART_OPEN", EmptyCart, 0)>>

SetCart(c, queue) == cart' = c /\ calls' = queue \o Notes(c)
Say(call) == Len(calls) < MaxCalls /\ calls' = Append(calls, call)

Spend(what, most) ==
  spent[what] < most /\ spent' = [spent EXCEPT ![what] = @ + 1]

\* The cart is on the screen: no Card panel and no success screen is over it.
CartShown == attempt = NoAttempt /\ sold = 0

Show(id) == shown' = IF shown[id] = NoReview THEN [shown EXCEPT ![id] = cart.review]
                     ELSE shown

Far == <<requests, draftOpen, swapping>>

-------------------------------------------------------------------------------
(* The cashier.                                                                *)

Edit ==
  /\ CartShown /\ Len(calls) < MaxCalls /\ Spend("edits", MaxEdits)
  /\ \E c \in Edits(cart) \ {cart}: SetCart(c, calls)
  /\ UNCHANGED <<attempt, sold, busy, Far, shown, charged>>

\* addFromBarcode and saveNewCustomer put back the cart they started from, changed.
LookUp ==
  /\ CartShown /\ Spend("lookups", MaxLookups)
  /\ \E p \in Goods:
       Say(Call("LOOKUP", Unreviewed([cart EXCEPT !.lines = @ \cup {p}]), 0))
  /\ UNCHANGED <<cart, attempt, sold, busy, Far, shown, charged>>

\* canReview.
PressReview ==
  /\ CartShown /\ "REVIEWING" \notin busy
  /\ cart.lines # {} /\ cart.method # "NONE"
  /\ spent["ids"] < MaxRequests
  /\ busy' = busy \cup {"REVIEWING"}
  /\ Say(Call("REVIEW", cart, 0))
  /\ UNCHANGED <<cart, attempt, sold, Far, shown, charged, spent>>

MayComplete(method) ==
  /\ CartShown /\ "COMPLETING" \notin busy
  /\ cart.review.method = method /\ cart.method = method

PressCompleteCash ==
  /\ MayComplete("CASH")
  /\ busy' = busy \cup {"COMPLETING"}
  /\ Say(Call("CASH", cart, cart.id))
  /\ Show(cart.id)
  /\ UNCHANGED <<cart, attempt, sold, Far, charged, spent>>

PressBeginCard ==
  /\ MayComplete("CARD")
  /\ attempt' = [phase |-> "BEGINNING", id |-> 0]
  /\ Say(Call("BEGIN", cart, cart.id))
  /\ Show(cart.id)
  /\ UNCHANGED <<cart, sold, busy, Far, charged, spent>>

\* External: the terminal approves the amount on the panel.
Charge ==
  /\ attempt.phase = "AWAITING" /\ attempt.id \notin charged
  /\ charged' = charged \cup {attempt.id}
  /\ UNCHANGED <<cart, attempt, sold, busy, calls, Far, shown, spent>>

\* onCardApproved, onRetryLocalSave: completeCardAttempt sends the cart of now, or
\* fails at once when that has lost its review.
PressSave ==
  /\ \/ attempt.phase = "AWAITING" /\ attempt.id \in charged
     \/ attempt.phase = "LOCAL_FAILURE"
  /\ IF cart.review.method = "CARD"
     THEN /\ Say(Call("COMPLETE", cart, cart.id))
          /\ attempt' = [attempt EXCEPT !.phase = "RECORDING"]
     ELSE attempt' = [attempt EXCEPT !.phase = "LOCAL_FAILURE"] /\ UNCHANGED calls
  /\ UNCHANGED <<cart, sold, busy, Far, shown, charged, spent>>

\* The button does nothing once the cart has lost its review.
PressDeclined ==
  /\ attempt.phase = "AWAITING" /\ attempt.id \notin charged
  /\ cart.review # NoReview
  /\ Say(Call("DECLINE", cart, attempt.id))
  /\ attempt' = [attempt EXCEPT !.phase = "DECLINING"]
  /\ UNCHANGED <<cart, sold, busy, Far, shown, charged, spent>>

\* resetForNewSale, after a sale or an attempt left for reconciliation.
NewSale ==
  /\ sold # 0 \/ attempt.phase = "LOCAL_FAILURE"
  /\ Len(calls) < MaxCalls
  /\ SetCart(EmptyCart, calls)
  /\ attempt' = NoAttempt /\ sold' = 0
  /\ UNCHANGED <<busy, Far, shown, charged, spent>>

\* Another page is opened, which unmounts the screen, and this one again.
LeaveScreen ==
  /\ Spend("visits", MaxVisits) /\ Len(calls) < MaxCalls
  /\ SetCart(EmptyCart, calls)
  /\ attempt' = NoAttempt /\ sold' = 0 /\ busy' = {}
  /\ UNCHANGED <<Far, shown, charged>>

-------------------------------------------------------------------------------
(* The main process.                                                           *)

Served == {k \in 1..Len(calls) : calls[k].answer # "NONE"}
Reply(k, answer) == calls' = [calls EXCEPT ![k].answer = answer]
Put(id, row) == requests' = [requests EXCEPT ![id] = row]

\* noteDraftCartActivity.
ServeNote(k) ==
  /\ calls[k].kind \in {"CART_OPEN", "CART_CLOSED"}
  /\ LET opens == calls[k].kind = "CART_OPEN"
     IN /\ draftOpen' = IF opens /\ swapping THEN draftOpen ELSE opens
        /\ Reply(k, IF opens /\ swapping THEN "REFUSED" ELSE "OK")
  /\ UNCHANGED requests

\* registerTrustedInvoke during exclusive maintenance; a failing lookup or review.
ServeError(k) ==
  /\ calls[k].kind \notin {"CART_OPEN", "CART_CLOSED"}
  /\ swapping \/ calls[k].kind \in {"LOOKUP", "REVIEW"}
  /\ Reply(k, "ERROR")
  /\ UNCHANGED <<requests, draftOpen>>

ServeRead(k) ==
  /\ ~swapping /\ calls[k].kind \in {"LOOKUP", "REVIEW"}
  /\ Reply(k, "OK")
  /\ UNCHANGED <<requests, draftOpen>>

\* Mutated: what is in the cart is not compared with what was reviewed.
MatchesAnything(call) == TRUE

\* The fingerprint of the cart that comes with the call is the one reviewed.
Matches(call) ==
  call.cart.lines = call.cart.review.lines /\ call.cart.method = call.cart.review.method

\* completeCashSale.  DRIFT stands for a price, tax, stock or archive change since.
ServeCash(k) ==
  /\ ~swapping /\ calls[k].kind = "CASH"
  /\ LET call == calls[k]
         row == requests[call.id]
         made(status) == [status |-> status, of |-> [lines |-> call.cart.lines,
                                                      method |-> call.cart.method]]
     IN \/ row.status = "COMPLETED" /\ Reply(k, "DONE") /\ UNCHANGED requests
        \/ /\ row.status = "NONE" /\ UNCHANGED requests
           /\ \E answer \in {"AGAIN", "ERROR"}: Reply(k, answer)
        \/ /\ row.status # "COMPLETED" /\ Matches(call)
           /\ Put(call.id, made("COMPLETED")) /\ Reply(k, "DONE")
        \/ /\ row.status # "COMPLETED" /\ Put(call.id, made("FAILED"))
           /\ \E answer \in {"AGAIN", "ERROR"}: Reply(k, answer)
  /\ UNCHANGED draftOpen

\* beginCard.
ServeBegin(k) ==
  /\ ~swapping /\ calls[k].kind = "BEGIN"
  /\ LET call == calls[k]
         row == requests[call.id]
     IN \/ /\ row.status = "NONE" /\ Matches(call)
           /\ Put(call.id, [status |-> "PENDING_PAYMENT", of |-> call.cart.review])
           /\ Reply(k, "AWAIT")
        \/ /\ row.status = "NONE" /\ UNCHANGED requests
           /\ \E answer \in {"AGAIN", "ERROR"}: Reply(k, answer)
        \/ /\ row.status # "NONE" /\ UNCHANGED requests
           /\ Reply(k, CASE row.status = "PENDING_PAYMENT" -> "AWAIT"
                         [] row.status = "COMPLETED" -> "DONE"
                         [] row.status = "SUBMITTED" -> "APPROVED"
                         [] OTHER -> "AGAIN")
  /\ UNCHANGED draftOpen

\* completeCard: the row of the id that comes with the call.  Step B may not commit,
\* Phase 2 may fail, and so may the record of its failure.
ServeComplete(k) ==
  /\ ~swapping /\ calls[k].kind = "COMPLETE"
  /\ LET call == calls[k]
         row == requests[call.id]
         known == row.of = call.cart.review /\ row.of.method = "CARD"
     IN \/ known /\ row.status = "COMPLETED" /\ Reply(k, "DONE") /\ UNCHANGED requests
        \/ /\ known /\ row.status \in {"PENDING_PAYMENT", "SUBMITTED", "FAILED"}
           /\ \/ /\ Matches(call) /\ Reply(k, "DONE")
                 /\ Put(call.id, [row EXCEPT !.status = "COMPLETED"])
              \/ /\ Reply(k, "ERROR")
                 /\ \E s \in {row.status, "SUBMITTED", "FAILED"}:
                      Put(call.id, [row EXCEPT !.status = s])
        \/ /\ ~known \/ row.status = "DECLINED"
           /\ Reply(k, "ERROR") /\ UNCHANGED requests
  /\ UNCHANGED draftOpen

\* declineCard.
ServeDecline(k) ==
  /\ ~swapping /\ calls[k].kind = "DECLINE"
  /\ LET row == requests[calls[k].id] IN
     \/ /\ row.status = "PENDING_PAYMENT" /\ row.of = calls[k].cart.review
        /\ Put(calls[k].id, [row EXCEPT !.status = "DECLINED"])
        /\ Reply(k, "DONE")
     \/ Reply(k, "ERROR") /\ UNCHANGED requests
  /\ UNCHANGED draftOpen

Serve ==
  /\ \E k \in 1..Len(calls):
       /\ calls[k].answer = "NONE" /\ 1..(k - 1) \subseteq Served
       /\ \/ ServeNote(k) \/ ServeError(k) \/ ServeRead(k) \/ ServeCash(k)
          \/ ServeBegin(k) \/ ServeComplete(k) \/ ServeDecline(k)
  /\ UNCHANGED <<cart, attempt, sold, busy, swapping, shown, charged, spent>>

\* tryAcquireExclusive, of checkoutWorkOutstanding and the draft cart.
Outstanding(row) ==
  \/ row.status \in {"PENDING_PAYMENT", "SUBMITTED"}
  \/ row.status = "FAILED" /\ row.of.method = "CARD"

SwapBegins ==
  /\ ~swapping /\ Spend("swaps", MaxSwaps)
  /\ ~draftOpen /\ \A id \in 1..MaxRequests: ~Outstanding(requests[id])
  /\ swapping' = TRUE
  /\ UNCHANGED <<cart, attempt, sold, busy, calls, requests, draftOpen, shown, charged>>

SwapEnds ==
  /\ swapping /\ swapping' = FALSE
  /\ requests' \in {requests, [id \in 1..MaxRequests |-> NoRequest]}
  /\ UNCHANGED <<cart, attempt, sold, busy, calls, draftOpen, shown, charged, spent>>

-------------------------------------------------------------------------------
(* The screen gets an answer.                                                  *)

Head1 == Head(calls)
Rest == Tail(calls)
Drop == UNCHANGED cart /\ calls' = Rest

Gets(kinds) ==
  /\ calls # <<>> /\ Head1.kind \in kinds /\ Head1.answer # "NONE"
  /\ Head1.visit = spent["visits"]

\* Mutated: the refusal is only shown.
GetNoteKeepingCart ==
  /\ Gets({"CART_OPEN", "CART_CLOSED"})
  /\ Drop
  /\ UNCHANGED <<attempt, sold, busy, Far, shown, charged, spent>>

\* A refused cart is abandoned.
GetNote ==
  /\ Gets({"CART_OPEN", "CART_CLOSED"})
  /\ IF Head1.answer = "REFUSED" THEN SetCart(EmptyCart, Rest) ELSE Drop
  /\ UNCHANGED <<attempt, sold, busy, Far, shown, charged, spent>>

\* The late setCart of a lookup is not kept off a Card attempt or a success screen.
GetLookup ==
  /\ Gets({"LOOKUP"})
  /\ IF Head1.answer = "OK" THEN SetCart(Head1.cart, Rest) ELSE Drop
  /\ UNCHANGED <<attempt, sold, busy, Far, shown, charged, spent>>

\* withReview, on the cart of now.
GetReview ==
  /\ Gets({"REVIEW"})
  /\ busy' = busy \ {"REVIEWING"}
  /\ IF Head1.answer = "OK"
     THEN /\ spent' = [spent EXCEPT !["ids"] = @ + 1]
          /\ SetCart([cart EXCEPT !.review = [lines |-> Head1.cart.lines,
                                              method |-> Head1.cart.method],
                                  !.id = spent["ids"] + 1], Rest)
     ELSE Drop /\ UNCHANGED spent
  /\ UNCHANGED <<attempt, sold, Far, shown, charged>>

GetCash ==
  /\ Gets({"CASH"})
  /\ busy' = busy \ {"COMPLETING"}
  /\ sold' = IF Head1.answer = "DONE" THEN Head1.id ELSE sold
  /\ IF Head1.answer = "AGAIN" THEN SetCart(Unreviewed(cart), Rest) ELSE Drop
  /\ UNCHANGED <<attempt, Far, shown, charged, spent>>

\* An approved attempt is completed at once, with the cart of the call.
GetBegin ==
  /\ Gets({"BEGIN"})
  /\ attempt' = CASE Head1.answer = "AWAIT" -> [phase |-> "AWAITING", id |-> Head1.id]
                  [] Head1.answer = "APPROVED" ->
                       [phase |-> "RECORDING", id |-> Head1.id]
                  [] OTHER -> NoAttempt
  /\ sold' = IF Head1.answer = "DONE" THEN Head1.id ELSE sold
  /\ IF Head1.answer = "AGAIN" THEN SetCart(Unreviewed(cart), Rest)
     ELSE /\ UNCHANGED cart
          /\ calls' = IF Head1.answer = "APPROVED"
                      THEN Append(Rest, Call("COMPLETE", Head1.cart, Head1.id)) ELSE Rest
  /\ UNCHANGED <<busy, Far, shown, charged, spent>>

GetComplete ==
  /\ Gets({"COMPLETE"})
  /\ Drop
  /\ attempt' = IF Head1.answer = "DONE" THEN NoAttempt
                ELSE [attempt EXCEPT !.phase = "LOCAL_FAILURE"]
  /\ sold' = IF Head1.answer = "DONE" THEN Head1.id ELSE sold
  /\ UNCHANGED <<busy, Far, shown, charged, spent>>

\* Whether the decline was recorded or not.
GetDecline ==
  /\ Gets({"DECLINE"})
  /\ attempt' = NoAttempt
  /\ SetCart(Unreviewed(cart), Rest)
  /\ UNCHANGED <<sold, busy, Far, shown, charged, spent>>

\* The state of a screen that was left is gone.
GetForGone ==
  /\ calls # <<>> /\ Head1.answer # "NONE" /\ Head1.visit # spent["visits"]
  /\ Drop
  /\ UNCHANGED <<attempt, sold, busy, Far, shown, charged, spent>>

-------------------------------------------------------------------------------

CheckoutScreenInit ==
  /\ cart = EmptyCart /\ attempt = NoAttempt /\ sold = 0 /\ busy = {} /\ calls = <<>>
  /\ requests = [id \in 1..MaxRequests |-> NoRequest]
  /\ draftOpen = FALSE /\ swapping = FALSE
  /\ shown = [id \in 1..MaxRequests |-> NoReview]
  /\ charged = {}
  /\ spent = [what \in Counters |-> 0]

CheckoutScreenNext ==
  \/ Edit \/ LookUp \/ PressReview \/ PressCompleteCash \/ PressBeginCard
  \/ Charge \/ PressSave \/ PressDeclined \/ NewSale \/ LeaveScreen
  \/ Serve \/ SwapBegins \/ SwapEnds
  \/ GetNote \/ GetLookup \/ GetReview \/ GetCash \/ GetBegin \/ GetComplete
  \/ GetDecline \/ GetForGone

CheckoutScreenSpec == CheckoutScreenInit /\ [][CheckoutScreenNext]_screenVars

-------------------------------------------------------------------------------
(* Properties.                                                                 *)

\* What is sold under a request is what the review on the screen showed when it was
\* sent, whichever late answer, edit or retry came between (cart.ts, withReview).
SoldAsShown ==
  \A id \in 1..MaxRequests:
    requests[id].status = "COMPLETED" => requests[id].of = shown[id]

\* Once every call is answered the coordinator knows of an open cart just when there
\* is one: no cart outlives the database it was made for, and none that is gone
\* keeps restores and updates away (maintenanceCoordinator.ts:224).
CartIsKnown == calls = <<>> => (draftOpen <=> cart.lines # {})

\* A Card attempt on the screen is the attempt of the reviewed cart behind it
\* (cardCheckout.ts:55-60, cart.ts:308-313).
FrozenWhileCharging ==
  attempt.phase \in {"AWAITING", "DECLINING", "RECORDING", "LOCAL_FAILURE"} =>
    cart.review # NoReview /\ cart.id = attempt.id
===============================================================================
