------------------------------ MODULE DeskProofs ------------------------------
(* What holds of the checkout screen, of the connection to Google and of the   *)
(* reports for any number of goods, requests, accounts, sales and mishaps:     *)
(* what is sold is what was shown, an export goes out under the account the    *)
(* owner chose, a second spreadsheet has its reason, and the days add up to    *)
(* the book.                                                                   *)
EXTENDS CheckoutScreen, GoogleAccess, Reports, SequenceTheorems, FiniteSetTheorems,
        WellFoundedInduction, NaturalsInduction, TLAPS

(* CheckoutScreen: the invariant.                                              *)

Ids == 1..MaxRequests
Method == {"NONE", "CASH", "CARD"}
Review == [lines: SUBSET Goods, method: Method]
Cart == [lines: SUBSET Goods, method: Method, review: Review, id: Nat]
NoteKinds == {"CART_OPEN", "CART_CLOSED"}
SaleKinds == {"CASH", "BEGIN", "COMPLETE"}
CallKind == NoteKinds \cup SaleKinds \cup {"LOOKUP", "REVIEW", "DECLINE"}
AnswerKind == {"NONE", "OK", "REFUSED", "ERROR", "DONE", "AGAIN", "AWAIT", "APPROVED"}
CallType == [kind: CallKind, cart: Cart, id: Nat, visit: Nat, answer: AnswerKind]
Phase == {"IDLE", "BEGINNING", "AWAITING", "RECORDING", "DECLINING", "LOCAL_FAILURE"}
RowStatus == {"NONE", "PENDING_PAYMENT", "SUBMITTED", "COMPLETED", "FAILED", "DECLINED"}

ScreenTypeOK ==
  /\ cart \in Cart
  /\ attempt \in [phase: Phase, id: Nat]
  /\ calls \in Seq(CallType)
  /\ requests \in [Ids -> [status: RowStatus, of: Review]]
  /\ shown \in [Ids -> Review]
  /\ spent \in [Counters -> Nat]
  /\ spent["ids"] <= MaxRequests

\* A request id stands for one review, wherever the cart that holds it has gone: on the
\* screen and in the calls under way.
Stands(id, review) ==
  /\ id \in 1..spent["ids"]
  /\ shown[id] \in {NoReview, review}
  /\ cart.review # NoReview /\ cart.id = id => cart.review = review

\* What is known of a call under way.
Reviewing(c) == c.kind = "REVIEW" /\ c.visit = spent["visits"]
CallOK(c) ==
  /\ c.kind \in SaleKinds => c.cart.review # NoReview /\ Stands(c.id, c.cart.review)
  /\ c.kind \in {"CASH", "BEGIN"} => shown[c.id] # NoReview
  /\ c.kind = "LOOKUP" => c.cart.review = NoReview
  /\ c.visit <= spent["visits"]
  /\ Reviewing(c) => "REVIEWING" \in busy /\ spent["ids"] < MaxRequests

\* Of a queue: a screen has one review under way.
CallsIn(queue) ==
  /\ \A k \in DOMAIN queue: CallOK(queue[k])
  /\ \A j, k \in DOMAIN queue: Reviewing(queue[j]) /\ Reviewing(queue[k]) => j = k

CartStands == cart.review # NoReview => Stands(cart.id, cart.review)
Fresh == \A id \in Ids: id > spent["ids"] => shown[id] = NoReview
SoldRows ==
  \A id \in Ids:
    /\ requests[id].status # "NONE" => shown[id] # NoReview
    /\ requests[id].status = "COMPLETED" => requests[id].of = shown[id]

SaleInv == CartStands /\ Fresh /\ SoldRows /\ CallsIn(calls)

\* The last note under way says whether there is a cart on the screen; once it is
\* served the coordinator has taken it, or refused it to a screen that is still there.
\* Calls are served in their order.
IsNote(c) == c.kind \in NoteKinds
LastNote(queue, k) == IsNote(queue[k]) /\ \A j \in DOMAIN queue: j > k => ~IsNote(queue[j])
NoteOK(c) ==
  /\ c.kind = "CART_OPEN" <=> cart.lines # {}
  /\ c.kind = "CART_OPEN" => c.visit = spent["visits"]
  /\ c.answer \notin {"NONE", "REFUSED"} => (draftOpen <=> c.kind = "CART_OPEN")
  /\ c.answer = "REFUSED" => c.kind = "CART_OPEN"

InOrder(queue) ==
  \A j, k \in DOMAIN queue: j < k /\ queue[k].answer # "NONE" => queue[j].answer # "NONE"
NotesIn(queue) ==
  /\ \A k \in DOMAIN queue: LastNote(queue, k) => NoteOK(queue[k])
  /\ (\A k \in DOMAIN queue: ~IsNote(queue[k])) => (draftOpen <=> cart.lines # {})
  /\ InOrder(queue)

NoteInv == NotesIn(calls)

ScreenInv == ScreenTypeOK /\ SaleInv /\ NoteInv

-------------------------------------------------------------------------------
(* Queues.                                                                     *)

\* What Append does.
LEMMA Appended ==
  ASSUME NEW S, NEW q \in Seq(S), NEW x \in S
  PROVE  /\ Append(q, x) \in Seq(S)
         /\ DOMAIN q = 1..Len(q) /\ Len(q) \in Nat
         /\ DOMAIN Append(q, x) = 1..(Len(q) + 1)
         /\ \A k \in 1..Len(q): Append(q, x)[k] = q[k]
         /\ Append(q, x)[Len(q) + 1] = x
BY LenProperties, AppendProperties

\* What Tail does.
LEMMA Tailed ==
  ASSUME NEW S, NEW q \in Seq(S), q # <<>>
  PROVE  /\ Tail(q) \in Seq(S) /\ Head(q) \in S
         /\ DOMAIN q = 1..Len(q) /\ Len(q) \in Nat /\ Len(q) > 0 /\ Head(q) = q[1]
         /\ DOMAIN Tail(q) = 1..(Len(q) - 1)
         /\ \A k \in 1..(Len(q) - 1): Tail(q)[k] = q[k + 1]
BY LenProperties, HeadTailProperties, EmptySeq

\* What an answer does.
LEMMA Answered ==
  ASSUME NEW q \in Seq(CallType), NEW k \in 1..Len(q), NEW a \in AnswerKind
  PROVE  LET r == [q EXCEPT ![k].answer = a]
         IN  /\ r \in Seq(CallType) /\ DOMAIN r = DOMAIN q
             /\ DOMAIN q = 1..Len(q) /\ Len(q) \in Nat
             /\ \A j \in DOMAIN q: j # k => r[j] = q[j]
             /\ r[k] = [q[k] EXCEPT !.answer = a]
<1>1. q[k] \in CallType
  BY ElementOfSeq
<1>2. [q[k] EXCEPT !.answer = a] \in CallType
  BY <1>1 DEF CallType
<1>3. [q EXCEPT ![k].answer = a] = [q EXCEPT ![k] = [q[k] EXCEPT !.answer = a]]
  OBVIOUS
<1> QED
  BY <1>2, <1>3, LenProperties, ExceptSeq

\* A queue is what is known of it, whatever its first call was.
LEMMA CallsShrink ==
  ASSUME NEW q \in Seq(CallType), q # <<>>, CallsIn(q)
  PROVE  CallsIn(Tail(q))
BY Tailed DEF CallsIn

\* Answering a call changes nothing else that is known of the queue.
LEMMA CallsAnswered ==
  ASSUME NEW q \in Seq(CallType), NEW k \in 1..Len(q), NEW a \in AnswerKind, CallsIn(q)
  PROVE  CallsIn([q EXCEPT ![k].answer = a])
<1> DEFINE r == [q EXCEPT ![k].answer = a]
<1>1. DOMAIN r = DOMAIN q
  BY Answered
<1>2. \A j \in DOMAIN q: /\ r[j].kind = q[j].kind /\ r[j].cart = q[j].cart
                        /\ r[j].id = q[j].id /\ r[j].visit = q[j].visit
  BY Answered, ElementOfSeq DEF CallType
<1>3. \A j \in DOMAIN q: (CallOK(q[j]) => CallOK(r[j])) /\ (Reviewing(r[j]) <=> Reviewing(q[j]))
  BY <1>2 DEF CallOK, Reviewing
<1> HIDE DEF r
<1> QED
  BY <1>1, <1>3 DEF CallsIn, r

\* A queue with one call more, as the screen is after the step.
LEMMA CallsGrow ==
  ASSUME NEW q \in Seq(CallType), NEW x \in CallType, CallsIn(q)', CallOK(x)',
         Reviewing(x)' => \A k \in DOMAIN q: ~Reviewing(q[k])'
  PROVE  CallsIn(Append(q, x))'
<1> DEFINE r == Append(q, x)
           n == Len(q)
<1>1. /\ n \in Nat /\ DOMAIN q = 1..n /\ DOMAIN r = 1..(n + 1)
      /\ \A k \in 1..n: r[k] = q[k]
      /\ r[n + 1] = x
  BY Appended
<1> HIDE DEF r, n
<1>2. \A k \in DOMAIN r: k \in DOMAIN q \/ k = n + 1
  BY <1>1
<1> QED
  BY <1>1, <1>2 DEF CallsIn, r

\* A queue under a changed screen.
LEMMA CallsContext ==
  ASSUME NEW q \in Seq(CallType), CallsIn(q),
         \A k \in DOMAIN q: CallOK(q[k]) => CallOK(q[k])',
         \A k \in DOMAIN q: Reviewing(q[k])' => Reviewing(q[k])
  PROVE  CallsIn(q)'
BY DEF CallsIn

\* Notes: a call more that is none changes nothing.
LEMMA NotesBeside ==
  ASSUME NEW q \in Seq(CallType), NEW x \in CallType, NotesIn(q), ~IsNote(x),
         x.answer = "NONE"
  PROVE  NotesIn(Append(q, x))
<1> DEFINE r == Append(q, x)
           n == Len(q)
<1>1. /\ n \in Nat /\ DOMAIN q = 1..n /\ DOMAIN r = 1..(n + 1)
      /\ \A k \in 1..n: r[k] = q[k]
      /\ r[n + 1] = x
  BY Appended
<1> HIDE DEF r, n
<1>2. \A k \in DOMAIN r: LastNote(r, k) => k \in DOMAIN q /\ LastNote(q, k)
  BY <1>1 DEF LastNote
<1>3. (\A k \in DOMAIN r: ~IsNote(r[k])) => (\A k \in DOMAIN q: ~IsNote(q[k]))
  BY <1>1
<1> QED
  BY <1>1, <1>2, <1>3 DEF NotesIn, InOrder, r

\* A new note speaks for the screen as it is after the step.
LEMMA NotesAdded ==
  ASSUME NEW q \in Seq(CallType), NEW x \in CallType, IsNote(x), NoteOK(x)', x.answer = "NONE",
         InOrder(q)
  PROVE  NotesIn(Append(q, x))'
<1> DEFINE r == Append(q, x)
           n == Len(q)
<1>1. /\ n \in Nat /\ DOMAIN q = 1..n /\ DOMAIN r = 1..(n + 1)
      /\ \A k \in 1..n: r[k] = q[k]
      /\ r[n + 1] = x
  BY Appended
<1> HIDE DEF r, n
<1>2. \A k \in DOMAIN r: LastNote(r, k) => k = n + 1
  BY <1>1 DEF LastNote
<1>3. n + 1 \in DOMAIN r
  BY <1>1
<1>4. InOrder(r)
  BY <1>1 DEF InOrder
<1>5. (\A k \in DOMAIN r: LastNote(r, k) => NoteOK(r[k]))'
  BY <1>1, <1>2 DEF LastNote, IsNote
<1>6. (~\A k \in DOMAIN r: ~IsNote(r[k]))'
  BY <1>1, <1>3 DEF IsNote
<1>7. NotesIn(r)'
  BY <1>4, <1>5, <1>6 DEF NotesIn, InOrder
<1> QED
  BY <1>7 DEF r

\* The first call is done with; where it is the last note it must not have been refused.
LEMMA NotesShrink ==
  ASSUME NEW q \in Seq(CallType), q # <<>>, NotesIn(q), q[1].answer # "NONE",
         LastNote(q, 1) => q[1].answer # "REFUSED"
  PROVE  NotesIn(Tail(q))
<1> DEFINE r == Tail(q)
           n == Len(q)
<1>1. /\ n \in Nat /\ n > 0 /\ DOMAIN q = 1..n /\ DOMAIN r = 1..(n - 1)
      /\ \A k \in 1..(n - 1): r[k] = q[k + 1]
  BY Tailed
<1> HIDE DEF r, n
<1>2. \A k \in DOMAIN r: k + 1 \in DOMAIN q /\ r[k] = q[k + 1]
  BY <1>1
<1>3. \A k \in DOMAIN q: k = 1 \/ (k - 1 \in DOMAIN r /\ r[k - 1] = q[k])
  BY <1>1
<1>4. \A k \in DOMAIN r: LastNote(r, k) => LastNote(q, k + 1)
  <2> SUFFICES ASSUME NEW k \in DOMAIN r, LastNote(r, k), NEW j \in DOMAIN q, j > k + 1
               PROVE  ~IsNote(q[j]) /\ IsNote(r[k])
    BY <1>2 DEF LastNote
  <2>1. j - 1 \in DOMAIN r /\ j - 1 > k /\ r[j - 1] = q[j]
    BY <1>1, <1>3
  <2> QED
    BY <2>1 DEF LastNote
<1>5. (\A k \in DOMAIN r: ~IsNote(r[k])) => (draftOpen <=> cart.lines # {})
  <2> HAVE \A k \in DOMAIN r: ~IsNote(r[k])
  <2>1. \A k \in DOMAIN q: k # 1 => ~IsNote(q[k])
    BY <1>3
  <2>2. CASE IsNote(q[1])
    <3>1. 1 \in DOMAIN q /\ LastNote(q, 1)
      BY <1>1, <2>1, <2>2 DEF LastNote
    <3>2. NoteOK(q[1])
      BY <3>1 DEF NotesIn
    <3> QED
      BY <2>2, <3>1, <3>2 DEF NoteOK
  <2>3. CASE ~IsNote(q[1])
    BY <2>1, <2>3 DEF NotesIn
  <2> QED
    BY <2>2, <2>3
<1>6. \A j, k \in DOMAIN r: j < k /\ r[k].answer # "NONE" => r[j].answer # "NONE"
  BY <1>1, <1>2 DEF NotesIn, InOrder
<1>7. \A k \in DOMAIN r: LastNote(r, k) => NoteOK(r[k])
  BY <1>2, <1>4 DEF NotesIn
<1> QED
  BY <1>5, <1>6, <1>7 DEF NotesIn, InOrder, r

\* Notes under a changed screen.
LEMMA NotesContext ==
  ASSUME NEW q \in Seq(CallType), NotesIn(q),
         cart'.lines = {} <=> cart.lines = {}, draftOpen' = draftOpen,
         spent'["visits"] = spent["visits"] \/ cart.lines = {}
  PROVE  NotesIn(q)'
<1>1. \A k \in DOMAIN q: LastNote(q, k)' <=> LastNote(q, k)
  BY DEF LastNote, IsNote
<1>2. \A k \in DOMAIN q: NoteOK(q[k]) => NoteOK(q[k])'
  BY DEF NoteOK
<1> QED
  BY <1>1, <1>2 DEF NotesIn, InOrder, IsNote
\* Calls are answered in their order.
LEMMA AnsweredInOrder ==
  ASSUME NEW q \in Seq(CallType), NEW k \in 1..Len(q), NEW a \in AnswerKind, a # "NONE",
         InOrder(q), \A j \in 1..(k - 1): q[j].answer # "NONE"
  PROVE  InOrder([q EXCEPT ![k].answer = a])
<1> DEFINE r == [q EXCEPT ![k].answer = a]
<1>1. DOMAIN r = DOMAIN q /\ DOMAIN q = 1..Len(q) /\ Len(q) \in Nat
  BY Answered
<1>2. \A j \in DOMAIN q: j # k => r[j] = q[j]
  BY Answered
<1>3. r[k].answer = a
  BY Answered, <1>1, ElementOfSeq DEF CallType
<1> HIDE DEF r
<1>4. ASSUME NEW i \in DOMAIN r, NEW j \in DOMAIN r, i < j, r[j].answer # "NONE"
      PROVE  r[i].answer # "NONE"
  <2>1. CASE i = k
    BY <1>3, <2>1
  <2>2. CASE i # k /\ j = k
    BY <1>1, <1>2, <1>4, <2>2
  <2>3. CASE i # k /\ j # k
    BY <1>1, <1>2, <1>4, <2>3 DEF InOrder
  <2> QED
    BY <2>1, <2>2, <2>3
<1> QED
  BY <1>4 DEF InOrder, r

\* An answer to a call that is no note.
LEMMA NotesAnswered ==
  ASSUME NEW q \in Seq(CallType), NEW k \in 1..Len(q), NEW a \in AnswerKind, a # "NONE",
         NotesIn(q), ~IsNote(q[k]), \A j \in 1..(k - 1): q[j].answer # "NONE"
  PROVE  NotesIn([q EXCEPT ![k].answer = a])
<1> DEFINE r == [q EXCEPT ![k].answer = a]
<1>1. DOMAIN r = DOMAIN q /\ DOMAIN q = 1..Len(q) /\ Len(q) \in Nat
  BY Answered
<1>2. \A j \in DOMAIN q: j # k => r[j] = q[j]
  BY Answered
<1>3. r[k].kind = q[k].kind
  BY Answered, <1>1, ElementOfSeq DEF CallType
<1>4. InOrder(r)
  BY AnsweredInOrder DEF NotesIn
<1> HIDE DEF r
<1>5. \A j \in DOMAIN q: IsNote(r[j]) <=> IsNote(q[j])
  BY <1>2, <1>3 DEF IsNote
<1>6. \A j \in DOMAIN q: LastNote(r, j) => LastNote(q, j) /\ j # k
  BY <1>1, <1>5 DEF LastNote
<1>7. \A j \in DOMAIN r: LastNote(r, j) => NoteOK(r[j])
  BY <1>1, <1>2, <1>6 DEF NotesIn
<1> QED
  BY <1>1, <1>4, <1>5, <1>7 DEF NotesIn, r

\* An answer to a note: noteDraftCartActivity took it, or refused an open cart.
LEMMA NotesTaken ==
  ASSUME NEW q \in Seq(CallType), NEW k \in 1..Len(q), NEW a \in {"OK", "REFUSED"},
         NotesIn(q), IsNote(q[k]), q[k].answer = "NONE",
         \A j \in 1..(k - 1): q[j].answer # "NONE",
         a = "OK" => (draftOpen' <=> q[k].kind = "CART_OPEN"),
         a = "REFUSED" => q[k].kind = "CART_OPEN",
         UNCHANGED <<cart, spent>>
  PROVE  NotesIn([q EXCEPT ![k].answer = a])'
<1> DEFINE r == [q EXCEPT ![k].answer = a]
<1>0. a \in AnswerKind /\ a # "NONE"
  BY DEF AnswerKind
<1>1. DOMAIN r = DOMAIN q /\ DOMAIN q = 1..Len(q) /\ Len(q) \in Nat
  BY <1>0, Answered
<1>2. \A j \in DOMAIN q: j # k => r[j] = q[j]
  BY <1>0, Answered
<1>3. r[k].kind = q[k].kind /\ r[k].visit = q[k].visit /\ r[k].answer = a
  BY <1>0, Answered, <1>1, ElementOfSeq DEF CallType
<1>4. InOrder(r)
  BY <1>0, AnsweredInOrder DEF NotesIn
<1> HIDE DEF r
<1>5. \A j \in DOMAIN q: IsNote(r[j]) <=> IsNote(q[j])
  BY <1>2, <1>3 DEF IsNote
<1>6. \A j \in DOMAIN q: LastNote(r, j) => LastNote(q, j) /\ j >= k
  BY <1>1, <1>5 DEF LastNote
<1>7. ASSUME NEW j \in DOMAIN r, LastNote(r, j)
      PROVE  NoteOK(r[j])'
  <2>1. NoteOK(q[j])
    BY <1>1, <1>6, <1>7 DEF NotesIn
  <2>2. CASE j = k
    BY <1>3, <2>1, <2>2 DEF NoteOK
  <2>3. CASE j # k
    <3>1. j > k /\ k \in DOMAIN q
      BY <1>1, <1>6, <1>7, <2>3
    <3>2. q[j].answer = "NONE"
      BY <1>1, <3>1 DEF NotesIn, InOrder
    <3> QED
      BY <1>1, <1>2, <2>1, <2>3, <3>2 DEF NoteOK
  <2> QED
    BY <2>2, <2>3
<1>8. k \in DOMAIN r /\ IsNote(r[k])
  BY <1>1, <1>5
<1>9. NotesIn(r)'
  <2>1. \A j \in DOMAIN r: LastNote(r, j)' => LastNote(r, j)
    BY DEF LastNote, IsNote
  <2> QED
    BY <1>4, <1>7, <1>8, <2>1 DEF NotesIn, InOrder, IsNote
<1> QED
  BY <1>9 DEF r

-------------------------------------------------------------------------------
(* What the screen does to its cart.                                           *)

\* What is known of the queue that a step leaves behind.
QueueOK(q) == CallsIn(q) /\ NotesIn(q)

\* The invariant after a step, of the queue that the step leaves.
LEMMA Reassembled ==
  ASSUME NEW r \in Seq(CallType), calls' = r, QueueOK(r)',
         cart' \in Cart, attempt' \in [phase: Phase, id: Nat],
         requests' \in [Ids -> [status: RowStatus, of: Review]], shown' \in [Ids -> Review],
         spent' \in [Counters -> Nat], spent'["ids"] <= MaxRequests,
         CartStands', Fresh', SoldRows'
  PROVE  ScreenInv'
<1>1. ScreenTypeOK'
  BY DEF ScreenTypeOK
<1>2. CallsIn(calls)'
  BY DEF QueueOK, CallsIn, CallOK, Stands, Reviewing
<1>3. NotesIn(calls)'
  BY DEF QueueOK, NotesIn, LastNote, NoteOK, IsNote, InOrder
<1> QED
  BY <1>1, <1>2, <1>3 DEF ScreenInv, SaleInv, NoteInv

\* A cart that keeps its review or loses it, under the same reviews and sales.
LEMMA SaleKept ==
  ASSUME ScreenInv,
         \/ cart'.review = NoReview
         \/ cart'.review = cart.review /\ cart'.id = cart.id,
         UNCHANGED <<shown, requests>>, spent'["ids"] = spent["ids"]
  PROVE  CartStands' /\ Fresh' /\ SoldRows'
BY DEF ScreenInv, SaleInv, CartStands, Fresh, SoldRows, Stands

\* What is known of the calls holds on, while the screen is there or when it is left.
LEMMA CallsKept ==
  ASSUME ScreenTypeOK, NEW q \in Seq(CallType), CallsIn(q),
         \/ cart'.review = NoReview
         \/ cart'.review = cart.review /\ cart'.id = cart.id,
         shown' = shown, spent'["ids"] = spent["ids"],
         \/ /\ spent'["visits"] = spent["visits"]
            /\ "REVIEWING" \in busy => "REVIEWING" \in busy'
         \/ spent'["visits"] = spent["visits"] + 1
         \/ spent'["visits"] = spent["visits"] /\ \A k \in DOMAIN q: ~Reviewing(q[k])
  PROVE  CallsIn(q)'
<1>0. spent["visits"] \in Nat
  BY DEF ScreenTypeOK, Counters
<1>1. \A k \in DOMAIN q: Reviewing(q[k])' => Reviewing(q[k])
  <2> SUFFICES ASSUME NEW k \in DOMAIN q, Reviewing(q[k])'
               PROVE  Reviewing(q[k])
    OBVIOUS
  <2>1. q[k].visit \in Nat /\ q[k].visit <= spent["visits"]
    <3>1. q[k] \in CallType
      BY ElementOfSeq, LenProperties
    <3> QED
      BY <3>1 DEF CallsIn, CallOK, CallType
  <2> QED
    BY <1>0, <2>1 DEF Reviewing
<1>2. ASSUME NEW k \in DOMAIN q, CallOK(q[k])
      PROVE  CallOK(q[k])'
  <2>1. q[k].visit \in Nat /\ q[k].visit <= spent'["visits"]
    <3>1. q[k] \in CallType
      BY ElementOfSeq, LenProperties
    <3>2. q[k].visit \in Nat
      BY <3>1 DEF CallType
    <3> QED
      BY <1>0, <1>2, <3>2 DEF CallOK
  <2>2. Reviewing(q[k])' => "REVIEWING" \in busy' /\ spent'["ids"] < MaxRequests
    <3> HAVE Reviewing(q[k])'
    <3>1. Reviewing(q[k])
      BY <1>1
    <3> QED
      BY <1>0, <1>2, <2>1, <3>1 DEF CallOK, Reviewing
  <2>3. Stands(q[k].id, q[k].cart.review) => Stands(q[k].id, q[k].cart.review)'
    BY DEF Stands
  <2> QED
    BY <1>2, <2>1, <2>2, <2>3 DEF CallOK
<1> QED
  BY <1>1, <1>2, CallsContext

\* SetCart, and the note of the cart that it may send.
LEMMA CartSet ==
  ASSUME ScreenTypeOK, NEW q \in Seq(CallType), NEW c \in Cart, SetCart(c, q),
         CallsIn(q)', InOrder(q), draftOpen' = draftOpen,
         NotesIn(q) \/ ~((c.lines = {}) = (cart.lines = {})),
         \/ spent'["visits"] = spent["visits"]
         \/ spent'["visits"] = spent["visits"] + 1 /\ c.lines = {}
  PROVE  \E r \in Seq(CallType): calls' = r /\ QueueOK(r)'
<1>0. spent["visits"] \in Nat /\ cart' = c
  BY DEF ScreenTypeOK, Counters, SetCart
<1>1. CASE (c.lines = {}) = (cart.lines = {})
  <2>1. calls' = q \o <<>>
    BY <1>1 DEF SetCart, Notes
  <2>2. calls' = q
    BY <2>1, ConcatEmptySeq
  <2>3. NotesIn(q)'
    BY <1>0, <1>1, NotesContext
  <2> QED
    BY <2>2, <2>3 DEF QueueOK
<1>2. CASE ~((c.lines = {}) = (cart.lines = {}))
  <2> DEFINE k == IF c.lines = {} THEN "CART_CLOSED" ELSE "CART_OPEN"
             x == [kind |-> k, cart |-> EmptyCart, id |-> 0,
                   visit |-> spent["visits"], answer |-> "NONE"]
  <2>0. calls' = q \o <<x>>
    BY <1>2 DEF SetCart, Notes, Call
  <2>1. x \in CallType
    BY <1>0 DEF CallType, CallKind, NoteKinds, AnswerKind, Cart, EmptyCart, NoReview, Review,
         Method
  <2>2. calls' = Append(q, x)
    BY <2>0, <2>1, AppendIsConcat
  <2>3. PICK y \in CallType: y = x
    BY <2>1
  <2>4. /\ y.kind = k /\ y.id = 0 /\ y.visit = spent["visits"] /\ y.answer = "NONE"
        /\ k \in NoteKinds /\ (k = "CART_OPEN" <=> c.lines # {})
    BY <2>3 DEF NoteKinds
  <2> HIDE DEF x, k
  <2>5. CallOK(y)' /\ ~Reviewing(y)'
    BY <1>0, <2>4 DEF CallOK, Reviewing, SaleKinds, NoteKinds
  <2>6. IsNote(y) /\ NoteOK(y)'
    BY <1>0, <2>4 DEF IsNote, NoteOK, NoteKinds
  <2>7. CallsIn(Append(q, y))'
    BY <2>5, CallsGrow
  <2>8. NotesIn(Append(q, y))'
    BY <2>4, <2>6, NotesAdded
  <2>9. Append(q, y) \in Seq(CallType)
    BY Appended
  <2>10. calls' = Append(q, y)
    BY <2>2, <2>3
  <2>11. PICK r \in Seq(CallType): r = Append(q, y)
    BY <2>9
  <2>12. QueueOK(r)'
    BY <2>7, <2>8, <2>11 DEF QueueOK
  <2> QED
    BY <2>10, <2>11, <2>12
<1> QED
  BY <1>1, <1>2

\* A step that gives the screen a cart without a review.
LEMMA CartChanges ==
  ASSUME ScreenInv, NEW q \in Seq(CallType), NEW c \in Cart, SetCart(c, q),
         c.review = NoReview, CallsIn(q), InOrder(q),
         NotesIn(q) \/ ~((c.lines = {}) = (cart.lines = {})),
         UNCHANGED <<shown, requests, draftOpen>>,
         attempt' \in [phase: Phase, id: Nat],
         spent' \in [Counters -> Nat], spent'["ids"] = spent["ids"],
         \/ /\ spent'["visits"] = spent["visits"]
            /\ "REVIEWING" \in busy => "REVIEWING" \in busy'
         \/ spent'["visits"] = spent["visits"] + 1 /\ c.lines = {}
  PROVE  ScreenInv'
<1>1. cart' = c /\ ScreenTypeOK
  BY DEF SetCart, ScreenInv
<1>2. CartStands' /\ Fresh' /\ SoldRows'
  BY <1>1, SaleKept
<1>3. CallsIn(q)'
  BY <1>1, CallsKept
<1>4. PICK r \in Seq(CallType): calls' = r /\ QueueOK(r)'
  BY <1>1, <1>3, CartSet
<1> QED
  BY <1>1, <1>2, <1>4, Reassembled DEF ScreenTypeOK

\* A step that leaves the cart and may send a call that is neither note nor review.
LEMMA CartStays ==
  ASSUME ScreenInv, NEW q \in Seq(CallType), CallsIn(q), NotesIn(q), cart' = cart,
         \/ calls' = q
         \/ \E x \in CallType: /\ calls' = Append(q, x) /\ ~IsNote(x) /\ x.kind # "REVIEW"
                               /\ x.answer = "NONE" /\ CallOK(x)',
         UNCHANGED <<shown, requests, draftOpen>>,
         attempt' \in [phase: Phase, id: Nat],
         spent' \in [Counters -> Nat], spent'["ids"] = spent["ids"],
         spent'["visits"] = spent["visits"],
         \/ "REVIEWING" \in busy => "REVIEWING" \in busy'
         \/ \A k \in DOMAIN q: ~Reviewing(q[k])
  PROVE  ScreenInv'
<1>1. ScreenTypeOK
  BY DEF ScreenInv
<1>2. CartStands' /\ Fresh' /\ SoldRows'
  BY SaleKept
<1>3. CallsIn(q)'
  BY <1>1, CallsKept
<1>4. NotesIn(q)'
  BY NotesContext
<1>5. \E r \in Seq(CallType): calls' = r /\ QueueOK(r)'
  <2>1. CASE calls' = q
    BY <1>3, <1>4, <2>1 DEF QueueOK
  <2>2. CASE \E x \in CallType: /\ calls' = Append(q, x) /\ ~IsNote(x) /\ x.kind # "REVIEW"
                                /\ x.answer = "NONE" /\ CallOK(x)'
    <3>1. PICK x \in CallType: /\ calls' = Append(q, x) /\ ~IsNote(x) /\ x.kind # "REVIEW"
                               /\ x.answer = "NONE" /\ CallOK(x)'
      BY <2>2
    <3>2. CallsIn(Append(q, x))'
      BY <1>3, <3>1, CallsGrow DEF Reviewing
    <3>3. NotesIn(Append(q, x))
      BY <3>1, NotesBeside
    <3>4. PICK r \in Seq(CallType): r = Append(q, x)
      BY Appended
    <3>5. NotesIn(r)'
      BY <3>3, <3>4, NotesContext
    <3> QED
      BY <3>1, <3>2, <3>4, <3>5 DEF QueueOK
  <2> QED
    BY <2>1, <2>2
<1>6. PICK r \in Seq(CallType): calls' = r /\ QueueOK(r)'
  BY <1>5
<1> QED
  BY <1>1, <1>2, <1>6, Reassembled DEF ScreenTypeOK

\* A cart is one without its review.
LEMMA UnreviewedCart ==
  ASSUME NEW c \in Cart
  PROVE  Unreviewed(c) \in Cart /\ Unreviewed(c).review = NoReview
BY DEF Unreviewed, Cart, NoReview, Review, Method

\* The empty one is.
LEMMA EmptyCartIsCart == EmptyCart \in Cart /\ EmptyCart.review = NoReview /\ EmptyCart.lines = {}
BY DEF EmptyCart, Cart, NoReview, Review, Method

\* The invariant, of the queue as a value.
LEMMA Queue ==
  ASSUME ScreenInv
  PROVE  \E q \in Seq(CallType): q = calls /\ CallsIn(q) /\ NotesIn(q) /\ InOrder(q)
BY DEF ScreenInv, SaleInv, NoteInv, ScreenTypeOK, NotesIn

-------------------------------------------------------------------------------
(* The cashier.                                                                *)

\* Changes to the cart.
LEMMA EditStep == ASSUME ScreenInv, Edit PROVE ScreenInv'
<1> PICK q \in Seq(CallType): q = calls /\ CallsIn(q) /\ NotesIn(q) /\ InOrder(q)
  BY Queue
<1>1. PICK c \in Edits(cart): SetCart(c, q)
  BY DEF Edit
<1>2. c \in Cart /\ c.review = NoReview
  <2>1. cart \in Cart
    BY DEF ScreenInv, ScreenTypeOK
  <2>2. CASE c = EmptyCart
    BY <2>2, EmptyCartIsCart
  <2>3. CASE \E l \in SUBSET Goods: c = Unreviewed([cart EXCEPT !.lines = l])
    <3>1. PICK l \in SUBSET Goods: c = Unreviewed([cart EXCEPT !.lines = l])
      BY <2>3
    <3>2. [cart EXCEPT !.lines = l] \in Cart
      BY <2>1 DEF Cart
    <3> QED
      BY <3>1, <3>2, UnreviewedCart
  <2>4. CASE \E m \in {"CASH", "CARD"}: c = Unreviewed([cart EXCEPT !.method = m])
    <3>1. PICK m \in {"CASH", "CARD"}: c = Unreviewed([cart EXCEPT !.method = m])
      BY <2>4
    <3>2. [cart EXCEPT !.method = m] \in Cart
      BY <2>1 DEF Cart, Method
    <3> QED
      BY <3>1, <3>2, UnreviewedCart
  <2>5. cart.lines \in SUBSET Goods
    BY <2>1 DEF Cart
  <2> QED
    BY <1>1, <2>2, <2>3, <2>4, <2>5 DEF Edits
<1>3. spent' \in [Counters -> Nat] /\ spent'["ids"] = spent["ids"]
      /\ spent'["visits"] = spent["visits"]
  BY DEF Edit, Spend, ScreenInv, ScreenTypeOK, Counters
<1> QED
  BY <1>1, <1>2, <1>3, CartChanges DEF Edit, Far, ScreenInv, ScreenTypeOK

\* Lookups and new customers.
LEMMA LookUpStep == ASSUME ScreenInv, LookUp PROVE ScreenInv'
<1> PICK q \in Seq(CallType): q = calls /\ CallsIn(q) /\ NotesIn(q) /\ InOrder(q)
  BY Queue
<1>1. PICK p \in Goods: Say(Call("LOOKUP", Unreviewed([cart EXCEPT !.lines = @ \cup {p}]), 0))
  BY DEF LookUp
<1>2. PICK c \in Cart: c = Unreviewed([cart EXCEPT !.lines = @ \cup {p}]) /\ c.review = NoReview
  <2>1. [cart EXCEPT !.lines = @ \cup {p}] \in Cart
    BY DEF Cart, ScreenInv, ScreenTypeOK
  <2> QED
    BY <2>1, UnreviewedCart
<1>3. spent' \in [Counters -> Nat] /\ spent'["ids"] = spent["ids"]
      /\ spent'["visits"] = spent["visits"] /\ spent["visits"] \in Nat
  BY DEF LookUp, Spend, ScreenInv, ScreenTypeOK, Counters
<1>4. PICK x \in CallType: x = Call("LOOKUP", c, 0)
  BY <1>3 DEF Call, CallType, CallKind, AnswerKind
<1>5. /\ calls' = Append(q, x) /\ ~IsNote(x) /\ x.kind # "REVIEW" /\ x.answer = "NONE"
      /\ x.kind = "LOOKUP" /\ x.cart = c /\ x.visit = spent["visits"]
  BY <1>1, <1>2, <1>4 DEF Say, Call, IsNote, NoteKinds
<1>6. CallOK(x)'
  BY <1>2, <1>3, <1>5 DEF CallOK, Reviewing, SaleKinds
<1> QED
  BY <1>3, <1>5, <1>6, CartStays DEF LookUp, Far, ScreenInv, ScreenTypeOK

\* Review Order: the only review under way of this screen.
LEMMA PressReviewStep == ASSUME ScreenInv, PressReview PROVE ScreenInv'
<1> PICK q \in Seq(CallType): q = calls /\ CallsIn(q) /\ NotesIn(q) /\ InOrder(q)
  BY Queue
<1>1. ScreenTypeOK /\ spent["visits"] \in Nat
  BY DEF ScreenInv, ScreenTypeOK, Counters
<1>2. PICK x \in CallType: x = Call("REVIEW", cart, 0)
  BY <1>1 DEF Call, CallType, CallKind, AnswerKind, ScreenTypeOK
<1>3. /\ calls' = Append(q, x) /\ ~IsNote(x) /\ x.answer = "NONE"
      /\ x.kind = "REVIEW" /\ x.visit = spent["visits"]
  BY <1>2 DEF PressReview, Say, Call, IsNote, NoteKinds
<1>4. UNCHANGED <<cart, attempt, requests, draftOpen, shown, spent>>
      /\ "REVIEWING" \in busy' /\ spent["ids"] < MaxRequests /\ "REVIEWING" \notin busy
  BY DEF PressReview, Far
<1>5. CartStands' /\ Fresh' /\ SoldRows'
  BY <1>4, SaleKept
<1>6. CallsIn(q)' /\ NotesIn(q)'
  BY <1>1, <1>4, CallsKept, NotesContext
<1>7. CallOK(x)'
  BY <1>1, <1>3, <1>4 DEF CallOK, Reviewing, SaleKinds
<1>8. \A k \in DOMAIN q: ~Reviewing(q[k])'
  BY <1>4 DEF CallsIn, CallOK, Reviewing
<1>9. CallsIn(Append(q, x))'
  BY <1>6, <1>7, <1>8, CallsGrow
<1>10. NotesIn(Append(q, x))
  BY <1>3, NotesBeside
<1>11. PICK r \in Seq(CallType): r = Append(q, x)
  BY Appended
<1>12. NotesIn(r)'
  BY <1>4, <1>10, <1>11, NotesContext
<1>13. QueueOK(r)'
  BY <1>9, <1>11, <1>12 DEF QueueOK
<1> QED
  BY <1>1, <1>3, <1>4, <1>5, <1>11, <1>13, Reassembled DEF ScreenTypeOK

\* A sale is sent: what is on the screen is what its request stands for.
LEMMA SaleSent ==
  ASSUME ScreenInv, NEW kind \in {"CASH", "BEGIN"}, Say(Call(kind, cart, cart.id)),
         Show(cart.id), cart.review # NoReview,
         UNCHANGED <<cart, requests, draftOpen, spent>>,
         attempt' \in [phase: Phase, id: Nat], "REVIEWING" \in busy => "REVIEWING" \in busy'
  PROVE  ScreenInv'
<1> PICK q \in Seq(CallType): q = calls /\ CallsIn(q) /\ NotesIn(q) /\ InOrder(q)
  BY Queue
<1>1. ScreenTypeOK /\ spent["visits"] \in Nat /\ spent["ids"] \in Nat
  BY DEF ScreenInv, ScreenTypeOK, Counters
<1>2. Stands(cart.id, cart.review) /\ cart.id \in Ids
  BY <1>1, ScreenAssumption DEF ScreenInv, SaleInv, CartStands, Stands, ScreenTypeOK, Ids
<1>3. /\ shown' \in [Ids -> Review] /\ shown'[cart.id] = cart.review
      /\ \A id \in Ids: shown'[id] = shown[id] \/ (id = cart.id /\ shown[id] = NoReview)
  <2>1. cart.review \in Review /\ shown \in [Ids -> Review]
    BY <1>1 DEF ScreenTypeOK, Cart
  <2>2. CASE shown[cart.id] = NoReview
    <3>1. shown' = [shown EXCEPT ![cart.id] = cart.review]
      BY <2>2 DEF Show
    <3> QED
      BY <1>2, <2>1, <2>2, <3>1
  <2>3. CASE shown[cart.id] # NoReview
    <3>1. shown' = shown
      BY <2>3 DEF Show
    <3> QED
      BY <1>2, <2>1, <2>3, <3>1 DEF Stands
  <2> QED
    BY <2>2, <2>3
<1>4. ASSUME NEW id, NEW rv, Stands(id, rv)
      PROVE  Stands(id, rv)'
  <2>1. id \in Ids
    BY <1>1, <1>4, ScreenAssumption DEF Stands, ScreenTypeOK, Ids
  <2> QED
    BY <1>3, <1>4, <2>1 DEF Stands
<1>5. CartStands' /\ Fresh' /\ SoldRows'
  <2>1. CartStands'
    BY <1>2, <1>4 DEF CartStands
  <2>2. Fresh'
    BY <1>1, <1>2, <1>3 DEF Fresh, ScreenInv, SaleInv, Stands, Ids
  <2>3. SoldRows'
    BY <1>3 DEF SoldRows, ScreenInv, SaleInv
  <2> QED
    BY <2>1, <2>2, <2>3
<1>6. CallsIn(q)'
  <2>1. \A k \in DOMAIN q: Reviewing(q[k])' => Reviewing(q[k])
    BY DEF Reviewing
  <2>2. ASSUME NEW k \in DOMAIN q, CallOK(q[k])
        PROVE  CallOK(q[k])'
    <3>1. q[k].kind \in {"CASH", "BEGIN"} => shown'[q[k].id] # NoReview
      <4> HAVE q[k].kind \in {"CASH", "BEGIN"}
      <4>1. q[k].id \in Ids /\ shown[q[k].id] # NoReview
        BY <1>1, <2>2, ScreenAssumption DEF CallOK, SaleKinds, Stands, ScreenTypeOK, Ids
      <4> QED
        BY <1>3, <4>1
    <3> QED
      BY <1>4, <2>2, <3>1 DEF CallOK, Reviewing
  <2> QED
    BY <2>1, <2>2, CallsContext
<1>7. PICK x \in CallType: x = Call(kind, cart, cart.id)
  BY <1>1 DEF Call, CallType, CallKind, SaleKinds, AnswerKind, ScreenTypeOK, Cart
<1>8. /\ calls' = Append(q, x) /\ ~IsNote(x) /\ x.answer = "NONE" /\ x.kind = kind
      /\ x.visit = spent["visits"] /\ x.cart = cart /\ x.id = cart.id
  BY <1>7 DEF Say, Call, IsNote, NoteKinds
<1>9. CallOK(x)'
  BY <1>1, <1>2, <1>3, <1>4, <1>8 DEF CallOK, Reviewing
<1>10. CallsIn(Append(q, x))'
  BY <1>6, <1>8, <1>9, CallsGrow DEF Reviewing
<1>11. NotesIn(Append(q, x))
  BY <1>8, NotesBeside
<1>12. PICK r \in Seq(CallType): r = Append(q, x)
  BY Appended
<1>13. NotesIn(r)'
  BY <1>11, <1>12, NotesContext
<1>14. QueueOK(r)'
  BY <1>10, <1>12, <1>13 DEF QueueOK
<1> QED
  BY <1>1, <1>3, <1>5, <1>8, <1>12, <1>14, Reassembled DEF ScreenTypeOK

\* Complete Cash Sale.
LEMMA PressCompleteCashStep == ASSUME ScreenInv, PressCompleteCash PROVE ScreenInv'
BY SaleSent DEF PressCompleteCash, MayComplete, NoReview, Far, ScreenInv, ScreenTypeOK

\* Begin Card Payment.
LEMMA PressBeginCardStep == ASSUME ScreenInv, PressBeginCard PROVE ScreenInv'
<1>1. attempt' \in [phase: Phase, id: Nat]
  BY DEF PressBeginCard, Phase
<1> QED
  BY <1>1, SaleSent DEF PressBeginCard, MayComplete, NoReview, Far

\* The terminal.
LEMMA ChargeStep == ASSUME ScreenInv, Charge PROVE ScreenInv'
<1> PICK q \in Seq(CallType): q = calls /\ CallsIn(q) /\ NotesIn(q) /\ InOrder(q)
  BY Queue
<1> QED
  BY CartStays DEF Charge, Far, ScreenInv, ScreenTypeOK

\* The approval is recorded, again and again if it must.
LEMMA PressSaveStep == ASSUME ScreenInv, PressSave PROVE ScreenInv'
<1> PICK q \in Seq(CallType): q = calls /\ CallsIn(q) /\ NotesIn(q) /\ InOrder(q)
  BY Queue
<1>1. ScreenTypeOK /\ spent["visits"] \in Nat
  BY DEF ScreenInv, ScreenTypeOK, Counters
<1>2. attempt' \in [phase: Phase, id: Nat]
  BY <1>1 DEF PressSave, ScreenTypeOK, Phase
<1>3. UNCHANGED <<cart, shown, requests, draftOpen, spent, busy>>
  BY DEF PressSave, Far
<1>4. CASE cart.review.method = "CARD"
  <2>1. PICK x \in CallType: x = Call("COMPLETE", cart, cart.id)
    BY <1>1 DEF Call, CallType, CallKind, SaleKinds, AnswerKind, ScreenTypeOK, Cart
  <2>2. /\ calls' = Append(q, x) /\ ~IsNote(x) /\ x.kind = "COMPLETE" /\ x.answer = "NONE"
        /\ x.cart = cart /\ x.id = cart.id /\ x.visit = spent["visits"]
    BY <1>4, <2>1 DEF PressSave, Say, Call, IsNote, NoteKinds
  <2>3. cart.review # NoReview
    BY <1>4 DEF NoReview
  <2>4. Stands(cart.id, cart.review)'
    BY <1>3, <2>3 DEF ScreenInv, SaleInv, CartStands, Stands
  <2>5. CallOK(x)'
    BY <1>1, <1>3, <2>2, <2>3, <2>4 DEF CallOK, Reviewing
  <2> QED
    BY <1>1, <1>2, <1>3, <2>2, <2>5, CartStays DEF ScreenTypeOK
<1>5. CASE cart.review.method # "CARD"
  <2>1. calls' = q
    BY <1>5 DEF PressSave
  <2> QED
    BY <1>1, <1>2, <1>3, <2>1, CartStays DEF ScreenTypeOK
<1> QED
  BY <1>4, <1>5

\* The terminal declined.
LEMMA PressDeclinedStep == ASSUME ScreenInv, PressDeclined PROVE ScreenInv'
<1> PICK q \in Seq(CallType): q = calls /\ CallsIn(q) /\ NotesIn(q) /\ InOrder(q)
  BY Queue
<1>1. ScreenTypeOK /\ spent["visits"] \in Nat
  BY DEF ScreenInv, ScreenTypeOK, Counters
<1>2. attempt' \in [phase: Phase, id: Nat]
  BY <1>1 DEF PressDeclined, ScreenTypeOK, Phase
<1>3. PICK x \in CallType: x = Call("DECLINE", cart, attempt.id)
  BY <1>1 DEF Call, CallType, CallKind, AnswerKind, ScreenTypeOK
<1>4. /\ calls' = Append(q, x) /\ ~IsNote(x) /\ x.kind = "DECLINE" /\ x.answer = "NONE"
      /\ x.visit = spent["visits"]
  BY <1>3 DEF PressDeclined, Say, Call, IsNote, NoteKinds
<1>5. UNCHANGED <<cart, shown, requests, draftOpen, spent, busy>>
  BY DEF PressDeclined, Far
<1>6. CallOK(x)'
  BY <1>1, <1>4, <1>5 DEF CallOK, Reviewing, SaleKinds
<1> QED
  BY <1>1, <1>2, <1>4, <1>5, <1>6, CartStays DEF ScreenTypeOK

\* A new sale.
LEMMA NewSaleStep == ASSUME ScreenInv, NewSale PROVE ScreenInv'
<1> PICK q \in Seq(CallType): q = calls /\ CallsIn(q) /\ NotesIn(q) /\ InOrder(q)
  BY Queue
<1>1. attempt' \in [phase: Phase, id: Nat]
  BY DEF NewSale, NoAttempt, Phase
<1>2. SetCart(EmptyCart, q)
  BY DEF NewSale
<1> QED
  BY <1>1, <1>2, EmptyCartIsCart, CartChanges DEF NewSale, Far, ScreenInv, ScreenTypeOK

\* The screen is left.
LEMMA LeaveScreenStep == ASSUME ScreenInv, LeaveScreen PROVE ScreenInv'
<1> PICK q \in Seq(CallType): q = calls /\ CallsIn(q) /\ NotesIn(q) /\ InOrder(q)
  BY Queue
<1>1. attempt' \in [phase: Phase, id: Nat]
  BY DEF LeaveScreen, NoAttempt, Phase
<1>2. SetCart(EmptyCart, q)
  BY DEF LeaveScreen
<1>3. /\ spent' \in [Counters -> Nat] /\ spent'["ids"] = spent["ids"]
      /\ spent'["visits"] = spent["visits"] + 1
  BY DEF LeaveScreen, Spend, ScreenInv, ScreenTypeOK, Counters
<1> QED
  BY <1>1, <1>2, <1>3, EmptyCartIsCart, CartChanges DEF LeaveScreen, Far

-------------------------------------------------------------------------------
(* The main process.                                                           *)

\* The call that is served next.
Next1(k) ==
  /\ k \in 1..Len(calls) /\ calls[k].answer = "NONE" /\ 1..(k - 1) \subseteq Served
  /\ UNCHANGED <<cart, attempt, sold, busy, swapping, shown, charged, spent>>

\* Answering it is enough, where the sales stay what was shown and a note is taken.
LEMMA Replied ==
  ASSUME ScreenInv, NEW k, Next1(k), NEW a \in AnswerKind, a # "NONE", Reply(k, a),
         requests' \in [Ids -> [status: RowStatus, of: Review]], SoldRows',
         \/ ~IsNote(calls[k]) /\ draftOpen' = draftOpen
         \/ /\ IsNote(calls[k]) /\ a \in {"OK", "REFUSED"}
            /\ a = "OK" => (draftOpen' <=> calls[k].kind = "CART_OPEN")
            /\ a = "REFUSED" => calls[k].kind = "CART_OPEN"
  PROVE  ScreenInv'
<1> PICK q \in Seq(CallType): q = calls /\ CallsIn(q) /\ NotesIn(q) /\ InOrder(q)
  BY Queue
<1>1. ScreenTypeOK /\ UNCHANGED <<cart, attempt, busy, shown, spent>>
  BY DEF ScreenInv, Next1
<1>2. k \in 1..Len(q) /\ q[k].answer = "NONE"
  BY DEF Next1
<1>3. \A j \in 1..(k - 1): q[j].answer # "NONE"
  BY DEF Next1, Served
<1>4. PICK r \in Seq(CallType): r = [q EXCEPT ![k].answer = a]
  BY <1>2, Answered
<1>5. calls' = r
  BY <1>4 DEF Reply
<1>6. CallsIn(r)'
  <2>1. CallsIn(r)
    BY <1>2, <1>4, CallsAnswered
  <2> QED
    BY <1>1, <2>1, CallsKept
<1>7. NotesIn(r)'
  <2>1. CASE ~IsNote(calls[k]) /\ draftOpen' = draftOpen
    <3>1. NotesIn(r)
      BY <1>2, <1>3, <1>4, <2>1, NotesAnswered
    <3> QED
      BY <1>1, <2>1, <3>1, NotesContext
  <2>2. CASE ~(~IsNote(calls[k]) /\ draftOpen' = draftOpen)
    BY <1>1, <1>2, <1>3, <1>4, <2>2, NotesTaken
  <2> QED
    BY <2>1, <2>2
<1>8. CartStands' /\ Fresh'
  BY <1>1 DEF ScreenInv, SaleInv, CartStands, Fresh, Stands
<1> QED
  BY <1>1, <1>5, <1>6, <1>7, <1>8, Reassembled DEF ScreenTypeOK, QueueOK

\* Nothing but the answer.
LEMMA RepliedOnly ==
  ASSUME ScreenInv, NEW k, Next1(k), NEW a \in AnswerKind, a # "NONE", Reply(k, a),
         ~IsNote(calls[k]), UNCHANGED <<requests, draftOpen>>
  PROVE  ScreenInv'
<1>1. SoldRows'
  BY DEF ScreenInv, SaleInv, SoldRows, Next1
<1> QED
  BY <1>1, Replied DEF ScreenInv, ScreenTypeOK

\* The answer and one row.
LEMMA RepliedWithRow ==
  ASSUME ScreenInv, NEW k, Next1(k), NEW a \in AnswerKind, a # "NONE", Reply(k, a),
         ~IsNote(calls[k]), draftOpen' = draftOpen,
         NEW id, NEW row, Put(id, row),
         id \in Ids => /\ row \in [status: RowStatus, of: Review]
                       /\ row.status # "NONE" => shown[id] # NoReview
                       /\ row.status = "COMPLETED" => row.of = shown[id]
  PROVE  ScreenInv'
<1>1. requests' \in [Ids -> [status: RowStatus, of: Review]]
  BY DEF ScreenInv, ScreenTypeOK, Put
<1>2. shown' = shown
  BY DEF Next1
<1>3. SoldRows'
  <2> SUFFICES ASSUME NEW i \in Ids
               PROVE  /\ requests'[i].status # "NONE" => shown[i] # NoReview
                      /\ requests'[i].status = "COMPLETED" => requests'[i].of = shown[i]
    BY <1>2 DEF SoldRows
  <2>1. CASE i = id
    <3>1. requests'[i] = row
      BY <2>1 DEF Put, ScreenInv, ScreenTypeOK
    <3> QED
      BY <2>1, <3>1
  <2>2. CASE i # id
    <3>1. requests'[i] = requests[i]
      BY <2>2 DEF Put, ScreenInv, ScreenTypeOK
    <3> QED
      BY <3>1 DEF ScreenInv, SaleInv, SoldRows
  <2> QED
    BY <2>1, <2>2
<1> QED
  BY <1>1, <1>3, Replied

\* The call that is served, and what is known of its request.
LEMMA Served1 ==
  ASSUME ScreenInv, NEW k, Next1(k)
  PROVE  /\ calls[k] \in CallType /\ CallOK(calls[k])
         /\ calls[k].kind \in SaleKinds => calls[k].id \in Ids
         /\ shown \in [Ids -> Review]
         /\ requests \in [Ids -> [status: RowStatus, of: Review]]
         /\ \A id \in Ids: /\ requests[id].status # "NONE" => shown[id] # NoReview
                           /\ requests[id].status = "COMPLETED" => requests[id].of = shown[id]
<1>1. calls \in Seq(CallType) /\ k \in 1..Len(calls)
  BY DEF ScreenInv, ScreenTypeOK, Next1
<1>2. calls[k] \in CallType /\ k \in DOMAIN calls
  BY <1>1, ElementOfSeq, LenProperties
<1>3. CallOK(calls[k])
  BY <1>2 DEF ScreenInv, SaleInv, CallsIn
<1>4. calls[k].kind \in SaleKinds => calls[k].id \in Ids
  BY <1>3, ScreenAssumption DEF CallOK, Stands, Ids, ScreenInv, ScreenTypeOK, Counters
<1> QED
  BY <1>2, <1>3, <1>4 DEF ScreenInv, ScreenTypeOK, SaleInv, SoldRows

\* noteDraftCartActivity.
LEMMA ServeNoteStep == ASSUME ScreenInv, NEW k, Next1(k), ServeNote(k) PROVE ScreenInv'
<1>1. IsNote(calls[k]) /\ requests' = requests
  BY DEF ServeNote, IsNote, NoteKinds
<1>2. SoldRows'
  BY <1>1 DEF ScreenInv, SaleInv, SoldRows, Next1
<1>3. CASE calls[k].kind = "CART_OPEN" /\ swapping
  <2>1. Reply(k, "REFUSED") /\ "REFUSED" \in AnswerKind
    BY <1>3 DEF ServeNote, AnswerKind
  <2> QED
    BY <1>1, <1>2, <1>3, <2>1, Replied DEF ScreenInv, ScreenTypeOK
<1>4. CASE ~(calls[k].kind = "CART_OPEN" /\ swapping)
  <2>1. Reply(k, "OK") /\ "OK" \in AnswerKind /\ (draftOpen' <=> calls[k].kind = "CART_OPEN")
    BY <1>4 DEF ServeNote, AnswerKind
  <2> QED
    BY <1>1, <1>2, <1>4, <2>1, Replied DEF ScreenInv, ScreenTypeOK
<1> QED
  BY <1>3, <1>4

\* Errors and reads.
LEMMA ServeReadStep ==
  ASSUME ScreenInv, NEW k, Next1(k), ServeError(k) \/ ServeRead(k)
  PROVE  ScreenInv'
<1>1. PICK a \in {"ERROR", "OK"}: Reply(k, a)
  BY DEF ServeError, ServeRead
<1>2. ~IsNote(calls[k]) /\ UNCHANGED <<requests, draftOpen>>
  BY DEF ServeError, ServeRead, IsNote, NoteKinds
<1> QED
  BY <1>1, <1>2, RepliedOnly DEF AnswerKind

\* completeCashSale sells what was shown.
LEMMA ServeCashStep == ASSUME ScreenInv, NEW k, Next1(k), ServeCash(k) PROVE ScreenInv'
<1> DEFINE call == calls[k]
           row == requests[call.id]
           made(status) == [status |-> status, of |-> [lines |-> call.cart.lines,
                                                        method |-> call.cart.method]]
<1>1. /\ call \in CallType /\ CallOK(call) /\ call.id \in Ids /\ ~IsNote(call)
      /\ shown \in [Ids -> Review] /\ call.kind = "CASH" /\ draftOpen' = draftOpen
  BY Served1 DEF ServeCash, SaleKinds, IsNote, NoteKinds
<1>2. shown[call.id] = call.cart.review /\ shown[call.id] # NoReview
  BY <1>1 DEF CallOK, SaleKinds, Stands
<1>3. \A status \in {"COMPLETED", "FAILED"}: made(status) \in [status: RowStatus, of: Review]
  BY <1>1 DEF CallType, Cart, Review, RowStatus
<1>4. CASE \E a \in {"DONE", "AGAIN", "ERROR"}: Reply(k, a) /\ UNCHANGED requests
  BY <1>1, <1>4, RepliedOnly DEF AnswerKind
<1>5. CASE Matches(call) /\ Put(call.id, made("COMPLETED")) /\ Reply(k, "DONE")
  <2>1. made("COMPLETED").of = call.cart.review
    BY <1>1, <1>5 DEF Matches, CallType, Cart, Review
  <2>2. "DONE" \in AnswerKind
    BY DEF AnswerKind
  <2>3. PICK m : m = made("COMPLETED")
    OBVIOUS
  <2>4. m \in [status: RowStatus, of: Review] /\ m.of = call.cart.review
    BY <1>3, <2>1, <2>3
  <2> QED
    BY <1>1, <1>2, <1>5, <2>2, <2>3, <2>4, RepliedWithRow
<1>6. CASE Put(call.id, made("FAILED")) /\ \E a \in {"AGAIN", "ERROR"}: Reply(k, a)
  <2>1. PICK a \in AnswerKind: a # "NONE" /\ Reply(k, a)
    BY <1>6 DEF AnswerKind
  <2>2. PICK m : m = made("FAILED")
    OBVIOUS
  <2>3. m \in [status: RowStatus, of: Review] /\ m.status = "FAILED"
    BY <1>3, <2>2
  <2> QED
    BY <1>1, <1>2, <1>6, <2>1, <2>2, <2>3, RepliedWithRow
<1> QED
  BY <1>4, <1>5, <1>6 DEF ServeCash

\* beginCard.
LEMMA ServeBeginStep == ASSUME ScreenInv, NEW k, Next1(k), ServeBegin(k) PROVE ScreenInv'
<1> DEFINE call == calls[k]
           row == requests[call.id]
<1>1. /\ call \in CallType /\ CallOK(call) /\ call.id \in Ids /\ ~IsNote(call)
      /\ call.kind = "BEGIN" /\ draftOpen' = draftOpen
  BY Served1 DEF ServeBegin, SaleKinds, IsNote, NoteKinds
<1>2. shown[call.id] # NoReview
  BY <1>1 DEF CallOK
<1>3. CASE Put(call.id, [status |-> "PENDING_PAYMENT", of |-> call.cart.review]) /\ Reply(k, "AWAIT")
  <2>1. PICK m : m = [status |-> "PENDING_PAYMENT", of |-> call.cart.review]
    OBVIOUS
  <2>2. m \in [status: RowStatus, of: Review] /\ m.status = "PENDING_PAYMENT"
    BY <1>1, <2>1 DEF CallType, Cart, RowStatus
  <2> QED
    BY <1>1, <1>2, <1>3, <2>1, <2>2, RepliedWithRow DEF AnswerKind
<1>4. CASE \E a \in {"AGAIN", "ERROR", "AWAIT", "DONE", "APPROVED"}:
             Reply(k, a) /\ UNCHANGED requests
  BY <1>1, <1>4, RepliedOnly DEF AnswerKind
<1> QED
  BY <1>3, <1>4 DEF ServeBegin

\* completeCard: the row is the one of the review that comes with the call.
LEMMA ServeCompleteStep ==
  ASSUME ScreenInv, NEW k, Next1(k), ServeComplete(k)
  PROVE  ScreenInv'
<1> DEFINE call == calls[k]
           row == requests[call.id]
<1>1. /\ call \in CallType /\ CallOK(call) /\ call.id \in Ids /\ ~IsNote(call)
      /\ call.kind = "COMPLETE" /\ draftOpen' = draftOpen
      /\ row \in [status: RowStatus, of: Review]
      /\ row.status # "NONE" => shown[call.id] # NoReview
  BY Served1 DEF ServeComplete, SaleKinds, IsNote, NoteKinds
<1>2. shown[call.id] \in {NoReview, call.cart.review}
  BY <1>1 DEF CallOK, SaleKinds, Stands
<1>3. CASE \E a \in {"DONE", "ERROR"}: Reply(k, a) /\ UNCHANGED requests
  BY <1>1, <1>3, RepliedOnly DEF AnswerKind
<1>4. CASE /\ row.of = call.cart.review
           /\ row.status \in {"PENDING_PAYMENT", "SUBMITTED", "FAILED"}
           /\ \E s \in {"PENDING_PAYMENT", "SUBMITTED", "FAILED", "COMPLETED"},
                 a \in {"DONE", "ERROR"}:
                Put(call.id, [row EXCEPT !.status = s]) /\ Reply(k, a)
  <2>1. PICK s \in {"PENDING_PAYMENT", "SUBMITTED", "FAILED", "COMPLETED"},
             a \in {"DONE", "ERROR"}: Put(call.id, [row EXCEPT !.status = s]) /\ Reply(k, a)
    BY <1>4
  <2>2. PICK m : m = [row EXCEPT !.status = s]
    OBVIOUS
  <2>3. m \in [status: RowStatus, of: Review] /\ m.of = call.cart.review
    BY <1>1, <1>4, <2>2 DEF RowStatus
  <2>4. shown[call.id] = call.cart.review /\ shown[call.id] # NoReview
    BY <1>1, <1>2, <1>4
  <2>5. a \in AnswerKind /\ a # "NONE"
    BY DEF AnswerKind
  <2> QED
    BY <1>1, <2>1, <2>2, <2>3, <2>4, <2>5, RepliedWithRow
<1> QED
  BY <1>3, <1>4 DEF ServeComplete

\* declineCard.
LEMMA ServeDeclineStep ==
  ASSUME ScreenInv, NEW k, Next1(k), ServeDecline(k)
  PROVE  ScreenInv'
<1> DEFINE id == calls[k].id
           row == requests[id]
<1>1. ~IsNote(calls[k]) /\ draftOpen' = draftOpen
  BY DEF ServeDecline, IsNote, NoteKinds
<1>2. CASE Reply(k, "ERROR") /\ UNCHANGED requests
  BY <1>1, <1>2, RepliedOnly DEF AnswerKind
<1>3. CASE /\ row.status = "PENDING_PAYMENT" /\ Reply(k, "DONE")
           /\ Put(id, [row EXCEPT !.status = "DECLINED"])
  <2>1. PICK m : m = [row EXCEPT !.status = "DECLINED"]
    OBVIOUS
  <2>2. id \in Ids => /\ m \in [status: RowStatus, of: Review] /\ m.status = "DECLINED"
                      /\ shown[id] # NoReview
    BY <1>3, <2>1, Served1 DEF RowStatus
  <2>3. "DONE" \in AnswerKind
    BY DEF AnswerKind
  <2> QED
    BY <1>1, <1>3, <2>1, <2>2, <2>3, RepliedWithRow
<1> QED
  BY <1>2, <1>3 DEF ServeDecline

\* Serving a call.
LEMMA ServeStep == ASSUME ScreenInv, Serve PROVE ScreenInv'
<1>1. PICK k \in 1..Len(calls):
        /\ calls[k].answer = "NONE" /\ 1..(k - 1) \subseteq Served
        /\ \/ ServeNote(k) \/ ServeError(k) \/ ServeRead(k) \/ ServeCash(k)
           \/ ServeBegin(k) \/ ServeComplete(k) \/ ServeDecline(k)
  BY DEF Serve
<1>2. Next1(k)
  BY <1>1 DEF Serve, Next1
<1> QED
  BY <1>1, <1>2, ServeNoteStep, ServeReadStep, ServeCashStep, ServeBeginStep,
     ServeCompleteStep, ServeDeclineStep

\* A restore begins.
LEMMA SwapBeginsStep == ASSUME ScreenInv, SwapBegins PROVE ScreenInv'
<1> PICK q \in Seq(CallType): q = calls /\ CallsIn(q) /\ NotesIn(q) /\ InOrder(q)
  BY Queue
<1>1. /\ spent' \in [Counters -> Nat] /\ spent'["ids"] = spent["ids"]
      /\ spent'["visits"] = spent["visits"]
  BY DEF SwapBegins, Spend, ScreenInv, ScreenTypeOK, Counters
<1> QED
  BY <1>1, CartStays DEF SwapBegins, ScreenInv, ScreenTypeOK

\* A restore ends, and with it the requests of the old database.
LEMMA SwapEndsStep == ASSUME ScreenInv, SwapEnds PROVE ScreenInv'
<1> PICK q \in Seq(CallType): q = calls /\ CallsIn(q) /\ NotesIn(q) /\ InOrder(q)
  BY Queue
<1>1. /\ ScreenTypeOK /\ SoldRows
      /\ UNCHANGED <<cart, attempt, busy, calls, draftOpen, shown, spent>>
  BY DEF SwapEnds, ScreenInv, SaleInv
<1>2. NoRequest \in [status: RowStatus, of: Review] /\ NoRequest.status = "NONE"
  BY DEF NoRequest, RowStatus, Review, NoReview, Method
<1>3. requests' \in [Ids -> [status: RowStatus, of: Review]] /\ SoldRows'
  <2>1. CASE requests' = requests
    BY <1>1, <2>1 DEF ScreenTypeOK, SoldRows
  <2>2. CASE requests' = [id \in Ids |-> NoRequest]
    BY <1>1, <1>2, <2>2 DEF SoldRows
  <2> QED
    BY <2>1, <2>2 DEF SwapEnds, Ids
<1>4. CallsIn(q)' /\ NotesIn(q)'
  BY <1>1, CallsKept, NotesContext
<1>5. CartStands' /\ Fresh'
  BY <1>1 DEF ScreenInv, SaleInv, CartStands, Fresh, Stands
<1> QED
  BY <1>1, <1>3, <1>4, <1>5, Reassembled DEF ScreenTypeOK, QueueOK

-------------------------------------------------------------------------------
(* The screen gets an answer.                                                  *)

\* The first call, and the queue behind it.
LEMMA Got ==
  ASSUME ScreenInv, calls # <<>>, Head1.answer # "NONE"
  PROVE  \E q \in Seq(CallType):
           /\ q = Rest /\ CallsIn(q) /\ InOrder(q)
           /\ Head1 \in CallType /\ CallOK(Head1)
           /\ NotesIn(q) \/ (Head1.answer = "REFUSED" /\ NoteOK(Head1) /\ IsNote(Head1))
           /\ Reviewing(Head1) => \A k \in DOMAIN q: ~Reviewing(q[k])
<1> PICK q \in Seq(CallType): q = calls /\ CallsIn(q) /\ NotesIn(q) /\ InOrder(q)
  BY Queue
<1>1. /\ q # <<>> /\ q[1] = Head1 /\ q[1] \in CallType /\ q[1].answer # "NONE"
      /\ Tail(q) \in Seq(CallType) /\ Tail(q) = Rest /\ 1 \in DOMAIN q
      /\ DOMAIN q = 1..Len(q) /\ Len(q) \in Nat
      /\ DOMAIN Tail(q) = 1..(Len(q) - 1)
      /\ \A k \in 1..(Len(q) - 1): Tail(q)[k] = q[k + 1]
  BY Tailed DEF Head1, Rest
<1>2. CallsIn(Tail(q)) /\ CallOK(q[1])
  BY <1>1, CallsShrink DEF CallsIn
<1>3. InOrder(Tail(q))
  <2> DEFINE r == Tail(q)
  <2>1. \A k \in DOMAIN r: k \in Nat /\ k + 1 \in DOMAIN q /\ r[k] = q[k + 1]
    BY <1>1
  <2> HIDE DEF r
  <2>2. InOrder(r)
    BY <2>1 DEF InOrder
  <2> QED
    BY <2>2 DEF r
<1>4. NotesIn(Tail(q)) \/ (q[1].answer = "REFUSED" /\ NoteOK(q[1]) /\ IsNote(q[1]))
  <2>1. CASE LastNote(q, 1) /\ q[1].answer = "REFUSED"
    BY <1>1, <2>1 DEF NotesIn, LastNote
  <2>2. CASE ~(LastNote(q, 1) /\ q[1].answer = "REFUSED")
    BY <1>1, <2>2, NotesShrink
  <2> QED
    BY <2>1, <2>2
<1>5. Reviewing(q[1]) => \A k \in DOMAIN Tail(q): ~Reviewing(Tail(q)[k])
  BY <1>1 DEF CallsIn
<1>6. PICK r \in Seq(CallType): r = Tail(q)
  BY <1>1
<1> QED
  BY <1>1, <1>2, <1>3, <1>4, <1>5, <1>6

\* The answer to a note: a refused cart is abandoned.
LEMMA GetNoteStep == ASSUME ScreenInv, GetNote PROVE ScreenInv'
<1> PICK q \in Seq(CallType):
           /\ q = Rest /\ CallsIn(q) /\ InOrder(q)
           /\ NotesIn(q) \/ (Head1.answer = "REFUSED" /\ NoteOK(Head1) /\ IsNote(Head1))
  BY Got DEF GetNote, Gets
<1>1. UNCHANGED <<attempt, busy, shown, requests, draftOpen, spent>>
  BY DEF GetNote, Far
<1>2. CASE Head1.answer = "REFUSED"
  <2>1. SetCart(EmptyCart, q)
    BY <1>2 DEF GetNote
  <2>2. NotesIn(q) \/ ~((EmptyCart.lines = {}) = (cart.lines = {}))
    BY EmptyCartIsCart DEF NoteOK, IsNote, NoteKinds
  <2> QED
    BY <1>1, <2>1, <2>2, EmptyCartIsCart, CartChanges DEF ScreenInv, ScreenTypeOK
<1>3. CASE Head1.answer # "REFUSED"
  <2>1. cart' = cart /\ calls' = q /\ NotesIn(q)
    BY <1>3 DEF GetNote, Drop
  <2> QED
    BY <1>1, <2>1, CartStays DEF ScreenInv, ScreenTypeOK
<1> QED
  BY <1>2, <1>3

\* The answer to a call that is no note.
LEMMA GotAnswer ==
  ASSUME ScreenInv, NEW kinds, NoteKinds \cap kinds = {}, Gets(kinds)
  PROVE  \E q \in Seq(CallType):
           /\ q = Rest /\ CallsIn(q) /\ InOrder(q) /\ NotesIn(q)
           /\ Head1 \in CallType /\ CallOK(Head1) /\ Head1.kind \in kinds
           /\ Head1.visit = spent["visits"]
           /\ Reviewing(Head1) => \A k \in DOMAIN q: ~Reviewing(q[k])
<1>1. calls # <<>> /\ Head1.answer # "NONE" /\ Head1.kind \in kinds
      /\ Head1.visit = spent["visits"] /\ ~IsNote(Head1)
  BY DEF Gets, IsNote
<1> QED
  BY <1>1, Got

\* A lookup puts back the cart it started from, changed.
LEMMA GetLookupStep == ASSUME ScreenInv, GetLookup PROVE ScreenInv'
<1> PICK q \in Seq(CallType):
           /\ q = Rest /\ CallsIn(q) /\ InOrder(q) /\ NotesIn(q)
           /\ Head1 \in CallType /\ CallOK(Head1) /\ Head1.kind = "LOOKUP"
  BY GotAnswer DEF GetLookup, NoteKinds
<1>1. UNCHANGED <<attempt, busy, shown, requests, draftOpen, spent>>
  BY DEF GetLookup, Far
<1>2. CASE Head1.answer = "OK"
  <2>1. PICK c \in Cart: c = Head1.cart /\ c.review = NoReview
    BY DEF CallOK, CallType
  <2>2. SetCart(c, q)
    BY <1>2, <2>1 DEF GetLookup
  <2> QED
    BY <1>1, <2>1, <2>2, CartChanges DEF ScreenInv, ScreenTypeOK
<1>3. CASE Head1.answer # "OK"
  BY <1>1, <1>3, CartStays DEF GetLookup, Drop, ScreenInv, ScreenTypeOK
<1> QED
  BY <1>2, <1>3

\* The answer to a review is a request id that nothing has used.
LEMMA GetReviewStep == ASSUME ScreenInv, GetReview PROVE ScreenInv'
<1> PICK q \in Seq(CallType):
           /\ q = Rest /\ CallsIn(q) /\ InOrder(q) /\ NotesIn(q)
           /\ Head1 \in CallType /\ CallOK(Head1)
           /\ Reviewing(Head1)
           /\ \A k \in DOMAIN q: ~Reviewing(q[k])
  BY GotAnswer DEF GetReview, NoteKinds, Reviewing
<1>0. ScreenTypeOK /\ spent["ids"] \in Nat /\ spent["visits"] \in Nat
  BY DEF ScreenInv, ScreenTypeOK, Counters
<1>1. UNCHANGED <<attempt, shown, requests, draftOpen>>
  BY DEF GetReview, Far
<1>2. CASE Head1.answer = "OK"
  <2>1. /\ spent' \in [Counters -> Nat] /\ spent'["ids"] = spent["ids"] + 1
        /\ spent'["visits"] = spent["visits"]
    BY <1>0, <1>2 DEF GetReview, ScreenTypeOK, Counters
  <2>2. spent["ids"] < MaxRequests
    BY DEF CallOK
  <2>3. PICK rv \in Review: rv = [lines |-> Head1.cart.lines, method |-> Head1.cart.method]
    BY DEF CallType, Cart, Review
  <2>4. PICK c \in Cart: /\ c = [cart EXCEPT !.review = rv, !.id = spent["ids"] + 1]
                         /\ c.review = rv /\ c.id = spent["ids"] + 1
    <3>1. cart \in Cart /\ spent["ids"] + 1 \in Nat
      BY <1>0 DEF ScreenTypeOK
    <3>2. PICK n \in Nat: n = spent["ids"] + 1
      BY <3>1
    <3>3. [cart EXCEPT !.review = rv, !.id = n] \in Cart
      BY <3>1 DEF Cart
    <3>4. [cart EXCEPT !.review = rv, !.id = n].review = rv
          /\ [cart EXCEPT !.review = rv, !.id = n].id = n
      BY <3>1 DEF Cart
    <3> QED
      BY <3>2, <3>3, <3>4
  <2>5. SetCart(c, q) /\ cart' = c
    BY <1>2, <2>3, <2>4 DEF GetReview, SetCart
  <2>6. spent["ids"] + 1 \in Ids /\ shown[spent["ids"] + 1] = NoReview
    BY <1>0, <2>2, ScreenAssumption DEF Ids, ScreenInv, SaleInv, Fresh
  <2>7. ASSUME NEW id, NEW review, Stands(id, review)
        PROVE  Stands(id, review)'
    BY <1>0, <1>1, <2>1, <2>4, <2>5, <2>7 DEF Stands
  <2>8. CartStands'
    BY <1>0, <1>1, <2>1, <2>4, <2>5, <2>6 DEF CartStands, Stands
  <2>9. Fresh' /\ SoldRows'
    BY <1>0, <1>1, <2>1 DEF Fresh, SoldRows, ScreenInv, SaleInv, Ids
  <2>10. CallsIn(q)'
    <3>1. \A k \in DOMAIN q: ~Reviewing(q[k])'
      BY <2>1 DEF Reviewing
    <3>2. \A k \in DOMAIN q: CallOK(q[k]) => CallOK(q[k])'
      BY <1>1, <2>1, <2>7, <3>1 DEF CallOK
    <3> QED
      BY <3>1, <3>2, CallsContext
  <2>11. PICK r \in Seq(CallType): calls' = r /\ QueueOK(r)'
    BY <1>0, <1>1, <2>1, <2>5, <2>10, CartSet
  <2>12. spent'["ids"] <= MaxRequests /\ cart' \in Cart
    BY <1>0, <2>1, <2>2, <2>4, <2>5, ScreenAssumption
  <2> QED
    BY <1>0, <1>1, <2>1, <2>8, <2>9, <2>11, <2>12, Reassembled DEF ScreenTypeOK
<1>3. CASE Head1.answer # "OK"
  BY <1>0, <1>1, <1>3, CartStays DEF GetReview, Drop, ScreenTypeOK
<1> QED
  BY <1>2, <1>3

\* A cart that has lost its review.
LEMMA CartReviewed ==
  ASSUME ScreenInv
  PROVE  \E c \in Cart: c = Unreviewed(cart) /\ c.review = NoReview
<1>1. cart \in Cart
  BY DEF ScreenInv, ScreenTypeOK
<1> QED
  BY <1>1, UnreviewedCart

\* The answer to a Cash sale.
LEMMA GetCashStep == ASSUME ScreenInv, GetCash PROVE ScreenInv'
<1> PICK q \in Seq(CallType): q = Rest /\ CallsIn(q) /\ InOrder(q) /\ NotesIn(q)
  BY GotAnswer DEF GetCash, NoteKinds
<1>1. UNCHANGED <<attempt, shown, requests, draftOpen, spent>>
      /\ ("REVIEWING" \in busy => "REVIEWING" \in busy')
  BY DEF GetCash, Far
<1>2. CASE Head1.answer = "AGAIN"
  <2>1. PICK c \in Cart: c = Unreviewed(cart) /\ c.review = NoReview
    BY CartReviewed
  <2>2. SetCart(c, q)
    BY <1>2, <2>1 DEF GetCash
  <2> QED
    BY <1>1, <2>1, <2>2, CartChanges DEF ScreenInv, ScreenTypeOK
<1>3. CASE Head1.answer # "AGAIN"
  BY <1>1, <1>3, CartStays DEF GetCash, Drop, ScreenInv, ScreenTypeOK
<1> QED
  BY <1>2, <1>3

\* The answer to the beginning of a Card payment.
LEMMA GetBeginStep == ASSUME ScreenInv, GetBegin PROVE ScreenInv'
<1> PICK q \in Seq(CallType):
           /\ q = Rest /\ CallsIn(q) /\ InOrder(q) /\ NotesIn(q)
           /\ Head1 \in CallType /\ CallOK(Head1) /\ Head1.kind = "BEGIN"
  BY GotAnswer DEF GetBegin, NoteKinds
<1>0. ScreenTypeOK /\ spent["visits"] \in Nat
  BY DEF ScreenInv, ScreenTypeOK, Counters
<1>1. UNCHANGED <<busy, shown, requests, draftOpen, spent>>
  BY DEF GetBegin, Far
<1>2. attempt' \in [phase: Phase, id: Nat]
  BY DEF GetBegin, Phase, NoAttempt, CallType
<1>3. CASE Head1.answer = "AGAIN"
  <2>1. PICK c \in Cart: c = Unreviewed(cart) /\ c.review = NoReview
    BY CartReviewed
  <2>2. SetCart(c, q)
    BY <1>3, <2>1 DEF GetBegin
  <2> QED
    BY <1>0, <1>1, <1>2, <2>1, <2>2, CartChanges DEF ScreenTypeOK
<1>4. CASE Head1.answer = "APPROVED"
  <2>1. PICK x \in CallType: x = Call("COMPLETE", Head1.cart, Head1.id)
    BY <1>0 DEF Call, CallType, CallKind, SaleKinds, AnswerKind
  <2>2. /\ calls' = Append(q, x) /\ cart' = cart /\ ~IsNote(x) /\ x.kind = "COMPLETE"
        /\ x.answer = "NONE" /\ x.cart = Head1.cart /\ x.id = Head1.id
        /\ x.visit = spent["visits"]
    BY <1>4, <2>1 DEF GetBegin, Call, IsNote, NoteKinds
  <2>3. CallOK(x)
    BY <1>0, <2>2 DEF CallOK, SaleKinds, Reviewing
  <2>4. CallOK(x)'
    BY <1>1, <2>2, <2>3 DEF CallOK, Stands, Reviewing
  <2> QED
    BY <1>0, <1>1, <1>2, <2>2, <2>4, CartStays DEF ScreenTypeOK
<1>5. CASE Head1.answer \notin {"AGAIN", "APPROVED"}
  BY <1>0, <1>1, <1>2, <1>5, CartStays DEF GetBegin, ScreenTypeOK
<1> QED
  BY <1>3, <1>4, <1>5

\* The answer to the record of an approval.
LEMMA GetCompleteStep == ASSUME ScreenInv, GetComplete PROVE ScreenInv'
<1> PICK q \in Seq(CallType): q = Rest /\ CallsIn(q) /\ InOrder(q) /\ NotesIn(q)
  BY GotAnswer DEF GetComplete, NoteKinds
<1>1. attempt' \in [phase: Phase, id: Nat]
  BY DEF GetComplete, Phase, NoAttempt, ScreenInv, ScreenTypeOK
<1> QED
  BY <1>1, CartStays DEF GetComplete, Drop, Far, ScreenInv, ScreenTypeOK

\* The answer to a decline.
LEMMA GetDeclineStep == ASSUME ScreenInv, GetDecline PROVE ScreenInv'
<1> PICK q \in Seq(CallType): q = Rest /\ CallsIn(q) /\ InOrder(q) /\ NotesIn(q)
  BY GotAnswer DEF GetDecline, NoteKinds
<1>1. PICK c \in Cart: c = Unreviewed(cart) /\ c.review = NoReview
  BY CartReviewed
<1>2. SetCart(c, q) /\ attempt' \in [phase: Phase, id: Nat]
  BY <1>1 DEF GetDecline, Phase, NoAttempt
<1> QED
  BY <1>1, <1>2, CartChanges DEF GetDecline, Far, ScreenInv, ScreenTypeOK

\* An answer to a screen that was left: a refused cart is not the one on the screen.
LEMMA GetForGoneStep == ASSUME ScreenInv, GetForGone PROVE ScreenInv'
<1> PICK q \in Seq(CallType):
           /\ q = Rest /\ CallsIn(q) /\ InOrder(q)
           /\ NotesIn(q) \/ (Head1.answer = "REFUSED" /\ NoteOK(Head1) /\ IsNote(Head1))
  BY Got DEF GetForGone
<1>1. NotesIn(q)
  BY DEF NoteOK, GetForGone
<1> QED
  BY <1>1, CartStays DEF GetForGone, Drop, Far, ScreenInv, ScreenTypeOK

-------------------------------------------------------------------------------

\* The screen as it first comes up.
LEMMA ScreenStarts == CheckoutScreenInit => ScreenInv
<1> SUFFICES ASSUME CheckoutScreenInit PROVE ScreenInv
  OBVIOUS
<1>1. ScreenTypeOK
  BY ScreenAssumption, EmptyCartIsCart
     DEF CheckoutScreenInit, ScreenTypeOK, NoAttempt, Phase, NoRequest, RowStatus, NoReview,
         Review, Method, Ids, Counters
<1>2. SaleInv
  BY EmptyCartIsCart
     DEF CheckoutScreenInit, SaleInv, CartStands, Fresh, SoldRows, CallsIn, NoRequest, Ids
<1>3. NoteInv
  BY EmptyCartIsCart DEF CheckoutScreenInit, NoteInv, NotesIn, InOrder
<1> QED
  BY <1>1, <1>2, <1>3 DEF ScreenInv

\* Every step of the screen and of the main process.
LEMMA ScreenStep == ScreenInv /\ [CheckoutScreenNext]_screenVars => ScreenInv'
<1>1. ASSUME ScreenInv, CheckoutScreenNext PROVE ScreenInv'
  BY <1>1, EditStep, LookUpStep, PressReviewStep, PressCompleteCashStep, PressBeginCardStep,
     ChargeStep, PressSaveStep, PressDeclinedStep, NewSaleStep, LeaveScreenStep, ServeStep,
     SwapBeginsStep, SwapEndsStep, GetNoteStep, GetLookupStep, GetReviewStep, GetCashStep,
     GetBeginStep, GetCompleteStep, GetDeclineStep, GetForGoneStep DEF CheckoutScreenNext
<1>2. ASSUME ScreenInv, UNCHANGED screenVars PROVE ScreenInv'
  <2> PICK q \in Seq(CallType): q = calls /\ CallsIn(q) /\ NotesIn(q) /\ InOrder(q)
    BY <1>2, Queue
  <2> QED
    BY <1>2, CartStays DEF screenVars, ScreenInv, ScreenTypeOK
<1> QED
  BY <1>1, <1>2

\* What is sold under a request is what the review on the screen showed when it was sent,
\* for every number of products, edits, late answers, visits, restores and retries.
THEOREM ScreenSellsWhatItShows == CheckoutScreenSpec => []SoldAsShown
<1>1. ScreenInv => SoldAsShown
  BY DEF ScreenInv, SaleInv, SoldRows, SoldAsShown, Ids
<1> QED
  BY <1>1, ScreenStarts, ScreenStep, PTL DEF CheckoutScreenSpec

\* Once every call is answered the coordinator knows of an open cart just when there is
\* one, whichever notes were refused and whichever screens were left in between.
THEOREM ScreenCartIsKnown == CheckoutScreenSpec => []CartIsKnown
<1>1. ScreenInv => CartIsKnown
  BY DEF ScreenInv, NoteInv, NotesIn, CartIsKnown
<1> QED
  BY <1>1, ScreenStarts, ScreenStep, PTL DEF CheckoutScreenSpec

-------------------------------------------------------------------------------
(* GoogleAccess: what the steps need of the shape of the settings and of the   *)
(* jobs.                                                                       *)

SettingsOK(a) ==
  /\ {"gen", "active", "quarantine", "sheet", "enabled", "attempted", "token"} \subseteq DOMAIN a
  /\ a.gen \in Nat
JobOK(j) == {"pc", "account", "gen", "token", "connect"} \subseteq DOMAIN j /\ j.gen \in Nat
JobsOK == DOMAIN jobs = Workers /\ \A w \in Workers: JobOK(jobs[w])

\* Only a file that was being written when its database was closed is still written while
\* the application is not up.
Stopped == station # "UP" => \A w \in Workers: jobs[w].pc \in {"IDLE", "ADRIFT"}

AccessShapes ==
  SettingsOK(access) /\ SettingsOK(saved) /\ JobsOK /\ secret.gen \in Nat /\ Stopped

\* A call or a task goes on with another job.
LEMMA Replaced ==
  ASSUME JobsOK, NEW w \in Workers, NEW job, Job(w, job), JobOK(job)
  PROVE  /\ JobsOK'
         /\ jobs'[w] = job /\ \A v \in Workers \ {w}: jobs'[v] = jobs[v]
BY DEF JobsOK, Job

\* It goes on with its own.
LEMMA Moved ==
  ASSUME NEW j, JobOK(j), NEW p
  PROVE  /\ JobOK([j EXCEPT !.pc = p]) /\ [j EXCEPT !.pc = p].pc = p
         /\ [j EXCEPT !.pc = p].account = j.account /\ [j EXCEPT !.pc = p].token = j.token
BY DEF JobOK

\* No job.
LEMMA NoJobIsJob == JobOK(NoJob) /\ NoJob.pc = "IDLE"
BY DEF JobOK, NoJob

\* A setup begins with the token of the settings, or with a new one.
LEMMA SetupBegins ==
  ASSUME NEW w, NEW j, NEW settings, JobOK(j), SettingsOK(settings), Provision(w, j, settings)
  PROVE  /\ \E job: Job(w, job) /\ JobOK(job) /\ job.pc = "LOOKUP"
         /\ SettingsOK(access') /\ access'.gen = settings.gen
         /\ access'.active = settings.active /\ access'.quarantine = settings.quarantine
<1> DEFINE token == WithToken(settings).token
           job == [j EXCEPT !.pc = "LOOKUP", !.token = token]
<1>1. Job(w, job)
  BY DEF Provision
<1> HIDE DEF token
<1>2. JobOK(job) /\ job.pc = "LOOKUP"
  BY DEF JobOK
<1>3. /\ SettingsOK(access') /\ access'.gen = settings.gen
      /\ access'.active = settings.active /\ access'.quarantine = settings.quarantine
  BY DEF Provision, WithToken, SettingsOK
<1> QED
  BY <1>1, <1>2, <1>3

\* A step of a call leaves the settings alone, or changes them to others.
LEMMA CallSettings ==
  ASSUME AccessShapes, NEW w \in Workers, CallStep(w)
  PROVE  /\ SettingsOK(access') /\ SettingsOK(saved') /\ secret'.gen \in Nat
         /\ station' = station
         /\ ~(\/ WriteCredential(w) \/ WriteAdrift(w) \/ CommitConnect(w) \/ Disconnect(w)
              \/ DeleteCredential(w) \/ DeleteFails(w)) =>
              /\ UNCHANGED <<secret, chosen, lapsed>>
              /\ access'.gen = access.gen /\ access'.active = access.active
              /\ access'.quarantine = access.quarantine
<1>1. SettingsOK(access) /\ JobOK(jobs[w]) /\ secret.gen \in Nat /\ SettingsOK(saved)
  BY DEF AccessShapes, JobsOK
<1>2. saved' = saved /\ station' = station
  BY DEF CallStep, BeginSignIn, SignInFails, WriteCredential, WriteAdrift, SignedIn,
         CommitConnect, RetrySetup, Enable, SwitchOn, SwitchOff, Disconnect,
         DeleteCredential, DeleteFails, local
<1>3. CASE BeginSignIn(w) \/ SignInFails(w) \/ (\E a \in Accounts: SignedIn(w, a)) \/ SwitchOn(w)
  BY <1>1, <1>2, <1>3 DEF BeginSignIn, SignInFails, SignedIn, SwitchOn, local, said
<1>4. CASE WriteCredential(w) \/ WriteAdrift(w)
  <2>1. access' = access /\ secret' = [gen |-> jobs[w].gen, account |-> jobs[w].account]
    BY <1>4 DEF WriteCredential, WriteAdrift, local
  <2>2. secret'.gen \in Nat
    BY <1>1, <2>1 DEF JobOK
  <2> QED
    BY <1>1, <1>2, <1>4, <2>1, <2>2
<1>5. CASE CommitConnect(w)
  <2>1. SettingsOK(Connected(jobs[w].gen))
    BY <1>1 DEF Connected, SettingsOK, JobOK
  <2> QED
    BY <1>1, <1>2, <1>5, <2>1, SetupBegins DEF CommitConnect
<1>6. CASE RetrySetup(w)
  <2>1. JobOK([NoJob EXCEPT !.account = secret.account])
    BY NoJobIsJob DEF JobOK
  <2> QED
    BY <1>1, <1>2, <1>6, <2>1, SetupBegins DEF RetrySetup, said
<1>7. CASE Enable(w) \/ SwitchOff(w)
  <2>1. PICK e: access' = [access EXCEPT !.enabled = e] /\ UNCHANGED <<secret, said>>
    BY <1>7 DEF Enable, SwitchOff
  <2> QED
    BY <1>1, <1>2, <2>1 DEF SettingsOK, said
<1>8. CASE Disconnect(w)
  <2>1. secret' = secret /\ SettingsOK(access')
    BY <1>1, <1>8 DEF Disconnect, NoSettings, SettingsOK
  <2> QED
    BY <1>1, <1>2, <1>8, <2>1
<1>9. CASE DeleteCredential(w) \/ DeleteFails(w)
  <2>1. access' = access /\ secret' \in {secret, NoSecret}
    BY <1>9 DEF DeleteCredential, DeleteFails, local
  <2> QED
    BY <1>1, <1>2, <1>9, <2>1 DEF NoSecret
<1> QED
  BY <1>3, <1>4, <1>5, <1>6, <1>7, <1>8, <1>9 DEF CallStep

\* What a step of a call has it do next.
LEMMA NextJob ==
  ASSUME AccessShapes, NEW w \in Workers, CallStep(w)
  PROVE  \/ jobs' = jobs
         \/ \E job: /\ Job(w, job) /\ JobOK(job)
                    /\ job.pc \notin {"CREATE", "RECONCILE", "ADRIFT"}
                    /\ job.pc = "WRITTEN" => WriteCredential(w)
                    /\ jobs[w].pc = "DELETE" => DeleteCredential(w) \/ DeleteFails(w)
                    /\ job.pc = "IDLE" \/ station = "UP"
<1>1. JobOK(jobs[w]) /\ SettingsOK(access) /\ access.gen \in Nat
      /\ (station # "UP" => jobs[w].pc \in {"IDLE", "ADRIFT"})
  BY DEF AccessShapes, JobsOK, SettingsOK, Stopped
<1>2. CASE \/ SignInFails(w) \/ WriteAdrift(w) \/ Enable(w) \/ DeleteCredential(w)
           \/ DeleteFails(w)
  BY <1>2, NoJobIsJob DEF SignInFails, WriteAdrift, Enable, DeleteCredential, DeleteFails
<1>3. CASE SwitchOff(w)
  BY <1>3 DEF SwitchOff
<1>4. CASE WriteCredential(w)
  <2>1. Job(w, [jobs[w] EXCEPT !.pc = "WRITTEN"]) /\ jobs[w].pc = "WRITING"
    BY <1>4 DEF WriteCredential
  <2> QED
    BY <1>1, <1>4, <2>1, Moved
<1>5. CASE \E a \in Accounts: SignedIn(w, a)
  <2>1. PICK a \in Accounts: SignedIn(w, a)
    BY <1>5
  <2> DEFINE job == [jobs[w] EXCEPT !.pc = "WRITING", !.account = a, !.gen = access.gen + 1]
  <2>2. Job(w, job) /\ jobs[w].pc = "SIGN_IN"
    BY <2>1 DEF SignedIn
  <2>3. JobOK(job) /\ job.pc = "WRITING"
    BY <1>1 DEF JobOK
  <2> HIDE DEF job
  <2> QED
    BY <1>1, <2>2, <2>3
<1>6. CASE BeginSignIn(w) \/ SwitchOn(w) \/ Disconnect(w)
  <2>1. /\ JobOK([NoJob EXCEPT !.pc = "SIGN_IN", !.connect = TRUE])
        /\ [NoJob EXCEPT !.pc = "SIGN_IN", !.connect = TRUE].pc = "SIGN_IN"
    BY DEF JobOK, NoJob
  <2>2. PICK job: Job(w, job) /\ JobOK(job) /\ job.pc \in {"SIGN_IN", "ENABLE", "DELETE"}
    <3>1. \A p \in {"ENABLE", "DELETE"}:
            JobOK([NoJob EXCEPT !.pc = p]) /\ [NoJob EXCEPT !.pc = p].pc = p
      BY Moved, NoJobIsJob
    <3> QED
      BY <1>6, <2>1, <3>1 DEF BeginSignIn, SwitchOn, Disconnect
  <2>3. jobs[w].pc = "IDLE" /\ station = "UP"
    BY <1>6, NoJobIsJob DEF BeginSignIn, SwitchOn, Disconnect, Ready
  <2> QED
    BY <2>2, <2>3
<1>7. CASE CommitConnect(w)
  <2>1. SettingsOK(Connected(jobs[w].gen))
    BY <1>1 DEF Connected, SettingsOK, JobOK
  <2>2. jobs[w].pc = "WRITTEN" /\ Provision(w, jobs[w], Connected(jobs[w].gen))
    BY <1>7 DEF CommitConnect
  <2> QED
    BY <1>1, <2>1, <2>2, SetupBegins
<1>8. CASE RetrySetup(w)
  <2>1. JobOK([NoJob EXCEPT !.account = secret.account])
    BY NoJobIsJob DEF JobOK
  <2>2. /\ jobs[w].pc = "IDLE" /\ station = "UP"
        /\ Provision(w, [NoJob EXCEPT !.account = secret.account], access)
    BY <1>8, NoJobIsJob DEF RetrySetup, Ready
  <2> QED
    BY <1>1, <2>1, <2>2, SetupBegins
<1> QED
  BY <1>2, <1>3, <1>4, <1>5, <1>6, <1>7, <1>8 DEF CallStep

\* A step of a call keeps the shapes.
LEMMA CallShapes ==
  ASSUME AccessShapes, NEW w \in Workers, CallStep(w)
  PROVE  AccessShapes'
<1>1. SettingsOK(access') /\ SettingsOK(saved') /\ secret'.gen \in Nat /\ station' = station
  BY CallSettings
<1>2. CASE jobs' = jobs
  BY <1>1, <1>2 DEF AccessShapes, JobsOK, Stopped
<1>3. CASE \E job: Job(w, job) /\ JobOK(job) /\ (job.pc = "IDLE" \/ station = "UP")
  <2>1. PICK job: Job(w, job) /\ JobOK(job) /\ (job.pc = "IDLE" \/ station = "UP")
    BY <1>3
  <2>2. JobsOK' /\ jobs'[w] = job /\ \A v \in Workers \ {w}: jobs'[v] = jobs[v]
    BY <2>1, Replaced DEF AccessShapes
  <2>3. Stopped'
    BY <1>1, <2>1, <2>2 DEF AccessShapes, Stopped
  <2> QED
    BY <1>1, <2>2, <2>3 DEF AccessShapes
<1> QED
  BY <1>2, <1>3, NextJob

\* What a step of a setup changes: the spreadsheet of the settings and its own job.
LEMMA SetupStep ==
  ASSUME AccessShapes, NEW w \in Workers, ProvisionStep(w)
  PROVE  /\ SettingsOK(access') /\ access'.gen = access.gen /\ access'.active = access.active
         /\ access'.quarantine = access.quarantine
         /\ UNCHANGED <<saved, secret, station, chosen, lapsed>>
         /\ jobs[w].pc \in {"LOOKUP", "CREATE", "RECHECK", "CONVERGE"} /\ station = "UP"
         /\ \E job: /\ Job(w, job) /\ JobOK(job)
                    /\ job.pc \in {"IDLE", "CREATE", "RECHECK", "CONVERGE", "ENABLE"}
                    /\ job.pc = "CREATE" => Lookup(w)
<1>1. JobOK(jobs[w]) /\ SettingsOK(access) /\ (station # "UP" => jobs[w].pc \in {"IDLE", "ADRIFT"})
  BY DEF AccessShapes, JobsOK, Stopped
<1>2. UNCHANGED <<saved, secret, station, chosen, lapsed>>
  BY DEF ProvisionStep, Lookup, Create, Recheck, Converge, RequestFails, Adopt, Incomplete,
         BeginCreate, local, said
<1>3. \/ access' = access
      \/ \E x: access' \in {[access EXCEPT !.sheet = x], [access EXCEPT !.attempted = x]}
  BY DEF ProvisionStep, Lookup, Create, Recheck, Converge, RequestFails, Adopt, Incomplete,
         BeginCreate, local
<1>4. /\ SettingsOK(access') /\ access'.gen = access.gen /\ access'.active = access.active
      /\ access'.quarantine = access.quarantine
  BY <1>1, <1>3 DEF SettingsOK
<1>5. jobs[w].pc \in {"LOOKUP", "CREATE", "RECHECK", "CONVERGE"} /\ station = "UP"
  BY <1>1 DEF ProvisionStep, Lookup, Create, Recheck, Converge, RequestFails
<1>6. \E job: /\ Job(w, job) /\ JobOK(job)
              /\ job.pc \in {"IDLE", "CREATE", "RECHECK", "CONVERGE", "ENABLE"}
              /\ job.pc = "CREATE" => Lookup(w)
  <2>1. \A p \in {"CREATE", "RECHECK", "CONVERGE", "ENABLE"}:
          JobOK([jobs[w] EXCEPT !.pc = p]) /\ [jobs[w] EXCEPT !.pc = p].pc = p
    BY <1>1, Moved
  <2>2. CASE Lookup(w)
    BY <2>1, <2>2, NoJobIsJob DEF Lookup, Incomplete, Adopt, BeginCreate
  <2>3. CASE Create(w)
    BY <2>1, <2>3 DEF Create, Adopt
  <2>4. CASE Recheck(w)
    BY <2>1, <2>4, NoJobIsJob DEF Recheck, Incomplete, Adopt
  <2>5. CASE Converge(w)
    BY <2>1, <2>5, NoJobIsJob DEF Converge
  <2>6. CASE RequestFails(w)
    BY <2>6, NoJobIsJob DEF RequestFails, Incomplete
  <2> QED
    BY <2>2, <2>3, <2>4, <2>5, <2>6 DEF ProvisionStep
<1> QED
  BY <1>2, <1>4, <1>5, <1>6

\* A step of a setup keeps the shapes.
LEMMA SetupShapes ==
  ASSUME AccessShapes, NEW w \in Workers, ProvisionStep(w)
  PROVE  AccessShapes'
<1>1. PICK job: Job(w, job) /\ JobOK(job) /\ station = "UP"
  BY SetupStep
<1>2. JobsOK'
  BY <1>1, Replaced DEF AccessShapes
<1>3. station' = "UP" /\ SettingsOK(access') /\ SettingsOK(saved') /\ secret'.gen \in Nat
  BY <1>1, SetupStep DEF AccessShapes
<1> QED
  BY <1>2, <1>3 DEF AccessShapes, Stopped

\* The other steps keep the shapes.
LEMMA OtherShapes ==
  ASSUME AccessShapes,
         \/ HandOut \/ ExportEnds \/ SaveSettings \/ PrepareRestored \/ PrepareFails
         \/ LaunchAgain \/ \E s \in Sheet: CreatedLate(s)
  PROVE  AccessShapes'
<1>1. SettingsOK(access) /\ SettingsOK(saved) /\ JobsOK /\ secret.gen \in Nat
  BY DEF AccessShapes
<1>2. UNCHANGED <<secret, jobs>> /\ saved' \in {saved, access}
  BY DEF HandOut, ExportEnds, SaveSettings, PrepareRestored, PrepareFails, LaunchAgain,
         CreatedLate, local
<1>3. \/ access' = access
      \/ \E x: access' \in {[access EXCEPT !.sheet = x], [access EXCEPT !.quarantine = x]}
  BY DEF HandOut, ExportEnds, SaveSettings, PrepareRestored, PrepareFails, LaunchAgain,
         CreatedLate, local
<1>4. SettingsOK(access') /\ SettingsOK(saved')
  BY <1>1, <1>2, <1>3 DEF SettingsOK
<1>5. station' # "UP" => station # "UP"
  BY DEF HandOut, ExportEnds, SaveSettings, PrepareRestored, PrepareFails, LaunchAgain,
         CreatedLate
<1>6. Stopped'
  BY <1>2, <1>5 DEF AccessShapes, Stopped
<1> QED
  BY <1>1, <1>2, <1>4, <1>6 DEF AccessShapes, JobsOK

\* A restore and a crash end every job, but for a file that is being written.
LEMMA StopShapes ==
  ASSUME AccessShapes, PutBack \/ CutOff
  PROVE  AccessShapes' /\ \A w \in Workers: jobs'[w].pc \in {"IDLE", "ADRIFT"}
<1>1. SettingsOK(access') /\ SettingsOK(saved') /\ secret'.gen \in Nat
  BY DEF AccessShapes, PutBack, CutOff
<1>2. JobsOK' /\ \A w \in Workers: jobs'[w].pc \in {"IDLE", "ADRIFT"}
  <2>1. \A w \in Workers: /\ JobOK([jobs[w] EXCEPT !.pc = "ADRIFT"])
                          /\ [jobs[w] EXCEPT !.pc = "ADRIFT"].pc = "ADRIFT"
    BY Moved DEF AccessShapes, JobsOK
  <2>2. DOMAIN jobs' = Workers
    BY DEF PutBack, CutOff
  <2>3. \A w \in Workers: jobs'[w] \in {NoJob, [jobs[w] EXCEPT !.pc = "ADRIFT"]}
    BY DEF PutBack, CutOff
  <2> QED
    BY <2>1, <2>2, <2>3, NoJobIsJob DEF JobsOK
<1> QED
  BY <1>1, <1>2 DEF AccessShapes, Stopped

\* The startup begins its two tasks.
LEMMA StartShapes ==
  ASSUME AccessShapes, StartWork
  PROVE  /\ AccessShapes'
         /\ \A w \in Workers:
              \/ jobs'[w] = jobs[w]
              \/ /\ jobs'[w].pc \in {"IDLE", "RECONCILE", "DISCARD", "LOOKUP"}
                 /\ jobs'[w].pc = "RECONCILE" => ~access.quarantine /\ secret.gen > access.gen
<1>1. UNCHANGED <<access, saved, secret>> /\ station' = "UP" /\ JobsOK
  BY DEF StartWork, local, AccessShapes
<1>2. PICK first \in {Reconciling, NoJob}, second \in {Resuming, NoJob}:
        jobs' = [jobs EXCEPT !["RECONCILER"] = first, !["PROVISIONER"] = second]
  BY DEF StartWork
<1>3. /\ JobOK(first) /\ first.pc \in {"IDLE", "RECONCILE", "DISCARD"}
      /\ first.pc = "RECONCILE" => ~access.quarantine /\ secret.gen > access.gen
  <2>1. /\ JobOK([NoJob EXCEPT !.pc = "RECONCILE", !.gen = secret.gen])
        /\ [NoJob EXCEPT !.pc = "RECONCILE", !.gen = secret.gen].pc = "RECONCILE"
    BY DEF JobOK, NoJob, AccessShapes
  <2>2. JobOK([NoJob EXCEPT !.pc = "DISCARD"]) /\ [NoJob EXCEPT !.pc = "DISCARD"].pc = "DISCARD"
    BY DEF JobOK, NoJob
  <2>3. CASE first = NoJob
    BY <2>3, NoJobIsJob
  <2>4. CASE first = Reconciling /\ ~access.quarantine /\ secret.gen > access.gen
    <3>1. secret.gen # 0
      BY <2>4 DEF AccessShapes, SettingsOK
    <3> QED
      BY <2>1, <2>4, <3>1 DEF Reconciling
  <2>5. CASE first = Reconciling /\ ~(~access.quarantine /\ secret.gen > access.gen)
    <3>1. first \in {NoJob, [NoJob EXCEPT !.pc = "DISCARD"]}
      BY <2>5 DEF Reconciling
    <3> QED
      BY <2>2, <3>1, NoJobIsJob
  <2> QED
    BY <1>2, <2>3, <2>4, <2>5
<1>4. JobOK(second) /\ second.pc \in {"IDLE", "LOOKUP"}
  <2> DEFINE found == [NoJob EXCEPT !.pc = "LOOKUP", !.account = secret.account,
                                    !.token = access.token]
  <2>1. JobOK(found) /\ found.pc = "LOOKUP"
    BY DEF JobOK, NoJob
  <2>2. second \in {found, NoJob}
    BY <1>2 DEF Resuming
  <2> HIDE DEF found
  <2> QED
    BY <2>1, <2>2, NoJobIsJob
<1>5. DOMAIN jobs' = Workers /\ \A w \in Workers: jobs'[w] \in {jobs[w], first, second}
  BY <1>1, <1>2 DEF JobsOK
<1>6. JobsOK'
  BY <1>1, <1>3, <1>4, <1>5 DEF JobsOK
<1> QED
  BY <1>1, <1>3, <1>4, <1>5, <1>6 DEF AccessShapes, Stopped

\* The tasks of the startup.
LEMMA TaskShapes ==
  ASSUME AccessShapes, Reconcile \/ Discard
  PROVE  AccessShapes' /\ "RECONCILER" \in Workers /\ Job("RECONCILER", NoJob)
<1>1. "RECONCILER" \in Workers /\ Job("RECONCILER", NoJob)
  BY DEF Workers, Tasks, Reconcile, Discard
<1>2. JobOK(jobs["RECONCILER"]) /\ JobsOK' /\ jobs'["RECONCILER"].pc = "IDLE"
      /\ \A v \in Workers \ {"RECONCILER"}: jobs'[v] = jobs[v]
  BY <1>1, NoJobIsJob, Replaced DEF AccessShapes, JobsOK
<1>3. station' = station /\ saved' = saved
  BY DEF Reconcile, Discard, local
<1>4. SettingsOK(access') /\ secret'.gen \in Nat
  <2>1. CASE Reconcile
    BY <1>2, <2>1 DEF Reconcile, Connected, SettingsOK, JobOK, AccessShapes
  <2>2. CASE Discard
    BY <2>2 DEF Discard, local, NoSecret, AccessShapes
  <2> QED
    BY <2>1, <2>2
<1>5. Stopped'
  BY <1>2, <1>3 DEF AccessShapes, Stopped
<1> QED
  BY <1>1, <1>2, <1>3, <1>4, <1>5 DEF AccessShapes

-------------------------------------------------------------------------------
(* GoogleAccess: the credential is the owner's.                                *)

\* There is no credential, or it is of the account the owner chose last.
Settled == secret.gen = 0 \/ secret.account = chosen.account

\* A credential is to be deleted.
Deleting == \E w \in Workers: jobs[w].pc = "DELETE"

\* Every credential that the settings name, that the startup would adopt or is adopting, or
\* that a connection is about to name, is the owner's, or is to be deleted.
OwnersCredential ==
  /\ Active => Settled
  /\ ~access.quarantine /\ secret.gen > access.gen => Settled \/ Deleting
  /\ \A w \in Workers: jobs[w].pc \in {"WRITTEN", "RECONCILE"} => Settled

AccessInv == AccessShapes /\ (~lapsed /\ station # "SWAPPED" => OwnersCredential)

\* A step that names no other credential, and neither begins to name one nor ends a deletion.
LEMMA NamesKept ==
  ASSUME AccessInv, UNCHANGED <<secret, chosen, lapsed, station>>,
         access'.gen = access.gen, access'.active = access.active,
         access'.quarantine = access.quarantine,
         \A w \in Workers:
           /\ jobs'[w].pc \in {"WRITTEN", "RECONCILE"} => jobs'[w] = jobs[w]
           /\ jobs[w].pc = "DELETE" => jobs'[w] = jobs[w]
  PROVE  ~lapsed' /\ station' # "SWAPPED" => OwnersCredential'
<1>1. (Active' <=> Active) /\ (Settled' <=> Settled)
  BY DEF Active, Settled
<1>2. Deleting => Deleting'
  BY DEF Deleting
<1> QED
  BY <1>1, <1>2 DEF AccessInv, OwnersCredential

\* After a step that settles the credential it may be named.
LEMMA SettledIsOwners == ASSUME Settled' PROVE OwnersCredential'
BY DEF OwnersCredential

\* The steps of a call.
LEMMA CallOwners ==
  ASSUME AccessInv, NEW w \in Workers, CallStep(w)
  PROVE  AccessInv'
<1>1. AccessShapes' /\ AccessShapes
  BY CallShapes DEF AccessInv
<1>2. JobsOK /\ Stopped
  BY <1>1 DEF AccessShapes
<1>3. CASE WriteCredential(w)
  <2>1. secret'.account = chosen'.account
    BY <1>3 DEF WriteCredential, Says
  <2> QED
    BY <1>1, <2>1, SettledIsOwners DEF AccessInv, Settled
<1>4. CASE WriteAdrift(w)
  BY <1>1, <1>4 DEF AccessInv, WriteAdrift
<1>5. CASE CommitConnect(w)
  <2>1. /\ jobs[w].pc = "WRITTEN" /\ station = "UP"
        /\ UNCHANGED <<secret, chosen, lapsed, station>>
    BY <1>2, <1>5 DEF CommitConnect, Stopped, said
  <2>2. ~lapsed => Settled
    BY <2>1 DEF AccessInv, OwnersCredential
  <2>3. ~lapsed' => Settled'
    BY <2>1, <2>2 DEF Settled
  <2> QED
    BY <1>1, <2>3, SettledIsOwners DEF AccessInv
<1>6. CASE Disconnect(w)
  <2>1. /\ UNCHANGED <<secret, station>> /\ lapsed' = (lapsed \/ Underway)
        /\ ~access'.active /\ Job(w, [NoJob EXCEPT !.pc = "DELETE"])
    BY <1>6 DEF Disconnect, NoSettings
  <2>2. JobOK([NoJob EXCEPT !.pc = "DELETE"]) /\ [NoJob EXCEPT !.pc = "DELETE"].pc = "DELETE"
    BY Moved, NoJobIsJob
  <2>3. jobs'[w].pc = "DELETE" /\ \A v \in Workers \ {w}: jobs'[v] = jobs[v]
    BY <1>2, <2>1, <2>2, Replaced
  <2>4. ~Active' /\ Deleting'
    BY <2>1, <2>3 DEF Active, Deleting
  <2>5. ~lapsed' => \A v \in Workers: jobs'[v].pc \notin {"WRITTEN", "RECONCILE"}
    BY <2>1, <2>3 DEF Underway
  <2> QED
    BY <1>1, <2>4, <2>5 DEF AccessInv, OwnersCredential
<1>7. CASE DeleteCredential(w)
  <2>1. secret'.gen = 0
    BY <1>7 DEF DeleteCredential, NoSecret
  <2> QED
    BY <1>1, <2>1, SettledIsOwners DEF AccessInv, Settled
<1>8. CASE DeleteFails(w)
  <2>1. /\ UNCHANGED <<access, secret, chosen, station>>
        /\ lapsed' = (lapsed \/ secret.gen > access.gen) /\ Job(w, NoJob)
    BY <1>8 DEF DeleteFails, local
  <2>2. \A v \in Workers: jobs'[v].pc = "IDLE" \/ jobs'[v] = jobs[v]
    BY <1>2, <2>1, NoJobIsJob, Replaced
  <2>3. (Active' <=> Active) /\ (Settled' <=> Settled)
    BY <2>1 DEF Active, Settled
  <2> QED
    BY <1>1, <2>1, <2>2, <2>3 DEF AccessInv, OwnersCredential
<1>9. CASE ~(\/ WriteCredential(w) \/ WriteAdrift(w) \/ CommitConnect(w) \/ Disconnect(w)
             \/ DeleteCredential(w) \/ DeleteFails(w))
  <2>1. /\ UNCHANGED <<secret, chosen, lapsed, station>>
        /\ access'.gen = access.gen /\ access'.active = access.active
        /\ access'.quarantine = access.quarantine
    BY <1>1, <1>9, CallSettings
  <2>2. \A v \in Workers: /\ jobs'[v].pc \in {"WRITTEN", "RECONCILE"} => jobs'[v] = jobs[v]
                          /\ jobs[v].pc = "DELETE" => jobs'[v] = jobs[v]
    <3>1. CASE jobs' = jobs
      BY <3>1
    <3>2. CASE \E job: /\ Job(w, job) /\ JobOK(job) /\ job.pc \notin {"RECONCILE", "WRITTEN"}
                       /\ jobs[w].pc # "DELETE"
      <4>1. PICK job: /\ Job(w, job) /\ JobOK(job) /\ job.pc \notin {"RECONCILE", "WRITTEN"}
                      /\ jobs[w].pc # "DELETE"
        BY <3>2
      <4>2. jobs'[w] = job /\ \A v \in Workers \ {w}: jobs'[v] = jobs[v]
        BY <1>2, <4>1, Replaced
      <4> QED
        BY <4>1, <4>2
    <3> QED
      BY <1>1, <1>9, <3>1, <3>2, NextJob
  <2> QED
    BY <1>1, <2>1, <2>2, NamesKept DEF AccessInv
<1> QED
  BY <1>3, <1>4, <1>5, <1>6, <1>7, <1>8, <1>9

\* The steps of a setup.
LEMMA SetupOwners ==
  ASSUME AccessInv, NEW w \in Workers, ProvisionStep(w)
  PROVE  AccessInv'
<1>1. AccessShapes /\ AccessShapes' /\ JobsOK
  BY SetupShapes DEF AccessInv, AccessShapes
<1>2. PICK job: /\ Job(w, job) /\ JobOK(job)
                /\ job.pc \in {"IDLE", "CREATE", "RECHECK", "CONVERGE", "ENABLE"}
  BY <1>1, SetupStep
<1>3. jobs'[w] = job /\ \A v \in Workers \ {w}: jobs'[v] = jobs[v]
  BY <1>1, <1>2, Replaced
<1>4. jobs[w].pc # "DELETE"
  BY <1>1, SetupStep
<1>5. \A v \in Workers: /\ jobs'[v].pc \in {"WRITTEN", "RECONCILE"} => jobs'[v] = jobs[v]
                        /\ jobs[v].pc = "DELETE" => jobs'[v] = jobs[v]
  BY <1>2, <1>3, <1>4
<1>6. /\ UNCHANGED <<secret, chosen, lapsed, station>>
      /\ access'.gen = access.gen /\ access'.active = access.active
      /\ access'.quarantine = access.quarantine
  BY <1>1, SetupStep
<1> QED
  BY <1>1, <1>5, <1>6, NamesKept DEF AccessInv

\* The exports, a backup, a late creation and a launch.
LEMMA OtherOwners ==
  ASSUME AccessInv,
         HandOut \/ ExportEnds \/ SaveSettings \/ LaunchAgain \/ \E s \in Sheet: CreatedLate(s)
  PROVE  AccessInv'
<1>1. AccessShapes' /\ SettingsOK(access)
  BY OtherShapes DEF AccessInv, AccessShapes
<1>2. UNCHANGED <<secret, chosen, lapsed, jobs>>
  BY DEF HandOut, ExportEnds, SaveSettings, LaunchAgain, CreatedLate, said
<1>3. access' = access \/ \E x: access' = [access EXCEPT !.sheet = x]
  BY DEF HandOut, ExportEnds, SaveSettings, LaunchAgain, CreatedLate, local
<1>4. /\ access'.gen = access.gen /\ access'.active = access.active
      /\ access'.quarantine = access.quarantine
  BY <1>1, <1>3 DEF SettingsOK
<1>5. station' # "SWAPPED" => station # "SWAPPED"
  BY DEF HandOut, ExportEnds, SaveSettings, LaunchAgain, CreatedLate
<1>6. (Active' <=> Active) /\ (Settled' <=> Settled) /\ (Deleting' <=> Deleting)
  BY <1>2, <1>4 DEF Active, Settled, Deleting
<1> QED
  BY <1>1, <1>2, <1>4, <1>5, <1>6 DEF AccessInv, OwnersCredential

\* A restore and what follows it, a crash, and the startup.
LEMMA StationOwners ==
  ASSUME AccessInv, PutBack \/ PrepareRestored \/ PrepareFails \/ CutOff \/ StartWork
  PROVE  AccessInv'
<1>1. AccessShapes /\ SettingsOK(access) /\ Stopped
  BY DEF AccessInv, AccessShapes
<1>2. CASE PutBack
  BY <1>1, <1>2, StopShapes DEF AccessInv, PutBack
<1>3. CASE PrepareRestored
  <2>1. /\ station = "SWAPPED" /\ UNCHANGED <<secret, jobs>>
    BY <1>3 DEF PrepareRestored
  <2>2. PICK q: /\ q = (access.quarantine \/ access.active \/ secret.gen > access.gen)
                /\ access' = [access EXCEPT !.quarantine = q]
    BY <1>3 DEF PrepareRestored
  <2>3. access'.gen = access.gen /\ access'.active = access.active /\ access'.quarantine = q
    BY <1>1, <2>2 DEF SettingsOK
  <2>4. ~Active' /\ ~(~access'.quarantine /\ secret'.gen > access'.gen)
    BY <2>1, <2>2, <2>3 DEF Active
  <2>5. \A w \in Workers: jobs'[w].pc \notin {"WRITTEN", "RECONCILE"}
    BY <1>1, <2>1 DEF Stopped
  <2>6. AccessShapes'
    BY <1>1, <1>3, OtherShapes
  <2> QED
    BY <2>4, <2>5, <2>6 DEF AccessInv, OwnersCredential
<1>4. CASE PrepareFails
  BY <1>1, <1>4, OtherShapes DEF AccessInv, PrepareFails
<1>5. CASE CutOff
  <2>1. AccessShapes' /\ \A w \in Workers: jobs'[w].pc \in {"IDLE", "ADRIFT"}
    BY <1>1, <1>5, StopShapes
  <2>2. UNCHANGED <<access, secret, chosen>> /\ lapsed' = (lapsed \/ Undone)
    BY <1>5 DEF CutOff
  <2>3. (Active' <=> Active) /\ (Settled' <=> Settled)
    BY <2>2 DEF Active, Settled
  <2>4. ~lapsed' => OwnersCredential /\ ~(secret.gen > access.gen /\ Deleting)
    BY <2>2 DEF Undone, AccessInv, Deleting
  <2> QED
    BY <2>1, <2>2, <2>3, <2>4 DEF AccessInv, OwnersCredential
<1>6. CASE StartWork
  <2>1. /\ AccessShapes'
        /\ \A w \in Workers:
             \/ jobs'[w] = jobs[w]
             \/ jobs'[w].pc = "RECONCILE" => ~access.quarantine /\ secret.gen > access.gen
    BY <1>1, <1>6, StartShapes
  <2>2. station = "STARTING" /\ UNCHANGED <<access, secret, chosen, lapsed>>
    BY <1>6 DEF StartWork, local, said
  <2>3. (Active' <=> Active) /\ (Settled' <=> Settled)
    BY <2>2 DEF Active, Settled
  <2>4. ~Deleting /\ \A w \in Workers: jobs[w].pc # "WRITTEN"
    BY <1>1, <2>2 DEF Stopped, Deleting
  <2>5. \A w \in Workers: jobs'[w].pc # "WRITTEN"
    BY <1>1, <1>6, <2>4, StartShapes
  <2> QED
    BY <2>1, <2>2, <2>3, <2>4, <2>5 DEF AccessInv, OwnersCredential
<1> QED
  BY <1>2, <1>3, <1>4, <1>5, <1>6

\* The tasks of the startup.
LEMMA TaskOwners == ASSUME AccessInv, Reconcile \/ Discard PROVE AccessInv'
<1>1. AccessShapes' /\ JobsOK /\ Stopped /\ Job("RECONCILER", NoJob) /\ "RECONCILER" \in Workers
  BY TaskShapes DEF AccessInv, AccessShapes
<1>2. CASE Reconcile
  <2>1. /\ jobs["RECONCILER"].pc = "RECONCILE" /\ station = "UP"
        /\ UNCHANGED <<secret, chosen, lapsed, station>>
    BY <1>1, <1>2 DEF Reconcile, Stopped, said
  <2>2. ~lapsed => Settled
    BY <1>1, <2>1 DEF AccessInv, OwnersCredential
  <2>3. ~lapsed' => Settled'
    BY <2>1, <2>2 DEF Settled
  <2> QED
    BY <1>1, <2>3, SettledIsOwners DEF AccessInv
<1>3. CASE Discard
  <2>1. /\ UNCHANGED <<access, chosen, lapsed, station>> /\ secret' \in {secret, NoSecret}
        /\ jobs["RECONCILER"].pc = "DISCARD"
    BY <1>3 DEF Discard, local, said
  <2>2. CASE secret' = NoSecret
    BY <1>1, <2>2, SettledIsOwners DEF AccessInv, Settled, NoSecret
  <2>3. CASE secret' = secret
    <3>1. jobs'["RECONCILER"].pc = "IDLE" /\ \A v \in Workers \ {"RECONCILER"}: jobs'[v] = jobs[v]
      BY <1>1, NoJobIsJob, Replaced
    <3> QED
      BY <1>1, <2>1, <2>3, <3>1, NamesKept DEF AccessInv
  <2> QED
    BY <2>1, <2>2, <2>3
<1> QED
  BY <1>2, <1>3

\* The application as it is installed.
LEMMA AccessStarts == GoogleAccessInit => AccessInv
<1> SUFFICES ASSUME GoogleAccessInit PROVE AccessInv
  OBVIOUS
<1>1. SettingsOK(NoSettings) /\ secret.gen = 0
  BY DEF SettingsOK, NoSettings, GoogleAccessInit, NoSecret
<1>2. JobsOK /\ Stopped
  BY NoJobIsJob DEF GoogleAccessInit, JobsOK, Stopped
<1>3. Settled
  BY <1>1 DEF Settled
<1> QED
  BY <1>1, <1>2, <1>3 DEF AccessInv, AccessShapes, GoogleAccessInit, OwnersCredential

\* No step gives the exports another credential.
LEMMA AccessStep == AccessInv /\ [GoogleAccessNext]_accessVars => AccessInv'
<1>1. ASSUME AccessInv, GoogleAccessNext PROVE AccessInv'
  BY <1>1, CallOwners, SetupOwners, OtherOwners, StationOwners, TaskOwners
     DEF GoogleAccessNext, Workers
<1>2. ASSUME AccessInv, UNCHANGED accessVars PROVE AccessInv'
  <2>1. UNCHANGED <<access, saved, secret, station, jobs, chosen, lapsed>>
    BY <1>2 DEF accessVars, local, said
  <2>2. AccessShapes'
    BY <1>2, <2>1 DEF AccessInv, AccessShapes, JobsOK, Stopped
  <2> QED
    BY <1>2, <2>1, <2>2, NamesKept DEF AccessInv
<1> QED
  BY <1>1, <1>2

\* Exports go out under the account the owner connected last and under none since a
\* disconnection or a restore, whatever calls, crashes, restores and failing requests lie in
\* between, for as long as no unquarantined restore and no crossing of two calls has left a
\* credential that the owner did not choose.
THEOREM AccessIsTheOwners == GoogleAccessSpec => []ExportsAreTheOwners
<1>1. AccessInv => ExportsAreTheOwners
  <2>1. ASSUME AccessInv, station = "UP", Context, ~lapsed PROVE secret.account = chosen.account
    <3>1. Active /\ access.gen \in Nat
      BY <2>1 DEF Context, AccessInv, AccessShapes, SettingsOK
    <3>2. Settled
      BY <2>1, <3>1 DEF AccessInv, OwnersCredential
    <3> QED
      BY <3>1, <3>2 DEF Settled, Active
  <2> QED
    BY <2>1 DEF ExportsAreTheOwners
<1> QED
  BY <1>1, AccessStarts, AccessStep, PTL DEF GoogleAccessSpec

-------------------------------------------------------------------------------
(* GoogleAccess: one spreadsheet.                                              *)

\* Where no setup overlapped a creation: there is a spreadsheet, or one creation that may
\* still take place, or one setup that is creating it.
SheetOK(s) ==
  /\ drives[s] + late[s] <= 1
  /\ \A w \in Creating(s): drives[s] = 0 /\ late[s] = 0
  /\ \A v, w \in Creating(s): v = w

SheetsInv ==
  /\ drives \in [Sheet -> Nat] /\ late \in [Sheet -> Nat]
  /\ \A s \in Sheet \ overlapped: SheetOK(s)

OneSheetInv == AccessShapes /\ SheetsInv

\* A step that creates nothing and of which nothing is about to be created.
LEMMA SheetsKept ==
  ASSUME SheetsInv, UNCHANGED remote,
         \A w \in Workers: jobs'[w] = jobs[w] \/ jobs'[w].pc # "CREATE"
  PROVE  SheetsInv'
<1>1. UNCHANGED <<drives, late, overlapped>>
  BY DEF remote
<1>2. \A s \in Sheet: Creating(s)' \subseteq Creating(s)
  BY DEF Creating, Wanted
<1>3. ASSUME NEW s \in Sheet \ overlapped' PROVE SheetOK(s)'
  <2>1. SheetOK(s) /\ Creating(s)' \subseteq Creating(s)
    BY <1>1, <1>2, <1>3 DEF SheetsInv
  <2> QED
    BY <1>1, <2>1 DEF SheetOK
<1> QED
  BY <1>1, <1>3 DEF SheetsInv

\* The steps of a call.
LEMMA CallSheets ==
  ASSUME OneSheetInv, NEW w \in Workers, CallStep(w)
  PROVE  SheetsInv'
<1>1. AccessShapes /\ JobsOK
  BY DEF OneSheetInv, AccessShapes
<1>2. UNCHANGED remote
  BY DEF CallStep, BeginSignIn, SignInFails, WriteCredential, WriteAdrift, SignedIn,
         CommitConnect, RetrySetup, Enable, SwitchOn, SwitchOff, Disconnect,
         DeleteCredential, DeleteFails
<1>3. \A v \in Workers: jobs'[v] = jobs[v] \/ jobs'[v].pc # "CREATE"
  <2>1. CASE \E job: Job(w, job) /\ JobOK(job) /\ job.pc # "CREATE"
    <3>1. PICK job: Job(w, job) /\ JobOK(job) /\ job.pc # "CREATE"
      BY <2>1
    <3> QED
      BY <1>1, <3>1, Replaced
  <2> QED
    BY <1>1, <2>1, NextJob
<1> QED
  BY <1>2, <1>3, SheetsKept DEF OneSheetInv

\* A lookup begins a creation where there is no spreadsheet, and marks it where an earlier
\* creation has not come to rest.
LEMMA BeginCreateSheets ==
  ASSUME OneSheetInv, NEW w \in Workers, jobs[w].pc = "LOOKUP", BeginCreate(w),
         drives[Wanted(w)] = 0, UNCHANGED <<drives, late>>
  PROVE  SheetsInv'
<1>1. JobOK(jobs[w]) /\ JobsOK /\ SheetsInv
  BY DEF OneSheetInv, AccessShapes, JobsOK
<1> DEFINE job == [jobs[w] EXCEPT !.pc = "CREATE"]
<1>2. /\ JobOK(job) /\ job.pc = "CREATE"
      /\ job.account = jobs[w].account /\ job.token = jobs[w].token
  BY <1>1, Moved
<1>3. jobs'[w] = job /\ \A v \in Workers \ {w}: jobs'[v] = jobs[v]
  BY <1>1, <1>2, Replaced DEF BeginCreate
<1> HIDE DEF job
<1>4. ASSUME NEW s \in Sheet \ overlapped' PROVE SheetOK(s)'
  <2>1. \A v \in Workers: Wanted(v)' = Wanted(v)
    BY <1>2, <1>3 DEF Wanted
  <2>2. Creating(s)' = {v \in Workers: jobs'[v].pc = "CREATE" /\ Wanted(v) = s}
    BY <2>1 DEF Creating
  <2>3. CASE s = Wanted(w)
    <3>1. late[s] = 0 /\ Creating(s) = {} /\ drives[s] = 0
      BY <1>1, <1>4, <2>3 DEF BeginCreate, SheetsInv
    <3>2. Creating(s)' \subseteq {w}
      BY <1>3, <2>2, <3>1 DEF Creating
    <3> QED
      BY <3>1, <3>2 DEF SheetOK
  <2>4. CASE s # Wanted(w)
    <3>1. Creating(s)' = Creating(s)
      BY <1>2, <1>3, <2>2, <2>4 DEF Creating
    <3>2. SheetOK(s)
      BY <1>1, <1>4 DEF BeginCreate, SheetsInv
    <3> QED
      BY <3>1, <3>2 DEF SheetOK
  <2> QED
    BY <2>3, <2>4
<1> QED
  BY <1>1, <1>4 DEF SheetsInv

\* A step that ends a creation: the spreadsheet is there, will be, or never is.
LEMMA EndCreateSheets ==
  ASSUME OneSheetInv, NEW w \in Workers, jobs[w].pc = "CREATE", NEW job, Job(w, job), JobOK(job),
         job.pc # "CREATE", overlapped' = overlapped,
         \/ CreateUnanswered(Wanted(w))
         \/ drives' = [drives EXCEPT ![Wanted(w)] = @ + 1] /\ UNCHANGED late
  PROVE  SheetsInv'
<1>1. JobsOK /\ SheetsInv
  BY DEF OneSheetInv, AccessShapes
<1>2. jobs'[w] = job /\ \A v \in Workers \ {w}: jobs'[v] = jobs[v]
  BY <1>1, Replaced
<1>3. PICK t: t = Wanted(w)
  OBVIOUS
<1>4. \/ UNCHANGED <<drives, late>>
      \/ drives' = [drives EXCEPT ![t] = @ + 1] /\ late' = late
      \/ late' = [late EXCEPT ![t] = @ + 1] /\ drives' = drives
  BY <1>3 DEF CreateUnanswered
<1>5. /\ drives' \in [Sheet -> Nat] /\ late' \in [Sheet -> Nat]
      /\ \A s \in Sheet: s # t => drives'[s] = drives[s] /\ late'[s] = late[s]
      /\ t \in Sheet => drives'[t] + late'[t] <= drives[t] + late[t] + 1
  <2>1. drives \in [Sheet -> Nat] /\ late \in [Sheet -> Nat]
    BY <1>1 DEF SheetsInv
  <2> QED
    BY <1>4, <2>1
<1>6. ASSUME NEW s \in Sheet \ overlapped PROVE SheetOK(s)'
  <2>1. SheetOK(s)
    BY <1>1, <1>6 DEF SheetsInv
  <2>2. Creating(s)' \subseteq Creating(s) \ {w}
    BY <1>2 DEF Creating, Wanted
  <2>3. CASE s = t
    <3>1. w \in Creating(s)
      BY <1>3, <2>3 DEF Creating
    <3>2. Creating(s)' = {} /\ drives[s] = 0 /\ late[s] = 0
      BY <2>1, <2>2, <3>1 DEF SheetOK
    <3> QED
      BY <1>5, <2>3, <3>2 DEF SheetOK
  <2>4. CASE s # t
    <3>1. drives'[s] = drives[s] /\ late'[s] = late[s]
      BY <1>5, <2>4
    <3> QED
      BY <2>1, <2>2, <3>1 DEF SheetOK
  <2> QED
    BY <2>3, <2>4
<1> QED
  BY <1>5, <1>6 DEF SheetsInv

\* The steps of a setup.
LEMMA SetupSheets ==
  ASSUME OneSheetInv, NEW w \in Workers, ProvisionStep(w)
  PROVE  SheetsInv'
<1>1. AccessShapes /\ JobsOK /\ JobOK(jobs[w])
  BY DEF OneSheetInv, AccessShapes, JobsOK
<1>2. PICK job: /\ Job(w, job) /\ JobOK(job)
                /\ job.pc = "CREATE" => Lookup(w)
                /\ job.pc \in {"IDLE", "CREATE", "RECHECK", "CONVERGE", "ENABLE"}
  BY <1>1, SetupStep
<1>3. jobs'[w] = job /\ \A v \in Workers \ {w}: jobs'[v] = jobs[v]
  BY <1>1, <1>2, Replaced
<1>4. CASE jobs[w].pc = "LOOKUP" /\ BeginCreate(w) /\ drives[Wanted(w)] = 0
           /\ UNCHANGED <<drives, late>>
  BY <1>4, BeginCreateSheets
<1>5. CASE UNCHANGED remote /\ job.pc # "CREATE"
  BY <1>3, <1>5, SheetsKept DEF OneSheetInv
<1>6. CASE jobs[w].pc = "CREATE" /\ ~(UNCHANGED remote /\ job.pc # "CREATE")
  <2>1. job.pc # "CREATE"
    BY <1>2, <1>6 DEF Lookup
  <2>2. overlapped' = overlapped
    BY <1>6 DEF ProvisionStep, Lookup, Create, Recheck, Converge, RequestFails
  <2>3. \/ CreateUnanswered(Wanted(w))
        \/ drives' = [drives EXCEPT ![Wanted(w)] = @ + 1] /\ UNCHANGED late
    BY <1>6 DEF ProvisionStep, Lookup, Create, Recheck, Converge, RequestFails
  <2> QED
    BY <1>2, <1>6, <2>1, <2>2, <2>3, EndCreateSheets
<1>7. CASE jobs[w].pc # "CREATE"
  <2>1. \/ /\ jobs[w].pc = "LOOKUP" /\ BeginCreate(w) /\ drives[Wanted(w)] = 0
           /\ UNCHANGED <<drives, late>>
        \/ UNCHANGED remote /\ (Adopt(w) \/ Job(w, NoJob)
             \/ Job(w, [jobs[w] EXCEPT !.pc = "ENABLE"]))
    BY <1>7 DEF ProvisionStep, Lookup, Create, Recheck, Converge, RequestFails, remote, Incomplete
  <2>2. CASE Adopt(w) \/ Job(w, NoJob) \/ Job(w, [jobs[w] EXCEPT !.pc = "ENABLE"])
    <3>1. \A p \in {"CONVERGE", "ENABLE"}:
            JobOK([jobs[w] EXCEPT !.pc = p]) /\ [jobs[w] EXCEPT !.pc = p].pc = p
      BY <1>1, Moved
    <3>2. jobs'[w].pc \in {"CONVERGE", "ENABLE", "IDLE"}
      BY <1>1, <2>2, <3>1, NoJobIsJob, Replaced DEF Adopt
    <3> QED
      BY <1>3, <1>4, <1>5, <2>1, <3>2
  <2> QED
    BY <1>4, <2>1, <2>2
<1> QED
  BY <1>5, <1>6, <1>7

\* A creation takes place after all.
LEMMA LateSheets ==
  ASSUME OneSheetInv, NEW t \in Sheet, CreatedLate(t)
  PROVE  SheetsInv'
<1>1. SheetsInv /\ UNCHANGED <<overlapped, jobs>>
  BY DEF OneSheetInv, CreatedLate
<1>2. /\ drives' \in [Sheet -> Nat] /\ late' \in [Sheet -> Nat] /\ late[t] > 0
      /\ \A s \in Sheet: drives'[s] + late'[s] = drives[s] + late[s]
      /\ \A s \in Sheet: s # t => drives'[s] = drives[s] /\ late'[s] = late[s]
  BY <1>1 DEF CreatedLate, SheetsInv
<1>3. ASSUME NEW s \in Sheet \ overlapped PROVE SheetOK(s)'
  <2>1. SheetOK(s) /\ Creating(s)' = Creating(s)
    BY <1>1, <1>3 DEF SheetsInv, Creating, Wanted
  <2>2. s = t => Creating(s) = {}
    BY <1>2, <2>1 DEF SheetOK
  <2> QED
    BY <1>2, <2>1, <2>2 DEF SheetOK
<1> QED
  BY <1>1, <1>2, <1>3 DEF SheetsInv

\* There are finitely many jobs.
LEMMA CreatingIsFinite == ASSUME NEW s PROVE IsFiniteSet(Creating(s))
<1>1. IsFiniteSet(Calls \cup {"RECONCILER"}) /\ IsFiniteSet((Calls \cup {"RECONCILER"}) \cup {"PROVISIONER"})
  BY CallsAssumption, FS_AddElement
<1>2. Workers = (Calls \cup {"RECONCILER"}) \cup {"PROVISIONER"}
  BY DEF Workers, Tasks
<1> QED
  BY <1>1, <1>2, FS_Subset DEF Creating

\* Where every setup ends, what was being created may still be.
LEMMA EndSheets ==
  ASSUME OneSheetInv, PutBack \/ CutOff
  PROVE  SheetsInv'
<1>1. SheetsInv /\ UNCHANGED <<drives, overlapped>> /\ SetupsEnd
  BY DEF OneSheetInv, PutBack, CutOff
<1>2. \A w \in Workers: jobs'[w].pc # "CREATE"
  BY StopShapes DEF OneSheetInv
<1>3. \A s \in Sheet: Cardinality(Creating(s)) \in Nat
  BY CreatingIsFinite, FS_CardinalityType
<1>4. late' \in [Sheet -> Nat] /\ \A s \in Sheet: late'[s] = late[s] + Cardinality(Creating(s))
  BY <1>1, <1>3 DEF SetupsEnd, SheetsInv
<1>5. ASSUME NEW s \in Sheet \ overlapped PROVE SheetOK(s)'
  <2>1. SheetOK(s) /\ drives[s] \in Nat /\ late[s] \in Nat
    BY <1>1, <1>5 DEF SheetsInv
  <2>2. Creating(s)' = {}
    BY <1>2 DEF Creating
  <2>3. CASE Creating(s) = {}
    <3>1. Cardinality(Creating(s)) = 0
      BY <2>3, FS_EmptySet
    <3>2. late'[s] = late[s] /\ drives'[s] = drives[s]
      BY <1>1, <1>4, <2>1, <3>1
    <3> QED
      BY <2>1, <2>2, <3>2 DEF SheetOK
  <2>4. CASE Creating(s) # {}
    <3>1. PICK w: Creating(s) = {w}
      BY <2>1, <2>4 DEF SheetOK
    <3>2. Cardinality(Creating(s)) = 1 /\ drives[s] = 0 /\ late[s] = 0
      BY <2>1, <3>1, FS_Singleton DEF SheetOK
    <3> QED
      BY <1>1, <1>4, <2>2, <3>2 DEF SheetOK
  <2> QED
    BY <2>3, <2>4
<1> QED
  BY <1>1, <1>4, <1>5 DEF SheetsInv

\* The steps that leave Drive alone.
LEMMA OtherSheets ==
  ASSUME OneSheetInv,
         \/ HandOut \/ ExportEnds \/ SaveSettings \/ PrepareRestored \/ PrepareFails
         \/ LaunchAgain \/ StartWork \/ Reconcile \/ Discard
  PROVE  SheetsInv'
<1>1. AccessShapes /\ JobsOK /\ UNCHANGED remote
  BY DEF OneSheetInv, AccessShapes, HandOut, ExportEnds, SaveSettings, PrepareRestored,
         PrepareFails, LaunchAgain, StartWork, Reconcile, Discard
<1>2. CASE StartWork
  <2>1. \A w \in Workers: jobs'[w] = jobs[w] \/ jobs'[w].pc # "CREATE"
    BY <1>1, <1>2, StartShapes
  <2> QED
    BY <1>1, <2>1, SheetsKept DEF OneSheetInv
<1>3. CASE Reconcile \/ Discard
  <2>1. \A w \in Workers: jobs'[w] = jobs[w] \/ jobs'[w].pc # "CREATE"
    BY <1>1, <1>3, TaskShapes, NoJobIsJob, Replaced
  <2> QED
    BY <1>1, <2>1, SheetsKept DEF OneSheetInv
<1>4. CASE ~(StartWork \/ Reconcile \/ Discard)
  <2>1. jobs' = jobs
    BY <1>4 DEF HandOut, ExportEnds, SaveSettings, PrepareRestored, PrepareFails, LaunchAgain
  <2> QED
    BY <1>1, <2>1, SheetsKept DEF OneSheetInv
<1> QED
  BY <1>2, <1>3, <1>4

\* Before the first connection there is no spreadsheet and no job.
LEMMA SheetsStart == GoogleAccessInit => OneSheetInv
<1> SUFFICES ASSUME GoogleAccessInit PROVE OneSheetInv
  OBVIOUS
<1>1. AccessShapes
  BY AccessStarts DEF AccessInv
<1>2. \A s: Creating(s) = {}
  BY NoJobIsJob DEF GoogleAccessInit, Creating
<1>3. /\ drives \in [Sheet -> Nat] /\ late \in [Sheet -> Nat]
      /\ \A s \in Sheet: drives[s] = 0 /\ late[s] = 0
  BY DEF GoogleAccessInit
<1> QED
  BY <1>1, <1>2, <1>3 DEF OneSheetInv, SheetsInv, SheetOK

\* No step of a call, of a task or of the station makes a second spreadsheet of one that no
\* setup overlapped.
LEMMA SheetsStep == OneSheetInv /\ [GoogleAccessNext]_accessVars => OneSheetInv'
<1>1. ASSUME OneSheetInv, GoogleAccessNext PROVE OneSheetInv'
  <2>1. AccessShapes'
    BY <1>1, CallShapes, SetupShapes, OtherShapes, StopShapes, StartShapes, TaskShapes
       DEF GoogleAccessNext, Workers, OneSheetInv
  <2>2. SheetsInv'
    BY <1>1, CallSheets, SetupSheets, LateSheets, EndSheets, OtherSheets
       DEF GoogleAccessNext, Workers
  <2> QED
    BY <2>1, <2>2 DEF OneSheetInv
<1>2. ASSUME OneSheetInv, UNCHANGED accessVars PROVE OneSheetInv'
  <2>1. UNCHANGED <<access, saved, secret, station, jobs, remote>>
    BY <1>2 DEF accessVars, local
  <2>2. AccessShapes'
    BY <1>2, <2>1 DEF OneSheetInv, AccessShapes, JobsOK, Stopped
  <2> QED
    BY <1>2, <2>1, <2>2, SheetsKept DEF OneSheetInv
<1> QED
  BY <1>1, <1>2

\* However many calls set up at once, and however a setup was interrupted, retried or begun
\* again: a second spreadsheet of one token is made only where a setup looked for the first
\* while its creation was under way or had been given up without an answer.
THEOREM AccessExplainsSheets == GoogleAccessSpec => []SecondSheetsOverlap
<1>1. OneSheetInv => SecondSheetsOverlap
  BY DEF OneSheetInv, SheetsInv, SheetOK, SecondSheetsOverlap
<1> QED
  BY <1>1, SheetsStart, SheetsStep, PTL DEF GoogleAccessSpec

-------------------------------------------------------------------------------
(* Reports: sums over finite sets.                                             *)

\* A set of numbers that holds 0 and the successor of each of its members holds all.
LEMMA AllNumbers ==
  ASSUME NEW N \in SUBSET Nat, 0 \in N, \A n \in N: n + 1 \in N
  PROVE  N = Nat
<1> SUFFICES ASSUME Nat \ N # {} PROVE FALSE
  OBVIOUS
<1>1. PICK n \in Nat \ N: \A m \in Nat \ N: ~(<<m, n>> \in OpToRel(<, Nat))
  BY NatLessThanWellFounded, WFMin
<1>2. n - 1 \in Nat /\ (n - 1) + 1 = n
  <2>1. n # 0
    BY <1>1
  <2> QED BY <2>1
<1>3. n - 1 \in Nat \ N
  BY <1>1, <1>2
<1>4. n - 1 < n
  BY <1>2
<1>5. <<n - 1, n>> \in OpToRel(<, Nat)
  BY <1>2, <1>4 DEF OpToRel
<1> QED BY <1>1, <1>3, <1>5

\* The member that a fold over a set takes next.
Draw(s) == CHOOSE x \in s: TRUE

\* g adds up f over every subset of S, element by element.
Adds(g, f, S) ==
  g = [s \in SUBSET S |-> IF s = {} THEN 0 ELSE f[Draw(s)] + g[s \ {Draw(s)}]]

\* The sum of f over S, as the model's operators fold it.
Sum(f, S) == MapThenSumSet(LAMBDA x: f[x], S)

\* It is a member.
LEMMA Drawn == ASSUME NEW s, s # {} PROVE Draw(s) \in s
BY DEF Draw

\* A finite set without one of its members is finite and has one less.
LEMMA Fewer ==
  ASSUME NEW s, IsFiniteSet(s), NEW x \in s
  PROVE  /\ IsFiniteSet(s \ {x}) /\ Cardinality(s \ {x}) \in Nat
         /\ Cardinality(s) = Cardinality(s \ {x}) + 1
<1>1. IsFiniteSet(s \ {x}) /\ Cardinality(s \ {x}) = Cardinality(s) - 1
  BY FS_RemoveElement
<1>2. Cardinality(s) \in Nat /\ Cardinality(s \ {x}) \in Nat
  BY <1>1, FS_CardinalityType
<1> QED BY <1>1, <1>2

\* That recursion has a solution.
LEMMA AddsExists ==
  ASSUME NEW S, IsFiniteSet(S), NEW f \in [S -> Int]
  PROVE  \E g \in [SUBSET S -> Int]: Adds(g, f, S)
<1> DEFINE Small(n) == {s \in SUBSET S: Cardinality(s) <= n}
           By(g, n) == g = [s \in Small(n) |->
                              IF s = {} THEN 0 ELSE f[Draw(s)] + g[s \ {Draw(s)}]]
           N == {n \in Nat: \E g \in [Small(n) -> Int]: By(g, n)}
<1>0. \A s \in SUBSET S: IsFiniteSet(s) /\ Cardinality(s) \in Nat
  BY FS_Subset, FS_CardinalityType
<1>1. 0 \in N
  <2>1. Small(0) = {{}}
    <3>1. \A s \in SUBSET S: Cardinality(s) <= 0 <=> s = {}
      BY <1>0, FS_EmptySet
    <3> QED BY <3>1
  <2>2. [s \in Small(0) |-> 0] \in [Small(0) -> Int] /\ By([s \in Small(0) |-> 0], 0)
    <3> HIDE DEF Small
    <3> QED BY <2>1
  <2> HIDE DEF By
  <2> QED BY <2>2
<1>2. ASSUME NEW n \in N PROVE n + 1 \in N
  <2>1. PICK g \in [Small(n) -> Int]: By(g, n)
    BY <1>2
  <2> DEFINE h == [s \in Small(n + 1) |->
                     IF s = {} THEN 0 ELSE f[Draw(s)] + g[s \ {Draw(s)}]]
  <2>2. \A s \in Small(n + 1): s # {} => Draw(s) \in S /\ s \ {Draw(s)} \in Small(n)
    BY <1>0, Drawn, Fewer
  <2>3. \A s \in Small(n): s \in Small(n + 1) /\ h[s] = g[s]
    <3>1. Small(n) \subseteq Small(n + 1)
      <4>1. n \in Nat
        BY <1>2
      <4> QED BY <1>0, <4>1
    <3>2. \A s \in Small(n): g[s] = IF s = {} THEN 0 ELSE f[Draw(s)] + g[s \ {Draw(s)}]
      <4> HIDE DEF Small
      <4> QED BY <2>1
    <3> HIDE DEF Small
    <3> QED BY <3>1, <3>2
  <2>4. h \in [Small(n + 1) -> Int]
    <3>1. \A s \in Small(n + 1): s # {} => f[Draw(s)] + g[s \ {Draw(s)}] \in Int
      <4>1. \A s \in Small(n + 1): s # {} =>
              f[Draw(s)] \in Int /\ g[s \ {Draw(s)}] \in Int
        <5> HIDE DEF Small
        <5> QED BY <2>1, <2>2
      <4> HIDE DEF Small
      <4> QED BY <4>1
    <3> QED BY <3>1
  <2>5. By(h, n + 1)
    <3>1. \A s \in Small(n + 1): s # {} => h[s \ {Draw(s)}] = g[s \ {Draw(s)}]
      BY <2>2, <2>3
    <3> QED BY <3>1
  <2> HIDE DEF By, h
  <2>6. n + 1 \in Nat
    BY <1>2
  <2> QED BY <2>4, <2>5, <2>6
<1>3. N = Nat
  <2> HIDE DEF N
  <2>1. N \subseteq Nat
    BY DEF N
  <2> QED BY <1>1, <1>2, <2>1, AllNumbers
<1>4. Small(Cardinality(S)) = SUBSET S
  BY <1>0, FS_Subset
<1>5. Cardinality(S) \in N
  BY <1>0, <1>3
<1> QED BY <1>4, <1>5 DEF Adds

\* Solutions for functions that agree on a set agree there: its sum depends on nothing else.
LEMMA AddsAgree ==
  ASSUME NEW S, NEW f, NEW g, Adds(g, f, S),
         NEW T \in SUBSET S, NEW e, NEW h, Adds(h, e, T), IsFiniteSet(T),
         \A x \in T: f[x] = e[x]
  PROVE  g[T] = h[T]
<1> DEFINE N == {n \in Nat: \A s \in SUBSET T: Cardinality(s) = n => g[s] = h[s]}
<1>0. \A s \in SUBSET T: /\ IsFiniteSet(s) /\ Cardinality(s) \in Nat
                         /\ s # {} => Draw(s) \in s
  BY FS_Subset, FS_CardinalityType, Drawn
<1>1. \A s \in SUBSET T:
        /\ g[s] = IF s = {} THEN 0 ELSE f[Draw(s)] + g[s \ {Draw(s)}]
        /\ h[s] = IF s = {} THEN 0 ELSE e[Draw(s)] + h[s \ {Draw(s)}]
  BY DEF Adds
<1>2. 0 \in N
  BY <1>0, <1>1, FS_EmptySet
<1>3. ASSUME NEW n \in N PROVE n + 1 \in N
  <2> SUFFICES ASSUME NEW s \in SUBSET T, Cardinality(s) = n + 1 PROVE g[s] = h[s]
    OBVIOUS
  <2>1. s # {}
    BY FS_EmptySet
  <2>2. Cardinality(s \ {Draw(s)}) = n
    BY <1>0, <2>1, Fewer
  <2> QED BY <1>0, <1>1, <2>1, <2>2
<1>4. N = Nat
  <2> HIDE DEF N
  <2>1. N \subseteq Nat
    BY DEF N
  <2> QED BY <1>2, <1>3, <2>1, AllNumbers
<1> QED BY <1>0, <1>4

\* g is the sum of f over every subset of S, as one function.
Tally(g, f, S) ==
  g \in [SUBSET S -> Int] /\ Adds(g, f, S) /\ \A T \in SUBSET S: Sum(f, T) = g[T]

\* Every function into the integers has one.
LEMMA SumIs ==
  ASSUME NEW S, IsFiniteSet(S), NEW f \in [S -> Int]
  PROVE  \E g: Tally(g, f, S)
<1>1. PICK g \in [SUBSET S -> Int]: Adds(g, f, S)
  BY AddsExists
<1>2. ASSUME NEW T \in SUBSET S PROVE Sum(f, T) = g[T]
  <2>1. IsFiniteSet(T)
    BY FS_Subset
  <2>2. Adds([s \in SUBSET T |-> g[s]], f, T)
    BY <1>1, Drawn DEF Adds
  <2>3. \E h: Adds(h, f, T) /\ MapThenSumSet(LAMBDA x: f[x], T) = h[T]
    BY <2>2 DEF MapThenSumSet, MapThenFoldSet, Adds, Draw
  <2> QED BY <1>1, <2>1, <2>3, AddsAgree DEF Sum
<1> QED BY <1>1, <1>2 DEF Tally

\* In whatever order it was added up, any member may be taken out of a sum.
LEMMA SumAdd ==
  ASSUME NEW S, IsFiniteSet(S), NEW f \in [S -> Int], NEW T \in SUBSET S, NEW y \in T
  PROVE  Sum(f, T) = f[y] + Sum(f, T \ {y})
<1>0. PICK g: Tally(g, f, S)
  BY SumIs
<1>1. g \in [SUBSET S -> Int] /\ Adds(g, f, S) /\ \A s \in SUBSET S: Sum(f, s) = g[s]
  BY <1>0 DEF Tally
<1> DEFINE N == {n \in Nat: \A s \in SUBSET S: Cardinality(s) = n =>
                              \A x \in s: g[s] = f[x] + g[s \ {x}]}
<1>2. \A s \in SUBSET S: /\ IsFiniteSet(s) /\ Cardinality(s) \in Nat
                         /\ s # {} => Draw(s) \in s /\ g[s] = f[Draw(s)] + g[s \ {Draw(s)}]
  BY <1>1, FS_Subset, FS_CardinalityType, Drawn DEF Adds
<1>3. 0 \in N
  BY <1>2, FS_EmptySet
<1>4. ASSUME NEW n \in N PROVE n + 1 \in N
  <2>0. n \in Nat /\ \A s \in SUBSET S: Cardinality(s) = n =>
                      \A x \in s: g[s] = f[x] + g[s \ {x}]
    BY <1>4
  <2>1. ASSUME NEW s \in SUBSET S, Cardinality(s) = n + 1, NEW x \in s, x # Draw(s)
        PROVE  g[s] = f[x] + g[s \ {x}]
    <3>1. PICK d \in s: d = Draw(s) /\ g[s] = f[d] + g[s \ {d}]
      BY <1>2
    <3>2. Cardinality(s \ {d}) = n /\ Cardinality(s \ {x}) = n
      <4>1. IsFiniteSet(s)
        BY <1>2
      <4>2. /\ Cardinality(s \ {d}) \in Nat /\ n + 1 = Cardinality(s \ {d}) + 1
            /\ Cardinality(s \ {x}) \in Nat /\ n + 1 = Cardinality(s \ {x}) + 1
        BY <2>1, <4>1, Fewer
      <4> QED BY <2>0, <4>2
    <3>3. g[s \ {d}] = f[x] + g[(s \ {d}) \ {x}] /\ x \in s \ {d}
      BY <2>0, <2>1, <3>1, <3>2
    <3>4. g[s \ {x}] = f[d] + g[(s \ {x}) \ {d}]
      BY <2>0, <2>1, <3>1, <3>2
    <3>5. (s \ {x}) \ {d} = (s \ {d}) \ {x}
      OBVIOUS
    <3>6. f[d] \in Int /\ f[x] \in Int /\ g[(s \ {d}) \ {x}] \in Int
      BY <1>1
    <3>7. f[d] + (f[x] + g[(s \ {d}) \ {x}]) = f[x] + (f[d] + g[(s \ {d}) \ {x}])
      BY <3>6
    <3> QED BY <3>1, <3>3, <3>4, <3>5, <3>7
  <2>2. \A s \in SUBSET S: Cardinality(s) = n + 1 => \A x \in s: g[s] = f[x] + g[s \ {x}]
    BY <1>2, <2>1
  <2> QED BY <2>0, <2>2
<1>5. N = Nat
  <2> HIDE DEF N
  <2>1. N \subseteq Nat
    BY DEF N
  <2> QED BY <1>3, <1>4, <2>1, AllNumbers
<1>6. g[T] = f[y] + g[T \ {y}]
  BY <1>2, <1>5
<1> QED BY <1>1, <1>6

\* What holds of the empty set, and of a set with a member more, holds of a finite set.
LEMMA FiniteInduct ==
  ASSUME NEW S, IsFiniteSet(S), NEW A, {} \in A,
         \A T \in SUBSET S: \A x \in S \ T: T \in A => T \cup {x} \in A
  PROVE  S \in A
<1> DEFINE N == {n \in Nat: \A T \in SUBSET S: Cardinality(T) = n => T \in A}
<1>1. \A T \in SUBSET S: IsFiniteSet(T) /\ Cardinality(T) \in Nat
  BY FS_Subset, FS_CardinalityType
<1>2. 0 \in N
  BY <1>1, FS_EmptySet
<1>3. ASSUME NEW n \in N PROVE n + 1 \in N
  <2>1. n \in Nat /\ \A T \in SUBSET S: Cardinality(T) = n => T \in A
    BY <1>3
  <2>2. ASSUME NEW T \in SUBSET S, Cardinality(T) = n + 1 PROVE T \in A
    <3>1. T # {}
      BY <2>1, <2>2, FS_EmptySet
    <3>2. PICK x \in T: TRUE
      BY <3>1
    <3>3. Cardinality(T \ {x}) \in Nat /\ n + 1 = Cardinality(T \ {x}) + 1
      BY <1>1, <2>2, Fewer
    <3>4. T \ {x} \in A
      BY <2>1, <3>3
    <3>5. T = (T \ {x}) \cup {x}
      OBVIOUS
    <3> QED BY <3>4, <3>5
  <2> QED BY <2>1, <2>2
<1>4. N = Nat
  <2> HIDE DEF N
  <2>1. N \subseteq Nat
    BY DEF N
  <2> QED BY <1>2, <1>3, <2>1, AllNumbers
<1> QED BY <1>1, <1>4

\* A sum of integers is an integer.
LEMMA SumType ==
  ASSUME NEW S, IsFiniteSet(S), NEW f \in [S -> Int], NEW T \in SUBSET S
  PROVE  Sum(f, T) \in Int
<1>1. PICK g: Tally(g, f, S)
  BY SumIs
<1> QED BY <1>1 DEF Tally

\* Over no members it is zero.
LEMMA SumEmpty ==
  ASSUME NEW S, IsFiniteSet(S), NEW f \in [S -> Int]
  PROVE  Sum(f, {}) = 0
<1>1. PICK g: Tally(g, f, S)
  BY SumIs
<1>2. g[{}] = 0
  BY <1>1 DEF Adds, Tally
<1> QED BY <1>1, <1>2 DEF Tally

\* One more member adds its number.
LEMMA SumMore ==
  ASSUME NEW S, IsFiniteSet(S), NEW f \in [S -> Int], NEW T \in SUBSET S, NEW x \in S \ T
  PROVE  Sum(f, T \cup {x}) = f[x] + Sum(f, T)
<1>1. (T \cup {x}) \ {x} = T
  OBVIOUS
<1>2. Sum(f, T \cup {x}) = f[x] + Sum(f, (T \cup {x}) \ {x})
  BY SumAdd
<1> QED BY <1>1, <1>2

\* Functions that agree on a set have the same sum there.
LEMMA SumSame ==
  ASSUME NEW S, IsFiniteSet(S), NEW f \in [S -> Int], NEW R, IsFiniteSet(R),
         NEW e \in [R -> Int], NEW T \in SUBSET S, T \subseteq R, \A x \in T: f[x] = e[x]
  PROVE  Sum(f, T) = Sum(e, T)
<1>1. PICK g: Tally(g, f, S)
  BY SumIs
<1>2. PICK h: Tally(h, e, R)
  BY SumIs
<1>3. Adds([s \in SUBSET T |-> h[s]], e, T)
  BY <1>2, Drawn DEF Adds, Tally
<1>4. IsFiniteSet(T)
  BY FS_Subset
<1>5. g[T] = [s \in SUBSET T |-> h[s]][T]
  BY <1>1, <1>3, <1>4, AddsAgree DEF Tally
<1> QED BY <1>1, <1>2, <1>5 DEF Tally

\* The sum over two sets without a common member.
LEMMA SumSplit ==
  ASSUME NEW S, IsFiniteSet(S), NEW f \in [S -> Int],
         NEW T \in SUBSET S, NEW U \in SUBSET S, T \cap U = {}
  PROVE  Sum(f, T \cup U) = Sum(f, T) + Sum(f, U)
<1> DEFINE A == {V \in SUBSET U: Sum(f, T \cup V) = Sum(f, T) + Sum(f, V)}
<1>1. {} \in A
  <2>1. T \cup {} = T
    OBVIOUS
  <2> QED BY <2>1, SumEmpty, SumType
<1>2. ASSUME NEW V \in SUBSET U, NEW x \in U \ V, V \in A PROVE V \cup {x} \in A
  <2>1. Sum(f, V \cup {x}) = f[x] + Sum(f, V)
    BY SumMore
  <2>2. Sum(f, (T \cup V) \cup {x}) = f[x] + Sum(f, T \cup V)
    <3>1. T \cup V \in SUBSET S /\ x \in S \ (T \cup V)
      OBVIOUS
    <3> QED BY <3>1, SumMore
  <2>3. T \cup (V \cup {x}) = (T \cup V) \cup {x}
    OBVIOUS
  <2>4. f[x] \in Int /\ Sum(f, T) \in Int /\ Sum(f, V) \in Int
    BY SumType
  <2>5. Sum(f, T \cup V) = Sum(f, T) + Sum(f, V)
    BY <1>2
  <2>6. Sum(f, T \cup (V \cup {x})) = Sum(f, T) + Sum(f, V \cup {x})
    <3>1. f[x] + (Sum(f, T) + Sum(f, V)) = Sum(f, T) + (f[x] + Sum(f, V))
      BY <2>4
    <3> QED BY <2>1, <2>2, <2>3, <2>5, <3>1
  <2> QED BY <2>6
<1>3. IsFiniteSet(U)
  BY FS_Subset
<1>4. U \in A
  <2> HIDE DEF A
  <2> QED BY <1>1, <1>2, <1>3, FiniteInduct
<1> QED BY <1>4

\* The sum of sums.
LEMMA SumPlus ==
  ASSUME NEW S, IsFiniteSet(S), NEW f \in [S -> Int], NEW e \in [S -> Int], NEW h \in [S -> Int],
         \A x \in S: f[x] = e[x] + h[x]
  PROVE  Sum(f, S) = Sum(e, S) + Sum(h, S)
<1> DEFINE A == {T \in SUBSET S: Sum(f, T) = Sum(e, T) + Sum(h, T)}
<1>1. {} \in A
  BY SumEmpty
<1>2. ASSUME NEW T \in SUBSET S, NEW x \in S \ T, T \in A PROVE T \cup {x} \in A
  <2>1. /\ Sum(f, T \cup {x}) = f[x] + Sum(f, T)
        /\ Sum(e, T \cup {x}) = e[x] + Sum(e, T)
        /\ Sum(h, T \cup {x}) = h[x] + Sum(h, T)
    BY SumMore
  <2>2. /\ e[x] \in Int /\ h[x] \in Int /\ Sum(e, T) \in Int /\ Sum(h, T) \in Int
        /\ f[x] = e[x] + h[x] /\ Sum(f, T) = Sum(e, T) + Sum(h, T)
    BY <1>2, SumType
  <2>3. Sum(f, T \cup {x}) = Sum(e, T \cup {x}) + Sum(h, T \cup {x})
    BY <2>1, <2>2
  <2> QED BY <2>3
<1>3. S \in A
  <2>1. \A T \in SUBSET S: \A x \in S \ T: T \in A => T \cup {x} \in A
    BY <1>2
  <2> HIDE DEF A
  <2> QED BY <1>1, <2>1, FiniteInduct
<1> QED BY <1>3

\* A smaller number for each member, a smaller sum.
LEMMA SumOrder ==
  ASSUME NEW S, IsFiniteSet(S), NEW f \in [S -> Int], NEW e \in [S -> Int],
         \A x \in S: f[x] <= e[x]
  PROVE  Sum(f, S) <= Sum(e, S)
<1> DEFINE A == {T \in SUBSET S: Sum(f, T) <= Sum(e, T)}
<1>1. {} \in A
  <2>1. Sum(f, {}) = 0 /\ Sum(e, {}) = 0
    BY SumEmpty
  <2> QED BY <2>1
<1>2. ASSUME NEW T \in SUBSET S, NEW x \in S \ T, T \in A PROVE T \cup {x} \in A
  <2>1. /\ Sum(f, T \cup {x}) = f[x] + Sum(f, T)
        /\ Sum(e, T \cup {x}) = e[x] + Sum(e, T)
    BY SumMore
  <2>2. /\ e[x] \in Int /\ f[x] \in Int /\ Sum(e, T) \in Int /\ Sum(f, T) \in Int
        /\ f[x] <= e[x] /\ Sum(f, T) <= Sum(e, T)
    BY <1>2, SumType
  <2>3. Sum(f, T \cup {x}) <= Sum(e, T \cup {x})
    BY <2>1, <2>2
  <2> QED BY <2>3
<1>3. S \in A
  <2>1. \A T \in SUBSET S: \A x \in S \ T: T \in A => T \cup {x} \in A
    BY <1>2
  <2> HIDE DEF A
  <2> QED BY <1>1, <2>1, FiniteInduct
<1> QED BY <1>3

\* A new member is one more.
LEMMA OneMore ==
  ASSUME NEW T, IsFiniteSet(T), NEW x, x \notin T
  PROVE  Cardinality(T \cup {x}) = Cardinality(T) + 1
BY FS_AddElement

\* In f the amounts of e, which are ten-thousandths, are rounded half up.
Rounds(f, e, S) == \A x \in S: 10000 * f[x] \in (e[x] - 4999) .. (e[x] + 5000)

\* Amounts rounded each on its own are off by half a cent each at most.
LEMMA SumRounded ==
  ASSUME NEW S, IsFiniteSet(S), NEW f \in [S -> Int], NEW e \in [S -> Int],
         Rounds(f, e, S)
  PROVE  /\ 10000 * Sum(f, S) >= Sum(e, S) - 4999 * Cardinality(S)
         /\ 10000 * Sum(f, S) <= Sum(e, S) + 5000 * Cardinality(S)
<1> DEFINE A == {T \in SUBSET S:
                   /\ 10000 * Sum(f, T) >= Sum(e, T) - 4999 * Cardinality(T)
                   /\ 10000 * Sum(f, T) <= Sum(e, T) + 5000 * Cardinality(T)}
<1>1. {} \in A
  <2>1. Sum(f, {}) = 0 /\ Sum(e, {}) = 0 /\ Cardinality({}) = 0
    BY SumEmpty, FS_EmptySet
  <2> QED BY <2>1
<1>2. ASSUME NEW T \in SUBSET S, NEW x \in S \ T, T \in A PROVE T \cup {x} \in A
  <2>1. /\ Sum(f, T \cup {x}) = f[x] + Sum(f, T)
        /\ Sum(e, T \cup {x}) = e[x] + Sum(e, T)
    BY SumMore
  <2>2. Cardinality(T \cup {x}) = Cardinality(T) + 1 /\ Cardinality(T) \in Nat
    <3>1. IsFiniteSet(T)
      BY FS_Subset
    <3>2. Cardinality(T) \in Nat
      BY <3>1, FS_CardinalityType
    <3>3. Cardinality(T \cup {x}) = Cardinality(T) + 1
      BY <3>1, OneMore
    <3> QED BY <3>2, <3>3
  <2>3. /\ e[x] \in Int /\ f[x] \in Int /\ Sum(e, T) \in Int /\ Sum(f, T) \in Int
        /\ 10000 * f[x] >= e[x] - 4999 /\ 10000 * f[x] <= e[x] + 5000
        /\ 10000 * Sum(f, T) >= Sum(e, T) - 4999 * Cardinality(T)
        /\ 10000 * Sum(f, T) <= Sum(e, T) + 5000 * Cardinality(T)
    BY <1>2, SumType DEF Rounds
  <2>4. /\ 10000 * Sum(f, T \cup {x}) >= Sum(e, T \cup {x}) - 4999 * Cardinality(T \cup {x})
        /\ 10000 * Sum(f, T \cup {x}) <= Sum(e, T \cup {x}) + 5000 * Cardinality(T \cup {x})
    BY <2>1, <2>2, <2>3
  <2> QED BY <2>4
<1>3. S \in A
  <2>1. \A T \in SUBSET S: \A x \in S \ T: T \in A => T \cup {x} \in A
    BY <1>2
  <2> HIDE DEF A
  <2> QED BY <1>1, <2>1, FiniteInduct
<1> QED BY <1>3

\* In daily the amounts f are summed day by day.
SumsDaily(daily, f, S, on, D) == \A d \in D: daily[d] = Sum(f, {x \in S: on[x] = d})

\* Summed day by day, what belongs to days comes to the same.
LEMMA SumByDay ==
  ASSUME NEW S, IsFiniteSet(S), NEW f \in [S -> Int], NEW D, IsFiniteSet(D),
         NEW on \in [S -> D], NEW daily \in [D -> Int],
         SumsDaily(daily, f, S, on, D)
  PROVE  Sum(daily, D) = Sum(f, S)
<1> DEFINE In(E) == {x \in S: on[x] \in E}
           A == {E \in SUBSET D: Sum(daily, E) = Sum(f, In(E))}
<1>1. {} \in A
  <2>1. In({}) = {}
    OBVIOUS
  <2> HIDE DEF In
  <2> QED BY <2>1, SumEmpty
<1>2. ASSUME NEW E \in SUBSET D, NEW d \in D \ E, E \in A PROVE E \cup {d} \in A
  <2>1. Sum(daily, E \cup {d}) = daily[d] + Sum(daily, E)
    BY SumMore
  <2>2. /\ In(E \cup {d}) = In(E) \cup In({d}) /\ In(E) \cap In({d}) = {}
        /\ In(E) \in SUBSET S /\ In({d}) \in SUBSET S /\ In({d}) = {x \in S: on[x] = d}
    OBVIOUS
  <2> HIDE DEF In
  <2>3. Sum(f, In(E \cup {d})) = Sum(f, In(E)) + Sum(f, In({d}))
    <3>1. In(E) \in SUBSET S /\ In({d}) \in SUBSET S /\ In(E) \cap In({d}) = {}
      BY <2>2
    <3>2. Sum(f, In(E) \cup In({d})) = Sum(f, In(E)) + Sum(f, In({d}))
      <4>1. \A T, U \in SUBSET S: T \cap U = {} => Sum(f, T \cup U) = Sum(f, T) + Sum(f, U)
        BY SumSplit
      <4> HIDE DEF A
      <4> QED BY <3>1, <4>1
    <3> QED BY <2>2, <3>2
  <2>4. daily[d] = Sum(f, In({d})) /\ Sum(daily, E) = Sum(f, In(E))
    BY <1>2, <2>2 DEF SumsDaily
  <2>5. Sum(f, In(E)) \in Int /\ Sum(f, In({d})) \in Int
    BY <2>2, SumType
  <2>6. Sum(daily, E \cup {d}) = Sum(f, In(E \cup {d}))
    BY <2>1, <2>3, <2>4, <2>5
  <2> QED BY <2>6
<1>3. D \in A
  <2> HIDE DEF A
  <2> QED BY <1>1, <1>2, FiniteInduct
<1>4. In(D) = S
  OBVIOUS
<1> QED BY <1>3, <1>4

-------------------------------------------------------------------------------
(* Reports: its sums. What the model folds over a set is the sum of a function.  *)

\* What adds up like a sum is the sum.
LEMMA AddsOn ==
  ASSUME NEW S, IsFiniteSet(S), NEW f \in [S -> Int], NEW T \in SUBSET S
  PROVE  /\ \E h: Adds(h, f, T)
         /\ \A h: Adds(h, f, T) => h[T] = Sum(f, T)
<1>1. PICK g: Tally(g, f, S)
  BY SumIs
<1>2. Adds([s \in SUBSET T |-> g[s]], f, T)
  BY <1>1, Drawn DEF Adds, Tally
<1>3. IsFiniteSet(T)
  BY FS_Subset
<1>4. ASSUME NEW h, Adds(h, f, T) PROVE h[T] = Sum(f, T)
  <2>1. g[T] = h[T]
    BY <1>1, <1>3, <1>4, AddsAgree DEF Tally
  <2> QED BY <1>1, <2>1 DEF Tally
<1> QED BY <1>2, <1>4

\* What the lines of a cart come to is a sum: at the prices they sell for,
LEMMA TaxableIs ==
  ASSUME NEW S, IsFiniteSet(S), NEW f \in [S -> Int], NEW lines \in SUBSET S,
         \A l \in lines: f[l] = LineTotal(l)
  PROVE  Taxable(lines) = Sum(f, lines)
<1> DEFINE h[s \in SUBSET lines] ==
             IF s = {} THEN 0 ELSE LineTotal(CHOOSE x \in s: TRUE) + h[s \ {CHOOSE x \in s: TRUE}]
<1>1. (\E g: Adds(g, f, lines)) /\ \A g: Adds(g, f, lines) => g[lines] = Sum(f, lines)
  BY AddsOn
<1>2. PICK g: Adds(g, f, lines)
  BY <1>1
<1>3. g = [s \in SUBSET lines |->
             IF s = {} THEN 0 ELSE LineTotal(Draw(s)) + g[s \ {Draw(s)}]]
  BY <1>2, Drawn DEF Adds
<1>4. h = [s \in SUBSET lines |->
             IF s = {} THEN 0 ELSE LineTotal(CHOOSE x \in s: TRUE) + h[s \ {CHOOSE x \in s: TRUE}]]
  <2>1. \E k: k = [s \in SUBSET lines |->
                    IF s = {} THEN 0 ELSE LineTotal(CHOOSE x \in s: TRUE) + k[s \ {CHOOSE x \in s: TRUE}]]
    BY <1>3 DEF Draw
  <2> QED BY <2>1
<1>5. Taxable(lines) = h[lines]
  BY DEF Taxable, MapThenSumSet, MapThenFoldSet
<1> HIDE DEF h
<1>6. h = [s \in SUBSET lines |->
             IF s = {} THEN 0 ELSE LineTotal(Draw(s)) + h[s \ {Draw(s)}]]
  BY <1>4 DEF Draw
<1>7. Adds(h, f, lines)
  BY <1>6, Drawn DEF Adds
<1> QED BY <1>1, <1>5, <1>7

\* at the listed ones,
LEMMA SubtotalIs ==
  ASSUME NEW S, IsFiniteSet(S), NEW f \in [S -> Int], NEW lines \in SUBSET S,
         \A l \in lines: f[l] = ListedSubtotal(l)
  PROVE  Subtotal(lines) = Sum(f, lines)
<1> DEFINE h[s \in SUBSET lines] ==
             IF s = {} THEN 0 ELSE ListedSubtotal(CHOOSE x \in s: TRUE) + h[s \ {CHOOSE x \in s: TRUE}]
<1>1. (\E g: Adds(g, f, lines)) /\ \A g: Adds(g, f, lines) => g[lines] = Sum(f, lines)
  BY AddsOn
<1>2. PICK g: Adds(g, f, lines)
  BY <1>1
<1>3. g = [s \in SUBSET lines |->
             IF s = {} THEN 0 ELSE ListedSubtotal(Draw(s)) + g[s \ {Draw(s)}]]
  BY <1>2, Drawn DEF Adds
<1>4. h = [s \in SUBSET lines |->
             IF s = {} THEN 0 ELSE ListedSubtotal(CHOOSE x \in s: TRUE) + h[s \ {CHOOSE x \in s: TRUE}]]
  <2>1. \E k: k = [s \in SUBSET lines |->
                    IF s = {} THEN 0 ELSE ListedSubtotal(CHOOSE x \in s: TRUE) + k[s \ {CHOOSE x \in s: TRUE}]]
    BY <1>3 DEF Draw
  <2> QED BY <2>1
<1>5. Subtotal(lines) = h[lines]
  BY DEF Subtotal, MapThenSumSet, MapThenFoldSet
<1> HIDE DEF h
<1>6. h = [s \in SUBSET lines |->
             IF s = {} THEN 0 ELSE ListedSubtotal(Draw(s)) + h[s \ {Draw(s)}]]
  BY <1>4 DEF Draw
<1>7. Adds(h, f, lines)
  BY <1>6, Drawn DEF Adds
<1> QED BY <1>1, <1>5, <1>7

\* and the difference where they sell for less.
LEMMA DiscountIs ==
  ASSUME NEW S, IsFiniteSet(S), NEW f \in [S -> Int], NEW lines \in SUBSET S,
         \A l \in lines: f[l] = LineDiscount(l)
  PROVE  Discount(lines) = Sum(f, lines)
<1> DEFINE h[s \in SUBSET lines] ==
             IF s = {} THEN 0 ELSE LineDiscount(CHOOSE x \in s: TRUE) + h[s \ {CHOOSE x \in s: TRUE}]
<1>1. (\E g: Adds(g, f, lines)) /\ \A g: Adds(g, f, lines) => g[lines] = Sum(f, lines)
  BY AddsOn
<1>2. PICK g: Adds(g, f, lines)
  BY <1>1
<1>3. g = [s \in SUBSET lines |->
             IF s = {} THEN 0 ELSE LineDiscount(Draw(s)) + g[s \ {Draw(s)}]]
  BY <1>2, Drawn DEF Adds
<1>4. h = [s \in SUBSET lines |->
             IF s = {} THEN 0 ELSE LineDiscount(CHOOSE x \in s: TRUE) + h[s \ {CHOOSE x \in s: TRUE}]]
  <2>1. \E k: k = [s \in SUBSET lines |->
                    IF s = {} THEN 0 ELSE LineDiscount(CHOOSE x \in s: TRUE) + k[s \ {CHOOSE x \in s: TRUE}]]
    BY <1>3 DEF Draw
  <2> QED BY <2>1
<1>5. Discount(lines) = h[lines]
  BY DEF Discount, MapThenSumSet, MapThenFoldSet
<1> HIDE DEF h
<1>6. h = [s \in SUBSET lines |->
             IF s = {} THEN 0 ELSE LineDiscount(Draw(s)) + h[s \ {Draw(s)}]]
  BY <1>4 DEF Draw
<1>7. Adds(h, f, lines)
  BY <1>6, Drawn DEF Adds
<1> QED BY <1>1, <1>5, <1>7

\* The columns of a report are sums over its sales.
LEMMA SummedIs ==
  ASSUME NEW S, IsFiniteSet(S), NEW f \in [S -> Int], NEW T \in SUBSET S, NEW amount,
         \A k \in T: f[k] = book[k].amounts[amount]
  PROVE  Summed(amount, T) = Sum(f, T)
<1> DEFINE h[s \in SUBSET T] ==
             IF s = {} THEN 0 ELSE book[CHOOSE x \in s: TRUE].amounts[amount] + h[s \ {CHOOSE x \in s: TRUE}]
<1>1. (\E g: Adds(g, f, T)) /\ \A g: Adds(g, f, T) => g[T] = Sum(f, T)
  BY AddsOn
<1>2. PICK g: Adds(g, f, T)
  BY <1>1
<1>3. g = [s \in SUBSET T |->
             IF s = {} THEN 0 ELSE book[Draw(s)].amounts[amount] + g[s \ {Draw(s)}]]
  BY <1>2, Drawn DEF Adds
<1>4. h = [s \in SUBSET T |->
             IF s = {} THEN 0 ELSE book[CHOOSE x \in s: TRUE].amounts[amount] + h[s \ {CHOOSE x \in s: TRUE}]]
  <2>1. \E k: k = [s \in SUBSET T |->
                    IF s = {} THEN 0 ELSE book[CHOOSE x \in s: TRUE].amounts[amount] + k[s \ {CHOOSE x \in s: TRUE}]]
    BY <1>3 DEF Draw
  <2> QED BY <2>1
<1>5. Summed(amount, T) = h[T]
  BY DEF Summed, MapThenSumSet, MapThenFoldSet
<1> HIDE DEF h
<1>6. h = [s \in SUBSET T |->
             IF s = {} THEN 0 ELSE book[Draw(s)].amounts[amount] + h[s \ {Draw(s)}]]
  BY <1>4 DEF Draw
<1>7. Adds(h, f, T)
  BY <1>6, Drawn DEF Adds
<1> QED BY <1>1, <1>5, <1>7

\* What is due for some sales is a sum over them,
LEMMA PayableIs ==
  ASSUME NEW T, IsFiniteSet(T), NEW f \in [T -> Int],
         \A k \in T: f[k] = Taxable(book[k].lines)
  PROVE  Payable(T) = Sum(f, T)
<1> DEFINE h[s \in SUBSET T] ==
             IF s = {} THEN 0 ELSE Taxable(book[CHOOSE x \in s: TRUE].lines) + h[s \ {CHOOSE x \in s: TRUE}]
<1>1. (\E g: Adds(g, f, T)) /\ \A g: Adds(g, f, T) => g[T] = Sum(f, T)
  BY AddsOn
<1>2. PICK g: Adds(g, f, T)
  BY <1>1
<1>3. g = [s \in SUBSET T |->
             IF s = {} THEN 0 ELSE Taxable(book[Draw(s)].lines) + g[s \ {Draw(s)}]]
  BY <1>2, Drawn DEF Adds
<1>4. h = [s \in SUBSET T |->
             IF s = {} THEN 0 ELSE Taxable(book[CHOOSE x \in s: TRUE].lines) + h[s \ {CHOOSE x \in s: TRUE}]]
  <2>1. \E k: k = [s \in SUBSET T |->
                    IF s = {} THEN 0 ELSE Taxable(book[CHOOSE x \in s: TRUE].lines) + k[s \ {CHOOSE x \in s: TRUE}]]
    BY <1>3 DEF Draw
  <2> QED BY <2>1
<1>5. Payable(T) = h[T]
  BY DEF Payable, MapThenSumSet, MapThenFoldSet
<1> HIDE DEF h
<1>6. h = [s \in SUBSET T |->
             IF s = {} THEN 0 ELSE Taxable(book[Draw(s)].lines) + h[s \ {Draw(s)}]]
  BY <1>4 DEF Draw
<1>7. Adds(h, f, T)
  BY <1>6, Drawn DEF Adds
<1> QED BY <1>1, <1>5, <1>7

\* and so is their tax before it is rounded,
LEMMA ExactTaxIs ==
  ASSUME NEW T, IsFiniteSet(T), NEW f \in [T -> Int],
         \A k \in T: f[k] = Taxable(book[k].lines) * book[k].amounts.bps
  PROVE  ExactTax(T) = Sum(f, T)
<1> DEFINE h[s \in SUBSET T] ==
             IF s = {} THEN 0 ELSE Taxable(book[CHOOSE x \in s: TRUE].lines) * book[CHOOSE x \in s: TRUE].amounts.bps + h[s \ {CHOOSE x \in s: TRUE}]
<1>1. (\E g: Adds(g, f, T)) /\ \A g: Adds(g, f, T) => g[T] = Sum(f, T)
  BY AddsOn
<1>2. PICK g: Adds(g, f, T)
  BY <1>1
<1>3. g = [s \in SUBSET T |->
             IF s = {} THEN 0 ELSE Taxable(book[Draw(s)].lines) * book[Draw(s)].amounts.bps + g[s \ {Draw(s)}]]
  BY <1>2, Drawn DEF Adds
<1>4. h = [s \in SUBSET T |->
             IF s = {} THEN 0 ELSE Taxable(book[CHOOSE x \in s: TRUE].lines) * book[CHOOSE x \in s: TRUE].amounts.bps + h[s \ {CHOOSE x \in s: TRUE}]]
  <2>1. \E k: k = [s \in SUBSET T |->
                    IF s = {} THEN 0 ELSE Taxable(book[CHOOSE x \in s: TRUE].lines) * book[CHOOSE x \in s: TRUE].amounts.bps + k[s \ {CHOOSE x \in s: TRUE}]]
    BY <1>3 DEF Draw
  <2> QED BY <2>1
<1>5. ExactTax(T) = h[T]
  BY DEF ExactTax, MapThenSumSet, MapThenFoldSet
<1> HIDE DEF h
<1>6. h = [s \in SUBSET T |->
             IF s = {} THEN 0 ELSE Taxable(book[Draw(s)].lines) * book[Draw(s)].amounts.bps + h[s \ {Draw(s)}]]
  BY <1>4 DEF Draw
<1>7. Adds(h, f, T)
  BY <1>6, Drawn DEF Adds
<1> QED BY <1>1, <1>5, <1>7

\* and the takings of some days are one over the days.
LEMMA TakingsIs ==
  ASSUME NEW D, IsFiniteSet(D), NEW f \in [D -> Int],
         \A d \in D: f[d] = DailyReport(d).total
  PROVE  Takings(D) = Sum(f, D)
<1> DEFINE h[s \in SUBSET D] ==
             IF s = {} THEN 0 ELSE DailyReport(CHOOSE x \in s: TRUE).total + h[s \ {CHOOSE x \in s: TRUE}]
<1>1. (\E g: Adds(g, f, D)) /\ \A g: Adds(g, f, D) => g[D] = Sum(f, D)
  BY AddsOn
<1>2. PICK g: Adds(g, f, D)
  BY <1>1
<1>3. g = [s \in SUBSET D |->
             IF s = {} THEN 0 ELSE DailyReport(Draw(s)).total + g[s \ {Draw(s)}]]
  BY <1>2, Drawn DEF Adds
<1>4. h = [s \in SUBSET D |->
             IF s = {} THEN 0 ELSE DailyReport(CHOOSE x \in s: TRUE).total + h[s \ {CHOOSE x \in s: TRUE}]]
  <2>1. \E k: k = [s \in SUBSET D |->
                    IF s = {} THEN 0 ELSE DailyReport(CHOOSE x \in s: TRUE).total + k[s \ {CHOOSE x \in s: TRUE}]]
    BY <1>3 DEF Draw
  <2> QED BY <2>1
<1>5. Takings(D) = h[D]
  BY DEF Takings, MapThenSumSet, MapThenFoldSet
<1> HIDE DEF h
<1>6. h = [s \in SUBSET D |->
             IF s = {} THEN 0 ELSE DailyReport(Draw(s)).total + h[s \ {Draw(s)}]]
  BY <1>4 DEF Draw
<1>7. Adds(h, f, D)
  BY <1>6, Drawn DEF Adds
<1> QED BY <1>1, <1>5, <1>7

-------------------------------------------------------------------------------
(* Reports: the invariant, and a sale in the book.                             *)

\* The amounts of every sale are those of its lines at the rate of its time.
Totals == {ReviewTotals(lines, bps): lines \in SUBSET Menu, bps \in Nat}
Booked == [at: Nat, voided: BOOLEAN, method: {"CASH", "CARD"}, lines: SUBSET Menu,
           amounts: Totals]
ReportsInv ==
  /\ rate \in Nat /\ hour \in Nat
  /\ book \in Seq(Booked)
  /\ \A k \in DOMAIN book: \E bps \in Nat:
       book[k].amounts = ReviewTotals(book[k].lines, bps)

\* The amounts of one line.
LEMMA AmountsOfLine ==
  ASSUME NEW l \in Menu
  PROVE  /\ LineTotal(l) \in Nat /\ ListedSubtotal(l) \in Nat /\ LineDiscount(l) \in Nat
         /\ ListedSubtotal(l) <= LineDiscount(l) + LineTotal(l)
<1>1. l.sold \in Nat /\ l.listed \in Nat /\ l.quantity \in Nat
  BY ReportsAssumption
<1>2. \A a, b, n \in Nat:
        /\ a * n \in Nat /\ b * n \in Nat
        /\ b < a => (a - b) * n \in Nat /\ a * n <= (a - b) * n + b * n
        /\ a <= b => a * n <= b * n
  OBVIOUS
<1>3. CASE l.sold < l.listed
  BY <1>1, <1>2, <1>3 DEF LineTotal, ListedSubtotal, LineDiscount
<1>4. CASE ~(l.sold < l.listed)
  BY <1>1, <1>2, <1>4 DEF LineTotal, ListedSubtotal, LineDiscount
<1> QED BY <1>3, <1>4

\* The totals of a cart, at any rate: whole cents, the tax rounded half up, the discount
\* no less than what the lines sell for below their listed prices.
LEMMA TotalsOfCart ==
  ASSUME NEW lines \in SUBSET Menu, NEW bps \in Nat
  PROVE  LET amounts == ReviewTotals(lines, bps)
         IN /\ Taxable(lines) \in Nat
            /\ \A a \in {"subtotal", "discount", "tax", "total", "bps"}: amounts[a] \in Int
            /\ amounts.bps \in Nat
            /\ amounts.total = Taxable(lines) + amounts.tax
            /\ amounts.subtotal <= amounts.discount + Taxable(lines)
            /\ 10000 * amounts.tax \in (Taxable(lines) * amounts.bps - 4999) ..
                                       (Taxable(lines) * amounts.bps + 5000)
<1>1. IsFiniteSet(lines)
  <2>1. IsFiniteSet(Menu)
    BY ReportsAssumption
  <2> QED BY <2>1, FS_Subset
<1>2. \A l \in lines: /\ LineTotal(l) \in Nat /\ ListedSubtotal(l) \in Nat
                      /\ LineDiscount(l) \in Nat
                      /\ ListedSubtotal(l) <= LineDiscount(l) + LineTotal(l)
  BY AmountsOfLine
<1> DEFINE zero == [l \in lines |-> 0]
           pays == [l \in lines |-> LineTotal(l)]
           less == [l \in lines |-> LineDiscount(l)]
           list == [l \in lines |-> ListedSubtotal(l)]
           both == [l \in lines |-> LineDiscount(l) + LineTotal(l)]
<1>3. /\ pays \in [lines -> Int] /\ less \in [lines -> Int] /\ list \in [lines -> Int]
      /\ both \in [lines -> Int] /\ zero \in [lines -> Int]
  BY <1>2
<1>4. /\ \A l \in lines: pays[l] = LineTotal(l)
      /\ \A l \in lines: less[l] = LineDiscount(l)
      /\ \A l \in lines: list[l] = ListedSubtotal(l)
  OBVIOUS
<1>16. \A l \in lines: both[l] = less[l] + pays[l]
  OBVIOUS
<1>17. \A l \in lines: list[l] <= both[l]
  BY <1>2
<1>18. \A l \in lines: zero[l] <= pays[l]
  BY <1>2
<1>19. \A l \in lines: zero[l] = zero[l] + zero[l]
  OBVIOUS
<1> HIDE DEF zero, pays, less, list, both
<1>5. /\ Taxable(lines) = Sum(pays, lines) /\ Discount(lines) = Sum(less, lines)
      /\ Subtotal(lines) = Sum(list, lines)
  <2>1. lines \in SUBSET lines
    OBVIOUS
  <2>2. Taxable(lines) = Sum(pays, lines)
    <3>1. pays \in [lines -> Int] /\ \A l \in lines: pays[l] = LineTotal(l)
      BY <1>3, <1>4
    <3> QED BY <1>1, <2>1, <3>1, TaxableIs
  <2>3. Discount(lines) = Sum(less, lines)
    <3>1. less \in [lines -> Int] /\ \A l \in lines: less[l] = LineDiscount(l)
      BY <1>3, <1>4
    <3> QED BY <1>1, <2>1, <3>1, DiscountIs
  <2>4. Subtotal(lines) = Sum(list, lines)
    BY <1>1, <1>3, <1>4, <2>1, SubtotalIs
  <2> QED BY <2>2, <2>3, <2>4
<1>6. /\ Sum(pays, lines) \in Int /\ Sum(less, lines) \in Int /\ Sum(list, lines) \in Int
      /\ Sum(zero, lines) \in Int
  BY <1>1, <1>3, SumType
<1>7. Sum(both, lines) = Sum(less, lines) + Sum(pays, lines)
  BY <1>1, <1>3, <1>16, SumPlus
<1>8. Sum(list, lines) <= Sum(both, lines)
  BY <1>1, <1>3, <1>17, SumOrder
<1>9. Sum(zero, lines) <= Sum(pays, lines)
  BY <1>1, <1>3, <1>18, SumOrder
<1>10. Sum(zero, lines) = Sum(zero, lines) + Sum(zero, lines)
  <2>1. zero \in [lines -> Int]
    BY <1>3
  <2> QED BY <1>1, <1>19, <2>1, SumPlus
<1>11. Taxable(lines) \in Nat
  BY <1>5, <1>6, <1>9, <1>10
<1>12. Subtotal(lines) \in Int /\ Discount(lines) \in Int
       /\ Subtotal(lines) <= Discount(lines) + Taxable(lines)
  BY <1>5, <1>6, <1>7, <1>8
<1>13. Taxable(lines) * bps \in Nat
  BY <1>11
<1>14. \A x \in Nat: /\ (x + 5000) \div 10000 \in Int
                     /\ 10000 * ((x + 5000) \div 10000) \in (x - 4999) .. (x + 5000)
  OBVIOUS
<1>15. /\ CalculateTaxCents(Taxable(lines), bps) \in Int
       /\ 10000 * CalculateTaxCents(Taxable(lines), bps) \in
            (Taxable(lines) * bps - 4999) .. (Taxable(lines) * bps + 5000)
  BY <1>13, <1>14 DEF CalculateTaxCents
<1> QED BY <1>11, <1>12, <1>15 DEF ReviewTotals

\* What that says of a sale in the book.
Amounts == {"subtotal", "discount", "tax", "total", "bps"}
LEMMA SaleFacts ==
  ASSUME ReportsInv, NEW k \in DOMAIN book
  PROVE  /\ Taxable(book[k].lines) \in Nat
         /\ \A a \in Amounts: book[k].amounts[a] \in Int
         /\ Taxable(book[k].lines) * book[k].amounts.bps \in Int
         /\ book[k].amounts.total = Taxable(book[k].lines) + book[k].amounts.tax
         /\ book[k].amounts.subtotal <= book[k].amounts.discount + Taxable(book[k].lines)
         /\ 10000 * book[k].amounts.tax \in
              (Taxable(book[k].lines) * book[k].amounts.bps - 4999) ..
              (Taxable(book[k].lines) * book[k].amounts.bps + 5000)
         /\ book[k].method \in {"CASH", "CARD"}
<1>1. book[k] \in Booked
  BY DEF ReportsInv
<1>2. book[k].lines \in SUBSET Menu /\ book[k].method \in {"CASH", "CARD"}
  BY <1>1 DEF Booked
<1>3. PICK bps \in Nat: book[k].amounts = ReviewTotals(book[k].lines, bps)
  BY DEF ReportsInv
<1>4. LET amounts == ReviewTotals(book[k].lines, bps)
      IN /\ Taxable(book[k].lines) \in Nat
         /\ \A a \in {"subtotal", "discount", "tax", "total", "bps"}: amounts[a] \in Int
         /\ amounts.bps \in Nat
         /\ amounts.total = Taxable(book[k].lines) + amounts.tax
         /\ amounts.subtotal <= amounts.discount + Taxable(book[k].lines)
         /\ 10000 * amounts.tax \in (Taxable(book[k].lines) * amounts.bps - 4999) ..
                                    (Taxable(book[k].lines) * amounts.bps + 5000)
  BY <1>2, TotalsOfCart
<1>5. \A x, y \in Nat: x * y \in Int
  OBVIOUS
<1> QED BY <1>2, <1>3, <1>4, <1>5 DEF Amounts

\* The sales in the book are finitely many.
LEMMA SalesFinite ==
  ASSUME ReportsInv
  PROVE  \A S \in SUBSET DOMAIN book: IsFiniteSet(S) /\ Cardinality(S) \in Nat
<1>1. DOMAIN book = 1..Len(book) /\ Len(book) \in Nat
  BY DEF ReportsInv
<1>2. IsFiniteSet(DOMAIN book)
  BY <1>1, FS_Interval
<1> QED BY <1>2, FS_Subset, FS_CardinalityType

\* A column of some sales, as a function.
Column(a, S) == [k \in S |-> book[k].amounts[a]]

\* A column adds up to its sum, over any part of those sales.
LEMMA ColumnSums ==
  ASSUME ReportsInv, NEW S \in SUBSET DOMAIN book, NEW a \in Amounts
  PROVE  /\ Column(a, S) \in [S -> Int]
         /\ \A T \in SUBSET S: Summed(a, T) = Sum(Column(a, S), T)
         /\ Summed(a, S) \in Int
<1>1. Column(a, S) \in [S -> Int]
  BY SaleFacts DEF Column
<1>2. \A k \in S: Column(a, S)[k] = book[k].amounts[a]
  BY DEF Column
<1>3. IsFiniteSet(S)
  BY SalesFinite
<1>4. ASSUME NEW T \in SUBSET S PROVE Summed(a, T) = Sum(Column(a, S), T)
  <2>1. \A k \in T: Column(a, S)[k] = book[k].amounts[a]
    BY <1>2
  <2> QED BY <1>1, <1>3, <2>1, SummedIs
<1>5. Summed(a, S) \in Int
  <2>1. S \in SUBSET S
    OBVIOUS
  <2>2. Sum(Column(a, S), S) \in Int
    BY <1>1, <1>3, <2>1, SumType
  <2> QED BY <1>4, <2>1, <2>2
<1> QED BY <1>1, <1>4, <1>5

\* For any sales the totals less the taxes are what is due, no less than the listed
\* prices less the discounts, and the taxes are off by half a cent a sale at most.
LEMMA SalesBalance ==
  ASSUME ReportsInv, NEW S \in SUBSET DOMAIN book
  PROVE  /\ Summed("total", S) - Summed("tax", S) = Payable(S)
         /\ Summed("subtotal", S) - Summed("discount", S) <= Payable(S)
         /\ ExactTax(S) \in Int
         /\ 10000 * Summed("tax", S) >= ExactTax(S) - 4999 * Cardinality(S)
         /\ 10000 * Summed("tax", S) <= ExactTax(S) + 5000 * Cardinality(S)
<1> DEFINE due == [k \in S |-> Taxable(book[k].lines)]
           exact == [k \in S |-> Taxable(book[k].lines) * book[k].amounts.bps]
           floor == [k \in S |-> book[k].amounts.discount + Taxable(book[k].lines)]
           total == Column("total", S)
           tax == Column("tax", S)
           gross == Column("subtotal", S)
           discount == Column("discount", S)
<1>1. IsFiniteSet(S) /\ S \in SUBSET S
  BY SalesFinite
<1>2. due \in [S -> Int] /\ exact \in [S -> Int] /\ floor \in [S -> Int]
  BY SaleFacts DEF Amounts
<1>3. \A k \in S: due[k] = Taxable(book[k].lines)
  OBVIOUS
<1>4. \A k \in S: exact[k] = Taxable(book[k].lines) * book[k].amounts.bps
  OBVIOUS
<1>5. \A k \in S: total[k] = due[k] + tax[k]
  BY SaleFacts DEF Column
<1>6. \A k \in S: floor[k] = discount[k] + due[k]
  BY DEF Column
<1>7. \A k \in S: gross[k] <= floor[k]
  BY SaleFacts DEF Column
<1>8. Rounds(tax, exact, S)
  BY SaleFacts DEF Column, Rounds
<1>9. /\ total \in [S -> Int] /\ tax \in [S -> Int]
      /\ gross \in [S -> Int] /\ discount \in [S -> Int]
      /\ Summed("total", S) = Sum(total, S) /\ Summed("tax", S) = Sum(tax, S)
      /\ Summed("subtotal", S) = Sum(gross, S) /\ Summed("discount", S) = Sum(discount, S)
  BY <1>1, ColumnSums DEF Amounts
<1> HIDE DEF due, exact, floor, total, tax, gross, discount
<1>10. Payable(S) = Sum(due, S)
  BY <1>1, <1>2, <1>3, PayableIs
<1>11. ExactTax(S) = Sum(exact, S)
  BY <1>1, <1>2, <1>4, ExactTaxIs
<1>12. /\ Sum(due, S) \in Int /\ Sum(exact, S) \in Int /\ Sum(tax, S) \in Int
       /\ Sum(discount, S) \in Int /\ Sum(gross, S) \in Int /\ Sum(floor, S) \in Int
  BY <1>1, <1>2, <1>9, SumType
<1>13. Sum(total, S) = Sum(due, S) + Sum(tax, S)
  BY <1>1, <1>2, <1>5, <1>9, SumPlus
<1>14. Sum(floor, S) = Sum(discount, S) + Sum(due, S)
  BY <1>1, <1>2, <1>6, <1>9, SumPlus
<1>15. Sum(gross, S) <= Sum(floor, S)
  BY <1>1, <1>2, <1>7, <1>9, SumOrder
<1>16. /\ 10000 * Sum(tax, S) >= Sum(exact, S) - 4999 * Cardinality(S)
       /\ 10000 * Sum(tax, S) <= Sum(exact, S) + 5000 * Cardinality(S)
  BY <1>1, <1>2, <1>8, <1>9, SumRounded
<1> QED BY <1>9, <1>10, <1>11, <1>12, <1>13, <1>14, <1>15, <1>16

\* One more sale in the walk over the book, newest first, and the walk as a function of
\* how many sales it has passed.
Listed(x, k, day) == IF BusinessDate(book[k].at) = day THEN <<book[k]>> \o x ELSE x
Lists(h, n, day) ==
  h = [k \in 0..n |-> IF k = 0 THEN <<>> ELSE Listed(h[k - 1], k, day)]

\* That recursion has a solution.
LEMMA ListsExists ==
  ASSUME NEW day, NEW n \in Nat
  PROVE  \E h: Lists(h, n, day)
<1> DEFINE N == {m \in Nat: \E h: Lists(h, m, day)}
<1>1. 0 \in N
  <2>1. Lists([k \in 0..0 |-> <<>>], 0, day)
    BY DEF Lists
  <2> QED BY <2>1
<1>2. ASSUME NEW m \in N PROVE m + 1 \in N
  <2>1. PICK h: Lists(h, m, day)
    BY <1>2
  <2> DEFINE e == [k \in 0..(m + 1) |-> IF k = 0 THEN <<>> ELSE Listed(h[k - 1], k, day)]
  <2>2. m \in Nat /\ m + 1 \in Nat
    BY <1>2
  <2>3. \A k \in 0..m: k \in 0..(m + 1) /\ h[k] = IF k = 0 THEN <<>> ELSE Listed(h[k - 1], k, day)
    BY <2>1, <2>2 DEF Lists
  <2>4. \A k \in 0..m: e[k] = h[k]
    BY <2>3
  <2>5. \A k \in 0..(m + 1): k # 0 => k - 1 \in 0..m
    BY <2>2
  <2>6. \A k \in 0..(m + 1): k # 0 => e[k - 1] = h[k - 1]
    BY <2>4, <2>5
  <2>7. Lists(e, m + 1, day)
    BY <2>6 DEF Lists
  <2> HIDE DEF e
  <2> QED BY <2>2, <2>7
<1>3. N \subseteq Nat
  OBVIOUS
<1>4. N = Nat
  <2> HIDE DEF N
  <2> QED BY <1>1, <1>2, <1>3, AllNumbers
<1> QED BY <1>4

\* Each step lists one sale of the day or passes one of another.
LEMMA ListedOne ==
  ASSUME NEW x \in Seq(Booked), NEW k \in DOMAIN book, book[k] \in Booked, NEW day
  PROVE  /\ Listed(x, k, day) \in Seq(Booked)
         /\ BusinessDate(book[k].at) = day => Len(Listed(x, k, day)) = Len(x) + 1
         /\ BusinessDate(book[k].at) # day => Listed(x, k, day) = x
<1>1. CASE BusinessDate(book[k].at) = day
  <2> DEFINE sale == book[k]
  <2>1. sale \in Booked
    OBVIOUS
  <2>2. Listed(x, k, day) = <<sale>> \o x
    BY <1>1 DEF Listed
  <2> HIDE DEF sale
  <2>3. <<sale>> \o x \in Seq(Booked) /\ Len(<<sale>> \o x) = Len(x) + 1
    BY <2>1
  <2> QED BY <1>1, <2>2, <2>3
<1>2. CASE BusinessDate(book[k].at) # day
  BY <1>2 DEF Listed
<1> QED BY <1>1, <1>2

\* The history of a day lists each of its sales once.
LEMMA HistoryCounts ==
  ASSUME ReportsInv, NEW day
  PROVE  Len(HistoryOf(day)) = Cardinality(SalesOf(day))
<1> DEFINE L == Len(book)
           list[k \in 0..Len(book)] ==
             IF k = 0 THEN <<>>
             ELSE IF BusinessDate(book[k].at) = day THEN <<book[k]>> \o list[k - 1]
             ELSE list[k - 1]
<1>1. L \in Nat /\ DOMAIN book = 1..L /\ \A k \in 1..L: book[k] \in Booked
  BY DEF ReportsInv
<1>2. Lists(list, L, day)
  <2>1. PICK h: Lists(h, L, day)
    BY <1>1, ListsExists
  <2>2. h = [k \in 0..Len(book) |->
               IF k = 0 THEN <<>>
               ELSE IF BusinessDate(book[k].at) = day THEN <<book[k]>> \o h[k - 1]
               ELSE h[k - 1]]
    BY <2>1 DEF Lists, Listed
  <2>3. list = [k \in 0..Len(book) |->
                  IF k = 0 THEN <<>>
                  ELSE IF BusinessDate(book[k].at) = day THEN <<book[k]>> \o list[k - 1]
                  ELSE list[k - 1]]
    BY <2>2
  <2> HIDE DEF list
  <2> QED BY <2>3 DEF Lists, Listed
<1>3. HistoryOf(day) = list[L]
  BY DEF HistoryOf
<1> HIDE DEF list
<1>4. list[0] = <<>> /\ \A k \in 1..L: list[k] = Listed(list[k - 1], k, day)
  <2>1. \A k \in 0..L: list[k] = IF k = 0 THEN <<>> ELSE Listed(list[k - 1], k, day)
    BY <1>2 DEF Lists
  <2>2. 0 \in 0..L /\ \A k \in 1..L: k \in 0..L /\ k # 0
    BY <1>1
  <2> QED BY <2>1, <2>2
<1> DEFINE Of(n) == {k \in 1..n: BusinessDate(book[k].at) = day}
           Told(n) == list[n] \in Seq(Booked) /\ Len(list[n]) = Cardinality(Of(n))
           M == {n \in Nat: n <= L => Told(n)}
<1>5. \A n \in Nat: n <= L => Of(n) \in SUBSET DOMAIN book
  BY <1>1
<1>6. 0 \in M
  <2>1. Of(0) = {}
    OBVIOUS
  <2>2. Cardinality(Of(0)) = 0
    BY <2>1, FS_EmptySet
  <2>3. <<>> \in Seq(Booked) /\ Len(<<>>) = 0
    OBVIOUS
  <2>4. Told(0)
    BY <1>4, <2>2, <2>3
  <2> HIDE DEF Told
  <2> QED BY <2>4
<1>7. ASSUME NEW n \in M PROVE n + 1 \in M
  <2>1. n \in Nat /\ n + 1 \in Nat /\ (n <= L => Told(n))
    BY <1>7
  <2>2. ASSUME n + 1 <= L PROVE Told(n + 1)
    <3>1. n + 1 \in 1..L /\ n <= L /\ (n + 1) - 1 = n
      BY <1>1, <2>1, <2>2
    <3>2. list[n] \in Seq(Booked) /\ Len(list[n]) = Cardinality(Of(n))
      BY <2>1, <3>1
    <3>3. list[n + 1] = Listed(list[n], n + 1, day)
      BY <1>4, <3>1
    <3>4. n + 1 \in DOMAIN book /\ book[n + 1] \in Booked
      BY <1>1, <3>1
    <3>5. IsFiniteSet(Of(n)) /\ Cardinality(Of(n)) \in Nat
      BY <1>5, <2>1, <3>1, SalesFinite
    <3>6. 1..(n + 1) = (1..n) \cup {n + 1} /\ n + 1 \notin 1..n
      BY <2>1
    <3>7. CASE BusinessDate(book[n + 1].at) = day
      <4>1. Of(n + 1) = Of(n) \cup {n + 1} /\ n + 1 \notin Of(n)
        BY <3>6, <3>7
      <4>2. Len(list[n + 1]) = Len(list[n]) + 1 /\ list[n + 1] \in Seq(Booked)
        BY <3>2, <3>3, <3>4, <3>7, ListedOne
      <4> HIDE DEF Of
      <4>3. Cardinality(Of(n + 1)) = Cardinality(Of(n)) + 1
        BY <3>5, <4>1, OneMore
      <4> QED BY <3>2, <4>2, <4>3
    <3>8. CASE BusinessDate(book[n + 1].at) # day
      <4>1. Of(n + 1) = Of(n)
        BY <3>6, <3>8
      <4>2. list[n + 1] = list[n]
        BY <3>2, <3>3, <3>4, <3>8, ListedOne
      <4> QED BY <3>2, <4>1, <4>2
    <3> QED BY <3>7, <3>8
  <2> HIDE DEF Told
  <2> QED BY <2>1, <2>2
<1>8. L \in M
  <2>1. M \subseteq Nat
    OBVIOUS
  <2>2. M = Nat
    <3> HIDE DEF M
    <3> QED BY <1>6, <1>7, <2>1, AllNumbers
  <2> QED BY <1>1, <2>2
<1>9. Len(list[L]) = Cardinality(Of(L))
  BY <1>1, <1>8
<1>10. SalesOf(day) = Of(L)
  BY <1>1 DEF SalesOf
<1> QED BY <1>3, <1>9, <1>10

\* A day's report tells how many sales the day has and where its money came from.
LEMMA DayCounts ==
  ASSUME ReportsInv, NEW d
  PROVE  /\ DailyReport(d).completed = Cardinality(SalesOf(d) \cap Kept)
         /\ DailyReport(d).completed + DailyReport(d).voided = Cardinality(SalesOf(d))
         /\ DailyReport(d).cash + DailyReport(d).card = DailyReport(d).total
<1> DEFINE done == SalesOf(d) \cap Kept
           paid(method) == {k \in done: book[k].method = method}
           col == Column("total", done)
<1>1. SalesOf(d) \in SUBSET DOMAIN book /\ done \in SUBSET DOMAIN book
  BY DEF SalesOf
<1>2. /\ Cardinality(SalesOf(d) \ done) = Cardinality(SalesOf(d)) - Cardinality(done)
      /\ Cardinality(SalesOf(d)) \in Nat /\ Cardinality(done) \in Nat
  <2>1. IsFiniteSet(SalesOf(d)) /\ SalesOf(d) \cap done = done
    BY <1>1, SalesFinite
  <2>2. Cardinality(SalesOf(d) \ done) = Cardinality(SalesOf(d)) - Cardinality(SalesOf(d) \cap done)
    BY <2>1, FS_Difference
  <2> QED BY <1>1, <2>1, <2>2, SalesFinite
<1>3. /\ paid("CASH") \in SUBSET done /\ paid("CARD") \in SUBSET done
      /\ paid("CASH") \cap paid("CARD") = {} /\ paid("CASH") \cup paid("CARD") = done
  BY <1>1, SaleFacts
<1>4. /\ col \in [done -> Int] /\ \A T \in SUBSET done: Summed("total", T) = Sum(col, T)
  BY <1>1, ColumnSums DEF Amounts
<1>5. Summed("total", done) = Summed("total", paid("CASH")) + Summed("total", paid("CARD"))
  <2>1. IsFiniteSet(done) /\ done \in SUBSET done
    BY <1>1, SalesFinite
  <2> HIDE DEF col, done, paid
  <2>2. Sum(col, paid("CASH") \cup paid("CARD")) = Sum(col, paid("CASH")) + Sum(col, paid("CARD"))
    BY <1>3, <1>4, <2>1, SumSplit
  <2> QED BY <1>3, <1>4, <2>1, <2>2
<1>6. /\ DailyReport(d).completed = Cardinality(done)
      /\ DailyReport(d).voided = Cardinality(SalesOf(d) \ done)
      /\ DailyReport(d).total = Summed("total", done)
      /\ DailyReport(d).cash = Summed("total", paid("CASH"))
      /\ DailyReport(d).card = Summed("total", paid("CARD"))
  BY DEF DailyReport
<1> QED BY <1>2, <1>5, <1>6

\* Every sale is in the book under one day, so the reports of the days that have sales
\* add up to the book.
LEMMA DaysBalance ==
  ASSUME ReportsInv
  PROVE  Takings({BusinessDate(book[k].at) : k \in DOMAIN book}) = Summed("total", Kept)
<1> DEFINE D == {BusinessDate(book[k].at) : k \in DOMAIN book}
           of == [k \in DOMAIN book |-> BusinessDate(book[k].at)]
           on == [k \in Kept |-> BusinessDate(book[k].at)]
           total == Column("total", Kept)
           daily == [d \in D |-> DailyReport(d).total]
<1>1. Kept \in SUBSET DOMAIN book /\ IsFiniteSet(Kept) /\ IsFiniteSet(DOMAIN book)
  BY SalesFinite DEF Kept
<1>2. IsFiniteSet(D)
  <2>1. of \in Surjection(DOMAIN book, D)
    BY DEF Surjection
  <2> HIDE DEF of, D
  <2> QED BY <1>1, <2>1, FS_Surjection
<1>3. /\ total \in [Kept -> Int]
      /\ \A T \in SUBSET Kept: Summed("total", T) = Sum(total, T)
  BY <1>1, ColumnSums DEF Amounts
<1>4. on \in [Kept -> D]
  BY <1>1
<1>5. ASSUME NEW d \in D PROVE daily[d] = Sum(total, {k \in Kept: on[k] = d})
  <2>1. {k \in Kept: on[k] = d} = SalesOf(d) \cap Kept
    BY <1>1 DEF SalesOf
  <2>2. SalesOf(d) \cap Kept \in SUBSET Kept
    OBVIOUS
  <2>3. daily[d] = Summed("total", SalesOf(d) \cap Kept)
    BY DEF DailyReport
  <2> HIDE DEF daily, total, on, D
  <2> QED BY <1>3, <2>1, <2>2, <2>3
<1>6. ASSUME NEW d \in D PROVE daily[d] \in Int
  <2>1. {k \in Kept: on[k] = d} \in SUBSET Kept
    OBVIOUS
  <2>2. daily[d] = Sum(total, {k \in Kept: on[k] = d})
    BY <1>5
  <2> HIDE DEF daily, total, on, D
  <2>3. Sum(total, {k \in Kept: on[k] = d}) \in Int
    BY <1>1, <1>3, <2>1, SumType
  <2> QED BY <2>2, <2>3
<1>7. daily \in [D -> Int] /\ \A d \in D: daily[d] = DailyReport(d).total
  BY <1>6
<1>8. SumsDaily(daily, total, Kept, on, D)
  BY <1>5 DEF SumsDaily
<1> HIDE DEF D, daily, total, on
<1>9. Takings(D) = Sum(daily, D)
  BY <1>2, <1>7, TakingsIs
<1>10. Sum(daily, D) = Sum(total, Kept)
  BY <1>1, <1>2, <1>3, <1>4, <1>7, <1>8, SumByDay
<1>11. Sum(total, Kept) = Summed("total", Kept)
  BY <1>3
<1> QED BY <1>9, <1>10, <1>11 DEF D

\* The book balances.
LEMMA BookBalances == ReportsInv => ReportsBalance
<1> SUFFICES ASSUME ReportsInv PROVE ReportsBalance
  OBVIOUS
<1> DEFINE days == {BusinessDate(book[k].at) : k \in DOMAIN book}
<1>1. ASSUME NEW d \in days PROVE DayBalances(d)
  <2> DEFINE S == SalesOf(d) \cap Kept
             day == DailyReport(d)
  <2>1. S \in SUBSET DOMAIN book
    BY DEF SalesOf
  <2>2. /\ day.gross = Summed("subtotal", S) /\ day.discount = Summed("discount", S)
        /\ day.tax = Summed("tax", S) /\ day.total = Summed("total", S)
    BY DEF DailyReport
  <2>3. /\ day.completed = Cardinality(S)
        /\ day.completed + day.voided = Len(HistoryOf(d))
        /\ day.cash + day.card = day.total
    BY DayCounts, HistoryCounts
  <2>4. Cardinality(S) \in Nat /\ Summed("tax", S) \in Int
    BY <2>1, SalesFinite, ColumnSums DEF Amounts
  <2> HIDE DEF S, day
  <2>5. /\ Summed("total", S) - Summed("tax", S) = Payable(S)
        /\ Summed("subtotal", S) - Summed("discount", S) <= Payable(S)
        /\ ExactTax(S) \in Int
        /\ 10000 * Summed("tax", S) >= ExactTax(S) - 4999 * Cardinality(S)
        /\ 10000 * Summed("tax", S) <= ExactTax(S) + 5000 * Cardinality(S)
    BY <2>1, SalesBalance
  <2>6. \/ Cardinality(S) = 0
        \/ 10000 * Summed("tax", S) \in (ExactTax(S) - 5000 * Cardinality(S) + 1) ..
                                        (ExactTax(S) + 5000 * Cardinality(S))
    BY <2>4, <2>5
  <2> QED BY <2>2, <2>3, <2>5, <2>6 DEF S, day, DayBalances
<1>2. Takings(days) = Summed("total", Kept)
  BY DaysBalance
<1> HIDE DEF days
<1> QED BY <1>1, <1>2 DEF ReportsBalance, days

\* A set of numbers has a least.
LEMMA LeastExists ==
  ASSUME NEW T \in SUBSET Nat, T # {}
  PROVE  \E t \in T: \A u \in T: t <= u
<1>1. PICK t \in T: \A u \in T: ~(<<u, t>> \in OpToRel(<, Nat))
  BY NatLessThanWellFounded, WFMin
<1>2. ASSUME NEW u \in T PROVE t <= u
  <2>1. CASE u < t
    <3>1. <<u, t>> \in OpToRel(<, Nat)
      BY <2>1 DEF OpToRel
    <3> QED BY <1>1, <3>1
  <2>2. CASE ~(u < t)
    BY <2>2
  <2> QED BY <2>1, <2>2
<1> QED BY <1>2

\* A finite set of numbers has a greatest.
LEMMA GreatestExists ==
  ASSUME NEW S \in SUBSET Nat, S # {}, IsFiniteSet(S)
  PROVE  \E t \in S: \A u \in S: u <= t
<1> DEFINE A == {T \in SUBSET S: T = {} \/ \E t \in T: \A u \in T: u <= t}
<1>1. {} \in A
  OBVIOUS
<1>2. ASSUME NEW T \in SUBSET S, NEW x \in S \ T, T \in A PROVE T \cup {x} \in A
  <2>1. T \cup {x} \in SUBSET S /\ x \in T \cup {x} /\ x \in Nat
    OBVIOUS
  <2>2. CASE \A u \in T: u <= x
    <3>1. \A u \in T \cup {x}: u <= x
      BY <2>1, <2>2
    <3> QED BY <2>1, <3>1
  <2>3. CASE \E u \in T: ~(u <= x)
    <3>1. PICK t \in T: \A u \in T: u <= t
      BY <1>2, <2>3
    <3>2. PICK v \in T: ~(v <= x)
      BY <2>3
    <3>3. t \in Nat /\ v \in Nat /\ v <= t
      BY <3>1, <3>2
    <3>4. x <= t
      BY <2>1, <3>2, <3>3
    <3>5. \A u \in T \cup {x}: u <= t
      BY <3>1, <3>4
    <3> QED BY <2>1, <3>5
  <2> QED BY <2>2, <2>3
<1>3. S \in A
  <2> HIDE DEF A
  <2> QED BY <1>1, <1>2, FiniteInduct
<1> QED BY <1>3

\* At first the book is empty.
LEMMA BookOpens == ReportsInit => ReportsInv
<1> SUFFICES ASSUME ReportsInit PROVE ReportsInv
  OBVIOUS
<1>1. Min(Instants) \in Instants
  <2>1. \E t \in Instants: \A u \in Instants: t <= u
    BY ReportsAssumption, LeastExists
  <2> QED BY <2>1 DEF Min
<1>2. Max(Rates) \in Rates
  <2>1. \E t \in Rates: \A u \in Rates: u <= t
    BY ReportsAssumption, GreatestExists
  <2>2. \E t \in Rates: \A u \in Rates: t >= u
    BY <2>1, ReportsAssumption
  <2> QED BY <2>2 DEF Max
<1>3. book = <<>> /\ hour = Min(Instants) /\ rate = Max(Rates)
  BY DEF ReportsInit
<1>4. hour \in Nat /\ rate \in Nat
  BY <1>1, <1>2, <1>3, ReportsAssumption
<1>5. book \in Seq(Booked) /\ DOMAIN book = {}
  BY <1>3
<1> QED BY <1>4, <1>5 DEF ReportsInv

\* A sale joins the book with the amounts of its lines, and a void changes none.
LEMMA BookStep == ReportsInv /\ [ReportsNext]_reportsVars => ReportsInv'
<1> SUFFICES ASSUME ReportsInv, [ReportsNext]_reportsVars PROVE ReportsInv'
  OBVIOUS
<1> USE DEF ReportsInv
<1>1. ASSUME NEW lines \in SUBSET Menu, NEW method \in {"CASH", "CARD"},
             Complete(lines, method)
      PROVE  ReportsInv'
  <2> DEFINE sale == [at |-> hour, voided |-> FALSE, method |-> method,
                      lines |-> lines, amounts |-> ReviewTotals(lines, rate)]
  <2>1. sale \in Booked
    BY DEF Booked, Totals
  <2>2. sale.lines = lines /\ sale.amounts = ReviewTotals(lines, rate)
    OBVIOUS
  <2>3. book' = Append(book, sale) /\ rate' = rate /\ hour' = hour
    BY <1>1 DEF Complete
  <2> HIDE DEF sale
  <2>4. book' \in Seq(Booked)
    BY <2>1, <2>3
  <2>5. ASSUME NEW k \in DOMAIN book'
        PROVE  \E bps \in Nat: book'[k].amounts = ReviewTotals(book'[k].lines, bps)
    <3>1. CASE k = Len(book) + 1
      <4>1. book'[k] = sale
        BY <2>3, <3>1
      <4> QED BY <2>2, <4>1
    <3>2. CASE k # Len(book) + 1
      <4>1. k \in DOMAIN book /\ book'[k] = book[k]
        BY <2>1, <2>3, <3>2
      <4> QED BY <4>1
    <3> QED BY <3>1, <3>2
  <2> QED BY <2>3, <2>4, <2>5
<1>2. ASSUME NEW n \in DOMAIN book, VoidBooked(n) PROVE ReportsInv'
  <2>1. book' = [book EXCEPT ![n].voided = TRUE] /\ rate' = rate /\ hour' = hour
    BY <1>2 DEF VoidBooked
  <2>2. DOMAIN book' = DOMAIN book /\ Len(book) \in Nat /\ DOMAIN book = 1..Len(book)
    BY <2>1
  <2>3. ASSUME NEW k \in DOMAIN book
        PROVE  /\ book[k] \in Booked /\ book'[k] \in Booked
               /\ book'[k].amounts = book[k].amounts /\ book'[k].lines = book[k].lines
    <3>1. book[k] \in Booked
      OBVIOUS
    <3>2. book'[k] = book[k] \/ book'[k] = [book[k] EXCEPT !.voided = TRUE]
      BY <2>1
    <3>3. \A sale \in Booked: /\ [sale EXCEPT !.voided = TRUE] \in Booked
                              /\ [sale EXCEPT !.voided = TRUE].amounts = sale.amounts
                              /\ [sale EXCEPT !.voided = TRUE].lines = sale.lines
      BY DEF Booked
    <3> HIDE DEF ReportsInv
    <3> QED BY <3>1, <3>2, <3>3
  <2>4. book' \in Seq(Booked)
    <3>1. book' = [k \in 1..Len(book) |-> book'[k]]
      BY <2>1, <2>2
    <3>2. book' \in [1..Len(book) -> Booked]
      BY <2>2, <2>3, <3>1
    <3> QED BY <2>2, <3>2
  <2> QED BY <2>1, <2>2, <2>3, <2>4
<1>3. CASE ConfigureTax
  BY <1>3, ReportsAssumption DEF ConfigureTax
<1>4. CASE ZoneChanges
  BY <1>4 DEF ZoneChanges
<1>5. CASE ClockTicks
  BY <1>5, ReportsAssumption DEF ClockTicks
<1>6. CASE UNCHANGED reportsVars
  BY <1>6 DEF reportsVars
<1> QED BY <1>1, <1>2, <1>3, <1>4, <1>5, <1>6 DEF ReportsNext

\* The reports balance for any menu, tax rates, time zones and number of sales, whatever is
\* voided, whenever the rate or the zone changes.
THEOREM ReportsAddUp == ReportsSpec => []ReportsBalance
BY BookOpens, BookStep, BookBalances, PTL DEF ReportsSpec
===============================================================================
