------------------------------ MODULE MCCheckout ------------------------------
(* Two small stores for Checkout, each a scene of its own.  THE COUNTER sells  *)
(* one product in Cash and by Card under a tax rate that changes, at most once *)
(* where its stock is adjusted.  THE SHELVES hold two products and sell them   *)
(* in one cart, so that sales, voids and adjustments of one run between those  *)
(* of the other; the second has a price and a stock that is never adjusted.    *)
EXTENDS Checkout, TLC

CONSTANTS r1, r2, phone, case, cash, card, bundle

VARIABLE scene

MCMethod == (cash :> "CASH") @@ (card :> "CARD") @@ (bundle :> "CASH")
MCDemand == (cash :> (phone :> 1 @@ case :> 0)) @@ (card :> (phone :> 2 @@ case :> 0))
            @@ (bundle :> (phone :> 1 @@ case :> 1))
MCTotal == (cash :> (0 :> 10 @@ 1 :> 11)) @@ (card :> (0 :> 20 @@ 1 :> 22))
           @@ (bundle :> (0 :> 21 @@ 1 :> 23))
MCSold == (cash :> (phone :> {10} @@ case :> {})) @@ (card :> (phone :> {10} @@ case :> {}))
          @@ (bundle :> (phone :> {11} @@ case :> {10}))
Symmetric == Permutations(Requests)

Used == {rows[r].fingerprint.cart : r \in DOMAIN rows}
Listed == {rows[r].fingerprint.listed[phone] : r \in DOMAIN rows} \cup {price[phone]}

Scene ==
  /\ scene = "THE COUNTER" => /\ shelf[case] = "ABSENT"
                              /\ bundle \notin Used /\ Listed \subseteq {0, 10}
                              /\ <<"INVENTORY_ADJUSTED", phone>> \in audits =>
                                   Cardinality(DOMAIN rows) <= 1
  /\ scene = "THE SHELVES" => /\ Used \subseteq {bundle}
                              /\ taxRate \in {Unset, 0}
                              /\ \/ shelf[case] = "ABSENT"
                                 \/ shelf[case] = "ACTIVE" /\ price[case] = 10
                                    /\ stock[case] + Len(sales) >= StockMax
                              /\ <<"INVENTORY_ADJUSTED", case>> \notin audits

SceneInit == Init /\ scene \in {"THE COUNTER", "THE SHELVES"}
SceneNext == Next /\ UNCHANGED scene /\ Scene'
Scenes == SceneInit /\ [][SceneNext]_<<vars, scene>>
===============================================================================
