----------------------------- MODULE CheckoutProofs -----------------------------
(***************************************************************************)
(* What is proved about Checkout for every set of products, orders, buyers *)
(* and sessions: the inductive invariant IInv, the safety properties the   *)
(* runs check on a small instance, and that Checkout implements Store.     *)
(***************************************************************************)
EXTENDS Checkout, FiniteSetTheorems, TLAPS

(***************************************************************************)
(* The data.                                                               *)
(***************************************************************************)
\* The records of the model are told apart by their kind, and a request or an
\* order has the fields the transactions use.
LEMMA BuyRequestFacts ==
  ASSUME NEW r \in BuyRequest
  PROVE  /\ r.kind \in {"checkout", "initiate"}
         /\ r.buyer \in Buyers
         /\ r.key \in Keys \cup {NoKey}
         /\ r.kind = "initiate" => r.key = NoKey
         /\ r.cart \in Carts
         /\ r.cart \in [Products -> Nat]
         /\ r \notin CancelRequest
         /\ r # NoReq
  BY CartsAssumption DEF BuyRequest, CheckoutRequest, InitiateRequest, CancelRequest, NoReq

LEMMA CancelRequestFacts ==
  ASSUME NEW r \in CancelRequest
  PROVE  r.kind = "cancel" /\ r.order \in Orders /\ r \notin BuyRequest /\ r # NoReq
  BY DEF BuyRequest, CheckoutRequest, InitiateRequest, CancelRequest, NoReq

\* A missing order is not an order.
LEMMA NoOrderIsNone == NoOrder \notin Order
  BY DEF NoOrder, Order, OrderStatus

\* A purchase inserts an order of the requested buyer, key and cart.
LEMMA NewOrderFacts ==
  ASSUME NEW r \in BuyRequest
  PROVE  /\ NewOrder(r) \in Order
         /\ NewOrder(r) # NoOrder
         /\ NewOrder(r).kind = r.kind
         /\ NewOrder(r).buyer = r.buyer
         /\ NewOrder(r).key = r.key
         /\ NewOrder(r).cart = r.cart
         /\ r.kind = "checkout" => NewOrder(r).pay = "captured"
<1>1. NewOrder(r) \in Order
  BY BuyRequestFacts DEF NewOrder, Order, OrderStatus, PaymentStatus, ItemStatus
<1> QED  BY <1>1, NoOrderIsNone DEF NewOrder

\* A cancellation leaves buyer, key and cart alone.
LEMMA CancelledOrderFacts ==
  ASSUME NEW order \in Order
  PROVE  /\ CancelledOrder(order) \in Order
         /\ CancelledOrder(order) # NoOrder
         /\ CancelledOrder(order).status = "cancelled"
         /\ CancelledOrder(order).kind = order.kind
         /\ CancelledOrder(order).buyer = order.buyer
         /\ CancelledOrder(order).key = order.key
         /\ CancelledOrder(order).cart = order.cart
         /\ CancelledOrder(order).pay = "refunded"
<1>1. CancelledOrder(order) \in Order
  BY DEF CancelledOrder, Order, OrderStatus, PaymentStatus, ItemStatus
<1> QED  BY <1>1, NoOrderIsNone DEF CancelledOrder, Order

(***************************************************************************)
(* The initial states.                                                     *)
(***************************************************************************)
LEMMA InitInv == Init => IInv
<1> SUFFICES ASSUME Init PROVE IInv
  OBVIOUS
<1> USE DEF Init
<1>1. TypeOK
  BY StockAssumption DEF TypeOK, Stage
<1>2. RowsExclusive /\ OrdersExclusive /\ AdvisoryExclusive /\ StageOK
  BY DEF RowsExclusive, OrdersExclusive, AdvisoryExclusive, StageOK, HoldsOrder,
         HoldsAdvisory
<1>3. BuyerLocks /\ CancelLocks /\ StillFirst
  BY CancelRequestFacts DEF BuyerLocks, CancelLocks, StillFirst
<1>4. ViewsCurrent /\ StockConserved /\ StockNeverNegative
  BY StockAssumption DEF ViewsCurrent, StockConserved, StockNeverNegative
<1>5. OneOrderPerKey /\ OneLiveAttemptPerBuyer
  BY DEF OneOrderPerKey, OneLiveAttemptPerBuyer, PlacedOrders
<1> QED  BY <1>1, <1>2, <1>3, <1>4, <1>5 DEF IInv

(***************************************************************************)
(* The steps.                                                              *)
(***************************************************************************)
\* A request arrives at an idle session.
LEMMA BeginInv ==
  ASSUME IInv, NEW s \in Sessions, NEW r \in Requests, Begin(s, r)
  PROVE  IInv'
<1> USE DEF IInv
<1>0. r \in BuyRequest \cup CancelRequest
  BY DEF Requests
<1>1. TypeOK'
  BY <1>0 DEF TypeOK, Begin, FirstStep, Stage, ledger
<1>2. UNCHANGED <<stock, orders, held, want, next, view, supply, reserved>>
  BY DEF Begin, ledger
<1>3. /\ \A t \in Sessions : t # s => pc'[t] = pc[t] /\ req'[t] = req[t]
      /\ pc[s] = "idle"
      /\ req'[s] = r
      /\ pc'[s] = FirstStep(r)
  BY DEF TypeOK, Begin
<1>4. held[s] = {} /\ want[s] = {}
  BY <1>3 DEF StageOK
<1>5. RowsExclusive'
  BY <1>2 DEF RowsExclusive
<1>6. OrdersExclusive'
  BY <1>3 DEF OrdersExclusive, HoldsOrder, FirstStep
<1>7. AdvisoryExclusive'
  <2> SUFFICES ASSUME NEW t \in Sessions, NEW u \in Sessions, t # u,
                      pc'[t] \in {"authorize", "lock"}, HoldsAdvisory(u, req[t])'
               PROVE  FALSE
    BY DEF AdvisoryExclusive
  <2>1. CASE s \notin {t, u}
    BY <1>3, <2>1 DEF AdvisoryExclusive, HoldsAdvisory
  <2>2. CASE s \in {t, u}
    <3>1. r.kind = "checkout" /\ r.key = NoKey
      BY <1>3, <2>2 DEF HoldsAdvisory, FirstStep
    <3> QED  BY <1>3, <2>2, <3>1 DEF HoldsAdvisory, SameAdvisory
  <2> QED  BY <2>1, <2>2
<1>8. StageOK'
  <2>1. /\ FirstStep(r) = "serialize" => r \in BuyRequest /\ (r.kind = "initiate" \/ r.key # NoKey)
        /\ FirstStep(r) = "authorize" => r \in BuyRequest /\ r.kind = "checkout"
        /\ FirstStep(r) = "order" => r \in CancelRequest
        /\ FirstStep(r) \notin {"idle", "lock"}
    BY <1>0, BuyRequestFacts, CancelRequestFacts DEF FirstStep
  <2> QED  BY <1>2, <1>3, <1>4, <2>1 DEF StageOK
<1>9. BuyerLocks'
  BY <1>2, <1>3 DEF BuyerLocks, FirstStep
<1>10. CancelLocks'
  <2>1. r \in CancelRequest => orders[r.order] # NoOrder
    BY BuyRequestFacts DEF Requests, PlacedOrders
  <2> QED  BY <1>2, <1>3, <2>1 DEF CancelLocks, FirstStep
<1>11. StillFirst'
  <2>1. FirstStep(r) \in {"authorize", "lock"} => Earlier(r) = {}
    BY DEF FirstStep, Earlier, Repeats
  <2>2. \A q : Earlier(q)' = Earlier(q)
    BY <1>2 DEF Earlier
  <2> QED  BY <1>2, <1>3, <2>1, <2>2 DEF StillFirst, Earlier
<1>12. ViewsCurrent' /\ StockConserved' /\ StockNeverNegative'
  BY <1>2 DEF ViewsCurrent, StockConserved, StockNeverNegative
<1>13. OneOrderPerKey' /\ OneLiveAttemptPerBuyer'
  BY <1>2 DEF OneOrderPerKey, OneLiveAttemptPerBuyer, PlacedOrders, LiveAttempt
<1> QED  BY <1>1, <1>5, <1>6, <1>7, <1>8, <1>9, <1>10, <1>11, <1>12, <1>13

\* Facts about the end of a transaction, whatever it wrote.
LEMMA EndFacts ==
  ASSUME TypeOK, NEW s \in Sessions, End(s)
  PROVE  /\ \A t \in Sessions : t # s =>
              /\ pc'[t] = pc[t]
              /\ req'[t] = req[t]
              /\ held'[t] = held[t]
              /\ want'[t] = want[t]
              /\ next'[t] = next[t]
              /\ view'[t] = view[t]
         /\ pc'[s] = "idle"
         /\ req'[s] = NoReq
         /\ held'[s] = {}
         /\ want'[s] = {}
         /\ pc' \in [Sessions -> Stage]
         /\ req' \in [Sessions -> BuyRequest \cup CancelRequest \cup {NoReq}]
         /\ held' \in [Sessions -> SUBSET Products]
         /\ want' \in [Sessions -> SUBSET Products]
         /\ next' \in [Sessions -> Products \cup {NoProduct}]
         /\ view' \in [Sessions -> [Products -> Int]]
  BY DEF TypeOK, End, Stage

\* Ending a transaction can only free locks.
LEMMA EndKeepsLocks ==
  ASSUME IInv, NEW s \in Sessions, End(s)
  PROVE  RowsExclusive' /\ OrdersExclusive' /\ AdvisoryExclusive' /\ StageOK'
<1> USE EndFacts DEF IInv
<1>1. RowsExclusive'
  BY DEF RowsExclusive
<1>2. OrdersExclusive'
  BY DEF OrdersExclusive, HoldsOrder
<1>3. AdvisoryExclusive'
  BY DEF AdvisoryExclusive, HoldsAdvisory
<1>4. StageOK'
  BY DEF StageOK
<1> QED  BY <1>1, <1>2, <1>3, <1>4

\* A transaction that ends without having written anything: a repetition, a
\* refusal, a rollback.
LEMMA QuietEndInv ==
  ASSUME IInv, NEW s \in Sessions, End(s), UNCHANGED <<stock, orders, ledger>>
  PROVE  IInv'
<1> USE DEF IInv
<1>1. UNCHANGED <<stock, orders, supply, reserved>>
  BY DEF ledger
<1>2. TypeOK'
  BY <1>1, EndFacts DEF TypeOK
<1>3. BuyerLocks' /\ CancelLocks' /\ ViewsCurrent'
  <2>1. BuyerLocks'
    BY EndFacts DEF BuyerLocks
  <2>2. CancelLocks'
    BY <1>1, EndFacts, CancelRequestFacts DEF CancelLocks
  <2>3. ViewsCurrent'
    BY <1>1, EndFacts DEF ViewsCurrent
  <2> QED  BY <2>1, <2>2, <2>3
<1>4. StillFirst'
  BY <1>1, EndFacts DEF StillFirst, Earlier
<1>5. StockConserved' /\ StockNeverNegative'
  BY <1>1 DEF StockConserved, StockNeverNegative
<1>6. OneOrderPerKey' /\ OneLiveAttemptPerBuyer'
  BY <1>1 DEF OneOrderPerKey, OneLiveAttemptPerBuyer, PlacedOrders, LiveAttempt
<1> QED  BY <1>2, <1>3, <1>4, <1>5, <1>6, EndKeepsLocks

\* A transaction that passed its lookup goes on to lock the rows W.
LEMMA StartLockingInv ==
  ASSUME IInv, NEW s \in Sessions, NEW W \in SUBSET Products,
         StartLocking(s, W), UNCHANGED <<stock, orders, ledger>>,
         pc[s] \in {"serialize", "authorize", "order"},
         req[s] \in BuyRequest => /\ W = InCart(req[s].cart)
                                  /\ Earlier(req[s]) = {}
                                  /\ pc[s] = "serialize" => AdvisoryFree(s),
         req[s] \in CancelRequest => /\ W = Restorable(orders[req[s].order])
                                     /\ Cancellable(orders[req[s].order])
                                     /\ OrderFree(req[s].order)
  PROVE  IInv'
<1> USE DEF IInv
<1>1. UNCHANGED <<stock, orders, supply, reserved, req, held, view>>
  BY DEF StartLocking, ledger
<1>2. PICK n \in NextRows(req[s].kind, W) : next' = [next EXCEPT ![s] = n]
  BY DEF StartLocking
<1>3. n \in Products \cup {NoProduct} /\ (W # {} => n \in W)
  BY DEF NextRows, Ascending
<1>5. /\ \A t \in Sessions : t # s => pc'[t] = pc[t] /\ want'[t] = want[t] /\ next'[t] = next[t]
      /\ pc'[s] = "lock"
      /\ want'[s] = W
      /\ next'[s] = n
      /\ held[s] = {}
  BY <1>2 DEF TypeOK, StartLocking, StageOK
<1>6. req[s] \in BuyRequest \cup CancelRequest
  BY DEF StageOK
<1>7. TypeOK'
  BY <1>1, <1>2, <1>3 DEF TypeOK, StartLocking, Stage
<1>8. RowsExclusive'
  BY <1>1 DEF RowsExclusive
<1>9. OrdersExclusive'
  BY <1>1, <1>5, <1>6, BuyRequestFacts DEF OrdersExclusive, HoldsOrder, OrderFree
<1>10. AdvisoryExclusive'
  <2> SUFFICES ASSUME NEW t \in Sessions, NEW u \in Sessions, t # u,
                      pc'[t] \in {"authorize", "lock"}, HoldsAdvisory(u, req[t])'
               PROVE  FALSE
    BY DEF AdvisoryExclusive
  <2>1. CASE pc[s] = "authorize" \/ s \notin {t, u}
    BY <1>1, <1>5, <2>1 DEF AdvisoryExclusive, HoldsAdvisory
  <2>2. CASE pc[s] = "serialize" /\ s \in {t, u}
    <3>1. req[s] \in BuyRequest /\ AdvisoryFree(s)
      BY <2>2 DEF StageOK
    <3> QED  BY <1>1, <1>5, <2>2, <3>1 DEF AdvisoryFree, HoldsAdvisory, SameAdvisory
  <2>3. CASE pc[s] = "order" /\ s \in {t, u}
    <3>1. req[s].kind = "cancel"
      BY <2>3, CancelRequestFacts DEF StageOK
    <3> QED  BY <1>1, <2>3, <3>1 DEF HoldsAdvisory, SameAdvisory
  <2> QED  BY <2>1, <2>2, <2>3
<1>11. StageOK'
  BY <1>1, <1>5, <1>6 DEF StageOK
<1>12. BuyerLocks'
  BY <1>1, <1>5 DEF BuyerLocks, NextRows, Ascending
<1>13. CancelLocks'
  <2>1. \A o : Restorable(orders[o])' = Restorable(orders[o])
    BY <1>1 DEF Restorable
  <2> QED  BY <1>1, <1>3, <1>5, <2>1 DEF CancelLocks
<1>14. StillFirst'
  BY <1>1, <1>5 DEF StillFirst, Earlier
<1>15. ViewsCurrent' /\ StockConserved' /\ StockNeverNegative'
  BY <1>1 DEF ViewsCurrent, StockConserved, StockNeverNegative
<1>16. OneOrderPerKey' /\ OneLiveAttemptPerBuyer'
  BY <1>1 DEF OneOrderPerKey, OneLiveAttemptPerBuyer, PlacedOrders, LiveAttempt
<1> QED  BY <1>7, <1>8, <1>9, <1>10, <1>11, <1>12, <1>13, <1>14, <1>15, <1>16

LEMMA AuthorizeInv ==
  ASSUME IInv, NEW s \in Sessions, Authorize(s)
  PROVE  IInv'
<1>1. req[s] \in BuyRequest
  BY DEF IInv, StageOK, Authorize
<1>2. Earlier(req[s]) = {}
  BY <1>1 DEF IInv, StillFirst, Authorize
<1>3. InCart(req[s].cart) \in SUBSET Products
  BY DEF InCart
<1> QED  BY <1>1, <1>2, <1>3, StartLockingInv, BuyRequestFacts DEF Authorize

\* The lookup found nothing: on to the payment mock, or to the product rows.
LEMMA PassSerializeInv ==
  ASSUME IInv, NEW s \in Sessions, PassSerialize(s)
  PROVE  IInv'
<1>1. req[s] \in BuyRequest /\ pc[s] = "serialize"
  BY DEF IInv, StageOK, PassSerialize
<1>2. CASE req[s].kind # "checkout"
  <2>1. InCart(req[s].cart) \in SUBSET Products
    BY DEF InCart
  <2> QED  BY <1>1, <1>2, <2>1, StartLockingInv, BuyRequestFacts DEF PassSerialize
<1>3. CASE req[s].kind = "checkout"
  <2> USE DEF IInv
  <2>1. /\ UNCHANGED <<stock, orders, supply, reserved, req, held, want, next, view>>
        /\ \A t \in Sessions : t # s => pc'[t] = pc[t]
        /\ pc'[s] = "authorize"
        /\ Earlier(req[s]) = {}
        /\ AdvisoryFree(s)
    BY <1>3 DEF PassSerialize, ledger, TypeOK
  <2>2. TypeOK'
    BY <1>3, <2>1 DEF TypeOK, PassSerialize, Stage
  <2>3. RowsExclusive' /\ OrdersExclusive'
    BY <1>1, <2>1 DEF RowsExclusive, OrdersExclusive, HoldsOrder
  <2>4. AdvisoryExclusive'
    BY <1>1, <2>1 DEF AdvisoryExclusive, HoldsAdvisory, AdvisoryFree, SameAdvisory
  <2>5. StageOK'
    BY <1>1, <1>3, <2>1 DEF StageOK
  <2>6. BuyerLocks' /\ CancelLocks'
    <3>1. BuyerLocks'
      BY <1>1, <2>1 DEF BuyerLocks
    <3>2. CancelLocks'
      BY <1>1, <2>1 DEF CancelLocks, Restorable
    <3> QED  BY <3>1, <3>2
  <2>7. StillFirst'
    BY <1>1, <2>1 DEF StillFirst, Earlier
  <2>8. ViewsCurrent' /\ StockConserved' /\ StockNeverNegative'
    BY <2>1 DEF ViewsCurrent, StockConserved, StockNeverNegative
  <2>9. OneOrderPerKey' /\ OneLiveAttemptPerBuyer'
    BY <2>1 DEF OneOrderPerKey, OneLiveAttemptPerBuyer, PlacedOrders, LiveAttempt
  <2> QED  BY <2>2, <2>3, <2>4, <2>5, <2>6, <2>7, <2>8, <2>9
<1> QED  BY <1>2, <1>3

\* cancelOrder has the order: it goes on to the products, or refuses.
LEMMA LockOrderInv ==
  ASSUME IInv, NEW s \in Sessions, LockOrder(s)
  PROVE  IInv'
<1>1. req[s] \in CancelRequest /\ pc[s] = "order"
  BY DEF IInv, StageOK, LockOrder
<1>2. CASE Cancellable(orders[req[s].order])
  <2>1. Restorable(orders[req[s].order]) \in SUBSET Products
    BY DEF Restorable
  <2> QED  BY <1>1, <1>2, <2>1, StartLockingInv, CancelRequestFacts DEF LockOrder
<1>3. CASE ~Cancellable(orders[req[s].order])
  BY <1>1, <1>3, QuietEndInv DEF LockOrder
<1> QED  BY <1>2, <1>3

\* A purchase asks for the least row it still wants, and for none at the end.
LEMMA BuyerRowAscending ==
  ASSUME BuyerLocks, NEW s \in Sessions, pc[s] = "lock", req[s] \in BuyRequest
  PROVE  IF want[s] = {} THEN next[s] = NoProduct ELSE next[s] \in Ascending(want[s])
  BY BuyRequestFacts DEF BuyerLocks, NextRows

\* One product row is locked and read.
LEMMA LockRowInv ==
  ASSUME IInv, NEW s \in Sessions, LockRow(s)
  PROVE  IInv'
<1> USE DEF IInv
<1> DEFINE p == next[s]
           W == want[s] \ {p}
<1>1. UNCHANGED <<stock, orders, pc, req, supply, reserved>>
  BY DEF LockRow, ledger
<1>2. PICK n \in NextRows(req[s].kind, W) : next' = [next EXCEPT ![s] = n]
  BY DEF LockRow
<1>3. pc[s] = "lock" /\ want[s] # {} /\ req[s] \in BuyRequest \cup CancelRequest
  BY DEF LockRow, StageOK
<1>4. p \in want[s]
  BY <1>3, BuyerRowAscending DEF CancelLocks, Ascending
<1>5. p \in Products /\ W \in SUBSET Products
  BY <1>4 DEF TypeOK
<1>6. n \in Products \cup {NoProduct} /\ (W # {} => n \in W)
  BY <1>5 DEF NextRows, Ascending
<1>7. /\ \A t \in Sessions : t # s => /\ held'[t] = held[t]
                                      /\ want'[t] = want[t]
                                      /\ next'[t] = next[t]
                                      /\ view'[t] = view[t]
      /\ held'[s] = held[s] \cup {p}
      /\ want'[s] = W
      /\ next'[s] = n
      /\ view'[s] = [view[s] EXCEPT ![p] = stock[p]]
  BY <1>2 DEF LockRow, TypeOK
<1>8. TypeOK'
  <2>1. stock[p] \in Int
    BY <1>5 DEF TypeOK
  <2> QED  BY <1>1, <1>2, <1>5, <1>6, <2>1 DEF TypeOK, LockRow
<1>9. RowsExclusive'
  BY <1>7 DEF RowsExclusive, LockRow, RowFree
<1>10. OrdersExclusive' /\ AdvisoryExclusive' /\ StageOK'
  <2>1. OrdersExclusive' /\ AdvisoryExclusive'
    BY <1>1 DEF OrdersExclusive, AdvisoryExclusive, HoldsOrder, HoldsAdvisory
  <2>2. StageOK'
    BY <1>1, <1>3, <1>7 DEF StageOK
  <2> QED  BY <2>1, <2>2
<1>11. BuyerLocks'
  <2> SUFFICES ASSUME req[s] \in BuyRequest
               PROVE  /\ held'[s] \cup want'[s] = InCart(req[s].cart)
                      /\ \A h \in held'[s], w \in want'[s] : h < w
                      /\ next'[s] \in NextRows(req[s].kind, want'[s])
    BY <1>1, <1>7 DEF BuyerLocks, NextRows, Ascending
  <2>1. held'[s] \cup want'[s] = InCart(req[s].cart)
    BY <1>3, <1>4, <1>7 DEF BuyerLocks
  <2>2. \A w \in W : p < w
    <3> SUFFICES ASSUME NEW w \in W PROVE p < w
      OBVIOUS
    <3>1. p =< w
      BY <1>3, BuyerRowAscending DEF Ascending
    <3>2. p \in Int /\ w \in Int /\ p # w
      BY <1>5, ProductsAssumption
    <3> QED  BY <3>1, <3>2
  <2>3. \A h \in held'[s], w \in want'[s] : h < w
    BY <1>3, <1>7, <2>2 DEF BuyerLocks
  <2> QED  BY <1>2, <1>7, <2>1, <2>3
<1>12. CancelLocks'
  BY <1>1, <1>3, <1>4, <1>6, <1>7 DEF CancelLocks, Restorable
<1>13. StillFirst'
  BY <1>1 DEF StillFirst, Earlier
<1>14. ViewsCurrent'
  <2> SUFFICES ASSUME NEW t \in Sessions, NEW q \in held'[t]
               PROVE  view'[t][q] = stock[q]
    BY <1>1 DEF ViewsCurrent
  <2>1. CASE t # s
    BY <1>7, <2>1 DEF ViewsCurrent
  <2>2. CASE t = s
    <3>1. CASE q = p
      BY <1>5, <1>7, <2>2, <3>1 DEF TypeOK
    <3>2. CASE q # p
      <4>1. q \in held[s] /\ view[s][q] = stock[q]
        BY <1>7, <2>2, <3>2 DEF ViewsCurrent
      <4> QED  BY <1>5, <1>7, <2>2, <3>2, <4>1 DEF TypeOK
    <3> QED  BY <3>1, <3>2
  <2> QED  BY <2>1, <2>2
<1>15. StockConserved' /\ StockNeverNegative'
  BY <1>1 DEF StockConserved, StockNeverNegative
<1>16. OneOrderPerKey' /\ OneLiveAttemptPerBuyer'
  BY <1>1 DEF OneOrderPerKey, OneLiveAttemptPerBuyer, PlacedOrders, LiveAttempt
<1> QED  BY <1>8, <1>9, <1>10, <1>11, <1>12, <1>13, <1>14, <1>15, <1>16

\* An adjustment writes a row nobody has locked.
LEMMA AdjustStockInv ==
  ASSUME IInv, NEW p \in Products, NEW n \in 0..MaxStock, AdjustStock(p, n)
  PROVE  IInv'
<1> USE DEF IInv
<1>1. UNCHANGED <<orders, pc, req, held, want, next, view, reserved>>
  BY DEF AdjustStock, txn
<1>2. /\ n \in Nat
      /\ stock' = [stock EXCEPT ![p] = n]
      /\ supply' = [supply EXCEPT ![p] = @ + n - stock[p]]
  BY DEF AdjustStock
<1>3. TypeOK'
  BY <1>1, <1>2 DEF TypeOK
<1>4. RowsExclusive' /\ OrdersExclusive' /\ AdvisoryExclusive' /\ StageOK'
  BY <1>1 DEF RowsExclusive, OrdersExclusive, AdvisoryExclusive, StageOK, HoldsOrder,
              HoldsAdvisory
<1>5. BuyerLocks' /\ CancelLocks' /\ StillFirst'
  BY <1>1 DEF BuyerLocks, CancelLocks, StillFirst, Earlier, Restorable
<1>6. ViewsCurrent'
  BY <1>1, <1>2 DEF AdjustStock, RowFree, ViewsCurrent, TypeOK
<1>7. StockConserved' /\ StockNeverNegative'
  BY <1>1, <1>2 DEF StockConserved, StockNeverNegative, TypeOK
<1>8. OneOrderPerKey' /\ OneLiveAttemptPerBuyer'
  BY <1>1 DEF OneOrderPerKey, OneLiveAttemptPerBuyer, PlacedOrders, LiveAttempt
<1> QED  BY <1>3, <1>4, <1>5, <1>6, <1>7, <1>8

\* Payment and fulfilment only move a stored order on.
LEMMA OrderMoveFacts ==
  ASSUME TypeOK, NEW o \in Orders,
         \/ \E outcome \in {"captured", "failed"} : SettlePayment(o, outcome)
         \/ \E p \in Products : MoveItem(o, p)
         \/ FulfilOrder(o)
  PROVE  /\ UNCHANGED <<stock, pc, req, held, want, next, view, supply, reserved>>
         /\ OrderFree(o)
         /\ orders[o] \in Order
         /\ orders[o].status # "cancelled"
         /\ orders' = [orders EXCEPT ![o] = orders'[o]]
         /\ orders'[o] \in Order
         /\ orders'[o].status # "cancelled"
         /\ orders'[o].kind = orders[o].kind
         /\ orders'[o].buyer = orders[o].buyer
         /\ orders'[o].key = orders[o].key
         /\ orders'[o].cart = orders[o].cart
         /\ orders'[o].pay = "pending" => orders[o].pay = "pending"
         /\ orders'[o].status = "placed" => orders[o].status = "placed"
         /\ Restorable(orders'[o]) \subseteq Restorable(orders[o])
<1>1. orders[o] # NoOrder => orders[o] \in Order
  BY DEF TypeOK
<1>2. CASE \E outcome \in {"captured", "failed"} : SettlePayment(o, outcome)
  <2>1. PICK outcome \in {"captured", "failed"} : SettlePayment(o, outcome)
    BY <1>2
  <2>2. orders[o] \in Order /\ orders[o].status = "placed" /\ orders[o].pay = "pending"
    BY <1>1, <2>1 DEF SettlePayment
  <2>3. orders'[o] = [orders[o] EXCEPT !.pay = outcome,
                                       !.status = IF outcome = "captured"
                                                    THEN "confirmed" ELSE @]
    BY <2>1 DEF SettlePayment, TypeOK
  <2>4. orders' = [orders EXCEPT ![o] = orders'[o]]
    BY <2>1 DEF SettlePayment, TypeOK
  <2>5. orders'[o] \in Order
    BY <2>2, <2>3 DEF Order, OrderStatus, PaymentStatus
  <2>6. Restorable(orders'[o]) = Restorable(orders[o])
    BY <2>2, <2>3 DEF Restorable, Order
  <2>7. /\ orders'[o].status # "cancelled"
        /\ orders'[o].kind = orders[o].kind
        /\ orders'[o].buyer = orders[o].buyer
        /\ orders'[o].key = orders[o].key
        /\ orders'[o].cart = orders[o].cart
    BY <2>2, <2>3 DEF Order
  <2>8. /\ UNCHANGED <<stock, pc, req, held, want, next, view, supply, reserved>>
        /\ OrderFree(o)
    BY <2>1 DEF SettlePayment, txn, ledger
  <2> QED  BY <2>2, <2>4, <2>5, <2>6, <2>7, <2>8
<1>3. CASE \E p \in Products : MoveItem(o, p)
  <2>1. PICK p \in Products : MoveItem(o, p)
    BY <1>3
  <2>2. orders[o] \in Order /\ orders[o].status # "cancelled"
    BY <1>1, <2>1 DEF MoveItem
  <2>3. PICK st \in {"syncing", "confirmed"} :
          /\ orders'[o] = [orders[o] EXCEPT !.items[p] = st]
          /\ orders' = [orders EXCEPT ![o] = orders'[o]]
          /\ orders[o].items[p] \in {"pending", "syncing"}
    BY <2>1 DEF MoveItem, TypeOK
  <2>4. orders'[o] \in Order
    BY <2>2, <2>3 DEF Order, ItemStatus
  <2>5. Restorable(orders'[o]) \subseteq Restorable(orders[o])
    BY <2>2, <2>3 DEF Restorable, Order
  <2> QED  BY <2>1, <2>2, <2>3, <2>4, <2>5 DEF MoveItem, txn, ledger, Order
<1>4. CASE FulfilOrder(o)
  <2>1. orders[o] \in Order /\ orders[o].status # "cancelled"
    BY <1>1, <1>4 DEF FulfilOrder, Cancellable
  <2>2. /\ orders'[o] = [orders[o] EXCEPT !.status = "fulfilled"]
        /\ orders' = [orders EXCEPT ![o] = orders'[o]]
    BY <1>4 DEF FulfilOrder, TypeOK
  <2>3. orders'[o] \in Order
    BY <2>1, <2>2 DEF Order, OrderStatus
  <2> QED  BY <1>4, <2>1, <2>2, <2>3 DEF FulfilOrder, txn, ledger, Restorable, Order
<1> QED  BY <1>2, <1>3, <1>4

\* Whatever moves a stored order on keeps every property: the transactions
\* that rely on the order have it locked.
LEMMA OrderMoveInv ==
  ASSUME IInv, NEW o \in Orders,
         \/ \E outcome \in {"captured", "failed"} : SettlePayment(o, outcome)
         \/ \E p \in Products : MoveItem(o, p)
         \/ FulfilOrder(o)
  PROVE  IInv'
<1> USE DEF IInv
<1>1. UNCHANGED <<stock, pc, req, held, want, next, view, supply, reserved>>
  BY OrderMoveFacts
<1>2. /\ orders[o] \in Order /\ orders[o] # NoOrder
      /\ orders'[o] \in Order /\ orders'[o] # NoOrder
      /\ \A e \in Orders : e # o => orders'[e] = orders[e]
  BY OrderMoveFacts, NoOrderIsNone DEF TypeOK
<1>3. /\ orders'[o].kind = orders[o].kind
      /\ orders'[o].buyer = orders[o].buyer
      /\ orders'[o].key = orders[o].key
      /\ orders'[o].pay = "pending" => orders[o].pay = "pending"
      /\ orders'[o].status = "placed" => orders[o].status = "placed"
  BY OrderMoveFacts
<1>4. TypeOK'
  BY <1>1, <1>2, OrderMoveFacts DEF TypeOK
<1>5. RowsExclusive' /\ OrdersExclusive' /\ AdvisoryExclusive' /\ StageOK' /\ BuyerLocks'
  BY <1>1 DEF RowsExclusive, OrdersExclusive, AdvisoryExclusive, StageOK, BuyerLocks,
              HoldsOrder, HoldsAdvisory
<1>6. CancelLocks'
  <2> SUFFICES ASSUME NEW s \in Sessions, req[s] \in CancelRequest
               PROVE  /\ orders'[req[s].order] # NoOrder
                      /\ pc[s] = "lock" => orders'[req[s].order] = orders[req[s].order]
    BY <1>1 DEF CancelLocks, Restorable
  <2>1. pc[s] = "lock" => req[s].order # o
    BY OrderMoveFacts, CancelRequestFacts DEF OrderFree, HoldsOrder
  <2> QED  BY <1>2, <2>1, CancelRequestFacts DEF CancelLocks
<1>7. StillFirst'
  <2>1. \A q : Repeats(q, orders'[o]) => Repeats(q, orders[o])
    BY <1>2, <1>3 DEF Repeats
  <2>2. \A q : Earlier(q) = {} => Earlier(q)' = {}
    BY <1>2, <2>1 DEF Earlier
  <2> QED  BY <1>1, <2>2 DEF StillFirst, Earlier
<1>8. ViewsCurrent' /\ StockConserved' /\ StockNeverNegative'
  BY <1>1 DEF ViewsCurrent, StockConserved, StockNeverNegative
<1>9. OneOrderPerKey'
  BY <1>2, <1>3 DEF OneOrderPerKey, PlacedOrders
<1>10. OneLiveAttemptPerBuyer'
  BY <1>2, <1>3 DEF OneLiveAttemptPerBuyer, PlacedOrders, LiveAttempt
<1> QED  BY <1>4, <1>5, <1>6, <1>7, <1>8, <1>9, <1>10

\* What a purchase reads from its locked rows when it commits.
LEMMA PlaceOrderFacts ==
  ASSUME IInv, NEW s \in Sessions, PlaceOrder(s)
  PROVE  /\ req[s] \in BuyRequest
         /\ Earlier(req[s]) = {}
         /\ stock' = [p \in Products |-> stock[p] - req[s].cart[p]]
         /\ \A p \in Products : req[s].cart[p] \in Nat /\ req[s].cart[p] =< stock[p]
<1>1. pc[s] = "lock" /\ want[s] = {} /\ req[s] \in BuyRequest
  BY CancelRequestFacts DEF IInv, StageOK, PlaceOrder, Buying
<1>2. held[s] = InCart(req[s].cart)
  BY <1>1 DEF IInv, BuyerLocks
<1>3. \A p \in InCart(req[s].cart) : view[s][p] = stock[p] /\ req[s].cart[p] =< stock[p]
  <2>1. \A p \in InCart(req[s].cart) : view[s][p] = stock[p]
    BY <1>2 DEF IInv, ViewsCurrent
  <2>2. \A p \in InCart(req[s].cart) : view[s][p] >= req[s].cart[p]
    BY DEF PlaceOrder, Enough
  <2>3. \A p \in InCart(req[s].cart) : stock[p] \in Int /\ req[s].cart[p] \in Nat
    BY <1>1, BuyRequestFacts DEF IInv, TypeOK, InCart
  <2> QED  BY <2>1, <2>2, <2>3
<1>4. \A p \in Products : /\ req[s].cart[p] \in Nat
                          /\ stock[p] \in Int
                          /\ p \notin InCart(req[s].cart) => req[s].cart[p] = 0
  BY <1>1, BuyRequestFacts DEF IInv, TypeOK, InCart
<1>5. stock' = [p \in Products |-> IF p \in InCart(req[s].cart)
                                     THEN view[s][p] - req[s].cart[p] ELSE stock[p]]
  BY DEF PlaceOrder
<1>6. \A p \in Products :
         (IF p \in InCart(req[s].cart) THEN view[s][p] - req[s].cart[p] ELSE stock[p])
           = stock[p] - req[s].cart[p]
  BY <1>3, <1>4
<1>7. Earlier(req[s]) = {}
  BY <1>1 DEF IInv, StillFirst
<1>8. \A p \in Products : req[s].cart[p] =< stock[p]
  BY <1>3, <1>4 DEF IInv, StockNeverNegative
<1> QED  BY <1>1, <1>4, <1>5, <1>6, <1>7, <1>8

\* Two purchases that repeat each other ask for the same advisory lock.
LEMMA RepeatsShareAdvisory ==
  ASSUME NEW q \in BuyRequest, NEW r \in BuyRequest, Repeats(q, NewOrder(r))
  PROVE  SameAdvisory(r, q)
  BY BuyRequestFacts, NewOrderFacts DEF Repeats, SameAdvisory

\* A purchase commits.
LEMMA PlaceOrderInv ==
  ASSUME IInv, NEW s \in Sessions, PlaceOrder(s)
  PROVE  IInv'
<1> USE DEF IInv
<1> DEFINE r == req[s]
<1>1. PICK o \in Orders : orders[o] = NoOrder /\ orders' = [orders EXCEPT ![o] = NewOrder(r)]
  BY DEF PlaceOrder
<1>2. /\ r \in BuyRequest
      /\ Earlier(r) = {}
      /\ stock' = [p \in Products |-> stock[p] - r.cart[p]]
      /\ \A p \in Products : r.cart[p] \in Nat /\ r.cart[p] =< stock[p]
  BY PlaceOrderFacts
<1>3. /\ End(s)
      /\ UNCHANGED supply
      /\ reserved' = [p \in Products |-> reserved[p] + r.cart[p]]
      /\ pc[s] = "lock"
      /\ want[s] = {}
  BY DEF PlaceOrder
<1>4. /\ orders'[o] = NewOrder(r)
      /\ \A e \in Orders : e # o => orders'[e] = orders[e]
  BY <1>1 DEF TypeOK
<1>5. TypeOK'
  <2>1. orders' \in [Orders -> Order \cup {NoOrder}]
    BY <1>1, <1>2, NewOrderFacts DEF TypeOK
  <2>2. stock' \in [Products -> Int] /\ reserved' \in [Products -> Int]
    BY <1>2, <1>3 DEF TypeOK
  <2> QED  BY <1>3, <2>1, <2>2, EndFacts DEF TypeOK
<1>6. RowsExclusive' /\ OrdersExclusive' /\ AdvisoryExclusive' /\ StageOK'
  BY <1>3, EndKeepsLocks
<1>7. BuyerLocks'
  BY <1>3, EndFacts DEF BuyerLocks
<1>8. CancelLocks'
  <2> SUFFICES ASSUME NEW t \in Sessions, req'[t] \in CancelRequest
               PROVE  /\ t # s /\ req'[t] = req[t] /\ pc'[t] = pc[t] /\ held'[t] = held[t]
                      /\ want'[t] = want[t] /\ next'[t] = next[t]
                      /\ orders'[req[t].order] = orders[req[t].order]
    BY DEF CancelLocks, Restorable
  <2>1. t # s
    BY <1>3, EndFacts, CancelRequestFacts
  <2>2. req[t] \in CancelRequest /\ orders[req[t].order] # NoOrder
    BY <1>3, <2>1, EndFacts DEF CancelLocks
  <2> QED  BY <1>1, <1>3, <1>4, <2>1, <2>2, EndFacts, CancelRequestFacts
<1>9. StillFirst'
  <2> SUFFICES ASSUME NEW t \in Sessions, pc'[t] \in {"authorize", "lock"},
                      req'[t] \in BuyRequest, NEW e \in Orders, Repeats(req'[t], orders'[e])
               PROVE  FALSE
    BY DEF StillFirst, Earlier
  <2>1. t # s /\ pc'[t] = pc[t] /\ req'[t] = req[t]
    BY <1>3, EndFacts, BuyRequestFacts
  <2>2. CASE e # o
    BY <1>4, <2>1, <2>2 DEF StillFirst, Earlier
  <2>3. CASE e = o
    <3>1. SameAdvisory(r, req[t])
      BY <1>2, <1>4, <2>1, <2>3, RepeatsShareAdvisory
    <3> QED  BY <1>3, <2>1, <3>1 DEF AdvisoryExclusive, HoldsAdvisory
  <2> QED  BY <2>2, <2>3
<1>10. ViewsCurrent'
  <2> SUFFICES ASSUME NEW t \in Sessions, NEW p \in held'[t]
               PROVE  view'[t][p] = stock'[p]
    BY DEF ViewsCurrent
  <2>1. t # s /\ p \in held[t] /\ view'[t][p] = stock[p] /\ p \in Products
    BY <1>3, EndFacts DEF ViewsCurrent, TypeOK
  <2>2. p \notin InCart(r.cart)
    BY <1>2, <1>3, <2>1 DEF RowsExclusive, BuyerLocks
  <2>3. r.cart[p] = 0 /\ stock[p] \in Int
    BY <1>2, <2>1, <2>2 DEF InCart, TypeOK
  <2> QED  BY <1>2, <2>1, <2>3
<1>11. StockConserved'
  <2>1. \A p \in Products : /\ stock[p] \in Int /\ reserved[p] \in Int /\ r.cart[p] \in Int
                            /\ stock'[p] = stock[p] - r.cart[p]
                            /\ reserved'[p] = reserved[p] + r.cart[p]
                            /\ supply'[p] = supply[p]
    BY <1>2, <1>3 DEF TypeOK
  <2> QED  BY <2>1 DEF StockConserved
<1>12. StockNeverNegative'
  BY <1>2 DEF StockNeverNegative, TypeOK
<1>13. OneOrderPerKey'
  <2>1. \A e \in Orders : e # o /\ orders[e] # NoOrder /\ orders[e].buyer = r.buyer
                          /\ orders[e].key = r.key => r.key = NoKey
    BY <1>2, BuyRequestFacts DEF Earlier, Repeats
  <2> QED  BY <1>2, <1>4, <2>1, NewOrderFacts DEF OneOrderPerKey, PlacedOrders
<1>14. OneLiveAttemptPerBuyer'
  <2>1. \A e \in Orders : e # o /\ orders[e] # NoOrder /\ LiveAttempt(e)
                          /\ orders[e].buyer = r.buyer => r.kind # "initiate"
    BY <1>2 DEF Earlier, Repeats, LiveAttempt
  <2> QED  BY <1>2, <1>4, <2>1, NewOrderFacts
           DEF OneLiveAttemptPerBuyer, PlacedOrders, LiveAttempt
<1> QED  BY <1>5, <1>6, <1>7, <1>8, <1>9, <1>10, <1>11, <1>12, <1>13, <1>14

\* What a cancellation writes when it commits.
LEMMA CommitCancelFacts ==
  ASSUME IInv, NEW s \in Sessions, CommitCancel(s)
  PROVE  LET o == req[s].order IN
         /\ req[s] \in CancelRequest
         /\ o \in Orders
         /\ orders[o] \in Order
         /\ Cancellable(orders[o])
         /\ held[s] = Restorable(orders[o])
         /\ \A p \in Products : orders[o].cart[p] \in Nat
         /\ stock' = [p \in Products |->
                        IF p \in Restorable(orders[o])
                          THEN stock[p] + orders[o].cart[p] ELSE stock[p]]
<1> DEFINE o == req[s].order
<1>1. pc[s] = "lock" /\ want[s] = {} /\ req[s] \in CancelRequest /\ o \in Orders
  BY BuyRequestFacts, CancelRequestFacts DEF IInv, StageOK, CommitCancel
<1>2. orders[o] \in Order
  BY <1>1 DEF IInv, CancelLocks, TypeOK
<1>3. held[s] = Restorable(orders[o]) /\ Cancellable(orders[o])
  BY <1>1 DEF IInv, CancelLocks
<1>4. \A p \in Products : orders[o].cart[p] \in Nat
  BY <1>2, CartsAssumption DEF Order
<1>5. \A p \in held[s] : view[s][p] = stock[p]
  BY DEF IInv, ViewsCurrent
<1>6. stock' = [p \in Products |->
                  IF p \in Restorable(orders[o])
                    THEN stock[p] + orders[o].cart[p] ELSE stock[p]]
  BY <1>3, <1>5 DEF CommitCancel
<1> QED  BY <1>1, <1>2, <1>3, <1>4, <1>6

\* A cancellation commits.
LEMMA CommitCancelInv ==
  ASSUME IInv, NEW s \in Sessions, CommitCancel(s)
  PROVE  IInv'
<1> USE DEF IInv
<1> DEFINE o == req[s].order
<1>1. /\ req[s] \in CancelRequest
      /\ o \in Orders
      /\ orders[o] \in Order
      /\ held[s] = Restorable(orders[o])
      /\ \A p \in Products : orders[o].cart[p] \in Nat
      /\ stock' = [p \in Products |-> IF p \in Restorable(orders[o])
                                        THEN stock[p] + orders[o].cart[p] ELSE stock[p]]
  BY CommitCancelFacts
<1>2. /\ End(s)
      /\ UNCHANGED supply
      /\ reserved' = [p \in Products |-> IF p \in Restorable(orders[o])
                                           THEN reserved[p] - orders[o].cart[p]
                                           ELSE reserved[p]]
      /\ orders' = [orders EXCEPT ![o] = CancelledOrder(orders[o])]
      /\ pc[s] = "lock"
  BY <1>1 DEF CommitCancel
<1>3. /\ orders'[o] = CancelledOrder(orders[o])
      /\ orders'[o] \in Order /\ orders'[o] # NoOrder /\ orders[o] # NoOrder
      /\ \A e \in Orders : e # o => orders'[e] = orders[e]
  BY <1>1, <1>2, CancelledOrderFacts, NoOrderIsNone DEF TypeOK
<1>4. /\ orders'[o].kind = orders[o].kind
      /\ orders'[o].buyer = orders[o].buyer
      /\ orders'[o].key = orders[o].key
      /\ orders'[o].status = "cancelled"
  BY <1>1, <1>3, CancelledOrderFacts
<1>5. TypeOK'
  <2>1. orders' \in [Orders -> Order \cup {NoOrder}]
    BY <1>2, <1>3 DEF TypeOK
  <2>2. stock' \in [Products -> Int] /\ reserved' \in [Products -> Int]
    BY <1>1, <1>2 DEF TypeOK
  <2> QED  BY <1>2, <2>1, <2>2, EndFacts DEF TypeOK
<1>6. RowsExclusive' /\ OrdersExclusive' /\ AdvisoryExclusive' /\ StageOK'
  BY <1>2, EndKeepsLocks
<1>7. BuyerLocks'
  BY <1>2, EndFacts DEF BuyerLocks
<1>8. CancelLocks'
  <2> SUFFICES ASSUME NEW t \in Sessions, req'[t] \in CancelRequest
               PROVE  /\ t # s /\ req'[t] = req[t] /\ pc'[t] = pc[t] /\ held'[t] = held[t]
                      /\ want'[t] = want[t] /\ next'[t] = next[t]
                      /\ orders'[req[t].order] # NoOrder
                      /\ pc[t] = "lock" => orders'[req[t].order] = orders[req[t].order]
    BY DEF CancelLocks, Restorable
  <2>1. t # s
    BY <1>2, EndFacts, CancelRequestFacts
  <2>2. req[t] \in CancelRequest /\ orders[req[t].order] # NoOrder
    BY <1>2, <2>1, EndFacts DEF CancelLocks
  <2>3. pc[t] = "lock" => req[t].order # o
    BY <1>1, <1>2, <2>1, <2>2, CancelRequestFacts DEF OrdersExclusive, HoldsOrder
  <2> QED  BY <1>2, <1>3, <2>1, <2>2, <2>3, EndFacts, CancelRequestFacts
<1>9. StillFirst'
  <2>1. \A q : Repeats(q, orders'[o]) => Repeats(q, orders[o])
    BY <1>3, <1>4 DEF Repeats
  <2>2. \A q : Earlier(q) = {} => Earlier(q)' = {}
    BY <1>3, <2>1 DEF Earlier
  <2> QED  BY <1>2, <2>2, EndFacts, BuyRequestFacts DEF StillFirst, Earlier
<1>10. ViewsCurrent'
  <2> SUFFICES ASSUME NEW t \in Sessions, NEW p \in held'[t]
               PROVE  view'[t][p] = stock'[p]
    BY DEF ViewsCurrent
  <2>1. t # s /\ p \in held[t] /\ view'[t][p] = stock[p] /\ p \in Products
    BY <1>2, EndFacts DEF ViewsCurrent, TypeOK
  <2>2. p \notin Restorable(orders[o])
    BY <1>1, <2>1 DEF RowsExclusive
  <2> QED  BY <1>1, <2>1, <2>2
<1>11. StockConserved'
  <2>1. \A p \in Products : /\ stock[p] \in Int /\ reserved[p] \in Int /\ supply[p] \in Int
                            /\ orders[o].cart[p] \in Int
    BY <1>1 DEF TypeOK
  <2> QED  BY <1>1, <1>2, <2>1 DEF StockConserved
<1>12. StockNeverNegative'
  BY <1>1 DEF StockNeverNegative, TypeOK
<1>13. OneOrderPerKey' /\ OneLiveAttemptPerBuyer'
  <2>1. OneOrderPerKey'
    BY <1>3, <1>4 DEF OneOrderPerKey, PlacedOrders
  <2>2. OneLiveAttemptPerBuyer'
    BY <1>3, <1>4 DEF OneLiveAttemptPerBuyer, PlacedOrders, LiveAttempt
  <2> QED  BY <2>1, <2>2
<1> QED  BY <1>5, <1>6, <1>7, <1>8, <1>9, <1>10, <1>11, <1>12, <1>13

(***************************************************************************)
(* The invariant.                                                          *)
(***************************************************************************)
\* Every step of every session and of the other writers keeps IInv.
LEMMA NextInv == IInv /\ [Next]_vars => IInv'
<1> SUFFICES ASSUME IInv, [Next]_vars
             PROVE  IInv'
  OBVIOUS
<1>1. CASE \E s \in Sessions, r \in Requests : Begin(s, r)
  BY <1>1, BeginInv
<1>2. CASE \E s \in Sessions : AnswerFromEarlier(s)
  BY <1>2, QuietEndInv DEF AnswerFromEarlier
<1>3. CASE \E s \in Sessions : PassSerialize(s)
  BY <1>3, PassSerializeInv
<1>4. CASE \E s \in Sessions : Authorize(s)
  BY <1>4, AuthorizeInv
<1>5. CASE \E s \in Sessions : LockRow(s)
  BY <1>5, LockRowInv
<1>6. CASE \E s \in Sessions : PlaceOrder(s)
  BY <1>6, PlaceOrderInv
<1>7. CASE \E s \in Sessions : RejectShort(s)
  BY <1>7, QuietEndInv DEF RejectShort
<1>8. CASE \E s \in Sessions : LockOrder(s)
  BY <1>8, LockOrderInv
<1>9. CASE \E s \in Sessions : CommitCancel(s)
  BY <1>9, CommitCancelInv
<1>10. CASE \E s \in Sessions : Abort(s)
  BY <1>10, QuietEndInv DEF Abort
<1>11. CASE \E p \in Products, n \in 0..MaxStock : AdjustStock(p, n)
  BY <1>11, AdjustStockInv
<1>12. CASE \E o \in Orders : \/ \E outcome \in {"captured", "failed"} : SettlePayment(o, outcome)
                              \/ \E p \in Products : MoveItem(o, p)
                              \/ FulfilOrder(o)
  BY <1>12, OrderMoveInv
<1>13. CASE UNCHANGED vars
  BY <1>13 DEF vars, IInv, TypeOK, RowsExclusive, OrdersExclusive, AdvisoryExclusive, StageOK,
     BuyerLocks, CancelLocks, StillFirst, ViewsCurrent, StockConserved, StockNeverNegative,
     OneOrderPerKey, OneLiveAttemptPerBuyer, HoldsOrder, HoldsAdvisory, Earlier, Restorable,
     PlacedOrders, LiveAttempt
<1> QED  BY <1>1, <1>2, <1>3, <1>4, <1>5, <1>6, <1>7, <1>8, <1>9, <1>10, <1>11, <1>12, <1>13
         DEF Next, LockingStep, FreeStep

\* IInv, and with it every conjunct of it, holds in every reachable state.
THEOREM Invariance == Spec => []IInv
  BY InitInv, NextInv, PTL DEF Spec

\* Every variable keeps its type.
THEOREM TypeCorrect == Spec => []TypeOK
  BY Invariance, PTL DEF IInv

\* No update of a stock count is lost, whatever transactions interleave.
THEOREM StockIsConserved == Spec => []StockConserved
  BY Invariance, PTL DEF IInv

\* No transaction writes a stock count from a read that is out of date.
THEOREM ViewsStayCurrent == Spec => []ViewsCurrent
  BY Invariance, PTL DEF IInv

\* No oversell.
THEOREM StockStaysNatural == Spec => []StockNeverNegative
  BY Invariance, PTL DEF IInv

\* checkout is idempotent: a buyer's key never names two orders.
THEOREM CheckoutIdempotent == Spec => []OneOrderPerKey
  BY Invariance, PTL DEF IInv

\* A buyer never has two unpaid Razorpay orders that reserve stock.
THEOREM AttemptReused == Spec => []OneLiveAttemptPerBuyer
  BY Invariance, PTL DEF IInv

(***************************************************************************)
(* Deadlock freedom of purchases.                                          *)
(***************************************************************************)
\* The rows a set of deadlocked purchases wait for would have no maximum.
LEMMA NoDeadlockInState == IInv => BuyersNeverDeadlock
<1> SUFFICES ASSUME IInv, NEW S \in SUBSET {s \in Sessions : Buying(s)}, Deadlocked(S)
             PROVE  FALSE
  BY DEF BuyersNeverDeadlock
<1> USE DEF IInv
<1>1. \A s \in S : s \in Sessions /\ req[s] \in BuyRequest
  BY CancelRequestFacts DEF TypeOK, Buying, NoReq
<1>2. \A s \in S : req[s].kind # "cancel"
  BY <1>1, BuyRequestFacts
<1>3. \A s \in S : pc[s] \in {"serialize", "lock"}
  BY <1>1, CancelRequestFacts DEF Deadlocked, WaitsFor, StageOK
<1>4. \A s \in S : pc[s] = "serialize" => \E t \in S : pc[t] = "lock"
  BY <1>2, <1>3 DEF Deadlocked, WaitsFor, HoldsAdvisory, HoldsOrder
<1>5. \A s \in S : pc[s] = "lock" => \E t \in S : pc[t] = "lock" /\ next[s] \in held[t]
  <2> SUFFICES ASSUME NEW s \in S, pc[s] = "lock"
               PROVE  \E t \in S : pc[t] = "lock" /\ next[s] \in held[t]
    OBVIOUS
  <2>1. PICK t \in S : WaitsFor(s, t)
    BY DEF Deadlocked
  <2>2. next[s] \in held[t]
    BY <2>1 DEF WaitsFor
  <2>3. pc[t] = "lock"
    BY <1>1, <2>2 DEF StageOK
  <2> QED  BY <2>2, <2>3
<1> DEFINE M == {next[s] : s \in {t \in S : pc[t] = "lock"}}
<1>6. M # {}
  BY <1>3, <1>4 DEF Deadlocked
<1>7. M \in SUBSET Products
  BY <1>1, <1>5 DEF TypeOK
<1>8. PICK m \in M : \A x \in M : x =< m
  BY <1>6, <1>7, ProductsAssumption
<1>9. PICK s \in S : pc[s] = "lock" /\ next[s] = m
  BY <1>8
<1>10. PICK t \in S : pc[t] = "lock" /\ m \in held[t]
  BY <1>5, <1>9
<1>11. PICK u \in S : next[t] \in held[u]
  BY <1>5, <1>10
<1>12. next[t] \in want[t]
  <2>1. next[t] \in Products
    BY <1>1, <1>11 DEF TypeOK
  <2>2. want[t] # {}
    BY <1>1, <1>10, <2>1, BuyerRowAscending, NoProductAssumption
  <2> QED  BY <1>1, <1>10, <2>2, BuyerRowAscending DEF Ascending
<1>13. m < next[t]
  BY <1>1, <1>10, <1>12 DEF BuyerLocks
<1>14. next[t] =< m /\ m \in Int /\ next[t] \in Int
  BY <1>7, <1>8, <1>10, ProductsAssumption
<1> QED  BY <1>13, <1>14

\* Purchases never deadlock among themselves.
THEOREM PurchasesNeverDeadlock == Spec => []BuyersNeverDeadlock
  BY Invariance, NoDeadlockInState, PTL

(***************************************************************************)
(* Nothing is sold twice.                                                  *)
(***************************************************************************)
\* An order has as many units as its cart says.
LEMMA UnitsCounted ==
  ASSUME NEW o, NEW n \in Nat
  PROVE  IsFiniteSet({o} \X (1 .. n)) /\ Cardinality({o} \X (1 .. n)) = n
<1>1. IsFiniteSet({o}) /\ Cardinality({o}) = 1
  BY FS_Singleton
<1>2. IsFiniteSet(1 .. n) /\ Cardinality(1 .. n) = n
  BY FS_Interval
<1>3. /\ IsFiniteSet({o} \X (1 .. n))
      /\ Cardinality({o} \X (1 .. n)) = Cardinality({o}) * Cardinality(1 .. n)
  BY <1>1, <1>2, FS_Product, Zenon
<1> QED  BY <1>1, <1>2, <1>3

\* The set T consists of S and of other members U.
Splits(T, S, U) == T = S \cup U /\ S \cap U = {}

\* Cardinalities add up.
LEMMA UnitsAdded ==
  ASSUME NEW S, NEW T, NEW U, Splits(T, S, U), IsFiniteSet(U), IsFiniteSet(S) \/ IsFiniteSet(T)
  PROVE  /\ IsFiniteSet(S) /\ IsFiniteSet(T)
         /\ Cardinality(S) \in Nat /\ Cardinality(T) = Cardinality(S) + Cardinality(U)
<1>1. S \cap U = {} /\ T = S \cup U
  BY DEF Splits
<1>2. IsFiniteSet(S)
  BY <1>1, FS_Subset
<1>3. Cardinality(S \cap U) = 0
  BY <1>1, FS_EmptySet
<1>4. IsFiniteSet(T) /\ Cardinality(T) = Cardinality(S) + Cardinality(U) - Cardinality(S \cap U)
  BY <1>1, <1>2, FS_Union
<1>5. Cardinality(S) \in Nat /\ Cardinality(U) \in Nat
  BY <1>2, FS_CardinalityType
<1> QED  BY <1>2, <1>3, <1>4, <1>5

\* Nothing is promised at first.
LEMMA PromisesInit == Init => PromisesReserved
<1> SUFFICES ASSUME Init, NEW p \in Products
             PROVE  IsFiniteSet(PromisedUnits(p)) /\ Cardinality(PromisedUnits(p)) =< reserved[p]
  BY DEF PromisesReserved
<1>1. LiveOrders = {}
  BY DEF Init, LiveOrders, PlacedOrders
<1>2. PromisedUnits(p) = {}
  BY <1>1 DEF PromisedUnits
<1> QED  BY <1>2, FS_EmptySet DEF Init

\* Orders that are as live as they were, and whose carts are the same.
LEMMA SamePromises ==
  ASSUME PromisesReserved, LiveOrders' = LiveOrders, UNCHANGED reserved,
         \A o \in LiveOrders : orders'[o].cart = orders[o].cart
  PROVE  PromisesReserved'
<1>1. \A p \in Products : PromisedUnits(p)' = PromisedUnits(p)
  BY DEF PromisedUnits
<1> QED  BY <1>1 DEF PromisesReserved

\* A purchase reserves what it promises.
LEMMA PlaceReserves ==
  ASSUME IInv, PromisesReserved, NEW s \in Sessions, PlaceOrder(s)
  PROVE  PromisesReserved'
<1>1. /\ req[s] \in BuyRequest
      /\ \A p \in Products : req[s].cart[p] \in Nat
  BY PlaceOrderFacts
<1>2. PICK o \in Orders : orders[o] = NoOrder /\ orders' = [orders EXCEPT ![o] = NewOrder(req[s])]
  BY DEF PlaceOrder
<1>3. /\ NewOrder(req[s]) # NoOrder /\ NewOrder(req[s]).status # "cancelled"
      /\ NewOrder(req[s]).cart = req[s].cart
  BY <1>1, NewOrderFacts DEF NewOrder
<1>4. /\ orders'[o] = NewOrder(req[s]) /\ \A e \in Orders \ {o} : orders'[e] = orders[e]
      /\ reserved' = [p \in Products |-> reserved[p] + req[s].cart[p]]
      /\ reserved \in [Products -> Int]
  BY <1>2 DEF IInv, TypeOK, PlaceOrder
<1>5. o \notin LiveOrders /\ LiveOrders' = LiveOrders \cup {o}
  BY <1>2, <1>3, <1>4 DEF LiveOrders, PlacedOrders
<1> SUFFICES ASSUME NEW p \in Products
             PROVE  /\ IsFiniteSet(PromisedUnits(p)')
                    /\ Cardinality(PromisedUnits(p)') =< reserved'[p]
  BY DEF PromisesReserved
<1> DEFINE n == req[s].cart[p]
           more == {o} \X (1 .. n)
<1>6. Splits(PromisedUnits(p)', PromisedUnits(p), more)
  BY <1>3, <1>4, <1>5 DEF Splits, PromisedUnits, LiveOrders, PlacedOrders
<1>7. n \in Nat /\ reserved[p] \in Int /\ reserved'[p] \in Int
      /\ reserved'[p] = reserved[p] + n
  BY <1>1, <1>4
<1>8. IsFiniteSet(PromisedUnits(p)) /\ Cardinality(PromisedUnits(p)) =< reserved[p]
  BY DEF PromisesReserved
<1>9. IsFiniteSet(more) /\ Cardinality(more) = n
  BY <1>7, UnitsCounted
<1> HIDE DEF n, more
<1>10. /\ IsFiniteSet(PromisedUnits(p)') /\ Cardinality(PromisedUnits(p)) \in Nat
       /\ Cardinality(PromisedUnits(p)') = Cardinality(PromisedUnits(p)) + n
  BY <1>6, <1>8, <1>9, UnitsAdded
<1> QED  BY <1>7, <1>8, <1>10

\* A cancellation takes back the whole promise, and of what is reserved at most as
\* much.
LEMMA CancelReserves ==
  ASSUME IInv, PromisesReserved, NEW s \in Sessions, CommitCancel(s)
  PROVE  PromisesReserved'
<1> DEFINE o == req[s].order
<1>1. /\ o \in Orders /\ orders[o] \in Order /\ Cancellable(orders[o])
      /\ \A p \in Products : orders[o].cart[p] \in Nat
  BY CommitCancelFacts
<1>2. /\ orders' = [orders EXCEPT ![o] = CancelledOrder(orders[o])]
      /\ reserved' = [p \in Products |-> IF p \in held[s] THEN reserved[p] - orders[o].cart[p]
                                         ELSE reserved[p]]
  BY DEF CommitCancel
<1> HIDE DEF o
<1>3. /\ orders'[o].status = "cancelled" /\ \A e \in Orders \ {o} : orders'[e] = orders[e]
      /\ reserved \in [Products -> Int]
  BY <1>1, <1>2, CancelledOrderFacts DEF IInv, TypeOK
<1>4. o \in LiveOrders /\ LiveOrders' = LiveOrders \ {o}
  BY <1>1, <1>3, NoOrderIsNone DEF LiveOrders, PlacedOrders, Cancellable
<1> SUFFICES ASSUME NEW p \in Products
             PROVE  /\ IsFiniteSet(PromisedUnits(p)')
                    /\ Cardinality(PromisedUnits(p)') =< reserved'[p]
  BY DEF PromisesReserved
<1> DEFINE n == orders[o].cart[p]
           more == {o} \X (1 .. n)
<1>6. Splits(PromisedUnits(p), PromisedUnits(p)', more)
  BY <1>3, <1>4 DEF Splits, PromisedUnits, LiveOrders, PlacedOrders
<1>7. n \in Nat /\ reserved[p] \in Int /\ reserved'[p] \in Int
      /\ reserved'[p] >= reserved[p] - n
  BY <1>1, <1>2, <1>3
<1>8. IsFiniteSet(PromisedUnits(p)) /\ Cardinality(PromisedUnits(p)) =< reserved[p]
  BY DEF PromisesReserved
<1>9. IsFiniteSet(more) /\ Cardinality(more) = n
  BY <1>7, UnitsCounted
<1> HIDE DEF n, more
<1>10. /\ IsFiniteSet(PromisedUnits(p)') /\ Cardinality(PromisedUnits(p)') \in Nat
       /\ Cardinality(PromisedUnits(p)) = Cardinality(PromisedUnits(p)') + n
  BY <1>6, <1>8, <1>9, UnitsAdded
<1> QED  BY <1>7, <1>8, <1>10

\* No step promises more than it reserves.
LEMMA PromisesNext == IInv /\ PromisesReserved /\ [Next]_vars => PromisesReserved'
<1> SUFFICES ASSUME IInv, PromisesReserved, [Next]_vars
             PROVE  PromisesReserved'
  OBVIOUS
<1>1. ASSUME UNCHANGED <<orders, reserved>>
      PROVE  PromisesReserved'
  BY <1>1, SamePromises DEF LiveOrders, PlacedOrders
<1>2. CASE \E s \in Sessions, r \in Requests : Begin(s, r)
  BY <1>1, <1>2 DEF Begin, ledger
<1>3. CASE \E s \in Sessions : LockingStep(s) \/ Authorize(s) \/ RejectShort(s) \/ Abort(s)
  BY <1>1, <1>3 DEF LockingStep, AnswerFromEarlier, PassSerialize, LockRow, LockOrder, Authorize,
              RejectShort, Abort, ledger
<1>4. CASE \E s \in Sessions : PlaceOrder(s)
  BY <1>4, PlaceReserves
<1>5. CASE \E s \in Sessions : CommitCancel(s)
  BY <1>5, CancelReserves
<1>6. CASE \E p \in Products, n \in 0..MaxStock : AdjustStock(p, n)
  BY <1>1, <1>6 DEF AdjustStock
<1>7. ASSUME NEW o \in Orders,
             \/ \E outcome \in {"captured", "failed"} : SettlePayment(o, outcome)
             \/ \E p \in Products : MoveItem(o, p)
             \/ FulfilOrder(o)
      PROVE  PromisesReserved'
  <2>1. /\ UNCHANGED reserved /\ orders[o] \in Order /\ orders[o].status # "cancelled"
        /\ orders' = [orders EXCEPT ![o] = orders'[o]] /\ orders \in [Orders -> Order \cup {NoOrder}]
        /\ orders'[o] \in Order /\ orders'[o].status # "cancelled"
        /\ orders'[o].cart = orders[o].cart
    BY <1>7, OrderMoveFacts DEF IInv, TypeOK
  <2>2. \A e \in Orders \ {o} : orders'[e] = orders[e]
    BY <2>1
  <2>3. LiveOrders' = LiveOrders
    BY <2>1, <2>2, NoOrderIsNone DEF LiveOrders, PlacedOrders
  <2> QED  BY <2>1, <2>2, <2>3, SamePromises DEF LiveOrders, PlacedOrders
<1>8. CASE UNCHANGED vars
  BY <1>1, <1>8 DEF vars
<1> QED  BY <1>2, <1>3, <1>4, <1>5, <1>6, <1>7, <1>8 DEF Next, FreeStep

\* Nothing is sold twice: what live orders were promised and what is on the shelf
\* never exceeds what was put on sale, over any number of orders.
THEOREM NothingIsSoldTwice == Spec => []NothingSoldTwice
<1>1. IInv /\ PromisesReserved => NothingSoldTwice
  <2> SUFFICES ASSUME IInv, PromisesReserved, NEW p \in Products
               PROVE  stock[p] >= 0 /\ Cardinality(PromisedUnits(p)) + stock[p] =< supply[p]
    BY DEF NothingSoldTwice
  <2>1. /\ stock[p] >= 0 /\ stock[p] + reserved[p] = supply[p]
        /\ stock[p] \in Int /\ reserved[p] \in Int /\ supply[p] \in Int
    BY DEF IInv, StockConserved, StockNeverNegative, TypeOK
  <2>2. Cardinality(PromisedUnits(p)) =< reserved[p] /\ Cardinality(PromisedUnits(p)) \in Nat
    BY FS_CardinalityType DEF PromisesReserved
  <2> QED  BY <2>1, <2>2
<1>2. Init => PromisesReserved
  BY PromisesInit
<1>3. IInv /\ PromisesReserved /\ [Next]_vars => PromisesReserved'
  BY PromisesNext
<1> QED  BY <1>1, <1>2, <1>3, Invariance, PTL DEF Spec

(***************************************************************************)
(* Checkout implements Store.                                              *)
(***************************************************************************)
\* Both modules read StoreData the same way.
LEMMA SameRows ==
  /\ StoreSpec!NoOrder = NoOrder
  /\ StoreSpec!Order = Order
  /\ StoreSpec!BuyRequest = BuyRequest
  BY DEF StoreSpec!NoOrder, NoOrder, StoreSpec!Order, Order, StoreSpec!OrderStatus, OrderStatus,
         StoreSpec!PaymentStatus, PaymentStatus, StoreSpec!ItemStatus, ItemStatus,
         StoreSpec!BuyRequest, BuyRequest, StoreSpec!CheckoutRequest, CheckoutRequest,
         StoreSpec!InitiateRequest, InitiateRequest

LEMMA SameNewOrder ==
  ASSUME NEW r PROVE StoreSpec!NewOrder(r) = NewOrder(r)
  BY DEF StoreSpec!NewOrder, NewOrder

LEMMA SameRepeats ==
  ASSUME NEW r, NEW order PROVE StoreSpec!Repeats(r, order) <=> Repeats(r, order)
  BY DEF StoreSpec!Repeats, Repeats, StoreSpec!NoOrder, NoOrder

LEMMA SameCancellation ==
  ASSUME NEW order
  PROVE  /\ StoreSpec!Restorable(order) = Restorable(order)
         /\ StoreSpec!CancelledOrder(order) = CancelledOrder(order)
         /\ StoreSpec!Cancellable(order) <=> Cancellable(order)
  BY DEF StoreSpec!Restorable, Restorable, StoreSpec!CancelledOrder, CancelledOrder,
         StoreSpec!Cancellable, Cancellable

\* A committing purchase is one Place.
LEMMA PlaceOrderIsPlace ==
  ASSUME IInv, NEW s \in Sessions, PlaceOrder(s)
  PROVE  \E o \in Orders, r \in BuyRequest : StoreSpec!Place(o, r)
<1>1. /\ req[s] \in BuyRequest
      /\ Earlier(req[s]) = {}
      /\ stock' = [p \in Products |-> stock[p] - req[s].cart[p]]
      /\ \A p \in Products : req[s].cart[p] =< stock[p]
  BY PlaceOrderFacts
<1>2. PICK o \in Orders : orders[o] = NoOrder
                          /\ orders' = [orders EXCEPT ![o] = NewOrder(req[s])]
  BY DEF PlaceOrder
<1>3. \A e \in Orders : ~Repeats(req[s], orders[e])
  BY <1>1 DEF Earlier
<1> QED  BY <1>1, <1>2, <1>3, SameRows, SameNewOrder, SameRepeats DEF StoreSpec!Place

\* A committing cancellation is one Cancel.
LEMMA CommitCancelIsCancel ==
  ASSUME IInv, NEW s \in Sessions, CommitCancel(s)
  PROVE  \E o \in Orders : StoreSpec!Cancel(o)
<1> DEFINE o == req[s].order
<1>1. /\ o \in Orders
      /\ orders[o] \in Order
      /\ Cancellable(orders[o])
      /\ stock' = [p \in Products |-> IF p \in Restorable(orders[o])
                                        THEN stock[p] + orders[o].cart[p] ELSE stock[p]]
  BY CommitCancelFacts
<1>2. orders' = [orders EXCEPT ![o] = CancelledOrder(orders[o])]
  BY DEF CommitCancel
<1> QED  BY <1>1, <1>2, NoOrderIsNone, SameRows, SameCancellation DEF StoreSpec!Cancel

\* An adjustment is one Adjust.
LEMMA AdjustStockIsAdjust ==
  ASSUME IInv, NEW p \in Products, NEW n \in 0..MaxStock, AdjustStock(p, n)
  PROVE  StoreSpec!Adjust(p)
<1>1. stock \in [Products -> Int] /\ stock' = [stock EXCEPT ![p] = n] /\ n \in Nat
  BY DEF IInv, TypeOK, AdjustStock
<1>2. stock'[p] = n
  BY <1>1
<1> QED  BY <1>1, <1>2 DEF StoreSpec!Adjust, AdjustStock

\* Payment and fulfilment steps are one MoveOn.
LEMMA OrderMoveIsMoveOn ==
  ASSUME IInv, NEW o \in Orders,
         \/ \E outcome \in {"captured", "failed"} : SettlePayment(o, outcome)
         \/ \E p \in Products : MoveItem(o, p)
         \/ FulfilOrder(o)
  PROVE  StoreSpec!MoveOn(o)
  BY OrderMoveFacts, NoOrderIsNone, SameRows, SameCancellation DEF IInv, StoreSpec!MoveOn

\* Every other step of a session is invisible.
LEMMA StoreStep ==
  ASSUME IInv, [Next]_vars
  PROVE  StoreSpec!Next \/ UNCHANGED StoreSpec!vars
<1>1. CASE \E s \in Sessions, r \in Requests : Begin(s, r)
  BY <1>1 DEF Begin, StoreSpec!vars
<1>2. CASE \E s \in Sessions : LockingStep(s) \/ Authorize(s) \/ RejectShort(s) \/ Abort(s)
  BY <1>2 DEF LockingStep, AnswerFromEarlier, PassSerialize, LockRow, LockOrder, Authorize,
              RejectShort, Abort, StoreSpec!vars
<1>3. CASE \E s \in Sessions : PlaceOrder(s)
  BY <1>3, PlaceOrderIsPlace, SameRows DEF StoreSpec!Next
<1>4. CASE \E s \in Sessions : CommitCancel(s)
  BY <1>4, CommitCancelIsCancel DEF StoreSpec!Next
<1>5. CASE \E p \in Products, n \in 0..MaxStock : AdjustStock(p, n)
  BY <1>5, AdjustStockIsAdjust DEF StoreSpec!Next
<1>6. CASE \E o \in Orders : \/ \E outcome \in {"captured", "failed"} : SettlePayment(o, outcome)
                             \/ \E p \in Products : MoveItem(o, p)
                             \/ FulfilOrder(o)
  BY <1>6, OrderMoveIsMoveOn DEF StoreSpec!Next
<1>7. CASE UNCHANGED vars
  BY <1>7 DEF vars, StoreSpec!vars
<1> QED  BY <1>1, <1>2, <1>3, <1>4, <1>5, <1>6, <1>7 DEF Next, FreeStep

\* The locking transactions implement the store in which every operation
\* happens at once: a caller cannot tell the difference.
THEOREM Implementation == Spec => RefinesStore
<1>1. Init => StoreSpec!Init
  BY SameRows DEF Init, StoreSpec!Init
<1>2. IInv /\ [Next]_vars => [StoreSpec!Next]_(StoreSpec!vars)
  BY StoreStep
<1> QED  BY <1>1, <1>2, Invariance, PTL DEF Spec, RefinesStore, StoreSpec!Spec
================================================================================
