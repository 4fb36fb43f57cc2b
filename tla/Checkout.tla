-------------------------------- MODULE Checkout --------------------------------
(***************************************************************************)
(* The transactions that move stock: OrdersService.checkout, its Razorpay  *)
(* counterpart RazorpayInitiationService.initiate, OrdersService.          *)
(* cancelOrder and InventoryService.adjustStock, run by concurrent         *)
(* sessions against one PostgreSQL database at READ COMMITTED.             *)
(*                                                                         *)
(* A session runs one request at a time.  Its writes become visible when   *)
(* it commits, so each transaction writes stock and orders in one last     *)
(* step, from the values it read when it locked the rows.  Row and         *)
(* advisory locks are held until that step or until the session rolls      *)
(* back; every error and every crash is a rollback.                        *)
(*                                                                         *)
(* Payment and fulfilment move an order on one row at a time and honour    *)
(* its status when they write; what their stale writes do to an order is   *)
(* the subject of module Fulfillment.                                      *)
(***************************************************************************)
EXTENDS StoreData

CONSTANTS
  Sessions,      \* database connections serving requests
  NoProduct,     \* "waiting for no product row"
  MaxStock       \* bound on what an adjustment may book in

ASSUME NoProductAssumption == NoProduct \notin Products

VARIABLES
  stock,     \* committed products.stock_count
  orders,    \* committed orders with their line items and latest payment
  pc,        \* where each session's transaction stands
  req,       \* the request it serves
  held,      \* product rows it has locked FOR UPDATE
  want,      \* product rows it still has to lock
  next,      \* the row of want it asks for next
  view,      \* stock_count as read with the lock on the row
  supply,    \* history: units put on sale so far, less units taken off
  reserved   \* history: units taken by orders and not given back

vars == <<stock, orders, pc, req, held, want, next, view, supply, reserved>>
txn  == <<pc, req, held, want, next, view>>
ledger == <<supply, reserved>>

NoReq == [kind |-> "none"]
Buying(s) == req[s].kind \in {"checkout", "initiate"}

(***************************************************************************)
(* Locks.  A session holds its advisory lock from the moment it has        *)
(* answered "is this a repetition?" with no, and a cancellation holds its  *)
(* order row (and the line items joined to it) while it locks products.    *)
(***************************************************************************)
RowFree(p) == \A t \in Sessions : p \notin held[t]

HoldsOrder(t, o) == /\ pc[t] = "lock"
                    /\ req[t].kind = "cancel"
                    /\ req[t].order = o
OrderFree(o) == \A t \in Sessions : ~HoldsOrder(t, o)

SameAdvisory(q, r) ==
  /\ q.kind \in {"checkout", "initiate"}
  /\ q.kind = r.kind
  /\ q.buyer = r.buyer
  /\ q.kind = "checkout" => q.key = r.key /\ q.key # NoKey

\* Fault: the advisory lock is not held across the call to the payment mock.
HoldsAdvisoryLate(t, r) == pc[t] = "lock" /\ SameAdvisory(req[t], r)

HoldsAdvisory(t, r) == pc[t] \in {"authorize", "lock"} /\ SameAdvisory(req[t], r)
AdvisoryFree(s) == \A t \in Sessions \ {s} : ~HoldsAdvisory(t, req[s])

Earlier(r) == {o \in Orders : Repeats(r, orders[o])}

\* The rows a session may ask for next: purchases go through sort()ed ids,
\* a cancellation through the line items in whatever order the join returned.
Ascending(W) == {p \in W : \A q \in W : p =< q}
\* Fault: rows are locked in the order of the cart.
UnsortedRows(kind, W) == IF W = {} THEN {NoProduct} ELSE W

NextRows(kind, W) ==
  IF W = {} THEN {NoProduct}
  ELSE IF kind = "cancel" THEN W ELSE Ascending(W)

Init ==
  /\ stock = InitialStock
  /\ orders = [o \in Orders |-> NoOrder]
  /\ pc = [s \in Sessions |-> "idle"]
  /\ req = [s \in Sessions |-> NoReq]
  /\ held = [s \in Sessions |-> {}]
  /\ want = [s \in Sessions |-> {}]
  /\ next = [s \in Sessions |-> NoProduct]
  /\ view = [s \in Sessions |-> [p \in Products |-> 0]]
  /\ supply = InitialStock
  /\ reserved = [p \in Products |-> 0]

\* Fault: the connection goes back to the pool with its transaction open.
EndWithoutRelease(s) ==
  /\ pc' = [pc EXCEPT ![s] = "idle"]
  /\ req' = [req EXCEPT ![s] = NoReq]
  /\ want' = [want EXCEPT ![s] = {}]
  /\ next' = [next EXCEPT ![s] = NoProduct]
  /\ UNCHANGED <<held, view>>

\* COMMIT or ROLLBACK: the session lets go of every lock and is idle again.
End(s) ==
  /\ pc' = [pc EXCEPT ![s] = "idle"]
  /\ req' = [req EXCEPT ![s] = NoReq]
  /\ held' = [held EXCEPT ![s] = {}]
  /\ want' = [want EXCEPT ![s] = {}]
  /\ next' = [next EXCEPT ![s] = NoProduct]
  /\ view' = [view EXCEPT ![s] = [p \in Products |-> 0]]

\* The session goes on to lock the rows W.
StartLocking(s, W) ==
  /\ pc' = [pc EXCEPT ![s] = "lock"]
  /\ want' = [want EXCEPT ![s] = W]
  /\ \E n \in NextRows(req[s].kind, W) : next' = [next EXCEPT ![s] = n]
  /\ UNCHANGED <<req, held, view>>

(***************************************************************************)
(* Purchases.                                                              *)
(***************************************************************************)
FirstStep(r) ==
  IF r.kind = "cancel" THEN "order"
  ELSE IF r.kind = "checkout" /\ r.key = NoKey THEN "authorize"
  ELSE "serialize"

\* Bound: no more purchases run than there are order ids left (uuids never
\* run out).
IdsLeft == Cardinality({t \in Sessions : Buying(t)})
             < Cardinality({o \in Orders : orders[o] = NoOrder})

Begin(s, r) ==
  /\ pc[s] = "idle"
  /\ r.kind \in {"checkout", "initiate"} => IdsLeft
  /\ pc' = [pc EXCEPT ![s] = FirstStep(r)]
  /\ req' = [req EXCEPT ![s] = r]
  /\ UNCHANGED <<stock, orders, held, want, next, view, ledger>>

\* With the advisory lock, an earlier order is found: it is replayed, or the
\* request is refused because its payload differs.  Nothing is written.
AnswerFromEarlier(s) ==
  /\ pc[s] = "serialize"
  /\ AdvisoryFree(s)
  /\ Earlier(req[s]) # {}
  /\ \A o \in Earlier(req[s]) : OrderFree(o)
  /\ End(s)
  /\ UNCHANGED <<stock, orders, ledger>>

\* With the advisory lock, there is none: a checkout asks the payment mock, a
\* Razorpay attempt goes straight to the product rows.
PassSerialize(s) ==
  /\ pc[s] = "serialize"
  /\ AdvisoryFree(s)
  /\ Earlier(req[s]) = {}
  /\ IF req[s].kind = "checkout"
       THEN /\ pc' = [pc EXCEPT ![s] = "authorize"]
            /\ UNCHANGED <<req, held, want, next, view>>
       ELSE StartLocking(s, InCart(req[s].cart))
  /\ UNCHANGED <<stock, orders, ledger>>

\* The mock authorizes; a decline is a rollback (Abort).
Authorize(s) ==
  /\ pc[s] = "authorize"
  /\ StartLocking(s, InCart(req[s].cart))
  /\ UNCHANGED <<stock, orders, ledger>>

\* SELECT ... FOR UPDATE on one product row: waits until it is free, then
\* reads the committed stock.
LockRow(s) ==
  /\ pc[s] = "lock"
  /\ want[s] # {}
  /\ RowFree(next[s])
  /\ held' = [held EXCEPT ![s] = @ \cup {next[s]}]
  /\ view' = [view EXCEPT ![s] = [@ EXCEPT ![next[s]] = stock[next[s]]]]
  /\ want' = [want EXCEPT ![s] = @ \ {next[s]}]
  /\ \E n \in NextRows(req[s].kind, want[s] \ {next[s]}) :
        next' = [next EXCEPT ![s] = n]
  /\ UNCHANGED <<stock, orders, pc, req, ledger>>

\* Fault: one unit too many may be sold.
EnoughOffByOne(s) == \A p \in InCart(req[s].cart) : view[s][p] + 1 >= req[s].cart[p]

Enough(s) == \A p \in InCart(req[s].cart) : view[s][p] >= req[s].cart[p]

\* All rows locked and enough stock: decrement, insert order, line items and
\* payment, commit.
PlaceOrder(s) ==
  /\ pc[s] = "lock"
  /\ want[s] = {}
  /\ Buying(s)
  /\ Enough(s)
  /\ \E o \in Orders :
        /\ orders[o] = NoOrder
        /\ orders' = [orders EXCEPT ![o] = NewOrder(req[s])]
  /\ stock' = [p \in Products |->
                 IF p \in InCart(req[s].cart)
                   THEN view[s][p] - req[s].cart[p] ELSE stock[p]]
  /\ reserved' = [p \in Products |-> reserved[p] + req[s].cart[p]]
  /\ End(s)
  /\ UNCHANGED supply

\* All rows locked and not enough stock for some item: 400 / 409.
RejectShort(s) ==
  /\ pc[s] = "lock"
  /\ want[s] = {}
  /\ Buying(s)
  /\ ~Enough(s)
  /\ End(s)
  /\ UNCHANGED <<stock, orders, ledger>>

(***************************************************************************)
(* Cancellation.                                                           *)
(***************************************************************************)
\* Fault: cancelOrder does not look at the status it locked.
LockOrderUnchecked(s) ==
  /\ pc[s] = "order"
  /\ OrderFree(req[s].order)
  /\ StartLocking(s, Restorable(orders[req[s].order]))
  /\ UNCHANGED <<stock, orders, ledger>>

\* SELECT order FOR UPDATE: a final order is refused, otherwise the items to
\* restock are fixed here.
LockOrder(s) ==
  /\ pc[s] = "order"
  /\ OrderFree(req[s].order)
  /\ IF Cancellable(orders[req[s].order])
       THEN StartLocking(s, Restorable(orders[req[s].order]))
       ELSE End(s)
  /\ UNCHANGED <<stock, orders, ledger>>

\* restoreStock has run for every item: order, items and payment are updated
\* and the transaction commits.
CommitCancel(s) ==
  LET o == req[s].order IN
  /\ pc[s] = "lock"
  /\ want[s] = {}
  /\ req[s].kind = "cancel"
  /\ stock' = [p \in Products |->
                 IF p \in held[s] THEN view[s][p] + orders[o].cart[p] ELSE stock[p]]
  /\ reserved' = [p \in Products |->
                    IF p \in held[s] THEN reserved[p] - orders[o].cart[p]
                    ELSE reserved[p]]
  /\ orders' = [orders EXCEPT ![o] = CancelledOrder(orders[o])]
  /\ End(s)
  /\ UNCHANGED supply

\* Any error thrown inside the transaction, a declined payment, a failed
\* provider call, a deadlock victim or a crash: everything is rolled back.
Abort(s) ==
  /\ pc[s] # "idle"
  /\ End(s)
  /\ UNCHANGED <<stock, orders, ledger>>

(***************************************************************************)
(* The other writers of the same rows.                                     *)
(***************************************************************************)
\* Fault: adjustStock does not wait for the row lock.
AdjustUnlocked(p, n) ==
  /\ n >= 0
  /\ stock' = [stock EXCEPT ![p] = n]
  /\ supply' = [supply EXCEPT ![p] = @ + n - stock[p]]
  /\ UNCHANGED <<orders, txn, reserved>>

\* adjustStock locks, reads, writes and commits one row.
AdjustStock(p, n) ==
  /\ RowFree(p)
  /\ n >= 0
  /\ stock' = [stock EXCEPT ![p] = n]
  /\ supply' = [supply EXCEPT ![p] = @ + n - stock[p]]
  /\ UNCHANGED <<orders, txn, reserved>>

\* verify or webhook settles a Razorpay authorization under the order's lock.
SettlePayment(o, outcome) ==
  /\ orders[o] # NoOrder
  /\ OrderFree(o)
  /\ orders[o].pay = "pending"
  /\ orders[o].status = "placed"
  /\ orders' = [orders EXCEPT ![o].pay = outcome,
                              ![o].status = IF outcome = "captured"
                                              THEN "confirmed" ELSE @]
  /\ UNCHANGED <<stock, txn, ledger>>

\* A vendor worker moves a line item of a paid order on.
MoveItem(o, p) ==
  /\ orders[o] # NoOrder
  /\ OrderFree(o)
  /\ orders[o].status # "cancelled"
  /\ orders[o].pay = "captured"
  /\ \/ /\ orders[o].items[p] = "pending"
        /\ orders' = [orders EXCEPT ![o].items[p] = "syncing"]
     \/ /\ orders[o].items[p] = "syncing"
        /\ orders' = [orders EXCEPT ![o].items[p] = "confirmed"]
  /\ UNCHANGED <<stock, txn, ledger>>

\* checkOrderFulfillment: every line item is confirmed.
FulfilOrder(o) ==
  /\ orders[o] # NoOrder
  /\ OrderFree(o)
  /\ Cancellable(orders[o])
  /\ \A p \in InCart(orders[o].cart) : orders[o].items[p] = "confirmed"
  /\ orders' = [orders EXCEPT ![o].status = "fulfilled"]
  /\ UNCHANGED <<stock, txn, ledger>>

\* Steps that wait for a lock, and steps that need none.
LockingStep(s) == AnswerFromEarlier(s) \/ PassSerialize(s) \/ LockRow(s) \/ LockOrder(s)
FreeStep(s) == Authorize(s) \/ PlaceOrder(s) \/ RejectShort(s) \/ CommitCancel(s)

PlacedOrders == {o \in Orders : orders[o] # NoOrder}
Requests == BuyRequest \cup {r \in CancelRequest : r.order \in PlacedOrders}

Next ==
  \/ \E s \in Sessions : LockingStep(s) \/ FreeStep(s) \/ Abort(s)
  \/ \E s \in Sessions, r \in Requests : Begin(s, r)
  \/ \E p \in Products, n \in 0..MaxStock : AdjustStock(p, n)
  \/ \E o \in Orders : \/ \E outcome \in {"captured", "failed"} : SettlePayment(o, outcome)
                       \/ \E p \in Products : MoveItem(o, p)
                       \/ FulfilOrder(o)

Spec == Init /\ [][Next]_vars

(***************************************************************************)
(* Waiting.  s waits for t when t holds the lock s asks for; a set of      *)
(* sessions is deadlocked when each waits for another of the set.          *)
(***************************************************************************)
WaitsFor(s, t) ==
  /\ s # t
  /\ \/ /\ pc[s] = "serialize"
        /\ HoldsAdvisory(t, req[s]) \/ \E o \in Earlier(req[s]) : HoldsOrder(t, o)
     \/ pc[s] = "order" /\ HoldsOrder(t, req[s].order)
     \/ pc[s] = "lock" /\ next[s] \in held[t]

Deadlocked(S) == S # {} /\ \A s \in S : \E t \in S : WaitsFor(s, t)
Cycle(S) == Deadlocked(S) /\ \A T \in SUBSET S : Deadlocked(T) => T = S

\* PostgreSQL's deadlock detector ends one transaction of a cycle.
BreakDeadlock ==
  \E S \in SUBSET Sessions : Cycle(S) /\ \E s \in S : Abort(s)

\* Row and advisory locks are granted in the order they are asked for, so a
\* session that can have its lock again and again gets it; a session that
\* waits for nothing runs on.  Nothing makes a client send a request.
Fairness ==
  /\ \A s \in Sessions : SF_vars(LockingStep(s)) /\ WF_vars(FreeStep(s))
  /\ WF_vars(BreakDeadlock)

FairSpec == Spec /\ Fairness

(***************************************************************************)
(* Properties.                                                             *)
(***************************************************************************)
Stage == {"idle", "serialize", "authorize", "order", "lock"}

\* Every variable has its type; stock_count is an integer of either sign.
TypeOK ==
  /\ stock \in [Products -> Int]
  /\ orders \in [Orders -> Order \cup {NoOrder}]
  /\ pc \in [Sessions -> Stage]
  /\ req \in [Sessions -> BuyRequest \cup CancelRequest \cup {NoReq}]
  /\ held \in [Sessions -> SUBSET Products]
  /\ want \in [Sessions -> SUBSET Products]
  /\ next \in [Sessions -> Products \cup {NoProduct}]
  /\ view \in [Sessions -> [Products -> Int]]
  /\ supply \in [Products -> Int]
  /\ reserved \in [Products -> Int]

\* No update of stock_count is lost: whatever transactions interleave, the
\* units on the shelf and the units taken by orders are the units put on sale
\* (the absolute values written by checkout, cancelOrder, restoreStock and
\* adjustStock come from reads that are still current when they are written).
StockConserved ==
  \A p \in Products : stock[p] + reserved[p] = supply[p]

\* What is written from a locked read was not changed since the read.
ViewsCurrent ==
  \A s \in Sessions : \A p \in held[s] : view[s][p] = stock[p]

\* No oversell: the stock is never negative.
StockNeverNegative == \A p \in Products : stock[p] >= 0

\* The units live orders were promised, over all orders.
LiveOrders == {o \in PlacedOrders : orders[o].status # "cancelled"}
PromisedUnits(p) == UNION {{o} \X (1 .. orders[o].cart[p]) : o \in LiveOrders}

\* Nothing is sold twice: the units promised to orders that are not cancelled
\* and the units still on the shelf never exceed the units put on sale.
NothingSoldTwice ==
  \A p \in Products : stock[p] >= 0 /\ Cardinality(PromisedUnits(p)) + stock[p] =< supply[p]

\* A buyer's idempotency key names at most one order, however many copies of
\* the request run at once (advisory lock and lookup of checkout).
OneOrderPerKey ==
  \A o, e \in PlacedOrders :
     (orders[o].buyer = orders[e].buyer /\ orders[o].key = orders[e].key
        /\ orders[o].key # NoKey) => o = e

\* A buyer has at most one unpaid live Razorpay order, so stock is not
\* reserved twice for one cart (initiate's reuse of the pending attempt).
LiveAttempt(o) == /\ orders[o].kind = "initiate"
                  /\ orders[o].pay = "pending"
                  /\ orders[o].status = "placed"
OneLiveAttemptPerBuyer ==
  \A o, e \in PlacedOrders :
     (LiveAttempt(o) /\ LiveAttempt(e) /\ orders[o].buyer = orders[e].buyer) => o = e

\* Purchases never deadlock among themselves: rows are locked in ascending
\* order, after the advisory lock.
BuyersNeverDeadlock ==
  \A S \in SUBSET {s \in Sessions : Buying(s)} : ~Deadlocked(S)

StoreSpec == INSTANCE Store WITH stock <- stock, orders <- orders

\* The locking transactions implement the promise: each commit is one atomic
\* Place, Cancel or Adjust of Store, and every other step is invisible.
RefinesStore == StoreSpec!Spec

(***************************************************************************)
(* Why it holds: the inductive invariant of the proofs.                    *)
(***************************************************************************)
\* No product row is locked twice.
RowsExclusive ==
  \A s, t \in Sessions : s # t => held[s] \cap held[t] = {}

\* No order row is locked twice.
OrdersExclusive ==
  \A s, t \in Sessions : \A o \in Orders :
     HoldsOrder(s, o) /\ HoldsOrder(t, o) => s = t

\* No advisory lock is held twice.
AdvisoryExclusive ==
  \A s, t \in Sessions :
     s # t /\ pc[s] \in {"authorize", "lock"} => ~HoldsAdvisory(t, req[s])

\* Where a transaction stands says which request it serves; only one that locks
\* product rows holds any.
StageOK ==
  \A s \in Sessions :
    /\ pc[s] = "idle" => req[s] = NoReq
    /\ pc[s] \in {"serialize", "authorize"} => req[s] \in BuyRequest
    /\ pc[s] = "serialize" => req[s].kind = "initiate" \/ req[s].key # NoKey
    /\ pc[s] = "authorize" => req[s].kind = "checkout"
    /\ pc[s] = "order" => req[s] \in CancelRequest
    /\ pc[s] = "lock" => req[s] \in BuyRequest \cup CancelRequest
    /\ pc[s] # "lock" => held[s] = {} /\ want[s] = {}

\* A purchase locks the rows of its cart upwards.
BuyerLocks ==
  \A s \in Sessions : pc[s] = "lock" /\ req[s] \in BuyRequest =>
    /\ held[s] \cup want[s] = InCart(req[s].cart)
    /\ \A h \in held[s], w \in want[s] : h < w
    /\ next[s] \in NextRows(req[s].kind, want[s])

\* A cancellation locks the rows of the items that are still to be restocked,
\* and its order stays live while it does.
CancelLocks ==
  \A s \in Sessions : req[s] \in CancelRequest =>
    /\ orders[req[s].order] # NoOrder
    /\ pc[s] = "lock" =>
         /\ Cancellable(orders[req[s].order])
         /\ held[s] \cup want[s] = Restorable(orders[req[s].order])
         /\ held[s] \cap want[s] = {}
         /\ want[s] # {} => next[s] \in want[s]

\* Whoever passed the question "is this a repetition?" is still right.
StillFirst ==
  \A s \in Sessions :
    pc[s] \in {"authorize", "lock"} /\ req[s] \in BuyRequest => Earlier(req[s]) = {}

IInv ==
  /\ TypeOK
  /\ RowsExclusive
  /\ OrdersExclusive
  /\ AdvisoryExclusive
  /\ StageOK
  /\ BuyerLocks
  /\ CancelLocks
  /\ StillFirst
  /\ ViewsCurrent
  /\ StockConserved
  /\ StockNeverNegative
  /\ OneOrderPerKey
  /\ OneLiveAttemptPerBuyer

\* What is promised was reserved.  (An order cancelled after a vendor accepted
\* an item is promised nothing, and the item stays reserved.)
PromisesReserved ==
  \A p \in Products :
    IsFiniteSet(PromisedUnits(p)) /\ Cardinality(PromisedUnits(p)) =< reserved[p]
================================================================================
