--------------------------------- MODULE Store ---------------------------------
(***************************************************************************)
(* What the store promises its buyers and vendors, with no transactions,   *)
(* locks or sessions: every operation happens at once.  An order takes all *)
(* of its stock or is refused, a repeated request makes no second order,   *)
(* and a cancellation gives back exactly what the order still reserves.    *)
(***************************************************************************)
EXTENDS StoreData

VARIABLES
  stock,    \* [Products -> Int]  products.stock_count
  orders    \* [Orders -> Order]  orders, with their line items and payment

vars == <<stock, orders>>

Init ==
  /\ stock = InitialStock
  /\ orders = [o \in Orders |-> NoOrder]

Place(o, r) ==
  /\ orders[o] = NoOrder
  /\ \A e \in Orders : ~Repeats(r, orders[e])
  /\ \A p \in Products : r.cart[p] =< stock[p]
  /\ stock' = [p \in Products |-> stock[p] - r.cart[p]]
  /\ orders' = [orders EXCEPT ![o] = NewOrder(r)]

Cancel(o) ==
  /\ orders[o] # NoOrder
  /\ Cancellable(orders[o])
  /\ stock' = [p \in Products |->
                 IF p \in Restorable(orders[o])
                   THEN stock[p] + orders[o].cart[p] ELSE stock[p]]
  /\ orders' = [orders EXCEPT ![o] = CancelledOrder(orders[o])]

\* A vendor or admin books units of one product in or out; what is left is
\* never negative.
Adjust(p) ==
  /\ stock'[p] \in Nat
  /\ stock' = [stock EXCEPT ![p] = stock'[p]]
  /\ UNCHANGED orders

\* Payment and fulfilment move an order on.  They never touch stock, never undo
\* a cancellation and never make a line item restorable that was not.
MoveOn(o) ==
  /\ orders[o] # NoOrder
  /\ orders[o].status # "cancelled"
  /\ orders'[o] \in Order
  /\ orders'[o].status # "cancelled"
  /\ orders'[o].cart = orders[o].cart
  /\ orders'[o].key = orders[o].key
  /\ orders'[o].buyer = orders[o].buyer
  /\ Restorable(orders'[o]) \subseteq Restorable(orders[o])
  /\ orders' = [orders EXCEPT ![o] = orders'[o]]
  /\ UNCHANGED stock

Next ==
  \/ \E o \in Orders, r \in BuyRequest : Place(o, r)
  \/ \E o \in Orders : Cancel(o) \/ MoveOn(o)
  \/ \E p \in Products : Adjust(p)

Spec == Init /\ [][Next]_vars
================================================================================
