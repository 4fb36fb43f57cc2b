------------------------------- MODULE StoreData -------------------------------
(***************************************************************************)
(* The rows of the marketplace database that checkout, cancellation and    *)
(* the inventory service work on, and the pure functions over them.  It    *)
(* has no variables: Store (what the store promises) and Checkout (what    *)
(* the transactions do) both extend it.                                    *)
(*                                                                         *)
(* A cart is a function from every product to a quantity, 0 meaning that   *)
(* the product is not in it.  Prices, promotions and addresses are left    *)
(* out: nothing here depends on them.                                      *)
(***************************************************************************)
EXTENDS Integers, FiniteSets

CONSTANTS
  Products,      \* product ids; their integer order is the order of sort()
  Orders,        \* the order ids the generator may hand out
  Buyers,        \* buyer ids
  Keys,          \* idempotency keys
  NoKey,         \* a checkout sent without an idempotency key
  Carts,         \* the carts buyers may submit
  InitialStock   \* stock_count of every product before the first request

ASSUME ProductsAssumption ==
  /\ Products \subseteq Int
  /\ \A S \in SUBSET Products :
        S # {} => \E m \in S : \A x \in S : x =< m   \* finitely many ids
ASSUME CartsAssumption == Carts \subseteq [Products -> Nat]
ASSUME StockAssumption == InitialStock \in [Products -> Nat]
ASSUME KeysAssumption  == NoKey \notin Keys

OrderStatus == {"placed", "confirmed", "fulfilling", "fulfilled", "cancelled"}
PaymentStatus == {"pending", "captured", "failed", "refunded"}
\* "confirmed" stands for every status cancellation does not restock.
ItemStatus == {"none", "pending", "syncing", "confirmed", "failed"}

Order == [status : OrderStatus,
          kind   : {"checkout", "initiate"},
          buyer  : Buyers,
          key    : Keys \cup {NoKey},
          cart   : Carts,
          items  : [Products -> ItemStatus],
          pay    : PaymentStatus]
NoOrder == [status |-> "absent"]

CheckoutRequest == [kind : {"checkout"}, buyer : Buyers,
                    key : Keys \cup {NoKey}, cart : Carts]
InitiateRequest == [kind : {"initiate"}, buyer : Buyers,
                    key : {NoKey}, cart : Carts]
BuyRequest == CheckoutRequest \cup InitiateRequest
CancelRequest == [kind : {"cancel"}, order : Orders]

InCart(cart) == {p \in Products : cart[p] > 0}

\* Fault: the payment row is written before the capture is recorded.
NewOrderAuthorized(r) ==
  [status |-> "placed",
   kind   |-> r.kind,
   buyer  |-> r.buyer,
   key    |-> r.key,
   cart   |-> r.cart,
   items  |-> [p \in Products |-> IF r.cart[p] > 0 THEN "pending" ELSE "none"],
   pay    |-> "authorized"]

\* The order and payment rows a purchase inserts: a mock checkout is captured
\* at once, a Razorpay checkout starts with a pending authorization.
NewOrder(r) ==
  [status |-> "placed",
   kind   |-> r.kind,
   buyer  |-> r.buyer,
   key    |-> r.key,
   cart   |-> r.cart,
   items  |-> [p \in Products |-> IF r.cart[p] > 0 THEN "pending" ELSE "none"],
   pay    |-> IF r.kind = "checkout" THEN "captured" ELSE "pending"]

\* The line items whose stock a cancellation gives back.
Restorable(order) ==
  {p \in Products : order.items[p] \in {"pending", "syncing"}}

CancelledOrder(order) ==
  [order EXCEPT
     !.status = "cancelled",
     !.items  = [p \in Products |-> IF order.cart[p] > 0 THEN "failed" ELSE "none"],
     !.pay    = "refunded"]

Cancellable(order) == order.status \notin {"fulfilled", "cancelled"}

\* Fault: a second Razorpay attempt does not look for the first.
RepeatsByKeyOnly(r, order) ==
  /\ r.kind = "checkout"
  /\ r.key # NoKey
  /\ order # NoOrder
  /\ order.buyer = r.buyer
  /\ order.key = r.key

\* The stored order that makes a new request a repetition: the same buyer and
\* key for a checkout, an unpaid live attempt of the buyer for Razorpay.
Repeats(r, order) ==
  \/ /\ r.kind = "checkout"
     /\ r.key # NoKey
     /\ order # NoOrder
     /\ order.buyer = r.buyer
     /\ order.key = r.key
  \/ /\ r.kind = "initiate"
     /\ order # NoOrder
     /\ order.kind = "initiate"
     /\ order.buyer = r.buyer
     /\ order.pay = "pending"
     /\ order.status = "placed"
================================================================================
