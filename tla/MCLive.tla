--------------------------------- MODULE MCLive ---------------------------------
(***************************************************************************)
(* What must eventually happen to an order: the request that places it is  *)
(* answered, its payment is settled, its line items are fulfilled, and its *)
(* buyer sees so.  A behaviour is one of a single system; the variables x1 *)
(* to x13 are those of the system chosen at the start, and those it does   *)
(* not need stay "unused".                                                 *)
(***************************************************************************)
EXTENDS Integers, TLC

CONSTANTS
  Sessions,                                  \* and the handlers of Fulfillment
  Products, Orders, Buyers, Keys, NoKey, Carts, InitialStock, NoProduct,
  MaxStock,                                  \* Checkout
  Payments, NoRef, Deployments,              \* Payments, without line items
  Items, Jobs, NoJob, MaxAttempts, QueueAttempts, MaxStalls,
  MaxFaults, MayReject, Staff,               \* Fulfillment
  MaxRetries, MaxMoves, MaxLosses, NoData    \* Tracking

VARIABLES system, x1, x2, x3, x4, x5, x6, x7, x8, x9, x10, x11, x12, x13
vars == <<system, x1, x2, x3, x4, x5, x6, x7, x8, x9, x10, x11, x12, x13>>

Shop == INSTANCE Checkout WITH
  stock <- x1, orders <- x2, pc <- x3, req <- x4, held <- x5, want <- x6, next <- x7,
  view <- x8, supply <- x9, reserved <- x10
Till == INSTANCE Payments WITH Items <- {},
  deployed <- x1, pay <- x2, order <- x3, items <- x4, events <- x5, pc <- x6,
  req <- x7, charged <- x8, declined <- x9, jobs <- x10, past <- x11, twice <- x12
Depot == INSTANCE Fulfillment WITH Procs <- Sessions,
  status <- x1, pay <- x2, item <- x3, ref <- x4, job <- x5, ticket <- x6,
  pc <- x7, loc <- x8, sent <- x9, cleared <- x10, resolved <- x11,
  shipped <- x12, faults <- x13
Page == INSTANCE Tracking WITH
  order <- x1, query <- x2, reply <- x3, visible <- x4, online <- x5, signedIn <- x6,
  moves <- x7, losses <- x8

After10 == <<x11, x12, x13>>
After8 == <<x9, x10, After10>>

Init ==
  \/ /\ system = "checkout" /\ Shop!Init
     /\ x11 = "unused" /\ x12 = "unused" /\ x13 = "unused"
  \/ system = "payments" /\ Till!Init /\ x13 = "unused"
  \/ system = "fulfillment" /\ Depot!Init
  \/ /\ system = "tracking" /\ Page!Init
     /\ x9 = "unused" /\ x10 = "unused" /\ x11 = "unused" /\ x12 = "unused" /\ x13 = "unused"

InShop(A)  == system = "checkout"    /\ A /\ UNCHANGED <<system, After10>>
InTill(A)  == system = "payments"    /\ A /\ UNCHANGED <<system, x13>>
InDepot(A) == system = "fulfillment" /\ A /\ UNCHANGED system
OnPage(A)  == system = "tracking"    /\ A /\ UNCHANGED <<system, After8>>

CheckoutStep    == InShop(Shop!Next)
PaymentStep     == InTill(Till!Next)
FulfillmentStep == InDepot(Depot!Next)
TrackingStep    == OnPage(Page!Next)

Next == CheckoutStep \/ PaymentStep \/ FulfillmentStep \/ TrackingStep

\* The fairness that each module states and justifies.  A behaviour is one of
\* a single system, so that one condition on the steps of several says the same
\* as one for each.
RunsOn(s) ==
  \/ InShop(Shop!FreeStep(s)) \/ InTill(Till!WaitsForNoLock(s)) \/ InDepot(Depot!Step(s))
  \/ OnPage(Page!PageStep)
WaitsForLock(s) == InShop(Shop!LockingStep(s)) \/ InTill(Till!WaitsForLock(s))

Fairness ==
  /\ \A s \in Sessions :
       WF_vars(RunsOn(s)) /\ SF_vars(WaitsForLock(s)) /\ WF_vars(InTill(Till!BreakDeadlock(s)))
  /\ WF_vars(InShop(Shop!BreakDeadlock))
  /\ \A j \in Jobs : SF_vars(InDepot(\E s \in Sessions : Depot!Deliver(s, j)))

Spec == Init /\ [][Next]_vars /\ Fairness

\* Event ids that parse and a sandbox; ids that do not, and production.
MCDeployments ==
  {[numbers |-> TRUE, uuids |-> TRUE, production |-> FALSE],
   [numbers |-> TRUE, uuids |-> FALSE, production |-> TRUE]}

\* Two products, one of each on the shelf and in the only cart.
MCPairCarts == {[p \in {1, 2} |-> 1]}
MCPairStock == [p \in {1, 2} |-> 1]

(***************************************************************************)
(* Properties.                                                             *)
(***************************************************************************)
\* Every checkout, payment attempt, cancellation and adjustment is answered: none
\* waits for a lock for ever, deadlocks with cancellations included.
RequestsEnd ==
  \A s \in Sessions :
    (system = "checkout" /\ x3[s] # "idle") ~> (system = "checkout" /\ x3[s] = "idle")

\* Every verification, webhook, refund, cancellation and staff transition ends:
\* none waits for a lock for ever, although a cancellation locks order and
\* payment in the opposite order of a settlement.
SettlementsEnd ==
  \A s \in Sessions :
    (system = "payments" /\ x6[s] # "idle") ~> (system = "payments" /\ x6[s] = "idle")

\* When every line item has been queued and vendors accept, the order is
\* fulfilled, although no worker knows which of them comes last.
OrderFulfilled ==
  (system = "fulfillment" /\ \A i \in Items : Depot!Queued(i))
     ~> (system = "fulfillment" /\ x1 = "fulfilled")

\* The page of a buyer who keeps watching, online and signed in, comes to show
\* the order as it is and stays so: polling does not end early.
ScreenCatchesUp ==
  <>[](system = "tracking" /\ Page!Watched)
     => <>[](system = "tracking" /\ Page!Screen = Page!View(x1))
================================================================================
