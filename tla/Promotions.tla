------------------------------- MODULE Promotions -------------------------------
(***************************************************************************)
(* The promotions of a vendor, and the two checkouts that apply them to a  *)
(* product: the plain checkout, which reads them once before its           *)
(* transaction and snapshots the funding of the discount, and the Razorpay *)
(* initiation, which reads them twice: for the amount the buyer pays and   *)
(* again for the line item.  A line that was placed may be divided between *)
(* vendor and platform by the allocation engine.                           *)
(*                                                                         *)
(* Percentages are in hundredths of a percent, the scale of their columns. *)
(* Reads are read-committed: vendors and staff write in between.           *)
(***************************************************************************)
EXTENDS Money

CONSTANTS
  MaxPromos,    \* how many promotions are created; a later one is newer
  Percents,     \* discounts, in hundredths of a percent
  Shares,       \* the vendor's part of a discount, in hundredths of a percent
  Checkouts,    \* requests to buy
  Prices,       \* unit prices, in cents
  Quantities,
  Policies      \* commission policies

\* The bounds that the requests are validated against: a discount and a share are
\* at most 100 %, prices and quantities are not negative.
PricesAssumption ==
  /\ MaxPromos \in Nat
  /\ \A n \in Percents \cup Shares : n \in Nat /\ n =< 10000
  /\ Prices \subseteq Nat
  /\ Quantities \subseteq Nat

VARIABLES
  numbers,      \* the driver reads decimal columns back as numbers
  promos,       \* the promotions table
  approved,     \* history: the promotions approved at some time
  pc,           \* where each checkout stands
  quote,        \* what it read and calculated before placing the order
  line,         \* the line item it recorded, with the snapshot's funding
  allocation    \* how the engine divided the line's total

vars == <<numbers, promos, approved, pc, quote, line, allocation>>

Promos == 1..MaxPromos
NoPromo == 0
Row == [percent : Percents \cup {0}, share : Shares \cup {0}, live : BOOLEAN,
        state : {"NONE", "PENDING", "APPROVED", "REJECTED", "DELETED"}]
NoPromotion == [percent |-> 0, share |-> 0, live |-> FALSE, state |-> "NONE"]
NoLine == [promo |-> NoPromo]
NoAllocation == [payable |-> 0]

\* A checkout of quantity units at a price, by one of the two services.
Request == [kind : {"plain", "razorpay"}, price : Prices, quantity : Quantities]

Init ==
  /\ numbers \in BOOLEAN
  /\ promos = [p \in Promos |-> NoPromotion]
  /\ approved = {}
  /\ pc = [c \in Checkouts |-> "new"]
  /\ quote = [c \in Checkouts |-> NoLine]
  /\ line = [c \in Checkouts |-> NoLine]
  /\ allocation = [c \in Checkouts |-> NoAllocation]

checkouts == <<pc, quote, line, allocation>>

(***************************************************************************)
(* The vendor's and the staff's operations on a promotion.                 *)
(***************************************************************************)
Exists(p) == promos[p].state \in {"PENDING", "APPROVED", "REJECTED"}

Create(p, percent, share) ==
  /\ promos[p].state = "NONE"
  /\ \A q \in Promos : q < p => promos[q].state # "NONE"
  /\ promos' = [promos EXCEPT ![p] = [percent |-> percent, share |-> share,
                                      live |-> TRUE, state |-> "PENDING"]]
  /\ UNCHANGED <<numbers, approved, checkouts>>

\* The vendor changes percentage, dates and activity, whatever the state; the
\* clock moves in or out of the dates as well.
Update(p, percent, live) ==
  /\ Exists(p)
  /\ promos' = [promos EXCEPT ![p].percent = percent, ![p].live = live]
  /\ UNCHANGED <<numbers, approved, checkouts>>

Remove(p) ==
  /\ Exists(p)
  /\ promos' = [promos EXCEPT ![p] = [NoPromotion EXCEPT !.state = "DELETED"]]
  /\ UNCHANGED <<numbers, approved, checkouts>>

\* One conditional UPDATE: of two decisions only the first finds it pending.
Decide(p, decision) ==
  /\ promos[p].state = "PENDING"
  /\ promos' = [promos EXCEPT ![p].state = decision]
  /\ approved' = IF decision = "APPROVED" THEN approved \cup {p} ELSE approved
  /\ UNCHANGED <<numbers, checkouts>>

(***************************************************************************)
(* Pricing.                                                                *)
(***************************************************************************)
\* The promotions a service considers.  Razorpay initiation does not look at
\* the approval.
Applicable(kind) ==
  {p \in Promos :
     /\ Exists(p)
     /\ promos[p].live
     /\ kind = "plain" => promos[p].state = "APPROVED"}

\* The newest one, or none.
Chosen(kind, p) ==
  IF Applicable(kind) = {} THEN p = NoPromo
  ELSE p \in Applicable(kind) /\ \A q \in Applicable(kind) : q =< p

PercentOf(p) == IF p = NoPromo THEN 0 ELSE promos[p].percent
ShareOf(p)   == IF p = NoPromo THEN 0 ELSE promos[p].share

\* Unit prices a service may calculate from the table as it is.
UnitPrices(r, p) ==
  IF p = NoPromo THEN {r.price}
  ELSE IF r.kind = "plain" THEN {Discounted(r.price, PercentOf(p), 100)}
  ELSE FloatDiscounted(r.price, PercentOf(p), 100)

\* The checkout reads the promotions and calculates the amount to pay.
Price(c, r) ==
  /\ pc[c] = "new"
  /\ \E p \in Promos \cup {NoPromo} :
       /\ Chosen(r.kind, p)
       /\ \E unit \in UnitPrices(r, p) :
            quote' = [quote EXCEPT ![c] =
              [promo |-> p, request |-> r, percent |-> PercentOf(p),
               share |-> ShareOf(p), unit |-> unit, amount |-> unit * r.quantity]]
  /\ pc' = [pc EXCEPT ![c] = "priced"]
  /\ UNCHANGED <<numbers, promos, approved, line, allocation>>

Refuse(c) ==
  /\ pc' = [pc EXCEPT ![c] = "refused"]
  /\ UNCHANGED <<numbers, promos, approved, quote, line, allocation>>

\* persistSnapshot: the discount of the line and who funds it.
Discount(q) == q.request.price * q.request.quantity - q.unit * q.request.quantity

\* The order's transaction records what was calculated.  The snapshot of a
\* promotion is read back and compared, which fails on decimals that come back
\* as strings, and so does the checkout.
PlacePlain(c) ==
  /\ pc[c] = "priced"
  /\ quote[c].request.kind = "plain"
  /\ quote[c].promo # NoPromo => numbers
  /\ LET q == quote[c] IN
       \E v \in VendorShares(Discount(q), q.share, 100) :
         line' = [line EXCEPT ![c] =
           [promo |-> q.promo, unit |-> q.unit, total |-> q.amount,
            vendor |-> v, marketplace |-> Discount(q) - v]]
  /\ pc' = [pc EXCEPT ![c] = "placed"]
  /\ UNCHANGED <<numbers, promos, approved, quote, allocation>>

RefusePlain(c) ==
  /\ pc[c] = "priced"
  /\ quote[c].request.kind = "plain"
  /\ quote[c].promo # NoPromo /\ ~numbers
  /\ Refuse(c)

\* Initiation asks the provider for the amount calculated, and reads the
\* promotions again for the line item.  Nothing is funded.
PlaceRazorpay(c) ==
  /\ pc[c] = "priced"
  /\ quote[c].request.kind = "razorpay"
  /\ \E p \in Promos \cup {NoPromo} :
       /\ Chosen("razorpay", p)
       /\ \E unit \in UnitPrices(quote[c].request, p) :
            line' = [line EXCEPT ![c] =
              [promo |-> p, unit |-> unit, total |-> unit * quote[c].request.quantity,
               vendor |-> 0, marketplace |-> 0]]
  /\ pc' = [pc EXCEPT ![c] = "placed"]
  /\ UNCHANGED <<numbers, promos, approved, quote, allocation>>

\* calculateVendorAllocation, under an approved policy.
Allocate(c, policy) ==
  /\ pc[c] = "placed"
  /\ allocation[c] = NoAllocation
  /\ ValidPolicy(policy)
  /\ LET gross == line[c].total IN
       allocation' = [allocation EXCEPT ![c] =
         [policy |-> policy, gross |-> gross,
          commission |-> CommissionOf(policy, gross),
          payable |-> Payable(policy, gross), net |-> PlatformNet(policy, gross)]]
  /\ UNCHANGED <<numbers, promos, approved, pc, quote, line>>

\* A total of zero, a declined card, no stock, a lost connection.
Fail(c) ==
  /\ pc[c] = "priced"
  /\ Refuse(c)

Next ==
  \/ \E p \in Promos :
       \/ \E percent \in Percents, share \in Shares : Create(p, percent, share)
       \/ \E percent \in Percents, live \in BOOLEAN : Update(p, percent, live)
       \/ Remove(p)
       \/ \E decision \in {"APPROVED", "REJECTED"} : Decide(p, decision)
  \/ \E c \in Checkouts :
       \/ \E r \in Request : Price(c, r)
       \/ PlacePlain(c)
       \/ RefusePlain(c)
       \/ PlaceRazorpay(c)
       \/ \E policy \in Policies : Allocate(c, policy)
       \/ Fail(c)

Spec == Init /\ [][Next]_vars

(***************************************************************************)
(* Properties.                                                             *)
(***************************************************************************)
Placed(c, kind) == pc[c] = "placed" /\ quote[c].request.kind = kind

\* A plain checkout applies a promotion only if staff had approved it, records
\* the very price it charged, and splits exactly what the buyer did not pay,
\* although the vendor edits or deletes the promotion meanwhile.
PlainOrderAddsUp ==
  \A c \in Checkouts : Placed(c, "plain") =>
    LET l == line[c]
        r == quote[c].request IN
      /\ l.promo # NoPromo => l.promo \in approved
      /\ l.total = quote[c].amount
      /\ l.vendor >= 0 /\ l.marketplace >= 0
      /\ l.total + l.vendor + l.marketplace = r.price * r.quantity

\* Rounding: whichever checkout prices it, and although one of them rounds in
\* floating point, the amount is off the exact discount by at most half a cent
\* a unit.
PricedToTheCent ==
  \A c \in Checkouts : pc[c] \in {"priced", "placed"} =>
    LET q == quote[c] IN
      /\ 2 * (10000 * q.unit - q.request.price * (10000 - q.percent)) =< 10000
      /\ 2 * (10000 * q.unit - q.request.price * (10000 - q.percent)) >= -10000

\* An allocation gives away neither more nor less than the line: the vendor is
\* never owed more than the buyer paid nor charged for selling, the commission
\* is off the exact percentage by at most half a cent, and when the fee leaves
\* anything to the vendor the platform keeps exactly its commission.
AllocationAddsUp ==
  \A c \in Checkouts : allocation[c] # NoAllocation =>
    LET a == allocation[c]
        p == a.policy IN
      /\ 0 =< a.payable /\ a.payable =< a.gross
      /\ 0 =< a.commission /\ a.commission =< a.gross
      /\ p.model = "PERCENTAGE" =>
           /\ 2 * (10000 * a.commission - a.gross * p.rate) =< 10000
           /\ 2 * (10000 * a.commission - a.gross * p.rate) >= -10000
      /\ a.payable > 0 => a.net = a.commission

\* What the documentation says: only approved promotions are applied at
\* checkout.
OnlyApprovedApplied ==
  \A c \in Checkouts :
    pc[c] = "placed" /\ line[c].promo # NoPromo => line[c].promo \in approved

(***************************************************************************)
(* Why it holds.                                                           *)
(***************************************************************************)
\* Where a checkout can stand, and what a promotion is: an approved one is among
\* those approved at some time.
TypeOK ==
  /\ promos \in [Promos -> Row]
  /\ approved \subseteq Promos
  /\ pc \in [Checkouts -> {"new", "priced", "placed", "refused"}]
  /\ DOMAIN quote = Checkouts /\ DOMAIN line = Checkouts /\ DOMAIN allocation = Checkouts

ApprovalsKept == \A p \in Promos : promos[p].state = "APPROVED" => p \in approved

\* What a price, a quote and a line are like, whatever becomes of the promotions
\* they were calculated from.
OffByHalf(d) == d \in Int /\ -10000 =< 2 * d /\ 2 * d =< 10000
AtMost(n, bound) == n \in Nat /\ n =< bound

Exact(unit, price, percent) ==
  AtMost(unit, price) /\ OffByHalf(10000 * unit - price * (10000 - percent))

Quoted(q) ==
  /\ q.request \in Request
  /\ AtMost(q.percent, 10000) /\ AtMost(q.share, 10000)
  /\ Exact(q.unit, q.request.price, q.percent)
  /\ q.amount = q.unit * q.request.quantity
  /\ q.request.kind = "plain" /\ q.promo # NoPromo => q.promo \in approved

Recorded(q, l) ==
  /\ l.total \in Nat
  /\ q.request.kind = "plain" =>
       /\ l.promo = q.promo /\ l.total = q.amount
       /\ AtMost(l.vendor, Discount(q))
       /\ l.marketplace = Discount(q) - l.vendor

Divided(a) ==
  /\ a.gross \in Nat /\ AtMost(a.payable, a.gross) /\ AtMost(a.commission, a.gross)
  /\ a.policy.model = "PERCENTAGE" =>
       OffByHalf(10000 * a.commission - a.gross * a.policy.rate)
  /\ a.payable > 0 => a.net = a.commission

IInv ==
  /\ TypeOK
  /\ ApprovalsKept
  /\ \A c \in Checkouts :
       /\ pc[c] \in {"priced", "placed"} => Quoted(quote[c])
       /\ pc[c] = "placed" => Recorded(quote[c], line[c])
       /\ allocation[c] # NoAllocation => Divided(allocation[c])
================================================================================
