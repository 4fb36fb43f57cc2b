------------------------------- MODULE ShopWindow -------------------------------
(***************************************************************************)
(* One product from the page that shows it to the payment that is asked    *)
(* for it: what the buyer sees, what the cart keeps of it, and what the    *)
(* server charges.                                                         *)
(*                                                                         *)
(* The cart is a copy of what a page showed when the product was added.    *)
(* Checkout sends products and quantities; the server prices them anew.    *)
(* The lines of a cart have nothing in common but their sum, so that one   *)
(* of them will do.  Amounts are cents, and a product that is inactive is  *)
(* to a buyer like one without stock.                                      *)
(***************************************************************************)
EXTENDS Money

CONSTANTS
  PriceTags,    \* prices of the product
  Rates,        \* discounts, in hundredths of a percent; 0 if there is no promotion
  MaxUnits,     \* bound on its stock
  MaxEdits      \* bound on changes of price and promotion

VARIABLES
  product,      \* the row, and the promotion of its vendor that is valid now
  page,         \* the page that shows it
  cart,         \* its line in the cart
  pay,          \* the payment of the checkout form
  attempt,      \* the pending order of this buyer
  lost,         \* history: a cart was emptied that had not been bought
  edits         \* history: the number of changes

vars == <<product, page, cart, pay, attempt, lost, edits>>

Units == 0..MaxUnits
Lesser(a, b) == IF a < b THEN a ELSE b
Greater(a, b) == IF a > b THEN a ELSE b

NoLine == [quantity |-> 0, asked |-> 0, price |-> 0, limit |-> 0,
           stale |-> FALSE, quick |-> FALSE, merged |-> FALSE]
NotPaying == [step |-> "idle", quantity |-> 0, button |-> 0, stale |-> FALSE, touched |-> FALSE]
NoAttempt == [quantity |-> 0, amount |-> 0, stale |-> FALSE]

\* toResponseDto and getProductWithPromotion calculate in floating point, as does
\* the checkout.
EffectivePrices == FloatDiscounted(product.price, product.discount, 100)

PageOf(kind, price) ==
  [kind |-> kind, price |-> price, stock |-> product.stock, picked |-> 1, stale |-> FALSE]

Init ==
  /\ product \in [price : PriceTags, stock : Units, discount : Rates]
  /\ \E price \in EffectivePrices : page = PageOf("grid", price)
  /\ cart = NoLine
  /\ pay = NotPaying
  /\ attempt = NoAttempt
  /\ lost = FALSE
  /\ edits = 0

Paying == pay.step # "idle"

\* The cart changes while the form waits.
Touch == pay' = [pay EXCEPT !.touched = Paying]

(***************************************************************************)
(* The pages.                                                              *)
(***************************************************************************)
Open(kind) ==
  /\ \E price \in EffectivePrices : page' = PageOf(kind, price)
  /\ UNCHANGED <<product, cart, pay, attempt, lost, edits>>

\* Grids of cards: the list of products, the deals, the cover and a vendor's page.
LoadProducts == Open("grid")
LoadDetails  == Open("details")
LoadWishlist == Open("wishlist")

\* Cards and the product page keep the quantity within the stock they show; the
\* wishlist offers one.
Pick(kind, n) ==
  /\ page.kind = kind
  /\ n \in 1..page.stock
  /\ page' = [page EXCEPT !.picked = n]
  /\ UNCHANGED <<product, cart, pay, attempt, lost, edits>>

SetQty(n)      == Pick("grid", n)
SetQuantity(n) == Pick("details", n)

\* Fault: adding to a line takes the place of what was there.
AddedOver(q, asked, quick) ==
  [cart EXCEPT !.quantity = Lesser(q, page.stock), !.price = page.price,
               !.asked = Lesser(cart.asked + asked, page.stock), !.limit = page.stock]

\* addToCart.  A line that is there keeps its price and its limit, and gets no
\* more than the stock that is shown now.
Added(q, asked, quick) ==
  IF cart.quantity = 0
    THEN [quantity |-> Lesser(q, page.stock), asked |-> Lesser(asked, page.stock),
          price |-> page.price, limit |-> page.stock, stale |-> page.stale,
          quick |-> quick, merged |-> FALSE]
    ELSE [cart EXCEPT !.quantity = Lesser(@ + q, page.stock),
                      !.asked = Lesser(@ + asked, page.stock),
                      !.quick = @ \/ quick,
                      !.merged = @ \/ page.stock > cart.limit]

Add(kind) ==
  /\ page.kind = kind
  /\ page.stock > 0
  /\ cart' = Added(page.picked, page.picked, FALSE)
  /\ Touch
  /\ UNCHANGED <<product, page, attempt, lost, edits>>

HandleAdd       == Add("grid")
HandleAddToCart == Add("details")
MoveToCart      == Add("wishlist")

\* The preview sets the quantity of its card and calls onAdd of the card's last
\* rendering, which adds the quantity that was set before.
QuickAdd(n) ==
  /\ page.kind = "grid"
  /\ n \in 1..page.stock
  /\ cart' = Added(page.picked, n, page.picked # n)
  /\ page' = [page EXCEPT !.picked = n]
  /\ Touch
  /\ UNCHANGED <<product, attempt, lost, edits>>

(***************************************************************************)
(* The cart.                                                               *)
(***************************************************************************)
\* Fault: the limit is not asked.
UpdatedTo(q) == [cart EXCEPT !.quantity = q, !.asked = q, !.quick = FALSE, !.merged = FALSE]

\* updateQuantity.  (A line that was added to beyond its limit drops below it.)
Updated(q) ==
  LET n == Lesser(q, cart.limit) IN
  [cart EXCEPT !.quantity = n, !.asked = n, !.quick = FALSE, !.merged = FALSE]

\* The buttons of the drawer and of the cart page.
Increase ==
  /\ cart.quantity > 0
  /\ cart' = Updated(cart.quantity + 1)
  /\ Touch
  /\ UNCHANGED <<product, page, attempt, lost, edits>>
Decrease ==
  /\ cart.quantity > 0
  /\ cart' = Updated(Greater(1, cart.quantity - 1))
  /\ Touch
  /\ UNCHANGED <<product, page, attempt, lost, edits>>
Remove ==
  /\ cart.quantity > 0
  /\ cart' = NoLine
  /\ Touch
  /\ UNCHANGED <<product, page, attempt, lost, edits>>

\* Fault: the form stays enabled while it submits.
EnterAnytime(q) ==
  /\ cart.quantity > 0
  /\ cart' = Updated(q)
  /\ UNCHANGED <<product, page, pay, attempt, lost, edits>>

\* The inputs of the form, which are disabled while it submits.
Enter(q) ==
  /\ ~Paying
  /\ cart.quantity > 0
  /\ cart' = Updated(q)
  /\ UNCHANGED <<product, page, pay, attempt, lost, edits>>

(***************************************************************************)
(* Checkout.                                                               *)
(***************************************************************************)
\* "Place Order", with the amount of selectTotalAmount on the button.
PlaceOrder ==
  /\ ~Paying
  /\ cart.quantity > 0
  /\ pay' = [step |-> "asked", quantity |-> cart.quantity,
             button |-> cart.price * cart.quantity, stale |-> cart.stale, touched |-> FALSE]
  /\ UNCHANGED <<product, page, cart, attempt, lost, edits>>

\* Fault: the pending attempt is answered whatever is in the cart.
ReuseAny(opened) ==
  /\ pay.step = "asked"
  /\ attempt.quantity > 0
  /\ pay' = opened
  /\ UNCHANGED <<product, page, cart, attempt, lost, edits>>

\* initiate: a pending attempt for the same cart is answered again.
Reuse(opened) ==
  /\ pay.step = "asked"
  /\ attempt.quantity > 0 /\ attempt.quantity = pay.quantity
  /\ pay' = opened
  /\ UNCHANGED <<product, page, cart, attempt, lost, edits>>

\* initiate: the product is priced as of now, and nothing is given away.
Initiate(opened) ==
  /\ pay.step = "asked"
  /\ attempt.quantity = 0
  /\ pay.quantity <= product.stock
  /\ \E price \in EffectivePrices \ {0} :
       attempt' = [quantity |-> pay.quantity, amount |-> price * pay.quantity, stale |-> FALSE]
  /\ product' = [product EXCEPT !.stock = @ - pay.quantity]
  /\ pay' = opened
  /\ UNCHANGED <<page, cart, lost, edits>>

\* The answer opens the provider's window, unless it is lost.
Opened == {[pay EXCEPT !.step = "open"], NotPaying}

\* Refused, for whatever reason, or closed by the buyer.
GiveUp ==
  /\ Paying
  /\ pay' = NotPaying
  /\ UNCHANGED <<product, page, cart, attempt, lost, edits>>

\* The server verifies the payment, and the form clears the cart if it hears of it.
Verify(heard) ==
  /\ pay.step = "open" /\ attempt.quantity > 0
  /\ attempt' = NoAttempt
  /\ pay' = NotPaying
  /\ IF heard THEN /\ cart' = NoLine
                   /\ lost' = (lost \/ (~pay.touched /\ cart.quantity # pay.quantity))
              ELSE UNCHANGED <<cart, lost>>
  /\ UNCHANGED <<product, page, edits>>

(***************************************************************************)
(* Everybody else.                                                         *)
(***************************************************************************)
\* The order of the attempt is cancelled, and its stock restored.
CancelOrder ==
  /\ attempt.quantity > 0
  /\ product.stock + attempt.quantity <= MaxUnits
  /\ product' = [product EXCEPT !.stock = @ + attempt.quantity]
  /\ attempt' = NoAttempt
  /\ UNCHANGED <<page, cart, pay, lost, edits>>

SetStock(n) ==
  /\ product' = [product EXCEPT !.stock = n]
  /\ UNCHANGED <<page, cart, pay, attempt, lost, edits>>

\* The vendor edits the price; a promotion begins, ends or is edited.
Reprice(price, discount) ==
  /\ edits < MaxEdits
  /\ product' = [product EXCEPT !.price = price, !.discount = discount]
  /\ edits' = edits + 1
  /\ page' = [page EXCEPT !.stale = TRUE]
  /\ cart' = [cart EXCEPT !.stale = cart.quantity > 0]
  /\ pay' = [pay EXCEPT !.stale = Paying]
  /\ attempt' = [attempt EXCEPT !.stale = attempt.quantity > 0]
  /\ UNCHANGED lost

Next ==
  \/ LoadProducts \/ LoadDetails \/ LoadWishlist
  \/ \E n \in 1..MaxUnits : SetQty(n) \/ SetQuantity(n) \/ QuickAdd(n) \/ Enter(n)
  \/ HandleAdd \/ HandleAddToCart \/ MoveToCart
  \/ Increase \/ Decrease \/ Remove
  \/ PlaceOrder \/ GiveUp
  \/ \E opened \in Opened : Reuse(opened) \/ Initiate(opened)
  \/ \E heard \in BOOLEAN : Verify(heard)
  \/ CancelOrder
  \/ \E n \in Units : SetStock(n)
  \/ \E price \in PriceTags, discount \in Rates : Reprice(price, discount)

Spec == Init /\ [][Next]_vars

(***************************************************************************)
(* Properties.                                                             *)
(***************************************************************************)
HalfCent == 2 * ((product.price * (10000 - product.discount)) % 10000) = 10000

\* What the provider asks for is what the button of the form said, unless price or
\* promotion changed since the product was shown or the attempt was made; half a
\* cent may be rounded once up and once down.
ChargedAsShown ==
  pay.step = "open" /\ attempt.quantity > 0 /\ ~pay.stale /\ ~attempt.stale =>
    /\ attempt.quantity = pay.quantity
    /\ attempt.amount - pay.button \in -pay.quantity..pay.quantity
    /\ attempt.amount = pay.button \/ HalfCent

\* The cart that is cleared was bought, unless it was changed in the drawer or on
\* another page during the payment.
ClearedWasBought == ~lost

\* The cart holds what the buyer asked for, as far as there was stock, unless the
\* preview was used with another quantity than its card.
HoldsWhatWasAsked == cart.quantity = cart.asked \/ cart.quick

\* It holds no more than was in stock, as far as the line or the last page knew.
WithinStock == cart.quantity <= cart.limit \/ cart.merged

(***************************************************************************)
(* Why they hold.                                                          *)
(***************************************************************************)
WindowAssumption ==
  /\ PriceTags \subseteq Nat /\ Rates \subseteq 0..10000
  /\ MaxUnits \in Nat /\ MaxEdits \in Nat

TypeOK ==
  /\ product \in [price : PriceTags, stock : Units, discount : Rates]
  /\ page \in [kind : {"grid", "details", "wishlist"}, price : Int, stock : Units,
               picked : Nat, stale : BOOLEAN]
  /\ cart \in [quantity : Units, asked : Units, price : Int, limit : Units,
               stale : BOOLEAN, quick : BOOLEAN, merged : BOOLEAN]
  /\ pay \in [step : {"idle", "asked", "open"}, quantity : Units, button : Int,
              stale : BOOLEAN, touched : BOOLEAN]
  /\ attempt \in [quantity : Units, amount : Int, stale : BOOLEAN]
  /\ lost \in BOOLEAN
  /\ edits \in Nat

\* A copy that is not stale has a price of now.
Current ==
  /\ ~page.stale => page.price \in EffectivePrices
  /\ cart.quantity > 0 /\ ~cart.stale => cart.price \in EffectivePrices
  /\ Paying /\ ~pay.stale => \E u \in EffectivePrices : pay.button = u * pay.quantity
  /\ attempt.quantity > 0 /\ ~attempt.stale =>
       \E u \in EffectivePrices : attempt.amount = u * attempt.quantity

\* What is paid for is the attempt, and the cart unless somebody touched it.
Matching ==
  /\ page.picked >= 1
  /\ cart.quantity > 0 => cart.limit > 0
  /\ pay.step = "open" /\ attempt.quantity > 0 => attempt.quantity = pay.quantity
  /\ Paying /\ ~pay.touched => cart.quantity = pay.quantity

IInv ==
  /\ TypeOK
  /\ Current /\ Matching
  /\ ClearedWasBought /\ HoldsWhatWasAsked /\ WithinStock
================================================================================
