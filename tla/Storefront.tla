------------------------------ MODULE Storefront ------------------------------
(***************************************************************************)
(* The buyer's browser: who is signed in, the cart and the wishlist of     *)
(* each account in the browser's storage, and a Razorpay checkout.         *)
(*                                                                         *)
(* JavaScript runs one callback at a time: a step here goes from one await *)
(* to the next.  Restores of the session, logins and logouts may all be    *)
(* waiting for the server at once; only restores are numbered.  One tab.   *)
(* Identity and the active cart change together, so one variable is both.  *)
(***************************************************************************)
EXTENDS Integers

CONSTANTS
  Users,         \* accounts
  Guest,         \* nobody is signed in, and the key of the guest's lists
  Calls,         \* session calls that may wait for the server at once
  MaxRestores,   \* bound: restores started
  MaxStock       \* the product's maxStock

VARIABLES
  tokens,        \* whose token pair is in storage
  user,          \* the identity shown, and the user of the active lists
  latest,        \* sessionRequestIdRef
  call,          \* the session calls in flight
  crossed,       \* history: a login or logout ended while a restore was waiting
  cart,          \* quantity of the product in the cart on the screen
  savedCarts,    \* the cart under each account's key
  wishlist,      \* is the product in the wishlist on the screen?
  savedWishlists,
  pay,           \* the Razorpay attempt: verificationStarted and settled
  told           \* history: what the form was told of it

session == <<tokens, user, latest, call, crossed>>
lists == <<cart, savedCarts, wishlist, savedWishlists>>
vars == <<session, lists, pay, told>>

Owners == Users \cup {Guest}
Idle == [kind |-> "idle", id |-> 0, owner |-> Guest]
NoAttempt == [stage |-> "none", started |-> FALSE, settled |-> FALSE]

\* A tab opens: an earlier visit may have left tokens and lists behind.
Init ==
  /\ tokens \in Owners
  /\ user = Guest
  /\ latest = 0
  /\ call = [c \in Calls |-> Idle]
  /\ crossed = FALSE
  /\ savedCarts \in [Owners -> {0, 1}]
  /\ cart = savedCarts[Guest]
  /\ savedWishlists = [u \in Owners |-> FALSE]
  /\ wishlist = FALSE
  /\ pay = NoAttempt
  /\ told = {}

(***************************************************************************)
(* The lists.                                                              *)
(***************************************************************************)
\* Fault: clearing the list on the way out is written to the old key.
ActivateUnsuppressed(u) ==
  /\ cart' = savedCarts[u]
  /\ savedCarts' = IF u = user THEN savedCarts ELSE [savedCarts EXCEPT ![user] = 0]

\* activateCartUser: clear, switch the key and rehydrate, writing nothing.
ActivateCartUser(u) ==
  /\ cart' = IF u = user THEN cart ELSE savedCarts[u]
  /\ UNCHANGED savedCarts

\* activateWishlistUser does the same to the wishlist.
ActivateWishlistUser(u) ==
  /\ wishlist' = IF u = user THEN wishlist ELSE savedWishlists[u]
  /\ UNCHANGED savedWishlists

SetCart(quantity) ==
  /\ cart' = quantity
  /\ savedCarts' = [savedCarts EXCEPT ![user] = quantity]

\* While the modal is open it covers the page.
Clickable == pay.stage # "open"
Capped(quantity) == IF quantity > MaxStock THEN MaxStock ELSE quantity

AddToCart(quantity) ==
  /\ Clickable
  /\ SetCart(Capped(cart + quantity))
  /\ UNCHANGED <<session, wishlist, savedWishlists, pay, told>>

\* A quantity of zero, or removeFromCart, drops the item.
UpdateQuantity(quantity) ==
  /\ Clickable
  /\ cart > 0
  /\ SetCart(Capped(quantity))
  /\ UNCHANGED <<session, wishlist, savedWishlists, pay, told>>

ToggleWishlist ==
  /\ Clickable
  /\ wishlist' = ~wishlist
  /\ savedWishlists' = [savedWishlists EXCEPT ![user] = ~wishlist]
  /\ UNCHANGED <<session, cart, savedCarts, pay, told>>

(***************************************************************************)
(* The session.                                                            *)
(***************************************************************************)
Show(u) ==
  /\ user' = u
  /\ ActivateCartUser(u)
  /\ ActivateWishlistUser(u)

Begin(c, kind, id, owner) ==
  call' = [call EXCEPT ![c] = [kind |-> kind, id |-> id, owner |-> owner]]
EndCall(c) == call' = [call EXCEPT ![c] = Idle]

Restoring(c) == call[c].kind \in {"me", "rotate"}

\* Fault: restores are not numbered.
NeverStale(c) == FALSE

\* A newer restore has started.
IsStale(c) == call[c].id # latest

Discard(c) == EndCall(c) /\ UNCHANGED <<tokens, user, lists>>

\* refreshSession up to its first answer.  Without tokens it signs out at once.
Restore(c) ==
  /\ call[c] = Idle
  /\ latest < MaxRestores
  /\ latest' = latest + 1
  /\ IF tokens = Guest
       THEN Show(Guest) /\ UNCHANGED call
       ELSE Begin(c, "me", latest + 1, tokens) /\ UNCHANGED <<user, lists>>
  /\ UNCHANGED <<tokens, crossed, pay, told>>

\* getMe answers with the account of the token it was sent, or fails.
MeAnswers(c) ==
  /\ call[c].kind = "me"
  /\ IF IsStale(c) THEN Discard(c)
                   ELSE Show(call[c].owner) /\ EndCall(c) /\ UNCHANGED tokens
  /\ UNCHANGED <<latest, crossed, pay, told>>

MeFails(c) ==
  /\ call[c].kind = "me"
  /\ Begin(c, "rotate", call[c].id, call[c].owner)
  /\ UNCHANGED <<tokens, user, latest, crossed, lists, pay, told>>

\* refreshAccessToken answers with a fresh pair.
RotateAnswers(c) ==
  /\ call[c].kind = "rotate"
  /\ IF IsStale(c) THEN Discard(c)
                   ELSE /\ tokens' = call[c].owner
                        /\ Show(call[c].owner)
                        /\ EndCall(c)
  /\ UNCHANGED <<latest, crossed, pay, told>>

\* The refresh token was used, revoked or is unknown: a full sign-out.
RotateFails(c) ==
  /\ call[c].kind = "rotate"
  /\ IF IsStale(c) THEN Discard(c)
                   ELSE tokens' = Guest /\ Show(Guest) /\ EndCall(c)
  /\ UNCHANGED <<latest, crossed, pay, told>>

\* login, and register, whose own call precedes the login.
Login(c, u) ==
  /\ call[c] = Idle
  /\ Begin(c, "login", 0, u)
  /\ UNCHANGED <<tokens, user, latest, crossed, lists, pay, told>>

\* A login or a logout lands, whatever else is waiting, and numbers nothing.
Land(c, owner) ==
  /\ tokens' = owner
  /\ Show(owner)
  /\ EndCall(c)
  /\ crossed' = (crossed \/ \E d \in Calls : Restoring(d))
  /\ UNCHANGED <<latest, pay, told>>

LoginAnswers(c) == call[c].kind = "login" /\ Land(c, call[c].owner)

LoginFails(c) ==
  /\ call[c].kind = "login"
  /\ EndCall(c)
  /\ UNCHANGED <<tokens, user, latest, crossed, lists, pay, told>>

\* logout waits for the server if it has a token to revoke.
Logout(c) ==
  /\ call[c] = Idle
  /\ IF tokens = Guest
       THEN Land(c, Guest)
       ELSE /\ Begin(c, "logout", 0, tokens)
            /\ UNCHANGED <<tokens, user, latest, crossed, lists, pay, told>>

LogoutAnswers(c) == call[c].kind = "logout" /\ Land(c, Guest)

(***************************************************************************)
(* The Razorpay checkout.                                                  *)
(***************************************************************************)
Tell(outcome) == told' = told \cup {outcome}
Settle(stage) == pay' = [pay EXCEPT !.stage = stage, !.settled = TRUE]

\* The form submits a cart that is not empty, unless it is already submitting.
Pay ==
  /\ pay.stage \in {"none", "over"}
  /\ cart > 0
  /\ pay' = [NoAttempt EXCEPT !.stage = "initiating"]
  /\ told' = {}
  /\ UNCHANGED <<session, lists>>

InitiationAnswers ==
  /\ pay.stage = "initiating"
  /\ pay' = [pay EXCEPT !.stage = "open"]
  /\ UNCHANGED <<session, lists, told>>

\* Refused by the server, or the script could not be loaded.
InitiationFails ==
  /\ pay.stage = "initiating"
  /\ pay' = [pay EXCEPT !.stage = "over"]
  /\ Tell("error")
  /\ UNCHANGED <<session, lists>>

\* Razorpay reports a payment: the server is asked to verify it, once.
Handler ==
  /\ pay.stage = "open"
  /\ pay' = [pay EXCEPT !.stage = "verifying", !.started = TRUE]
  /\ UNCHANGED <<session, lists, told>>

\* Fault: closing the modal always rejects.
DismissAlways ==
  /\ pay.stage \in {"open", "verifying"}
  /\ ~pay.settled
  /\ pay' = [pay EXCEPT !.settled = TRUE]
  /\ Tell("dismissed")
  /\ UNCHANGED <<session, lists>>

\* The modal closes, by the buyer or because the payment is made: that counts
\* only while no verification has started.
Dismiss ==
  /\ pay.stage \in {"open", "verifying"}
  /\ ~pay.settled
  /\ ~pay.started
  /\ Settle("over")
  /\ Tell("dismissed")
  /\ UNCHANGED <<session, lists>>

\* The server has verified: the form empties the cart on the screen.
VerificationAnswers ==
  /\ pay.stage = "verifying"
  /\ Settle("over")
  /\ Tell("verified")
  /\ SetCart(0)
  /\ UNCHANGED <<session, wishlist, savedWishlists>>

VerificationFails ==
  /\ pay.stage = "verifying"
  /\ Settle("over")
  /\ IF pay.settled THEN UNCHANGED told ELSE Tell("error")
  /\ UNCHANGED <<session, lists>>

Next ==
  \/ \E quantity \in 1..MaxStock : AddToCart(quantity)
  \/ \E quantity \in 0..MaxStock : UpdateQuantity(quantity)
  \/ ToggleWishlist
  \/ \E c \in Calls :
       \/ Restore(c) \/ MeAnswers(c) \/ MeFails(c)
       \/ RotateAnswers(c) \/ RotateFails(c)
       \/ \E u \in Users : Login(c, u)
       \/ LoginAnswers(c) \/ LoginFails(c) \/ Logout(c) \/ LogoutAnswers(c)
  \/ Pay \/ InitiationAnswers \/ InitiationFails
  \/ Handler \/ Dismiss \/ VerificationAnswers \/ VerificationFails

Spec == Init /\ [][Next]_vars

(***************************************************************************)
(* Properties.                                                             *)
(***************************************************************************)
\* The identity on the screen is the one the stored tokens sign in, although
\* restores of the session overtake one another; only a login or a logout that
\* ends while a restore is waiting may break it.
SessionAgrees == ~crossed /\ user # Guest => tokens = user

KeptForItsOwner(saved, u) ==
  saved'[u] # saved[u] => u = user /\ user' = user
OnlyTheOwnersChange ==
  /\ \A u \in Owners : KeptForItsOwner(savedCarts, u)
  /\ \A u \in Owners : KeptForItsOwner(savedWishlists, u)
  /\ cart' = savedCarts'[user']
  /\ wishlist' = savedWishlists'[user']

\* The lists on the screen are those saved for the account on the screen, and
\* no sign-in, sign-out or change of account alters what any account saved.
ListsKept == [][OnlyTheOwnersChange]_vars

\* The form is told of one outcome, and "closed before verification" is never
\* said of an attempt the server was asked to verify.
OneOutcome ==
  /\ \A a, b \in told : a = b
  /\ "dismissed" \in told => ~pay.started

(***************************************************************************)
(* Why it holds: the inductive invariant of the proofs.                    *)
(***************************************************************************)
BrowserAssumption == Guest \notin Users /\ MaxStock \in Nat

SessionCall == [kind : {"idle", "me", "rotate", "login", "logout"}, id : Nat, owner : Owners]
Attempt == [stage : {"none", "initiating", "open", "verifying", "over"},
            started : BOOLEAN, settled : BOOLEAN]

TypeOK ==
  /\ tokens \in Owners /\ user \in Owners
  /\ latest \in Nat
  /\ call \in [Calls -> SessionCall]
  /\ crossed \in BOOLEAN
  /\ cart \in Nat /\ savedCarts \in [Owners -> Nat]
  /\ wishlist \in BOOLEAN /\ savedWishlists \in [Owners -> BOOLEAN]
  /\ pay \in Attempt
  /\ told \subseteq {"error", "dismissed", "verified"}

\* The lists on the screen are the saved ones.
ListsShown == cart = savedCarts[user] /\ wishlist = savedWishlists[user]

\* Every restore under way has a number of its own.
RestoresNumbered ==
  \A c \in Calls : Restoring(c) =>
    /\ call[c].id =< latest
    /\ \A d \in Calls : Restoring(d) /\ call[d].id = call[c].id => d = c

\* The newest restore asks for the account of the stored tokens.
NewestIsCurrent ==
  ~crossed => \A c \in Calls : Restoring(c) /\ ~IsStale(c) => call[c].owner = tokens

\* Nothing is said of an attempt, and nothing settled, before it is over.
SilentUntilOver ==
  pay.stage # "over" =>
    told = {} /\ ~pay.settled /\ (pay.started => pay.stage = "verifying")

IInv ==
  /\ TypeOK
  /\ ListsShown
  /\ RestoresNumbered
  /\ NewestIsCurrent
  /\ SilentUntilOver
  /\ SessionAgrees
  /\ OneOutcome
================================================================================
