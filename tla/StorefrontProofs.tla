---------------------------- MODULE StorefrontProofs ----------------------------
(***************************************************************************)
(* What is proved about Storefront for all sets of accounts and of calls   *)
(* in flight, and for every number of restores: the inductive invariant    *)
(* IInv with the identity on the screen and the outcome of a payment, and  *)
(* that changing accounts alters nobody's lists.                           *)
(***************************************************************************)
EXTENDS Storefront, TLAPS

\* The browser in three parts, each disturbed by its own actions.
Session == /\ tokens \in Owners /\ latest \in Nat
           /\ call \in [Calls -> SessionCall] /\ crossed \in BOOLEAN
           /\ RestoresNumbered /\ NewestIsCurrent
Lists == /\ user \in Owners
         /\ cart \in Nat /\ savedCarts \in [Owners -> Nat]
         /\ wishlist \in BOOLEAN /\ savedWishlists \in [Owners -> BOOLEAN]
         /\ ListsShown
Payment == /\ pay \in Attempt /\ told \subseteq {"error", "dismissed", "verified"}
           /\ SilentUntilOver /\ OneOutcome

\* The invariant is that of the parts, and that they agree.
LEMMA Parts == IInv <=> Session /\ Lists /\ Payment /\ SessionAgrees
BY DEF IInv, TypeOK, Session, Lists, Payment

\* The same after a step.
LEMMA PartsNext == IInv' <=> Session' /\ Lists' /\ Payment' /\ SessionAgrees'
BY DEF IInv, TypeOK, Session, Lists, Payment

\* What does not change stays as it was.
LEMMA SessionStays ==
  ASSUME Session, SessionAgrees, UNCHANGED session
  PROVE  Session' /\ SessionAgrees'
BY DEF Session, session, RestoresNumbered, Restoring, NewestIsCurrent, IsStale, SessionAgrees

\* The payment stays as it is.
LEMMA PaymentStays ==
  ASSUME Payment, UNCHANGED <<pay, told>>
  PROVE  Payment'
BY DEF Payment, SilentUntilOver, OneOutcome

\* So do the lists.
LEMMA ListsStay ==
  ASSUME Lists, UNCHANGED <<user, lists>>
  PROVE  Lists' /\ OnlyTheOwnersChange
BY DEF Lists, lists, ListsShown, OnlyTheOwnersChange, KeptForItsOwner

\* A browser that has just opened.
LEMMA InitHolds == ASSUME BrowserAssumption, Init PROVE IInv
<1>1. Lists
  <2>1. Guest \in Owners /\ user \in Owners
    BY DEF Init, Owners
  <2>2. savedCarts \in [Owners -> Nat] /\ cart = savedCarts[user] /\ cart \in Nat
    BY <2>1 DEF Init
  <2>3. /\ wishlist \in BOOLEAN /\ savedWishlists \in [Owners -> BOOLEAN]
        /\ wishlist = savedWishlists[user]
    BY <2>1 DEF Init
  <2> QED  BY <2>1, <2>2, <2>3 DEF Lists, ListsShown
<1>2. Session /\ SessionAgrees
  BY DEF Init, Session, SessionCall, Idle, Owners, RestoresNumbered, Restoring,
     NewestIsCurrent, IsStale, SessionAgrees
<1>3. Payment
  BY DEF Init, Payment, Attempt, NoAttempt, SilentUntilOver, OneOutcome
<1> QED  BY <1>1, <1>2, <1>3, Parts

(***************************************************************************)
(* The lists.                                                              *)
(***************************************************************************)
LEMMA CappedFacts ==
  ASSUME BrowserAssumption, NEW quantity \in Nat
  PROVE  Capped(quantity) \in Nat
BY DEF BrowserAssumption, Capped

\* Whoever changes the cart changes the one saved for the account on the screen.
LEMMA SetCartFacts ==
  ASSUME Lists, NEW quantity \in Nat, SetCart(quantity),
         UNCHANGED <<user, wishlist, savedWishlists>>
  PROVE  Lists' /\ OnlyTheOwnersChange
BY DEF Lists, SetCart, ListsShown, OnlyTheOwnersChange, KeptForItsOwner

\* Another account's lists come from the storage, which stays.
LEMMA ShowFacts ==
  ASSUME Lists, NEW u \in Owners, Show(u)
  PROVE  Lists' /\ OnlyTheOwnersChange /\ user' = u
BY DEF Lists, Show, ActivateCartUser, ActivateWishlistUser, ListsShown, OnlyTheOwnersChange,
   KeptForItsOwner

LEMMA CartHolds ==
  ASSUME BrowserAssumption, IInv, NEW quantity \in 0..MaxStock,
         AddToCart(quantity) \/ UpdateQuantity(quantity)
  PROVE  IInv' /\ OnlyTheOwnersChange
<1>1. /\ cart + quantity \in Nat /\ quantity \in Nat
  BY Parts DEF BrowserAssumption, Lists
<1>2. PICK q \in Nat : SetCart(q)
  BY <1>1, CappedFacts DEF AddToCart, UpdateQuantity
<1>3. UNCHANGED <<session, wishlist, savedWishlists, pay, told>>
  BY DEF AddToCart, UpdateQuantity
<1>4. Lists' /\ OnlyTheOwnersChange
  BY <1>2, <1>3, Parts, SetCartFacts DEF session
<1> QED  BY <1>3, <1>4, Parts, PartsNext, SessionStays, PaymentStays

LEMMA ToggleHolds ==
  ASSUME IInv, ToggleWishlist
  PROVE  IInv' /\ OnlyTheOwnersChange
<1>1. UNCHANGED <<session, cart, savedCarts, pay, told>>
  BY DEF ToggleWishlist
<1>2. Lists' /\ OnlyTheOwnersChange
  BY <1>1, Parts DEF ToggleWishlist, Lists, session, ListsShown, OnlyTheOwnersChange,
     KeptForItsOwner
<1> QED  BY <1>1, <1>2, Parts, PartsNext, SessionStays, PaymentStays

(***************************************************************************)
(* The session.                                                            *)
(***************************************************************************)
\* A call ends: the others keep their numbers.
LEMMA EndCallFacts ==
  ASSUME Session, NEW c \in Calls, EndCall(c)
  PROVE  /\ call' \in [Calls -> SessionCall]
         /\ call'[c] = Idle
         /\ \A d \in Calls \ {c} : call'[d] = call[d]
         /\ \A d \in Calls : Restoring(d)' => d # c /\ Restoring(d)
<1>1. Idle \in SessionCall /\ Idle.kind = "idle"
  BY DEF Idle, SessionCall, Owners
<1>2. /\ call' \in [Calls -> SessionCall] /\ call'[c] = Idle
      /\ \A d \in Calls \ {c} : call'[d] = call[d]
  BY <1>1 DEF Session, EndCall
<1> QED  BY <1>1, <1>2 DEF Restoring

\* A call begins with its number and its owner.
LEMMA BeginFacts ==
  ASSUME Session, NEW c \in Calls, NEW kind \in {"me", "rotate", "login", "logout"},
         NEW id \in Nat, NEW owner \in Owners, Begin(c, kind, id, owner)
  PROVE  /\ call' \in [Calls -> SessionCall]
         /\ call'[c].kind = kind /\ call'[c].id = id /\ call'[c].owner = owner
         /\ \A d \in Calls \ {c} : call'[d] = call[d]
<1>1. [kind |-> kind, id |-> id, owner |-> owner] \in SessionCall
  BY DEF SessionCall
<1> QED  BY <1>1 DEF Session, Begin

\* What a call carries.
LEMMA CallFacts ==
  ASSUME Session, NEW c \in Calls
  PROVE  call[c].id \in Nat /\ call[c].owner \in Owners
BY DEF Session, SessionCall

\* A call that ends and leaves tokens as they are, or takes them with it.
LEMMA EndHolds ==
  ASSUME IInv, NEW c \in Calls, EndCall(c), UNCHANGED <<latest, crossed, pay, told>>,
         NEW owner \in Owners, tokens' = owner, Show(owner),
         ~crossed => \A d \in Calls \ {c} : Restoring(d) /\ ~IsStale(d) => call[d].owner = owner
  PROVE  IInv' /\ OnlyTheOwnersChange
<1>1. Lists' /\ OnlyTheOwnersChange /\ user' = owner
  BY Parts, ShowFacts
<1>2. Session'
  BY Parts, EndCallFacts DEF Session, RestoresNumbered, NewestIsCurrent, IsStale
<1>3. SessionAgrees'
  BY <1>1 DEF SessionAgrees
<1> QED  BY <1>1, <1>2, <1>3, Parts, PartsNext, PaymentStays

LEMMA DiscardHolds ==
  ASSUME IInv, NEW c \in Calls, EndCall(c),
         UNCHANGED <<tokens, user, lists, latest, crossed, pay, told>>
  PROVE  IInv' /\ OnlyTheOwnersChange
<1>1. Lists' /\ OnlyTheOwnersChange
  BY Parts, ListsStay
<1>2. Session'
  BY Parts, EndCallFacts DEF Session, RestoresNumbered, NewestIsCurrent, IsStale
<1>3. SessionAgrees'
  BY Parts DEF SessionAgrees
<1> QED  BY <1>1, <1>2, <1>3, Parts, PartsNext, PaymentStays

LEMMA RestoreHolds ==
  ASSUME IInv, NEW c \in Calls, Restore(c)
  PROVE  IInv' /\ OnlyTheOwnersChange
<1>1. /\ call[c] = Idle /\ latest' = latest + 1
      /\ UNCHANGED <<tokens, crossed, pay, told>>
      /\ Session /\ Lists /\ Payment /\ SessionAgrees
  BY Parts DEF Restore
<1>2. CASE tokens = Guest
  <2>1. Show(Guest) /\ UNCHANGED call
    BY <1>2 DEF Restore
  <2>2. Lists' /\ OnlyTheOwnersChange /\ user' = Guest
    BY <1>1, <2>1, ShowFacts DEF Owners
  <2>3. \A d \in Calls : Restoring(d) => call[d].id \in Nat /\ call[d].id < latest + 1
    BY <1>1, CallFacts DEF Session, RestoresNumbered
  <2>4. Session'
    BY <1>1, <2>1, <2>3 DEF Session, RestoresNumbered, NewestIsCurrent, IsStale, Restoring
  <2> QED  BY <1>1, <2>2, <2>4, PartsNext, PaymentStays DEF SessionAgrees
<1>3. CASE tokens # Guest
  <2>1. Begin(c, "me", latest + 1, tokens) /\ UNCHANGED <<user, lists>>
    BY <1>3 DEF Restore
  <2>2. Lists' /\ OnlyTheOwnersChange
    BY <1>1, <2>1, ListsStay
  <2>3. /\ call' \in [Calls -> SessionCall]
        /\ call'[c].kind = "me" /\ call'[c].id = latest + 1 /\ call'[c].owner = tokens
        /\ \A d \in Calls \ {c} : call'[d] = call[d]
    BY <1>1, <2>1, BeginFacts DEF Session
  <2>4. \A d \in Calls : Restoring(d) => call[d].id \in Nat /\ call[d].id < latest + 1
    BY <1>1, CallFacts DEF Session, RestoresNumbered
  <2>5. \A d \in Calls \ {c} : Restoring(d)' => Restoring(d)
    BY <2>3 DEF Restoring
  <2>6. RestoresNumbered'
    BY <1>1, <2>3, <2>4, <2>5 DEF Session, RestoresNumbered
  <2>7. NewestIsCurrent'
    BY <1>1, <2>3, <2>4, <2>5 DEF NewestIsCurrent, IsStale
  <2>8. Session'
    BY <1>1, <2>3, <2>6, <2>7 DEF Session
  <2> QED  BY <1>1, <2>1, <2>2, <2>8, PartsNext, PaymentStays DEF SessionAgrees
<1> QED  BY <1>2, <1>3

\* getMe and refreshAccessToken answer; only the newest restore is listened to.
LEMMA AnswersHold ==
  ASSUME BrowserAssumption, IInv, NEW c \in Calls,
         MeAnswers(c) \/ RotateAnswers(c) \/ RotateFails(c)
  PROVE  IInv' /\ OnlyTheOwnersChange
<1>1. Restoring(c) /\ UNCHANGED <<latest, crossed, pay, told>>
  BY DEF MeAnswers, RotateAnswers, RotateFails, Restoring
<1>2. CASE IsStale(c)
  BY <1>1, <1>2, DiscardHolds DEF MeAnswers, RotateAnswers, RotateFails, Discard
<1>3. CASE ~IsStale(c)
  <2>1. \A d \in Calls \ {c} : Restoring(d) => IsStale(d)
    BY <1>1, <1>3, Parts DEF Session, RestoresNumbered, IsStale
  <2>2. CASE RotateFails(c)
    <3>1. EndCall(c) /\ tokens' = Guest /\ Show(Guest)
      BY <1>3, <2>2 DEF RotateFails
    <3> QED  BY <1>1, <2>1, <3>1, EndHolds DEF Owners
  <2>3. CASE RotateAnswers(c)
    <3>1. EndCall(c) /\ tokens' = call[c].owner /\ Show(call[c].owner)
      BY <1>3, <2>3 DEF RotateAnswers
    <3> QED  BY <1>1, <2>1, <3>1, Parts, CallFacts, EndHolds
  <2>4. CASE MeAnswers(c)
    <3>1. EndCall(c) /\ UNCHANGED tokens /\ Show(call[c].owner)
      BY <1>3, <2>4 DEF MeAnswers
    <3>2. call[c].owner \in Owners
      BY Parts, CallFacts
    <3>3. Lists' /\ OnlyTheOwnersChange /\ user' = call[c].owner
      BY <3>1, <3>2, Parts, ShowFacts
    <3>4. ~crossed => call[c].owner = tokens
      BY <1>1, <1>3, Parts DEF Session, NewestIsCurrent
    <3>5. SessionAgrees'
      BY <1>1, <3>1, <3>3, <3>4 DEF SessionAgrees
    <3>6. Session'
      BY <1>1, <3>1, Parts, EndCallFacts DEF Session, RestoresNumbered, NewestIsCurrent, IsStale
    <3> QED  BY <1>1, <3>3, <3>5, <3>6, Parts, PartsNext, PaymentStays
  <2> QED  BY <2>2, <2>3, <2>4
<1> QED  BY <1>2, <1>3

\* A restore goes on to its second call under its number.
LEMMA MeFailsHolds ==
  ASSUME IInv, NEW c \in Calls, MeFails(c)
  PROVE  IInv' /\ OnlyTheOwnersChange
<1>1. /\ Restoring(c) /\ Begin(c, "rotate", call[c].id, call[c].owner)
      /\ UNCHANGED <<tokens, user, latest, crossed, lists, pay, told>>
      /\ Session /\ Lists /\ Payment /\ SessionAgrees
  BY Parts DEF MeFails, Restoring
<1>2. /\ call' \in [Calls -> SessionCall]
      /\ call'[c].kind = "rotate" /\ call'[c].id = call[c].id /\ call'[c].owner = call[c].owner
      /\ \A d \in Calls \ {c} : call'[d] = call[d]
  BY <1>1, CallFacts, BeginFacts
<1>3. \A d \in Calls : /\ Restoring(d)' <=> Restoring(d)
                       /\ call'[d].id = call[d].id /\ call'[d].owner = call[d].owner
  BY <1>1, <1>2 DEF Restoring
<1>4. Session'
  BY <1>1, <1>2, <1>3 DEF Session, RestoresNumbered, NewestIsCurrent, IsStale
<1> QED  BY <1>1, <1>4, PartsNext, ListsStay, PaymentStays DEF SessionAgrees

\* A login or a logout is sent: nothing else changes.
LEMMA SentHolds ==
  ASSUME IInv, NEW c \in Calls, call[c] = Idle, NEW kind \in {"login", "logout"},
         NEW owner \in Owners, Begin(c, kind, 0, owner),
         UNCHANGED <<tokens, user, latest, crossed, lists, pay, told>>
  PROVE  IInv' /\ OnlyTheOwnersChange
<1>1. Session /\ Lists /\ Payment /\ SessionAgrees
  BY Parts
<1>2. /\ call' \in [Calls -> SessionCall] /\ call'[c].kind = kind
      /\ \A d \in Calls \ {c} : call'[d] = call[d]
  BY <1>1, BeginFacts
<1>3. \A d \in Calls : Restoring(d)' => Restoring(d) /\ call'[d] = call[d]
  BY <1>2 DEF Restoring
<1>4. Session'
  BY <1>1, <1>2, <1>3 DEF Session, RestoresNumbered, NewestIsCurrent, IsStale
<1> QED  BY <1>1, <1>4, PartsNext, ListsStay, PaymentStays DEF SessionAgrees

\* A login or a logout lands: no restore is waiting, or it is noted.
LEMMA LandHolds ==
  ASSUME IInv, NEW c \in Calls, NEW owner \in Owners, Land(c, owner)
  PROVE  IInv' /\ OnlyTheOwnersChange
<1>1. /\ tokens' = owner /\ Show(owner) /\ EndCall(c)
      /\ crossed' = (crossed \/ \E d \in Calls : Restoring(d))
      /\ UNCHANGED <<latest, pay, told>>
      /\ Session /\ Lists /\ Payment
  BY Parts DEF Land
<1>2. Lists' /\ OnlyTheOwnersChange /\ user' = owner
  BY <1>1, ShowFacts
<1>3. NewestIsCurrent'
  BY <1>1, EndCallFacts DEF NewestIsCurrent
<1>4. crossed' \in BOOLEAN
  BY <1>1
<1>5. Session'
  BY <1>1, <1>3, <1>4, EndCallFacts DEF Session, RestoresNumbered
<1> QED  BY <1>1, <1>2, <1>5, PartsNext, PaymentStays DEF SessionAgrees

LEMMA CallsHold ==
  ASSUME BrowserAssumption, IInv, NEW c \in Calls,
         \/ Restore(c) \/ MeAnswers(c) \/ MeFails(c) \/ RotateAnswers(c) \/ RotateFails(c)
         \/ \E u \in Users : Login(c, u)
         \/ LoginAnswers(c) \/ LoginFails(c) \/ Logout(c) \/ LogoutAnswers(c)
  PROVE  IInv' /\ OnlyTheOwnersChange
<1>1. CASE Restore(c)
  BY <1>1, RestoreHolds
<1>2. CASE MeAnswers(c) \/ RotateAnswers(c) \/ RotateFails(c)
  BY <1>2, AnswersHold
<1>3. CASE MeFails(c)
  BY <1>3, MeFailsHolds
<1>4. ASSUME NEW u \in Users, Login(c, u)
      PROVE  IInv' /\ OnlyTheOwnersChange
  BY <1>4, SentHolds DEF Login, Owners
<1>5. CASE LoginAnswers(c)
  BY <1>5, Parts, CallFacts, LandHolds DEF LoginAnswers
<1>6. CASE LoginFails(c)
  BY <1>6, DiscardHolds DEF LoginFails
<1>7. CASE Logout(c)
  BY <1>7, Parts, LandHolds, SentHolds DEF Logout, Session, Owners
<1>8. CASE LogoutAnswers(c)
  BY <1>8, LandHolds DEF LogoutAnswers, Owners
<1> QED  BY <1>1, <1>2, <1>3, <1>4, <1>5, <1>6, <1>7, <1>8

(***************************************************************************)
(* The payment.                                                            *)
(***************************************************************************)
LEMMA AttemptFacts ==
  ASSUME Payment, NEW stage \in {"none", "initiating", "open", "verifying", "over"}
  PROVE  /\ [pay EXCEPT !.stage = stage] \in Attempt
         /\ [pay EXCEPT !.stage = stage].stage = stage
         /\ [pay EXCEPT !.stage = stage].started = pay.started
         /\ [pay EXCEPT !.stage = stage].settled = pay.settled
         /\ [pay EXCEPT !.stage = stage, !.settled = TRUE] \in Attempt
         /\ [pay EXCEPT !.stage = stage, !.settled = TRUE].stage = stage
         /\ [pay EXCEPT !.stage = stage, !.settled = TRUE].started = pay.started
BY DEF Payment, Attempt

LEMMA PayHolds ==
  ASSUME IInv, UNCHANGED <<session, lists>>,
         \/ Pay \/ InitiationAnswers \/ InitiationFails \/ Handler \/ Dismiss
         \/ VerificationFails
  PROVE  IInv' /\ OnlyTheOwnersChange
<1>1. Session /\ Lists /\ Payment /\ SessionAgrees
  BY Parts
<1>2. CASE Pay
  <2>1. /\ pay' = [stage |-> "initiating", started |-> FALSE, settled |-> FALSE]
        /\ told' = {}
    BY <1>2 DEF Pay, NoAttempt
  <2> QED
    BY <1>1, <2>1, PartsNext, SessionStays, ListsStay DEF session, Payment, Attempt,
       SilentUntilOver, OneOutcome
<1>3. CASE InitiationAnswers
  <2>1. Payment'
    BY <1>1, <1>3, AttemptFacts DEF InitiationAnswers, Payment, SilentUntilOver, OneOutcome
  <2> QED  BY <1>1, <2>1, PartsNext, SessionStays, ListsStay DEF session
<1>4. CASE InitiationFails
  <2>1. Payment'
    BY <1>1, <1>4, AttemptFacts DEF InitiationFails, Tell, Payment, SilentUntilOver, OneOutcome
  <2> QED  BY <1>1, <2>1, PartsNext, SessionStays, ListsStay DEF session
<1>5. CASE Handler
  <2>1. pay' = [stage |-> "verifying", started |-> TRUE, settled |-> pay.settled]
    BY <1>1, <1>5 DEF Handler, Payment, Attempt
  <2>2. pay.stage = "open" /\ told' = told
    BY <1>5 DEF Handler
  <2>3. Payment'
    BY <1>1, <2>1, <2>2 DEF Payment, Attempt, SilentUntilOver, OneOutcome
  <2> QED  BY <1>1, <2>3, PartsNext, SessionStays, ListsStay DEF session
<1>6. CASE Dismiss
  <2>1. Payment'
    BY <1>1, <1>6, AttemptFacts DEF Dismiss, Settle, Tell, Payment, SilentUntilOver, OneOutcome
  <2> QED  BY <1>1, <2>1, PartsNext, SessionStays, ListsStay DEF session
<1>7. CASE VerificationFails
  <2>1. Payment'
    BY <1>1, <1>7, AttemptFacts DEF VerificationFails, Settle, Tell, Payment, SilentUntilOver,
       OneOutcome
  <2> QED  BY <1>1, <2>1, PartsNext, SessionStays, ListsStay DEF session
<1> QED  BY <1>2, <1>3, <1>4, <1>5, <1>6, <1>7

LEMMA VerifiedHolds ==
  ASSUME IInv, VerificationAnswers
  PROVE  IInv' /\ OnlyTheOwnersChange
<1>1. Session /\ Lists /\ Payment /\ SessionAgrees
  BY Parts
<1>2. /\ SetCart(0) /\ UNCHANGED <<session, wishlist, savedWishlists>>
      /\ pay.stage = "verifying" /\ Settle("over") /\ Tell("verified")
  BY DEF VerificationAnswers
<1>3. Payment'
  BY <1>1, <1>2, AttemptFacts DEF Settle, Tell, Payment, SilentUntilOver, OneOutcome
<1>4. Lists' /\ OnlyTheOwnersChange
  BY <1>1, <1>2, SetCartFacts DEF session
<1> QED  BY <1>1, <1>2, <1>3, <1>4, PartsNext, SessionStays

\* Every callback of the browser keeps the invariant, and lists to their owners.
LEMMA NextHolds ==
  ASSUME BrowserAssumption, IInv, [Next]_vars
  PROVE  IInv' /\ [OnlyTheOwnersChange]_vars
<1>1. ASSUME NEW quantity \in 1..MaxStock, AddToCart(quantity)
      PROVE  IInv' /\ OnlyTheOwnersChange
  <2>1. quantity \in 0..MaxStock
    BY DEF BrowserAssumption
  <2> QED  BY <1>1, <2>1, CartHolds
<1>2. ASSUME NEW quantity \in 0..MaxStock, UpdateQuantity(quantity)
      PROVE  IInv' /\ OnlyTheOwnersChange
  BY <1>2, CartHolds
<1>3. CASE ToggleWishlist
  BY <1>3, ToggleHolds
<1>4. ASSUME NEW c \in Calls,
             \/ Restore(c) \/ MeAnswers(c) \/ MeFails(c) \/ RotateAnswers(c) \/ RotateFails(c)
             \/ \E u \in Users : Login(c, u)
             \/ LoginAnswers(c) \/ LoginFails(c) \/ Logout(c) \/ LogoutAnswers(c)
      PROVE  IInv' /\ OnlyTheOwnersChange
  BY <1>4, CallsHold
<1>5. CASE \/ Pay \/ InitiationAnswers \/ InitiationFails \/ Handler \/ Dismiss
           \/ VerificationFails
  BY <1>5, PayHolds DEF Pay, InitiationAnswers, InitiationFails, Handler, Dismiss,
     VerificationFails
<1>6. CASE VerificationAnswers
  BY <1>6, VerifiedHolds
<1>7. CASE UNCHANGED vars
  BY <1>7, Parts, PartsNext, SessionStays, ListsStay, PaymentStays DEF vars, session
<1> QED  BY <1>1, <1>2, <1>3, <1>4, <1>5, <1>6, <1>7 DEF Next

(***************************************************************************)
(* What follows.                                                           *)
(***************************************************************************)
\* The browser keeps its invariant: calls carry the numbers they were given, the
\* newest restore asks for the account of the stored tokens, and the identity on
\* the screen is theirs, unless a sign-in or sign-out crossed another call.
THEOREM StorefrontInvariance == BrowserAssumption => (Spec => []IInv)
<1> SUFFICES ASSUME BrowserAssumption PROVE Spec => []IInv
  OBVIOUS
<1>1. Init => IInv
  BY InitHolds
<1>2. IInv /\ [Next]_vars => IInv'
  BY NextHolds
<1> QED  BY <1>1, <1>2, PTL DEF Spec

\* activateCartUser and activateWishlistUser switch lists without writing any.
THEOREM ListsAreKept == BrowserAssumption => (Spec => ListsKept)
<1> SUFFICES ASSUME BrowserAssumption PROVE Spec => ListsKept
  OBVIOUS
<1>1. IInv /\ [Next]_vars => [OnlyTheOwnersChange]_vars
  BY NextHolds
<1> QED  BY <1>1, StorefrontInvariance, PTL DEF Spec, ListsKept
=================================================================================
