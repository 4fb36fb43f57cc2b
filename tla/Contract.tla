------------------------------- MODULE Contract -------------------------------
(***************************************************************************)
(* The browser of one account against the HTTP interface: who is signed    *)
(* in, whom the access token names, and whether what the screens offer is  *)
(* served.                                                                 *)
(*                                                                         *)
(* The role and the vendor are copied into the access token when it is     *)
(* signed, and the guards read nothing else; the screens go by the user    *)
(* that a restore of the session reads from the database.  Both trail the  *)
(* account, which reviewers and administrators change at any time.         *)
(***************************************************************************)
EXTENDS Routes

CONSTANTS
  Asked,         \* what the screens ask for, each request with its route
  Vendors

VARIABLES
  account,       \* users: role and vendor_id
  token,         \* what the access token in storage says, while it is valid
  refresh,       \* the refresh token in storage
  user,          \* the user whom the screens know
  said           \* the last request and how it was answered, if any

vars == <<account, token, refresh, user, said>>

NoVendorId == "none"
Person(role, vendor) == [role |-> role, vendor |-> vendor]
Stranger == Person("nobody", NoVendorId)
People ==
  {Person(role, NoVendorId) : role \in Roles \ {VendorRole}} \cup
  {Person(VendorRole, v) : v \in Vendors}

Init ==
  /\ account \in People
  /\ token = Stranger
  /\ refresh = "none"
  /\ user = Stranger
  /\ said = {}

(***************************************************************************)
(* The session.                                                            *)
(***************************************************************************)
Quiet == said = {} /\ said' = {}

Login ==
  /\ Quiet
  /\ token' = account
  /\ refresh' = "good"
  /\ user' = account
  /\ UNCHANGED account

Logout ==
  /\ Quiet
  /\ user # Stranger
  /\ token' = Stranger
  /\ refresh' = "none"
  /\ user' = Stranger
  /\ UNCHANGED account

\* The access token is no longer valid, or the refresh token is not.
Expire ==
  /\ Quiet
  /\ token # Stranger
  /\ token' = Stranger
  /\ UNCHANGED <<account, refresh, user>>

ExpireRefresh ==
  /\ Quiet
  /\ refresh = "good"
  /\ refresh' = "refused"
  /\ UNCHANGED <<account, token, user>>

\* A page is loaded: an access token that is accepted stays as it is, and the
\* user comes from the database; otherwise the pair is rotated or dropped.
Restore ==
  /\ Quiet
  /\ IF token # Stranger
       THEN user' = account /\ UNCHANGED <<token, refresh>>
       ELSE IF refresh = "good"
         THEN user' = account /\ token' = account /\ UNCHANGED refresh
         ELSE user' = Stranger /\ token' = Stranger /\ refresh' = "none"
  /\ UNCHANGED account

(***************************************************************************)
(* The account changes.                                                    *)
(***************************************************************************)
\* An approved application makes any applicant the vendor's; no token is revoked.
Approve(v) ==
  /\ Quiet
  /\ account' = Person(VendorRole, v)
  /\ UNCHANGED <<token, refresh, user>>

\* Refresh tokens are revoked where revoked_at is null; whether the library takes
\* the null of that criterion as IS NULL, or as equal to nothing, is its business.
Revoked == IF refresh = "good" THEN "refused" ELSE refresh
MayRevoke == refresh' \in {refresh, Revoked}

LinkUser(v) ==
  /\ Quiet
  /\ account.role \notin StaffRoles
  /\ account.vendor = NoVendorId
  /\ account' = Person(VendorRole, v)
  /\ MayRevoke
  /\ UNCHANGED <<token, user>>

UnlinkUser ==
  /\ Quiet
  /\ account.vendor # NoVendorId
  /\ account' = Person(Buyer, NoVendorId)
  /\ MayRevoke
  /\ UNCHANGED <<token, user>>

(***************************************************************************)
(* The screens.                                                            *)
(***************************************************************************)
ShownTo(offer, person) ==
  CASE offer.portal = "staff"     -> person.role \in StaffRoles
    [] offer.portal = "vendor"    -> person.role = VendorRole /\ person.vendor # NoVendorId
    [] offer.portal = "signed in" -> person # Stranger
    [] OTHER                      -> TRUE

\* Is a field missing that the browser reads, or a status that it does not know?
Misread(offer, route) ==
  \/ ~(offer.reads \subseteq route.gives)
  \/ offer.knows # {} /\ ~(route.speaks \subseteq offer.knows)

\* How the caller fares with what the screens ask; a vendor asks about the vendor
\* that the screens know.
Outcome(asked, caller, whose) ==
  LET offer  == asked.offer
      route  == CHOOSE r \in asked.routes : TRUE
      answer == Answer(offer, route, caller, whose)
  IN CASE asked.routes = {}                             -> "404"
       [] answer = "served" /\ Misread(offer, route)    -> "misread"
       [] OTHER                                         -> answer

\* Fault: a page goes on asking about the vendor it was opened for.
AskAboutAnother ==
  /\ said = {}
  /\ \E asked \in Asked, v \in Vendors :
       /\ ShownTo(asked.offer, user)
       /\ said' = {[offer |-> asked.offer, outcome |-> Outcome(asked, token, v)]}
  /\ UNCHANGED <<account, token, refresh, user>>

Ask ==
  /\ said = {}
  /\ \E asked \in Asked :
       /\ ShownTo(asked.offer, user)
       /\ said' = {[offer |-> asked.offer, outcome |-> Outcome(asked, token, user.vendor)]}
  /\ UNCHANGED <<account, token, refresh, user>>

Dismiss ==
  /\ said # {}
  /\ said' = {}
  /\ UNCHANGED <<account, token, refresh, user>>

Next ==
  \/ Login \/ Logout \/ Expire \/ ExpireRefresh \/ Restore
  \/ \E v \in Vendors : Approve(v) \/ LinkUser(v)
  \/ UnlinkUser
  \/ Ask \/ Dismiss

Spec == Init /\ [][Next]_vars

(***************************************************************************)
(* Properties.                                                             *)
(***************************************************************************)
\* Requests that the application has no route for, or never serves.
NeverServed ==
  {<<"admin/health", "fetch">>, <<"dashboard", "fetch">>, <<"library", "validateCoupon">>,
   <<"admin/resolve", "resolveLineItem">>, <<"admin/products", "getCatalogPage">>,
   <<"vendor/products", "updateStock">>, <<"library", "createReview">>}
\* Answers that the browser takes for others: the case of the order statuses,
\* and fields of other names.
NeverUnderstood ==
  {<<"admin/order", "getOrderById">>, <<"orders/order", "getOrderById">>,
   <<"orders", "getOrdersForBuyer">>, <<"vendor/orders", "getVendorOrders">>,
   <<"vendor/orders", "transitionOrder">>, <<"library", "cancelOrder">>,
   <<"admin/payments", "ledger">>, <<"vendor/payouts", "allocations">>,
   <<"admin/disputes", "disputes">>, <<"admin/refunds", "refunds">>,
   <<"admin/health", "getAdminCustomers">>}
\* Shown to operations, and served to administrators.
ForAdministrators ==
  {"createCategory", "getAdminVendors", "createVendor", "linkVendorUser",
   "unlinkVendorUser", "getPendingVendorApplications", "approveVendorApplication",
   "rejectVendorApplication"}
Misfit(offer, role) ==
  \/ <<offer.page, offer.call>> \in NeverServed \cup NeverUnderstood
  \/ offer.call \in ForAdministrators /\ role = Operations
  \/ offer.call = "getAdminOrders" /\ "status" \in {NameOf(f) : f \in offer.body}

\* Only the want of a token on a page that is open to all, or of the role for a
\* request that no page has placed, may be refused.
Fits(offer, outcome, person) ==
  \/ person = Stranger /\ outcome = "401"
  \/ offer.portal = "unplaced" /\ outcome \in {"401", "403"}
  \/ (outcome = "served") <=> ~Misfit(offer, person.role)

\* Every screen and the interface agree, but for the misfits named above: while
\* the access token says what the screens know of the user, a request that a
\* screen offers is served and its answer understood, and a misfit never is.
OffersServed == \A s \in said : token = user => Fits(s.offer, s.outcome, user)
================================================================================
