--------------------------------- MODULE Routes ---------------------------------
(***************************************************************************)
(* What the HTTP interface promises: for every route of the controllers    *)
(* its verb and path, who may call it, the body or query it accepts and    *)
(* the fields of its answer (Bodies); and how a request is answered.       *)
(*                                                                         *)
(* A path is a sequence of segments.  Uuid is a segment that is, or that   *)
(* the route requires to be (ParseUUIDPipe), an identifier; a route's Text *)
(* segment takes anything.                                                 *)
(***************************************************************************)
EXTENDS Bodies, Sequences, SequencesExt, FiniteSets

Uuid == ":uuid"
Text == ":text"

\* The roles of users (user.entity.ts).
Buyer == "buyer"
VendorRole == "vendor"
Admin == "admin"
Operations == "operations"
Roles == {Buyer, VendorRole, Admin, Operations}

(***************************************************************************)
(* Guards.  "roles" is empty where RolesGuard lets every signed-in user    *)
(* pass; "own" says whose vendor a VENDOR may name: any, that of the path  *)
(* or that of the token, which must then name one.                         *)
(***************************************************************************)
Open == [guard |-> "none", roles |-> {}, own |-> "any"]
\* Open, but a valid token identifies the caller.
Optional == [Open EXCEPT !.guard = "optional"]
SignedIn == [Open EXCEPT !.guard = "required"]
Only(roles) == [SignedIn EXCEPT !.roles = roles]
OwnPath(roles) == [Only(roles) EXCEPT !.own = "path"]
OwnToken(roles) == [Only(roles) EXCEPT !.own = "token"]
StaffRoles == {Admin, Operations}
Sellers == {VendorRole, Admin}
Insiders == Sellers \cup StaffRoles

(***************************************************************************)
(* The routes of each controller, in the order it declares them.  "fails"  *)
(* are the fields and values that break the handler's query, "denied" the  *)
(* fields a role may not send, "speaks" the order statuses of the answer.  *)
(***************************************************************************)
Route(verb, path, who, dto, gives) ==
  [verb |-> verb, path |-> path, who |-> who, dto |-> dto, gives |-> gives,
   fails |-> {}, denied |-> {}, speaks |-> {}]
Get(path, who, gives) == Route("GET", path, who, Unchecked, gives)
Post(path, who, dto, gives) == Route("POST", path, who, dto, gives)
Patch(path, who, dto, gives) == Route("PATCH", path, who, dto, gives)
Delete(path, who, gives) == Route("DELETE", path, who, Unchecked, gives)
AboutOrders(route) == [route EXCEPT !.speaks = OrderStatusValues]

CatalogPage == Route("GET", <<"catalog">>, Open, CatalogQueryDto, CatalogListResponseDto)
CategoriesRoute == Get(<<"catalog", "categories">>, Open, Each(CategorySummaryDto))
VendorsRoute == Get(<<"catalog", "vendors">>, Open, Each(VendorDirectoryDto))
CreateCategoryRoute ==
  Post(<<"catalog", "categories">>, Only({Admin}), CreateCategoryDto, One(CategorySummaryDto))
CreateVendorRoute ==
  Post(<<"catalog", "vendors">>, Only({Admin}), CreateVendorDto, One(VendorDetailDto))
VendorsAdminRoute == Get(<<"catalog", "vendors", "admin">>, Only({Admin}), Each(VendorDetailDto))
VendorDetailRoute ==
  Get(<<"catalog", "vendor", Uuid, "detail">>, OwnPath(Insiders),
      One(VendorDetailDto))
VendorDashboardRoute ==
  Get(<<"catalog", "vendor", Uuid, "dashboard">>, OwnPath(Insiders),
      One(VendorDashboardDto))
ManageRoute ==
  Get(<<"catalog", "vendor", Uuid, "manage">>, OwnPath(Sellers), Each(ProductResponseDto))
ByVendorRoute == Get(<<"catalog", "vendor", Uuid>>, Open, Each(ProductResponseDto))
AutocompleteRoute ==
  Get(<<"catalog", "autocomplete">>, Open, One({"products", "vendors", "categories"}))
WithPromotionRoute == Get(<<"catalog", Uuid, "promotion">>, Open, One(ProductResponseDto))
ProductRoute == Get(<<"catalog", Uuid>>, Open, One(ProductResponseDto))
SeedRoute == Post(<<"catalog", "seed">>, Only({Admin}), Unchecked, {})
CreateProductRoute ==
  Post(<<"catalog">>, Only(Sellers), CreateProductDto, One(ProductResponseDto))
\* A vendor's stock moves by adjustments only.
UpdateProductRoute ==
  [Patch(<<"catalog", Uuid>>, Only(Sellers), UpdateProductDto, One(ProductResponseDto))
     EXCEPT !.denied = {<<VendorRole, "stockCount">>}]
ReviewsRoute == Get(<<"catalog", "reviews", "product", Uuid>>, Open, ReviewListResponseDto)
\* The reviewer must have a line item of a status that the items never have.
CreateReviewRoute ==
  [Post(<<"catalog", "reviews">>, Only(Roles), CreateReviewDto, One({"message", "reviewId"}))
     EXCEPT !.fails = Texts({"productId"})]
DeleteProductRoute == Delete(<<"catalog", Uuid>>, Only(Sellers), Message)

CatalogController ==
  <<CatalogPage, CategoriesRoute, VendorsRoute, CreateCategoryRoute, CreateVendorRoute,
    VendorsAdminRoute, VendorDetailRoute, VendorDashboardRoute, ManageRoute,
    ByVendorRoute, AutocompleteRoute, WithPromotionRoute, ProductRoute, SeedRoute,
    CreateProductRoute, UpdateProductRoute, ReviewsRoute, CreateReviewRoute,
    DeleteProductRoute>>

ProfileRoute == Get(<<"customer", "profile">>, SignedIn, One(Profile))
UpdateProfileRoute == Patch(<<"customer", "profile">>, SignedIn, Unchecked, One(Profile))
AddressesRoute ==
  Get(<<"customer", "addresses">>, SignedIn,
      One({"userId", "addresses"}) \cup In("addresses", AddressRow))
CreateAddressRoute ==
  Post(<<"customer", "addresses">>, SignedIn, CreateAddressDto,
       One({"userId", "created", "address"}) \cup In("address", AddressRow))
UpdateAddressRoute ==
  Patch(<<"customer", "addresses", Uuid>>, SignedIn, UpdateAddressDto,
        One({"userId", "updated", "address"}) \cup In("address", AddressRow))
DeleteAddressRoute ==
  Delete(<<"customer", "addresses", Uuid>>, SignedIn, One({"userId", "deleted", "id"}))
CustomerControllers ==
  <<ProfileRoute, UpdateProfileRoute, AddressesRoute, CreateAddressRoute,
    UpdateAddressRoute, DeleteAddressRoute>>

DashboardRoute == Get(<<"admin", "dashboard">>, Only(StaffRoles), One(AdminDashboardDto))
\* The filter is put in capitals, which no status of the database is.
AdminOrdersRoute ==
  [AboutOrders(Get(<<"admin", "orders">>, Only(StaffRoles), AdminOrderListDto))
     EXCEPT !.fails = OneOf("status",
       {"PLACED", "CONFIRMED", "FULFILLING", "FULFILLED", "CANCELLED", "FAILED"})]
AdminCancelRoute ==
  Post(<<"admin", "orders", Uuid, "cancel">>, Only(StaffRoles), Unchecked, Message)
ResolveRoute ==
  Post(<<"admin", "line-items", Uuid, "resolve">>, Only(StaffRoles), AdminResolveDto, Message)
AnalyticsRoute == Get(<<"admin", "analytics">>, Only(StaffRoles), AdminAnalyticsDto)
KpiRoute == Get(<<"admin", "kpi">>, Only(StaffRoles), KPI)
AdminDeadLetterRoute ==
  Get(<<"admin", "dead-letter">>, Only(StaffRoles), Each(VendorSyncJobRow))
RetryRoute ==
  Post(<<"admin", "dead-letter", Uuid, "retry">>, Only(StaffRoles), Unchecked, Message)
AuditLogsRoute == Get(<<"admin", "audit-logs">>, Only(StaffRoles), AdminAuditLogResponseDto)
TraceRoute == Get(<<"admin", "trace", Text>>, Only(StaffRoles), AdminAuditLogResponseDto)
LinkedUsersRoute ==
  Get(<<"admin", "vendors", Uuid, "users">>, Only(StaffRoles), Each(LinkedUserDto))
LinkUserRoute ==
  Post(<<"admin", "vendors", Uuid, "users">>, Only({Admin}), LinkUserDto,
       One({"message", "transitioned"}))
UnlinkUserRoute ==
  Delete(<<"admin", "vendors", Uuid, "users", Uuid>>, Only({Admin}),
         One({"message", "transitioned"}))
AdminController ==
  <<DashboardRoute, AdminOrdersRoute, AdminCancelRoute, ResolveRoute, AnalyticsRoute,
    KpiRoute, AdminDeadLetterRoute, RetryRoute, AuditLogsRoute, TraceRoute,
    LinkedUsersRoute, LinkUserRoute, UnlinkUserRoute>>

CustomersRoute ==
  Get(<<"admin", "customers">>, Only(StaffRoles),
      One({"total", "customers"}) \cup In("customers", {"buyerId", "orderCount"}))
LedgerRoute == Get(<<"admin", "payments", "ledger">>, Only(StaffRoles), Ledger)
RefundsRoute ==
  Get(<<"admin", "payments", "refunds">>, Only(StaffRoles),
      Paged \cup In("items", {"id", "refundReference", "orderReference", "amountPaise",
        "currency", "state", "providerRefundId", "reason", "createdAt", "updatedAt"}))
DisputesRoute ==
  Get(<<"admin", "payments", "disputes">>, Only(StaffRoles),
      Paged \cup In("items", {"id", "providerDisputeId", "orderReference", "state",
        "amountPaise", "currency", "reason", "dueAt", "createdAt", "updatedAt"}))
StaffControllers == <<CustomersRoute, LedgerRoute, RefundsRoute, DisputesRoute>>

RegisterRoute == Post(<<"auth", "register">>, Open, RegisterDto, One(AuthUserDto))
LoginRoute == Post(<<"auth", "login">>, Open, LoginDto, One(AuthTokensDto))
RefreshRoute == Post(<<"auth", "refresh">>, Open, RefreshTokenDto, One(AuthTokensDto))
LogoutRoute == Post(<<"auth", "logout">>, Open, LogoutDto, Message)
GoogleRoute == Post(<<"auth", "google">>, Open, GoogleSignInDto, One(AuthTokensDto))
MeRoute == Get(<<"auth", "me">>, SignedIn, One(AuthUserDto))
ChangePasswordRoute ==
  Post(<<"auth", "change-password">>, SignedIn, ChangePasswordDto, Message)
RequestResetRoute == Post(<<"auth", "reset", "request">>, Open, Unchecked, Message)
ConfirmResetRoute == Post(<<"auth", "reset", "confirm">>, Open, Unchecked, Message)
AuthControllers ==
  <<RegisterRoute, LoginRoute, RefreshRoute, LogoutRoute, GoogleRoute, MeRoute,
    ChangePasswordRoute, RequestResetRoute, ConfirmResetRoute>>

\* The handler refuses a caller that the optional guard did not identify.
CheckoutRoute ==
  Post(<<"orders", "checkout">>, [Optional EXCEPT !.own = "user"], CheckoutRequestDto,
       CheckoutResponseDto)
ByBuyerRoute == AboutOrders(Get(<<"orders", "buyer", Uuid>>, Only(StaffRoles), OrdersAnswer))
VendorOrdersRoute ==
  AboutOrders(Get(<<"orders", "vendor", Uuid>>, OwnPath(Insiders), OrdersAnswer))
MyOrdersRoute == AboutOrders(Get(<<"orders", "me">>, SignedIn, OrdersAnswer))
OrderRoute == AboutOrders(Get(<<"orders", Uuid>>, SignedIn, OrderAnswer))
OrderAuditRoute ==
  Get(<<"orders", Uuid, "audit">>, Only(StaffRoles), AdminAuditLogResponseDto)
CancelRoute ==
  AboutOrders(Post(<<"orders", Uuid, "cancel">>, SignedIn, Unchecked, OrderAnswer))
RefundRoute == Post(<<"orders", Uuid, "refund">>, Only(StaffRoles), Unchecked, {})
TransitionRoute ==
  AboutOrders(Post(<<"orders", Uuid, "transition">>, Only(Insiders),
                   TransitionOrderDto, OrderAnswer))
OrdersController ==
  <<CheckoutRoute, ByBuyerRoute, VendorOrdersRoute, MyOrdersRoute, OrderRoute,
    OrderAuditRoute, CancelRoute, RefundRoute, TransitionRoute>>

SyncRoute ==
  Post(<<"fulfillment", "sync", Uuid>>, Only(Insiders), Unchecked,
       One({"message", "jobId", "vendorId", "queueName"}))
LegacySyncRoute ==
  Post(<<"fulfillment", "sync", Uuid, "legacy">>, Only(Insiders), Unchecked,
       One({"message", "jobId", "queueName"}))
ConfigureRoute ==
  Post(<<"fulfillment", "vendor", Text, "configure">>, Only(Insiders),
       Unchecked, One({"message", "vendorId", "concurrency", "queueName"}))
ReconcileRoute ==
  Post(<<"fulfillment", "reconcile">>, Only(StaffRoles), Unchecked, ReconciliationResultDto)
QueueStatsRoute == Get(<<"fulfillment", "queues", "stats">>, Open, {})
DeadLetterRoute ==
  Get(<<"fulfillment", "dead-letter">>, Only(Insiders), Each(VendorSyncJobRow))
AmbiguousRoute ==
  Get(<<"fulfillment", "ambiguous">>, Only(Insiders), Each(VendorSyncJobRow))
VendorMockRoute ==
  Post(<<"integrations", "vendor-mock", "config", Text>>, Only(Insiders),
       VendorConfigDto, Message)
AdjustRoute ==
  Post(<<"inventory", Uuid, "adjust">>, Only(Sellers), AdjustStockDto, StockOperationResult)
StockRoute ==
  Get(<<"inventory", Uuid>>, Open, One({"productId", "currentStock", "isAvailable"}))
OperationsControllers ==
  <<SyncRoute, LegacySyncRoute, ConfigureRoute, ReconcileRoute, QueueStatsRoute,
    DeadLetterRoute, AmbiguousRoute, VendorMockRoute, AdjustRoute, StockRoute>>

HealthRoute ==
  Get(<<"health">>, Open,
      One({"status", "timestamp", "uptime", "database", "memory"}) \cup
      In("database", {"status", "connected"}) \cup In("memory", {"used", "total", "percentage"}))
LiveRoute == Get(<<"health", "live">>, Open, One({"status"}))
ReadyRoute == Get(<<"health", "ready">>, Open, One({"status", "ready"}))
BoundedRoute ==
  Get(<<"health", "bounded">>, Open, One({"status", "boundedAt", "databaseStatus",
    "memoryPercent", "uptimeSec", "timestamp"}))
InitiateRoute ==
  Post(<<"payments", "razorpay", "initiate">>, SignedIn, InitiationDto,
       One({"success", "orderId", "orderNumber", "providerOrderId", "publicKeyId",
            "amountPaise", "currency"}))
VerifyRoute ==
  Post(<<"payments", "razorpay", "verify">>, SignedIn, VerificationDto,
       One({"verified", "alreadyProcessed", "orderId", "paymentId"}))
WebhookRoute == Post(<<"payments", "razorpay", "webhook">>, Open, Unchecked, One({"received"}))
PaymentControllers ==
  <<HealthRoute, LiveRoute, ReadyRoute, BoundedRoute, InitiateRoute, VerifyRoute, WebhookRoute>>

SubmitApplicationRoute ==
  Post(<<"vendor-applications">>, Optional, SubmitApplicationDto, One(ApplicationRow))
MyApplicationsRoute == Get(<<"vendor-applications", "me">>, SignedIn, Each(ApplicationRow))
PendingApplicationsRoute ==
  Get(<<"vendor-applications">>, Only({Admin}), Each(ApplicationRow))
ApproveRoute ==
  Post(<<"vendor-applications", Text, "approve">>, Only({Admin}), ReviewApplicationDto,
       One(ApplicationRow))
RejectRoute ==
  Post(<<"vendor-applications", Text, "reject">>, Only({Admin}), ReviewApplicationDto,
       One(ApplicationRow))
ApplicationsController ==
  <<SubmitApplicationRoute, MyApplicationsRoute, PendingApplicationsRoute, ApproveRoute,
    RejectRoute>>

ApprovePromotionRoute ==
  Patch(<<"admin", "promotions", Text, "approve">>, Only(StaffRoles), Unchecked, {})
RejectPromotionRoute ==
  Patch(<<"admin", "promotions", Text, "reject">>, Only(StaffRoles), Unchecked, {})
VendorAllocationsRoute ==
  Get(<<"vendor", "payments", "allocations">>, OwnToken(Sellers), VendorAllocations)
PromotionsRoute ==
  Get(<<"vendor", "promotions">>, OwnToken({VendorRole}),
      One({"promotions"}) \cup In("promotions", PromotionRow))
CreatePromotionRoute ==
  Post(<<"vendor", "promotions">>, OwnToken({VendorRole}), PromotionFundingApprovalDto,
       One(PromotionRow))
UpdatePromotionRoute ==
  Patch(<<"vendor", "promotions", Text>>, OwnToken({VendorRole}),
        PromotionFundingApprovalUpdateDto, One(PromotionRow))
DeletePromotionRoute ==
  Delete(<<"vendor", "promotions", Text>>, OwnToken({VendorRole}), One(PromotionRow))
SettingsRoute == Get(<<"vendor", "settings">>, Only(Sellers), One(VendorRow))
UpdateSettingsRoute ==
  Patch(<<"vendor", "settings">>, Only(Sellers), UpdateVendorSettingsDto, One(VendorRow))
VendorControllers ==
  <<ApprovePromotionRoute, RejectPromotionRoute, VendorAllocationsRoute, PromotionsRoute,
    CreatePromotionRoute, UpdatePromotionRoute, DeletePromotionRoute, SettingsRoute,
    UpdateSettingsRoute>>

\* The payout accounts: any signed-in caller.
PayoutAccount == {"id", "vendorId", "linkedAccountId", "onboardingState"}
LinkAccountRoute ==
  Post(<<"vendor", "payment-accounts", "link">>, SignedIn, Unchecked, One(PayoutAccount))
ActivateRoute ==
  Patch(<<"vendor", "payment-accounts", Text, "activate">>, SignedIn, Unchecked, One(PayoutAccount))
SuspendRoute ==
  Patch(<<"vendor", "payment-accounts", Text, "suspend">>, SignedIn, Unchecked, One(PayoutAccount))
UnlinkAccountRoute == Delete(<<"vendor", "payment-accounts", Text>>, SignedIn, {})
AccountRoute == Get(<<"vendor", "payment-accounts", Text>>, SignedIn, {})
EligibleRoute == Get(<<"vendor", "payment-accounts", Text, "eligible">>, SignedIn, {})
PayoutController ==
  <<LinkAccountRoute, ActivateRoute, SuspendRoute, UnlinkAccountRoute, AccountRoute, EligibleRoute>>

AllRoutes ==
  CatalogController \o CustomerControllers \o AdminController \o StaffControllers \o
  AuthControllers \o OrdersController \o OperationsControllers \o PaymentControllers \o
  ApplicationsController \o VendorControllers \o PayoutController

(***************************************************************************)
(* How a request is answered.                                              *)
(***************************************************************************)
Reaches(request, route) ==
  /\ request.verb = route.verb
  /\ Len(request.path) = Len(route.path)
  /\ \A i \in DOMAIN route.path : route.path[i] \in {request.path[i], Uuid, Text}

\* The first route that matches takes the request, even to refuse it.
Taken(request) == SelectInSeq(AllRoutes, LAMBDA route : Reaches(request, route))

Identifiers(request, route) ==
  \A i \in DOMAIN route.path : route.path[i] = Uuid => request.path[i] = Uuid

\* RolesGuard: a caller with one of the roles, if there are any.
HasRole(who, caller) == who.roles = {} \/ caller.role \in who.roles

\* The handler's own checks of whose vendor is asked about.
Owns(who, caller, whose) ==
  /\ who.own = "user" => caller.role # "nobody"
  /\ who.own = "path" /\ caller.role = VendorRole => caller.vendor = whose
  /\ who.own = "token" => caller.role # Admin /\ caller.vendor # "none"

Denied(route, caller, body) ==
  \E f \in body : <<caller.role, NameOf(f)>> \in route.denied

\* Guards come before pipes and pipes before the handler.  A caller without a
\* valid token has the role "nobody".
Answer(request, route, caller, whose) ==
  CASE route.who.guard = "required" /\ caller.role = "nobody" -> "401"
    [] ~HasRole(route.who, caller)                  -> "403"
    [] ~Identifiers(request, route)                 -> "400"
    [] ~Accepts(route.dto, request.body)            -> "400"
    [] ~Owns(route.who, caller, whose)              -> "403"
    [] Denied(route, caller, request.body)          -> "403"
    [] request.body \cap route.fails # {}           -> "500"
    [] OTHER                                        -> "served"
================================================================================
