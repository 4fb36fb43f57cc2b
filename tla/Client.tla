--------------------------------- MODULE Client ---------------------------------
(***************************************************************************)
(* What the browser asks of the HTTP interface: the functions of its       *)
(* client library with the request each sends and the fields that the      *)
(* types it declares require of the answer, and the pages that call them.  *)
(***************************************************************************)
EXTENDS Routes

(***************************************************************************)
(* The declared types: the fields that are not optional.                   *)
(***************************************************************************)
ProductType ==
  {"id", "name", "slug", "price", "stockCount", "vendorId", "vendorName", "category",
   "isActive", "description", "images"}
CategorySummaryType == {"name", "slug", "productCount", "activeProductCount", "totalStock"}
CatalogFacetsType == {"categories", "totalProducts", "minPrice", "maxPrice"}
CatalogListType ==
  One({"items", "total", "page", "pageSize", "totalPages", "facets"}) \cup
  In("items", ProductType) \cup In("facets", CatalogFacetsType) \cup
  In("categories", CategorySummaryType)
VendorResponseType == {"id", "name", "productCount", "activeProductCount", "createdAt"}
VendorDetailType ==
  {"id", "name", "productCount", "activeProductCount", "totalStock", "lowStockCount",
   "outOfStockCount", "createdAt"}
VendorDashboardType ==
  {"vendorId", "vendorName", "productCount", "activeProductCount", "totalStock",
   "lowStockCount", "outOfStockCount", "pendingSyncJobs", "deadLetterJobs",
   "ambiguousJobs", "openOrders"}
ReviewListType ==
  One({"reviews", "averageRating", "totalReviews"}) \cup
  In("reviews", {"id", "productId", "buyerId", "buyerName", "rating", "comment", "createdAt"})
\* The order statuses that the browser tells apart.
OrderStatusesKnown ==
  {"PLACED", "CONFIRMED", "FULFILLING", "FULFILLED", "CANCELLED", "FAILED"}
OrderLineItemType ==
  {"id", "productId", "productName", "vendorId", "vendorName", "quantity", "unitPrice",
   "lineTotal", "fulfillmentStatus"}
OrderFields ==
  {"id", "buyerId", "status", "totalAmount", "correlationId", "lineItems", "createdAt",
   "updatedAt"}
OrderType == One(OrderFields) \cup In("lineItems", OrderLineItemType)
OrderListType == Each(OrderFields) \cup In("lineItems", OrderLineItemType)
CheckoutType == One({"success", "message", "correlationId"})
AuditLogType ==
  {"id", "correlationId", "action", "entityType", "entityId", "message", "createdAt"}
AuditLogListType == One({"total", "logs"}) \cup In("logs", AuditLogType)
AdminAnalyticsType ==
  One({"window", "throughput", "latency", "sources"}) \cup
  In("window", {"start", "end", "timezone"}) \cup
  In("throughput", {"date", "placed", "fulfilling", "fulfilled", "cancelled"}) \cup
  In("latency", {"computedFrom", "unit", "averageMs", "count", "note"})
AdminDashboardType ==
  One({"totalOrders", "totalRevenue", "pendingOrders", "fulfillingOrders",
       "fulfilledOrders", "cancelledOrders", "deadLetterJobs", "ambiguousJobs"})
AdminOrderType == {"orderId", "buyerId", "status", "createdAt"}
AdminOrderListType == One({"total", "orders"}) \cup In("orders", AdminOrderType)
DeadLetterJobType ==
  {"id", "orderLineItemId", "status", "attempts", "maxAttempts", "createdAt", "updatedAt"}
PromotionType ==
  {"id", "title", "description", "discountPercent", "isActive", "startDate", "endDate",
   "vendorId", "createdAt", "updatedAt"}
UserType == {"id", "email", "role", "displayName", "vendorId"}
AuthTokensType == One(UserType \cup {"accessToken", "refreshToken", "expiresIn"})
ReconciliationType == One({"processed", "resolved", "stillAmbiguous", "errors"})
HealthType ==
  One({"status", "timestamp", "uptime", "database", "memory"}) \cup
  In("database", {"status", "connected"}) \cup In("memory", {"used", "total", "percentage"})
CustomerType == {"buyerId", "orderCount"}

(***************************************************************************)
(* The client library, a request for each function.                        *)
(***************************************************************************)
Fetch(call, verb, path, body, reads) ==
  [call |-> call, verb |-> verb, path |-> path, body |-> body, reads |-> reads, knows |-> {},
   page |-> "none", portal |-> "none"]
Read(call, path, reads) == Fetch(call, "GET", path, {}, reads)
OfOrders(request) == [request EXCEPT !.knows = OrderStatusesKnown]

getCatalogPage(query) == Fetch("getCatalogPage", "GET", <<"catalog">>, query, CatalogListType)
\* One page after the other, a hundred products each.
getProducts(query) ==
  getCatalogPage(query \cup Of2("numeral", {"page", "pageSize"}))
deleteProduct == Fetch("deleteProduct", "DELETE", <<"catalog", Uuid>>, {}, Message)
getProductById == Read("getProductById", <<"catalog", Uuid>>, One(ProductType))
getVendors == Read("getVendors", <<"catalog", "vendors">>, Each(VendorResponseType))
getVendorProducts(includeInactive) ==
  Read("getVendorProducts",
    IF includeInactive THEN <<"catalog", "vendor", Uuid, "manage">>
                       ELSE <<"catalog", "vendor", Uuid>>,
    Each(ProductType))
adjustStock ==
  Fetch("adjustStock", "POST", <<"inventory", Uuid, "adjust">>,
    Numbers({"delta"}) \cup Texts({"reason"}),
    One({"success", "productId", "previousStock", "newStock", "requestedQuantity"}))
updateStock ==
  Fetch("updateStock", "PATCH", <<"catalog", Uuid>>, Numbers({"stockCount"}), One(ProductType))
updateProduct(body) ==
  Fetch("updateProduct", "PATCH", <<"catalog", Uuid>>, body, One(ProductType))
createProduct(body) == Fetch("createProduct", "POST", <<"catalog">>, body, One(ProductType))
getReviews == Read("getReviews", <<"catalog", "reviews", "product", Uuid>>, ReviewListType)
createReview ==
  Fetch("createReview", "POST", <<"catalog", "reviews">>,
    Texts({"productId", "comment"}) \cup Numbers({"rating"}), One({"message", "reviewId"}))
getOrderAuditLogs == Read("getOrderAuditLogs", <<"orders", Uuid, "audit">>, AuditLogListType)
checkoutOrder ==
  Fetch("checkoutOrder", "POST", <<"orders", "checkout">>,
    Lists({"items"}) \cup Texts({"shippingAddress"}), CheckoutType)
getOrderById == OfOrders(Read("getOrderById", <<"orders", Uuid>>, OrderType))
transitionOrder(action) ==
  OfOrders(Fetch("transitionOrder", "POST", <<"orders", Uuid, "transition">>,
    {<<"action", action>>}, OrderType))
cancelOrder == OfOrders(Fetch("cancelOrder", "POST", <<"orders", Uuid, "cancel">>, {}, OrderType))
getOrdersForBuyer == OfOrders(Read("getOrdersForBuyer", <<"orders", "me">>, OrderListType))
getVendorOrders == OfOrders(Read("getVendorOrders", <<"orders", "vendor", Uuid>>, OrderListType))
getAmbiguousJobs ==
  Read("getAmbiguousJobs", <<"fulfillment", "ambiguous">>, Each(DeadLetterJobType))
runReconciliation ==
  Fetch("runReconciliation", "POST", <<"fulfillment", "reconcile">>,
    Numbers({"olderThanMinutes"}), ReconciliationType)
getVendorDeadLetterJobs ==
  Read("getVendorDeadLetterJobs", <<"fulfillment", "dead-letter">>, Each(DeadLetterJobType))
getVendorDashboard ==
  Read("getVendorDashboard", <<"catalog", "vendor", Uuid, "dashboard">>, One(VendorDashboardType))
getCategories == Read("getCategories", <<"catalog", "categories">>, Each(CategorySummaryType))
getAdminCategories ==
  Read("getAdminCategories", <<"catalog", "categories">>, Each(CategorySummaryType))
createCategory ==
  Fetch("createCategory", "POST", <<"catalog", "categories">>, Texts({"name"}),
    One(CategorySummaryType))
getAdminVendors == Read("getAdminVendors", <<"catalog", "vendors", "admin">>, Each(VendorDetailType))
createVendor ==
  Fetch("createVendor", "POST", <<"catalog", "vendors">>, Texts({"name"}), One(VendorDetailType))
getLinkedUsers ==
  Read("getLinkedUsers", <<"admin", "vendors", Uuid, "users">>,
    Each({"id", "email", "role", "vendorId"}))
linkVendorUser ==
  Fetch("linkVendorUser", "POST", <<"admin", "vendors", Uuid, "users">>, Texts({"email"}),
    One({"message", "transitioned"}))
unlinkVendorUser ==
  Fetch("unlinkVendorUser", "DELETE", <<"admin", "vendors", Uuid, "users", Uuid>>, {},
    One({"message", "transitioned"}))
getVendorDetail ==
  Read("getVendorDetail", <<"catalog", "vendor", Uuid, "detail">>, One(VendorDetailType))
getAutocomplete ==
  Fetch("getAutocomplete", "GET", <<"catalog", "autocomplete">>, Texts({"q"}),
    One({"products", "vendors", "categories"}))
getAdminAnalytics ==
  Fetch("getAdminAnalytics", "GET", <<"admin", "analytics">>, Of2("numeral", {"days"}),
    AdminAnalyticsType)
getAdminDashboard == Read("getAdminDashboard", <<"admin", "dashboard">>, AdminDashboardType)
getAdminKPI == Read("getAdminKPI", <<"admin", "kpi">>, {})
requestPasswordReset ==
  Fetch("requestPasswordReset", "POST", <<"auth", "reset", "request">>, Texts({"email"}), {})
confirmPasswordReset ==
  Fetch("confirmPasswordReset", "POST", <<"auth", "reset", "confirm">>,
    Texts({"token", "password"}), {})
getAdminOrders(query) ==
  Fetch("getAdminOrders", "GET", <<"admin", "orders">>,
    query \cup Of2("numeral", {"limit", "offset"}), AdminOrderListType)
resolveLineItem(status) ==
  Fetch("resolveLineItem", "POST", <<"admin", "line-items", Uuid, "resolve">>,
    {<<"newFulfillmentStatus", status>>} \cup Texts({"reason", "vendorReference"}), Message)
cancelAdminOrder ==
  Fetch("cancelAdminOrder", "POST", <<"admin", "orders", Uuid, "cancel">>, {}, Message)
getDeadLetterJobs == Read("getDeadLetterJobs", <<"admin", "dead-letter">>, Each(DeadLetterJobType))
retryDeadLetterJob ==
  Fetch("retryDeadLetterJob", "POST", <<"admin", "dead-letter", Uuid, "retry">>, {}, Message)
getAuditLogs(query) ==
  Fetch("getAuditLogs", "GET", <<"admin", "audit-logs">>, query, AuditLogListType)
getCorrelationTrace ==
  Read("getCorrelationTrace", <<"admin", "trace", Text>>, AuditLogListType)
submitVendorApplication ==
  Fetch("submitVendorApplication", "POST", <<"vendor-applications">>,
    Texts({"email", "businessName", "reason"}), One({"id", "email", "businessName", "status"}))
ApplicationType == {"id", "email", "businessName", "status", "createdAt"}
getMyVendorApplications ==
  Read("getMyVendorApplications", <<"vendor-applications", "me">>, Each(ApplicationType))
getPendingVendorApplications ==
  Read("getPendingVendorApplications", <<"vendor-applications">>, Each(ApplicationType))
approveVendorApplication ==
  Fetch("approveVendorApplication", "POST", <<"vendor-applications", Text, "approve">>,
    {<<"decision", "approve">>} \cup Texts({"reason"}), One({"id", "status"}))
rejectVendorApplication ==
  Fetch("rejectVendorApplication", "POST", <<"vendor-applications", Text, "reject">>,
    {<<"decision", "reject">>} \cup Texts({"reason"}), One({"id", "status"}))
getHealth == Read("getHealth", <<"health">>, HealthType)
registerAccount ==
  Fetch("registerAccount", "POST", <<"auth", "register">>,
    Texts({"email", "password", "displayName"}), One(UserType))
loginAccount(portal) ==
  Fetch("loginAccount", "POST", <<"auth", "login">>,
    Texts({"email", "password"}) \cup portal, AuthTokensType)
refreshAccessToken ==
  Fetch("refreshAccessToken", "POST", <<"auth", "refresh">>, Texts({"refreshToken"}),
    AuthTokensType)
logoutAccount == Fetch("logoutAccount", "POST", <<"auth", "logout">>, Texts({"refreshToken"}), Message)
checkoutWithIdempotency ==
  Fetch("checkoutWithIdempotency", "POST", <<"orders", "checkout">>,
    Lists({"items"}) \cup Texts({"shippingAddress", "idempotencyKey"}), CheckoutType)
validateCoupon ==
  Fetch("validateCoupon", "POST", <<"coupons", "validate">>,
    Texts({"code"}) \cup Numbers({"orderTotal"}), One({"valid"}))
googleSignIn(portal) ==
  Fetch("googleSignIn", "POST", <<"auth", "google">>,
    Texts({"idToken"}) \cup {<<"portal", portal>>}, AuthTokensType)
getMe == Read("getMe", <<"auth", "me">>, One(UserType))
initiateRazorpayOrder ==
  Fetch("initiateRazorpayOrder", "POST", <<"payments", "razorpay", "initiate">>,
    Lists({"items"}) \cup Texts({"shippingAddress"}),
    One({"success", "orderId", "orderNumber", "providerOrderId", "publicKeyId", "amountPaise",
         "currency"}))
verifyRazorpayPayment ==
  Fetch("verifyRazorpayPayment", "POST", <<"payments", "razorpay", "verify">>,
    Texts({"razorpay_order_id", "razorpay_payment_id", "razorpay_signature"}),
    One({"verified", "alreadyProcessed", "orderId", "paymentId"}))
getAdminCustomers(reads) ==
  Fetch("getAdminCustomers", "GET", <<"admin", "customers">>,
    Of2("numeral", {"limit", "offset"}), reads)
getVendorPromotions ==
  Read("getVendorPromotions", <<"vendor", "promotions">>,
    One({"promotions"}) \cup In("promotions", PromotionType))
createPromotion(body) ==
  Fetch("createPromotion", "POST", <<"vendor", "promotions">>, body, One(PromotionType))
updatePromotion(body) ==
  Fetch("updatePromotion", "PATCH", <<"vendor", "promotions", Text>>, body, One(PromotionType))
\* The page does not look at what is answered.
deletePromotion == Fetch("deletePromotion", "DELETE", <<"vendor", "promotions", Text>>, {}, {})

(***************************************************************************)
(* The pages.  A page of the staff or the vendor portal is shown to the    *)
(* user whom the portal's gate lets in, "signed in" marks what a page asks *)
(* only for a signed-in user, and "anyone" the rest.  What the library     *)
(* and its components offer and no page uses yet is "unplaced".            *)
(***************************************************************************)
At(page, portal, requests) ==
  {[request EXCEPT !.page = page, !.portal = portal] : request \in requests}

AdminPage ==
  At("admin", "staff", {getAdminDashboard, getAdminKPI, getAdminAnalytics})
AdminAnalyticsPage == At("admin/analytics", "staff", {getAdminDashboard, getAdminKPI})
AdminAuditLogsPage ==
  At("admin/audit-logs", "staff",
     {getCorrelationTrace,
      getAuditLogs(Texts({"entityType", "action", "correlationId"}) \cup
                   Of2("numeral", {"limit"}))})
AdminCategoriesPage == At("admin/categories", "staff", {getAdminCategories, createCategory})
AdminCustomersPage ==
  At("admin/customers", "staff",
     {getAdminCustomers(One({"total", "customers"}) \cup In("customers", CustomerType))})
AdminDeadLetterPage == At("admin/dead-letter", "staff", {getDeadLetterJobs, retryDeadLetterJob})
\* The page looks for the database's health in the list of customers, and asks
\* its own server, not the application's, for the dead letters.
AdminHealthPage ==
  At("admin/health", "staff",
     {getAdminCustomers(One({"databaseStatus", "boundedAt", "uptimeSec", "memoryPercent",
                             "timestamp"})),
      Read("fetch", <<"own server", "admin", "dead-letter">>, {})})
AdminOrdersPage ==
  At("admin/orders", "staff",
     {getAdminOrders({<<"type", which>>} \cup filter) :
        which \in {"stuck", "all"},
        filter \in {{}} \cup {{<<"status", s>>} : s \in OrderStatusesKnown}})
ResolveLineItemDialog ==
  At("admin/resolve", "staff",
     {resolveLineItem(status) :
        status \in {"FULFILLED", "FAILED", "CANCELLED", "MANUAL_INTERVENTION_REQUIRED"}})
AdminOrderPage ==
  At("admin/order", "staff",
     {getOrderById, getAuditLogs(Texts({"entityId"}) \cup Of2("numeral", {"limit"}))})
AdminPaymentsPage ==
  At("admin/payments", "staff",
     {Read("ledger", <<"admin", "payments", "ledger">>,
        One({"allocations", "transfers"}) \cup
        In("allocations", {"id", "vendorId", "orderReference", "amountPaise",
          "commissionPaise", "currency", "rulesVersion", "createdAt"}) \cup
        In("transfers", {"id", "vendorId", "orderReference", "amountPaise", "state",
          "providerTransferId", "attempts", "createdAt", "updatedAt"}))})
AdminDisputesPage ==
  At("admin/disputes", "staff",
     {Fetch("disputes", "GET", <<"admin", "payments", "disputes">>,
        Texts({"status"}) \cup Of2("numeral", {"page"}),
        One({"records", "pagination", "configured"}))})
AdminRefundsPage ==
  At("admin/refunds", "staff",
     {Fetch("refunds", "GET", <<"admin", "payments", "refunds">>,
        Texts({"status"}) \cup Of2("numeral", {"page"}),
        One({"records", "pagination", "configured"}))})
AdminProductsPage ==
  At("admin/products", "staff",
     {getCatalogPage(Texts({"includeInactive"}) \cup Of2("numeral", {"pageSize"}))})
AdminReconciliationPage ==
  At("admin/reconciliation", "staff", {getDeadLetterJobs, getAmbiguousJobs, runReconciliation})
AdminVendorApplicationsPage ==
  At("admin/vendor-applications", "staff",
     {getPendingVendorApplications, approveVendorApplication, rejectVendorApplication})
AdminVendorsPage ==
  At("admin/vendors", "staff",
     {getAdminVendors, createVendor, getLinkedUsers, linkVendorUser, unlinkVendorUser})

VendorDashboardPage == At("vendor/dashboard", "vendor", {getVendorDashboard})
VendorAnalyticsPage == At("vendor/analytics", "vendor", {getVendorDashboard})
VendorProductsPage ==
  At("vendor/products", "vendor",
     {getVendorProducts(TRUE), updateStock, deleteProduct,
      createProduct(Texts({"vendorId", "name", "category", "description"}) \cup
                    Numbers({"price", "stockCount"}) \cup Lists({"images"})),
      updateProduct(Texts({"name", "category", "description"}) \cup Numbers({"price"}) \cup
                    Lists({"images"})),
      updateProduct(Flags({"isActive"}))})
VendorInventoryPage ==
  At("vendor/inventory", "vendor",
     {getVendorProducts(TRUE), adjustStock, deleteProduct,
      createProduct(Texts({"vendorId", "name"}) \cup Numbers({"price", "stockCount"}))})
VendorOrdersPage ==
  At("vendor/orders", "vendor",
     {getVendorOrders} \cup
     {transitionOrder(action) : action \in {"CONFIRM", "FULFILL", "SHIP", "CANCEL"}})
VendorDeadLetterPage == At("vendor/dead-letter", "vendor", {getVendorDeadLetterJobs})
VendorPayoutsPage ==
  At("vendor/payouts", "vendor",
     {Read("allocations", <<"vendor", "payments", "allocations">>,
        One({"allocations"}) \cup
        In("allocations", {"id", "orderReference", "amountPaise", "currency", "createdAt"}))})
PromotionForm == Texts({"title", "description", "startDate", "endDate"}) \cup
  Numbers({"discountPercent"}) \cup Flags({"isActive"})
VendorPromotionsPage ==
  At("vendor/promotions", "vendor",
     {getVendorPromotions, createPromotion(PromotionForm), updatePromotion(PromotionForm),
      updatePromotion(Flags({"isActive"})), deletePromotion})
VendorSettingsPage ==
  At("vendor/settings", "vendor",
     {Read("settings", <<"vendor", "settings">>, One({"name"})),
      Fetch("saveSettings", "PATCH", <<"vendor", "settings">>, Texts({"name"}), {})})
VendorApplicationsPage == At("vendor/applications", "vendor", {getMyVendorApplications})

HomePage == At("home", "anyone", {getProducts({}), getCategories})
ForYouPage == At("for-you", "anyone", {getProducts({}), getCategories})
DealsPage == At("deals", "anyone", {getProducts({})})
ProductsPage ==
  At("products", "anyone",
     {getVendors, getCategories, getAutocomplete} \cup
     {getCatalogPage(Texts({"q", "category", "vendor"}) \cup
                     Of2("numeral", {"maxPrice", "page", "pageSize"}) \cup order) :
        order \in {{}} \cup {{<<"sort", s>>} :
          s \in {"newest", "price-asc", "price-desc", "name-asc", "name-desc"}}})
ProductPage == At("product", "anyone", {getProductById})
VendorsPage == At("vendors", "anyone", {getVendors})
VendorPage == At("vendors/vendor", "anyone", {getVendors, getProducts({})})
WishlistPage == At("wishlist", "anyone", {getProductById})
OrdersPage == At("orders", "anyone", {getOrdersForBuyer})
OrderPage == At("orders/order", "anyone", {getOrderById})
SellPage == At("sell", "signed in", {getMyVendorApplications})
ApplyPage == At("sell/apply", "anyone", {submitVendorApplication})
CheckoutPage == At("checkout", "signed in", {initiateRazorpayOrder, verifyRazorpayPayment})
AddressForm == Texts({"label", "street", "city", "state", "zip", "country"}) \cup
  Flags({"isDefault"})
Addresses ==
  {Read("addresses", <<"customer", "addresses">>, One({"addresses"}) \cup
     In("addresses", {"id", "label", "street", "city", "country", "isDefault"})),
   Fetch("addAddress", "POST", <<"customer", "addresses">>, AddressForm, {}),
   Fetch("editAddress", "PATCH", <<"customer", "addresses", Uuid>>, AddressForm, {}),
   Fetch("setDefault", "PATCH", <<"customer", "addresses", Uuid>>, Flags({"isDefault"}), {}),
   Fetch("deleteAddress", "DELETE", <<"customer", "addresses", Uuid>>, {}, {})}
AccountPage ==
  At("account", "signed in",
     {Read("profile", <<"customer", "profile">>, One({"displayName", "bio"})),
      Fetch("saveProfile", "PATCH", <<"customer", "profile">>, Texts({"displayName", "bio"}),
        One({"displayName", "bio"}))} \cup Addresses)
AddressesPage == At("account/addresses", "anyone", Addresses)
LoginPage ==
  At("login", "anyone",
     {registerAccount, loginAccount({})} \cup
     UNION {{loginAccount({<<"portal", p>>}), googleSignIn(p)} : p \in {"customer", "vendor"}})
PasswordPages == At("password", "anyone", {requestPasswordReset, confirmPasswordReset})
OverviewPage ==
  At("dashboard", "anyone", {Read("fetch", <<"own server", "dashboard", "overview">>, {})})
Unplaced ==
  At("library", "unplaced",
     {getReviews, createReview, getOrderAuditLogs, checkoutOrder, checkoutWithIdempotency,
      cancelOrder, cancelAdminOrder, getVendorDetail, validateCoupon, getHealth,
      getCatalogPage(Of2("numeral", {"pageSize"}) \cup Texts({"category"}))})

Offers ==
  UNION {AdminPage, AdminAnalyticsPage, AdminAuditLogsPage, AdminCategoriesPage,
    AdminCustomersPage, AdminDeadLetterPage, AdminHealthPage, AdminOrdersPage,
    ResolveLineItemDialog, AdminOrderPage, AdminPaymentsPage, AdminDisputesPage,
    AdminRefundsPage, AdminProductsPage, AdminReconciliationPage,
    AdminVendorApplicationsPage, AdminVendorsPage, VendorDashboardPage, VendorAnalyticsPage,
    VendorProductsPage, VendorInventoryPage, VendorOrdersPage, VendorDeadLetterPage,
    VendorPayoutsPage, VendorPromotionsPage, VendorSettingsPage, VendorApplicationsPage,
    HomePage, ForYouPage, DealsPage, ProductsPage, ProductPage, VendorsPage, VendorPage,
    WishlistPage, OrdersPage, OrderPage, SellPage, ApplyPage, CheckoutPage, AccountPage,
    AddressesPage, LoginPage, PasswordPages, OverviewPage, Unplaced}

\* Each offer with the route that takes it, if there is one.
RoutedOffers ==
  {[offer |-> o, routes |-> {AllRoutes[i] : i \in {Taken(o)} \ {0}}] : o \in Offers}
================================================================================
