--------------------------------- MODULE Bodies ---------------------------------
(***************************************************************************)
(* The bodies and queries that the routes of the HTTP interface accept,    *)
(* and the fields of their answers.  A field's value is abstracted to its  *)
(* kind, or to the value itself where the code accepts an enumeration.     *)
(***************************************************************************)
EXTENDS Integers

(***************************************************************************)
(* Bodies.  A class of class-validator is checked by the application's     *)
(* pipe with forbidNonWhitelisted: its required fields are there, its      *)
(* optional ones may be, each of a kind it takes, and there is no other.   *)
(* An interface or an inline type leaves nothing to check.                 *)
(***************************************************************************)
Fields(must, may) == [checked |-> TRUE, must |-> must, may |-> may]
Unchecked == [checked |-> FALSE, must |-> {}, may |-> {}]
Of2(kind, names) == {<<name, kind>> : name \in names}
Texts(names) == Of2("text", names)
Numbers(names) == Of2("number", names)
Flags(names) == Of2("boolean", names)
Lists(names) == Of2("list", names)
OneOf(name, values) == {<<name, v>> : v \in values}
NameOf(field) == field[1]

\* The body is a set of <<field, kind or value>>; a required field may have
\* several acceptable values.
Accepts(dto, body) ==
  dto.checked =>
    /\ body \subseteq dto.must \cup dto.may
    /\ {NameOf(f) : f \in dto.must} \subseteq {NameOf(f) : f \in body}

CreateProductDto == Fields(
  Texts({"vendorId", "name"}) \cup Numbers({"price", "stockCount"}),
  Texts({"category", "slug", "description"}) \cup Lists({"images"}))
UpdateProductDto == Fields({},
  Texts({"name", "category", "slug", "description"}) \cup
  Numbers({"price", "stockCount"}) \cup Flags({"isActive"}) \cup Lists({"images"}))
CatalogSort == {"newest", "price-asc", "price-desc", "name-asc", "name-desc"}
\* Numbers are converted from the query's text (@Type); includeInactive is not,
\* and the text of a query is never a boolean.
CatalogQueryDto == Fields({},
  Texts({"q", "category", "vendor"}) \cup OneOf("sort", CatalogSort) \cup
  Of2("numeral", {"minPrice", "maxPrice", "page", "pageSize"}) \cup
  Flags({"includeInactive"}))
CreateCategoryDto == Fields(Texts({"name"}), Texts({"slug", "description"}))
CreateVendorDto == Fields(Texts({"name"}), {})
CreateReviewDto == Fields(Texts({"productId"}) \cup Numbers({"rating"}), Texts({"comment"}))
CreateAddressDto == Fields(Texts({"label", "street", "city"}),
  Texts({"state", "zip", "country"}) \cup Flags({"isDefault"}))
UpdateAddressDto == Fields({},
  Texts({"label", "street", "city", "state", "zip", "country"}) \cup Flags({"isDefault"}))
FulfillmentStatus ==
  {"pending", "syncing", "confirmed", "failed", "dead_letter", "ambiguous"}
AdminResolveDto == Fields(OneOf("newFulfillmentStatus", FulfillmentStatus),
  Texts({"reason", "vendorReference"}))
LinkUserDto == Fields(Texts({"email"}), {})
RegisterDto == Fields(Texts({"email", "password"}), Texts({"displayName"}))
Portal == {"customer", "vendor"}
LoginDto == Fields(Texts({"email", "password"}), OneOf("portal", Portal))
GoogleSignInDto == Fields(Texts({"idToken"}), OneOf("portal", Portal))
RefreshTokenDto == Fields(Texts({"refreshToken"}), {})
LogoutDto == Fields(Texts({"refreshToken"}), {})
ChangePasswordDto == Fields(Texts({"currentPassword", "newPassword"}), {})
CheckoutRequestDto == Fields(Lists({"items"}),
  Texts({"shippingAddress", "paymentMethodToken", "idempotencyKey"}))
TransitionOrderDto == Fields(
  OneOf("action", {"CONFIRM", "FULFILL", "SHIP", "CANCEL"}), Texts({"reason"}))
VendorConfigDto == Fields({}, Numbers({"successRate", "timeoutMs"}) \cup
  OneOf("forcedResponse", {"success", "failure", "timeout", "duplicate"}))
AdjustStockDto == Fields(Numbers({"delta"}) \cup Texts({"reason"}), {})
InitiationDto == Fields(Lists({"items"}) \cup Texts({"shippingAddress"}), {})
VerificationDto == Fields(
  Texts({"razorpay_order_id", "razorpay_payment_id", "razorpay_signature"}), {})
SubmitApplicationDto == Fields(Texts({"email", "businessName", "reason"}), {})
ReviewApplicationDto == Fields(OneOf("decision", {"approve", "reject"}), Texts({"reason"}))
Funding == {"VENDOR_FUNDED", "MARKETPLACE_FUNDED", "CO_FUNDED"}
OfPromotion == Texts({"description", "startDate", "endDate"}) \cup
  Numbers({"vendorContributionPercent"}) \cup Flags({"isActive"}) \cup
  OneOf("fundingType", Funding) \cup OneOf("currency", {"USD"})
PromotionFundingApprovalDto == Fields(
  Texts({"title"}) \cup Numbers({"discountPercent"}), OfPromotion)
PromotionFundingApprovalUpdateDto == Fields({},
  Texts({"title"}) \cup Numbers({"discountPercent"}) \cup OfPromotion \cup
  OneOf("approvalState", {"PENDING", "APPROVED", "REJECTED"}))
UpdateVendorSettingsDto == Fields({}, Texts({"name"}))

(***************************************************************************)
(* Answers.  A shape is a set of <<part, field>>: the fields every answer  *)
(* has, "answer" for those of the object answered, "each" for those of the *)
(* elements of the list answered, and the part's name below that.          *)
(***************************************************************************)
In(part, fields) == {<<part, f>> : f \in fields}
One(fields) == In("answer", fields)
Each(fields) == In("each", fields)
Message == One({"message"})

ProductResponseDto ==
  {"id", "vendorId", "vendorName", "name", "slug", "category", "price", "stockCount",
   "isActive", "createdAt", "updatedAt", "description", "images", "originalPrice",
   "effectivePrice", "promotionId", "discountPercent", "savings", "promotionTitle",
   "promotionEndDate", "promotionValid"}
CategorySummaryDto == {"name", "slug", "productCount", "activeProductCount", "totalStock"}
CatalogFacetsDto == {"categories", "totalProducts", "minPrice", "maxPrice"}
CatalogListResponseDto ==
  One({"items", "total", "page", "pageSize", "totalPages", "facets"}) \cup
  In("items", ProductResponseDto) \cup In("facets", CatalogFacetsDto) \cup
  In("categories", CategorySummaryDto)
VendorDirectoryDto == {"id", "name", "productCount", "activeProductCount", "createdAt"}
StockCounts == {"productCount", "activeProductCount", "totalStock", "lowStockCount",
                "outOfStockCount"}
VendorDetailDto == StockCounts \cup {"id", "name", "createdAt"}
VendorDashboardDto == StockCounts \cup
  {"vendorId", "vendorName", "pendingSyncJobs", "deadLetterJobs", "ambiguousJobs", "openOrders"}
ReviewDto ==
  {"id", "productId", "buyerId", "buyerName", "rating", "comment", "createdAt"}
ReviewListResponseDto ==
  One({"reviews", "averageRating", "totalReviews"}) \cup In("reviews", ReviewDto)
OrderLineItemResponseDto ==
  {"id", "productId", "productName", "vendorId", "vendorName", "quantity", "unitPrice",
   "lineTotal", "fulfillmentStatus", "promotionId", "promotionDiscountPercent",
   "effectiveUnitPrice", "originalUnitPrice"}
OrderResponseDto ==
  {"id", "orderNumber", "buyerId", "status", "totalAmount", "correlationId",
   "shippingAddress", "lineItems", "createdAt", "updatedAt"}
OrderAnswer == One(OrderResponseDto) \cup In("lineItems", OrderLineItemResponseDto)
OrdersAnswer == Each(OrderResponseDto) \cup In("lineItems", OrderLineItemResponseDto)
CheckoutResponseDto == One({"success", "message", "correlationId"})
StuckOrderDto == {"orderId", "buyerId", "status", "createdAt"}
AdminOrderListDto == One({"total", "orders"}) \cup In("orders", StuckOrderDto)
AdminDashboardDto ==
  {"totalOrders", "totalRevenue", "pendingOrders", "fulfillingOrders",
   "fulfilledOrders", "cancelledOrders", "deadLetterJobs", "ambiguousJobs"}
AdminAnalyticsDto ==
  One({"window", "throughput", "latency", "sources"}) \cup
  In("window", {"start", "end", "timezone"}) \cup
  In("throughput", {"date", "placed", "fulfilling", "fulfilled", "cancelled"}) \cup
  In("latency", {"computedFrom", "unit", "averageMs", "count", "note"})
KPI == One({"aov", "activeVendors", "pendingApplications", "fulfillmentRate",
            "categoryTrends", "vendorTrends", "operationalAlerts", "recentActivity"})
AdminAuditLogDto ==
  {"id", "correlationId", "action", "entityType", "entityId", "message", "createdAt"}
AdminAuditLogResponseDto == One({"total", "logs"}) \cup In("logs", AdminAuditLogDto)
LinkedUserDto == {"id", "email", "role", "vendorId"}
AuthUserDto == {"id", "email", "role", "displayName", "vendorId", "bio"}
AuthTokensDto == AuthUserDto \cup {"accessToken", "refreshToken", "expiresIn"}
ReconciliationResultDto == One({"processed", "resolved", "stillAmbiguous", "errors"})
StockOperationResult ==
  One({"success", "productId", "previousStock", "newStock", "requestedQuantity"})
VendorSyncJobRow ==
  {"id", "orderLineItemId", "status", "attempts", "maxAttempts", "lastAttemptedAt",
   "completedAt", "vendorResponse", "errorMessage", "correlationId", "createdAt", "updatedAt"}
VendorRow == {"id", "name", "createdAt", "updatedAt"}
PromotionRow ==
  {"id", "title", "description", "discountPercent", "isActive", "startDate", "endDate",
   "vendorId", "approvedBy", "fundingType", "vendorContributionPercent",
   "marketplaceContributionPercent", "currency", "approvalState", "approvedAt",
   "submittedAt", "createdAt", "updatedAt"}
ApplicationRow ==
  {"id", "email", "businessName", "reason", "status", "applicantUserId",
   "reviewerUserId", "reviewedAt", "createdAt", "updatedAt"}
AddressRow ==
  {"id", "userId", "label", "street", "city", "state", "zip", "country", "isDefault",
   "createdAt", "updatedAt"}
Profile == (AuthUserDto \cup {"createdAt", "updatedAt"})
Ledger ==
  One({"allocations", "transfers", "accountStatus", "message"}) \cup
  In("allocations", {"id", "vendorId", "orderReference", "amountCents",
    "commissionCents", "currency", "rulesVersion", "createdAt"}) \cup
  In("transfers", {"id", "vendorId", "orderReference", "amountPaise", "state",
    "providerTransferId", "attempts", "createdAt", "updatedAt"})
VendorAllocations ==
  One({"allocations", "totalCents", "commissionCents", "message"}) \cup
  In("allocations", {"id", "orderReference", "amountCents", "commissionCents",
    "currency", "rulesVersion", "createdAt"})
Paged == One({"items", "total", "page", "limit", "totalPages"})

\* The values of an order's status, as stored and answered.
OrderStatusValues == {"placed", "confirmed", "fulfilling", "fulfilled", "cancelled"}
================================================================================
