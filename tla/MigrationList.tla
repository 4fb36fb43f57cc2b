----------------------------- MODULE MigrationList -----------------------------
(***************************************************************************)
(* The migrations that own the schema, in the order of the registry.       *)
(*                                                                         *)
(* A schema is its tables, the columns and enum labels in them, the        *)
(* columns a new row must give a value for, and the names of indexes and   *)
(* constraints.  Types and defaults are left out, and so are the labels of *)
(* enums no migration extends.                                             *)
(*                                                                         *)
(* needs: what the statements refer to; tables: created unless there;      *)
(* adds: columns and labels; on: the indexes and constraints created       *)
(* unless there, each with the columns it is on; fresh: tables and names   *)
(* created as if they were not there; once: columns added likewise;        *)
(* renames: if the old column is there and the new one is not; exact: the  *)
(* renaming demands one of the two; bars: the rows it refuses.             *)
(***************************************************************************)
EXTENDS Integers, TLC

Of(t, columns) == {<<t, c>> : c \in columns}
Indexed(name, t, columns) == name :> Of(t, columns)
\* A table with the columns a row must have a value for and the others.
Table(t, must, may) == t :> [must |-> Of(t, must), may |-> Of(t, may)]
Nothing == << >>

Plain == [stamp |-> <<0, 0>>, needs |-> {}, tables |-> Nothing, adds |-> {}, on |-> Nothing,
          fresh |-> {}, once |-> {}, renames |-> {}, exact |-> FALSE, bars |-> {}]

AuditActions ==
  {"INVENTORY_DECREMENT", "INVENTORY_RESTORE", "ORDER_CREATED", "ORDER_STATUS_CHANGED",
   "FULFILLMENT_STATUS_CHANGED", "SYNC_JOB_CREATED", "SYNC_JOB_STATUS_CHANGED",
   "SYNC_JOB_RETRIED", "SYNC_JOB_DEAD_LETTER", "ADMIN_RESOLUTION", "ADMIN_ORDER_CANCEL",
   "ADMIN_DEAD_LETTER_RETRY", "RECONCILIATION_RESOLVED", "RECONCILIATION_FAILED"}
PaymentActions == {"PAYMENT_AUTHORIZED", "PAYMENT_FAILED", "PAYMENT_REFUNDED"}
AuditedTypes == {"PRODUCT", "ORDER", "ORDER_LINE_ITEM", "VENDOR_SYNC_JOB", "PAYMENT"}

Baseline == [Plain EXCEPT
  !.stamp = <<1709999, 999999>>,
  !.tables =
    Table("vendors", {"name"}, {"id", "createdAt", "updatedAt"}) @@
    Table("products", {"vendorId", "name"},
      {"id", "price", "stock_count", "isActive", "version", "createdAt", "updatedAt"}) @@
    Table("orders", {"buyer_id"},
      {"id", "status", "totalAmount", "correlation_id", "created_at", "updated_at"}) @@
    Table("order_line_items",
      {"order_id", "product_id", "vendor_id", "unitPrice", "lineTotal"},
      {"id", "quantity", "fulfillment_status", "vendor_reference", "failure_reason",
       "created_at", "updated_at"}) @@
    Table("vendor_sync_jobs", {"order_line_item_id"},
      {"id", "status", "attempts", "max_attempts", "last_attempted_at", "completed_at",
       "vendor_response", "error_message", "correlation_id", "created_at", "updated_at"}) @@
    Table("audit_logs", {"correlation_id", "action", "entityType", "entity_id"},
      {"id", "previous_state", "new_state", "user_id", "message", "metadata", "created_at"}),
  !.adds = Of("action enum", AuditActions \cup PaymentActions) \cup
           Of("entity type enum", AuditedTypes),
  !.on =
    Indexed("fk_order_line_items_order_id", "order_line_items", {"order_id"}) @@
    Indexed("fk_order_line_items_product_id", "order_line_items", {"product_id"}) @@
    Indexed("fk_order_line_items_vendor_id", "order_line_items", {"vendor_id"}) @@
    Indexed("fk_vendor_sync_jobs_order_line_item_id", "vendor_sync_jobs",
            {"order_line_item_id"})]

AddShippingAddressToOrders == [Plain EXCEPT
  !.stamp = <<1710000, 1>>,
  !.needs = Of("orders", {"id"}), !.adds = Of("orders", {"shipping_address"})]

\* Counts, and changes nothing.
BackfillShippingAddress == [Plain EXCEPT
  !.stamp = <<1710000, 2>>, !.needs = Of("orders", {"shipping_address"})]

\* The column is unique from the start, so that the check for duplicates passes.
AddOrderNumber == [Plain EXCEPT
  !.stamp = <<1710000, 3>>,
  !.needs = Of("orders", {"id"}), !.adds = Of("orders", {"order_number"})]

AddUsersAndRefreshTokens == [Plain EXCEPT
  !.stamp = <<1710000, 4>>,
  !.tables =
    Table("users", {"email", "password_hash"},
      {"id", "role", "vendor_id", "display_name", "created_at", "updated_at"}) @@
    Table("refresh_tokens", {"user_id", "token_hash", "expires_at"},
      {"id", "revoked_at", "created_at"}),
  !.on = Indexed("idx_refresh_tokens_user_id", "refresh_tokens", {"user_id"}) @@
         Indexed("idx_refresh_tokens_expires_at", "refresh_tokens", {"expires_at"})]

AddFulfillmentOperationRecord == [Plain EXCEPT
  !.stamp = <<1710000, 5>>,
  !.tables = Table("fulfillment_operation_records", {"operation_id"},
    {"id", "sync_job_id", "order_line_item_id", "vendor_id", "operation_state",
     "vendor_reference", "attempts", "correlation_id", "created_at", "updated_at",
     "completed_at", "error_message"}),
  !.fresh = {"IDX_op_sync", "IDX_op_state", "IDX_op_operation"}]

\* The categories are seeded, and products keep a null category.
CategoriesAndCatalogContract == [Plain EXCEPT
  !.stamp = <<1710000, 5>>,
  !.needs = Of("products", {"id", "name"}) \cup Of("orders", {"id"}),
  !.tables = Table("categories", {"name", "slug"},
    {"id", "description", "created_at", "updated_at", "some rows"}),
  !.adds = Of("products", {"slug", "category"}) \cup Of("orders", {"buyer_user_id"}),
  !.fresh = {"idx_categories_slug", "idx_products_slug", "idx_products_category",
             "idx_orders_buyer_user_id", "fk_products_category"}]

\* Written when the column of products was still to be renamed.
AddMissingForeignKeysAndIndexes == [Plain EXCEPT
  !.stamp = <<1710000, 6>>,
  !.on =
    Indexed("fk_products_vendor", "products", {"vendorId"}) @@
    ("fk_orders_buyer_user" :> Of("orders", {"buyer_user_id"}) \cup Of("users", {"id"})) @@
    Indexed("idx_products_vendor_id", "products", {"vendorId"}) @@
    Indexed("idx_audit_logs_user_id", "audit_logs", {"user_id"}) @@
    Indexed("idx_orders_buyer_id_status", "orders", {"buyer_id", "status"}) @@
    Indexed("idx_line_items_order_id_vendor_id", "order_line_items",
            {"order_id", "vendor_id"}) @@
    Indexed("idx_sync_jobs_status_last_attempted_at", "vendor_sync_jobs",
            {"status", "last_attempted_at"}) @@
    Indexed("idx_audit_logs_correlation_id", "audit_logs", {"correlation_id"}) @@
    Indexed("idx_audit_logs_entity_type_entity_id", "audit_logs",
            {"entityType", "entity_id"}) @@
    Indexed("idx_audit_logs_action", "audit_logs", {"action"}) @@
    Indexed("idx_audit_logs_created_at", "audit_logs", {"created_at"})]

AddProductDescriptionAndImages == [Plain EXCEPT
  !.stamp = <<1710000, 7>>,
  !.needs = Of("products", {"id"}), !.adds = Of("products", {"description", "images"})]

AddOrderNumberSequence == [Plain EXCEPT
  !.stamp = <<1710000, 8>>, !.on = Indexed("order_number_seq", "orders", {})]

AddPaymentAuthorizations == [Plain EXCEPT
  !.stamp = <<1710000, 9>>,
  !.needs = Of("action enum", {"ORDER_CREATED"}) \cup Of("entity type enum", {"ORDER"}),
  !.tables = Table("payment_authorizations", {"order_id", "amount"},
    {"id", "status", "provider", "provider_reference", "correlation_id",
     "failure_reason", "created_at", "updated_at"}),
  !.adds = Of("action enum", PaymentActions) \cup Of("entity type enum", {"PAYMENT"}) \cup
           Of("payment status enum", {"authorized", "captured", "failed", "refunded"}),
  !.on = ("fk_payment_authorizations_order" :>
            Of("payment_authorizations", {"order_id"}) \cup Of("orders", {"id"})) @@
         Indexed("idx_payment_authorizations_order_id", "payment_authorizations",
                 {"order_id"})]

BackfillProductCategory == [Plain EXCEPT
  !.stamp = <<1710000, 10>>,
  !.needs = Of("categories", {"name", "some rows"}) \cup Of("products", {"category"})]

FixAuditEntityEnum == [Plain EXCEPT
  !.stamp = <<1710000, 11>>,
  !.needs = Of("audit_logs", {"entityType"}),
  !.adds = Of("entity type enum", {"PAYMENT"})]

AddReviewsTable == [Plain EXCEPT
  !.stamp = <<1715000, 0>>,
  !.needs = Of("products", {"id"}),
  !.tables = Table("reviews", {"product_id", "buyer_id", "rating"},
                   {"id", "comment", "created_at"}),
  !.fresh = {"reviews", "IDX_reviews_product"}]

AddRazorpayPaymentSupport == [Plain EXCEPT
  !.stamp = <<1716000, 0>>,
  !.needs = Of("payment status enum", {"authorized"}) \cup
            Of("payment_authorizations", {"id"}),
  !.adds = Of("payment status enum", {"pending"}) \cup
           Of("payment_authorizations", {"provider_order_id"}),
  !.on = Indexed("uq_payment_authorizations_provider_order_id", "payment_authorizations",
                 {"provider_order_id"})]

AddWebhookEventIdempotency == [Plain EXCEPT
  !.stamp = <<1717000, 0>>,
  !.tables = Table("webhook_events", {"event_id", "event_type"},
                   {"id", "payload_id", "processed_at", "status"}),
  !.on = Indexed("IDX_webhook_events_event_id", "webhook_events", {"event_id"})]

AddVendorApplicationTable == [Plain EXCEPT
  !.stamp = <<1749624, 0>>,
  !.tables = Table("vendor_applications", {"email", "business_name", "reason"},
    {"id", "status", "applicant_user_id", "reviewer_user_id", "reviewed_at",
     "created_at", "updated_at"})]

CustomerAddressesMigration == [Plain EXCEPT
  !.stamp = <<2026101, 0>>,
  !.needs = Of("users", {"id"}),
  !.tables = Table("customer_addresses", {"user_id", "street", "city"},
    {"id", "label", "state", "zip", "country", "isDefault", "created_at", "updated_at"}),
  !.on = Indexed("idx_customer_addresses_user_id", "customer_addresses", {"user_id"})]

VendorLinkSafeguards == [Plain EXCEPT
  !.stamp = <<2026101, 200000>>,
  !.needs = Of("users", {"role", "vendor_id"}) \cup Of("vendors", {"id"}),
  !.fresh = {"fk_users_vendor", "chk_users_vendor_role"},
  !.bars = {"vendor user without vendor", "user of no vendor"}]

AddPartialUniquePendingApplicantIndex == [Plain EXCEPT
  !.stamp = <<2026101, 300000>>,
  !.needs = Of("vendor_applications", {"applicant_user_id", "status"}),
  !.on = Indexed("idx_vendor_applications_pending_applicant", "vendor_applications",
                 {"applicant_user_id", "status"}),
  !.bars = {"two pending applications"}]

AddVendorUserConstraints == [Plain EXCEPT
  !.stamp = <<2026101, 300000>>,
  !.needs = Of("users", {"role", "vendor_id"}) \cup Of("vendors", {"id"}),
  !.on = Indexed("fk_users_vendor", "users", {"vendor_id"}) @@
         Indexed("chk_users_vendor_role", "users", {"role", "vendor_id"}),
  !.bars = {"vendor user without vendor", "user of no vendor"}]

FixProductVendorIdColumn == [Plain EXCEPT
  !.stamp = <<2026101, 400000>>,
  !.renames = {[old |-> <<"products", "vendorId">>, new |-> <<"products", "vendor_id">>]}]

AddBuyerIdempotencyKeyConstraint == [Plain EXCEPT
  !.stamp = <<1792022, 400001>>,
  !.needs = Of("orders", {"buyer_id"}),
  !.adds = Of("orders", {"idempotency_key", "idempotency_payload_hash"}),
  !.on = Indexed("idx_orders_buyer_idempotency", "orders", {"buyer_id"})]

AddOAuthIdentityTable == [Plain EXCEPT
  !.stamp = <<1792022, 400002>>,
  !.tables = Table("oauth_identities", {"provider", "provider_subject", "user_id"},
    {"id", "provider_email", "email_verified", "created_at", "updated_at"}),
  !.on = Indexed("idx_oauth_provider", "oauth_identities", {"provider"}) @@
         Indexed("idx_oauth_user_id", "oauth_identities", {"user_id"})]

AddPasswordResetTokens == [Plain EXCEPT
  !.stamp = <<2026101, 600000>>,
  !.tables = Table("password_reset_tokens", {"user_id", "token_hash", "expires_at"},
                   {"id", "used_at", "created_at"}),
  !.on = Indexed("IDX_prt_user", "password_reset_tokens", {"user_id"}) @@
         Indexed("IDX_prt_token", "password_reset_tokens", {"token_hash"}) @@
         Indexed("IDX_prt_expires", "password_reset_tokens", {"expires_at"})]

AddPromotionsTable == [Plain EXCEPT
  !.stamp = <<2026101, 700000>>,
  !.needs = Of("vendors", {"id"}),
  !.tables = Table("promotions", {"title", "discount_percent", "vendor_id"},
    {"id", "description", "is_active", "start_date", "end_date", "created_at", "updated_at"}),
  !.fresh = {"idx_promo_vendor"}]

\* onboardingState is not quoted, and PostgreSQL folds it to lower case.
AddVendorPaymentAccounts == [Plain EXCEPT
  !.stamp = <<2026102, 700000>>,
  !.tables = Table("vendor_payment_accounts", {"vendorId"},
    {"id", "provider", "linkedAccountId", "onboardingstate", "createdAt", "updatedAt"}),
  !.on = Indexed("idx_vpa_vendor_provider", "vendor_payment_accounts",
                 {"vendorId", "provider"})]

AddVendorPaymentLedger == [Plain EXCEPT
  !.stamp = <<2026102, 800000>>,
  !.tables = Table("vendor_payment_allocations",
    {"orderReference", "vendorId", "amountPaise", "commissionPaise", "rulesVersion"},
    {"id", "currency", "grossLinePaise", "reconciliationStatus", "snapshot",
     "idempotencyKey", "createdAt"}),
  !.on =
    Indexed("uq_vendor_payment_allocation_idempotency", "vendor_payment_allocations",
            {"idempotencyKey"}) @@
    Indexed("idx_vendor_payment_allocations_vendor", "vendor_payment_allocations",
            {"vendorId"}) @@
    Indexed("idx_vendor_payment_allocations_order", "vendor_payment_allocations",
            {"orderReference"})]

CreateRefundDisputeTables == [Plain EXCEPT
  !.stamp = <<2026102, 900000>>,
  !.tables =
    Table("payment_refunds", {"refundReference", "orderReference", "amountPaise"},
      {"id", "currency", "state", "providerRefundId", "idempotencyKey", "reason",
       "reconciliationNote", "createdAt", "updatedAt"}) @@
    Table("payment_disputes", {"providerDisputeId", "orderReference"},
      {"id", "state", "amountPaise", "currency", "reason", "providerPayload", "dueAt",
       "createdAt", "updatedAt"}),
  !.on =
    Indexed("idx_payment_refunds_order", "payment_refunds", {"orderReference"}) @@
    Indexed("uq_payment_refunds_idempotency", "payment_refunds", {"idempotencyKey"}) @@
    Indexed("idx_payment_disputes_order", "payment_disputes", {"orderReference"})]

AddUserBioColumn == [Plain EXCEPT
  !.stamp = <<2026103, 0>>,
  !.needs = Of("users", {"id"}), !.once = Of("users", {"bio"})]

FixCustomerAddressDefaultColumn == [Plain EXCEPT
  !.stamp = <<2026110, 100000>>,
  !.renames = {[old |-> <<"customer_addresses", "isDefault">>,
                new |-> <<"customer_addresses", "is_default">>]},
  !.exact = TRUE]

Phase3AddPromotionSnapshotColumns == [Plain EXCEPT
  !.stamp = <<1793491, 200000>>,
  !.needs = Of("order_line_items", {"id"}),
  !.adds = Of("order_line_items",
    {"effective_unit_price", "promotion_id", "promotion_discount_percent"})]

CategoryAPromotionFundingApproval == [Plain EXCEPT
  !.stamp = <<2026110, 300001>>,
  !.needs = Of("promotions", {"id"}),
  !.adds = Of("promotions",
    {"funding_type", "vendor_contribution_percent", "marketplace_contribution_percent",
     "currency", "approval_state", "approved_by", "submitted_at"}),
  !.on = Indexed("idx_promo_approval_state", "promotions", {"id"})]

CategoryAPromotionApprovedAt == [Plain EXCEPT
  !.stamp = <<2026110, 300002>>,
  !.needs = Of("promotions", {"id"}), !.adds = Of("promotions", {"approved_at"})]

CategoryBPromotionCheckoutSnapshot == [Plain EXCEPT
  !.stamp = <<1793664, 3>>,
  !.tables = Table("promotion_checkout_snapshots",
    {"promotion_id", "checkout_attempt_id", "order_id", "captured_at", "funding_type",
     "vendor_contribution_percent", "marketplace_contribution_percent", "approval_state",
     "discount_percent", "original_unit_price_cents", "discounted_unit_price_cents",
     "discount_amount_cents", "vendor_funding_cents", "marketplace_funding_cents",
     "total_funding_cents", "line_item_id", "captured_amount_cents"},
    {"id", "currency", "reconciled", "reconciliation_note", "created_at"}),
  !.on =
    Indexed("uq_promotion_snapshot_attempt_line", "promotion_checkout_snapshots",
            {"checkout_attempt_id", "line_item_id"}) @@
    Indexed("idx_snap_order", "promotion_checkout_snapshots", {"order_id", "captured_at"})]

\* The columns in paise stay, and still need a value.
CategoryCUSDIntegerCentsAllocationSchema == [Plain EXCEPT
  !.stamp = <<2026110, 400000>>,
  !.needs = Of("vendor_payment_allocations", {"currency"}),
  !.adds = Of("vendor_payment_allocations",
              {"amount_cents", "commission_cents", "gross_line_cents"})]

MigrationRegistry == <<
  Baseline, AddShippingAddressToOrders, BackfillShippingAddress, AddOrderNumber,
  AddUsersAndRefreshTokens, AddFulfillmentOperationRecord, CategoriesAndCatalogContract,
  AddMissingForeignKeysAndIndexes, AddProductDescriptionAndImages,
  AddOrderNumberSequence, AddPaymentAuthorizations, BackfillProductCategory,
  FixAuditEntityEnum, AddReviewsTable, AddRazorpayPaymentSupport,
  AddWebhookEventIdempotency, AddVendorApplicationTable, CustomerAddressesMigration,
  VendorLinkSafeguards, AddPartialUniquePendingApplicantIndex, AddVendorUserConstraints,
  FixProductVendorIdColumn, AddBuyerIdempotencyKeyConstraint, AddOAuthIdentityTable,
  AddPasswordResetTokens, AddPromotionsTable, AddVendorPaymentAccounts,
  AddVendorPaymentLedger, CreateRefundDisputeTables, AddUserBioColumn,
  FixCustomerAddressDefaultColumn, Phase3AddPromotionSnapshotColumns,
  CategoryAPromotionFundingApproval, CategoryAPromotionApprovedAt,
  CategoryBPromotionCheckoutSnapshot, CategoryCUSDIntegerCentsAllocationSchema>>
================================================================================
