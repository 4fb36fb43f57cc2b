-------------------------------- MODULE Entities --------------------------------
(***************************************************************************)
(* The entities the application registers, against the schema that the     *)
(* migrations arrive at: nothing but the migrations makes tables, since    *)
(* the application never synchronizes.  An entity is its table, the        *)
(* columns its rows are read and inserted with, and the labels it writes   *)
(* to the enums that migrations extend.                                    *)
(***************************************************************************)
EXTENDS Migrations, MigrationList

Entity(table, columns) == Of(table, columns)
Stamped == {"created_at", "updated_at"}
StampedCamel == {"createdAt", "updatedAt"}

User == Entity("users",
  {"id", "email", "password_hash", "role", "vendor_id", "display_name", "bio"} \cup Stamped)
Order == Entity("orders",
  {"id", "buyer_id", "buyer_user_id", "status", "order_number", "totalAmount",
   "correlation_id", "shipping_address", "idempotency_key",
   "idempotency_payload_hash"} \cup Stamped)
OrderLineItem == Entity("order_line_items",
  {"id", "order_id", "product_id", "vendor_id", "quantity", "unitPrice", "lineTotal",
   "effective_unit_price", "promotion_id", "promotion_discount_percent",
   "fulfillment_status", "vendor_reference", "failure_reason"} \cup Stamped)
Product == Entity("products",
  {"id", "vendor_id", "name", "slug", "category", "price", "description", "images",
   "stock_count", "isActive", "version"} \cup StampedCamel)
Vendor == Entity("vendors", {"id", "name"} \cup StampedCamel)
Category == Entity("categories", {"id", "name", "slug", "description"} \cup Stamped)
VendorSyncJob == Entity("vendor_sync_jobs",
  {"id", "order_line_item_id", "status", "attempts", "max_attempts",
   "last_attempted_at", "completed_at", "vendor_response", "error_message",
   "correlation_id"} \cup Stamped)
AuditLog ==
  Entity("audit_logs",
    {"id", "correlation_id", "action", "entityType", "entity_id", "previous_state",
     "new_state", "user_id", "message", "metadata", "created_at"}) \cup
  Of("action enum", AuditActions \cup PaymentActions \cup
    {"VENDOR_ACCOUNT_LINKED", "VENDOR_ACCOUNT_ACTIVATED", "VENDOR_ACCOUNT_SUSPENDED",
     "VENDOR_ACCOUNT_UNLINKED"}) \cup
  Of("entity type enum", AuditedTypes \cup {"VENDOR_PAYMENT_ACCOUNT"})
PaymentAuthorization ==
  Entity("payment_authorizations",
    {"id", "order_id", "amount", "status", "provider", "provider_order_id",
     "provider_reference", "correlation_id", "failure_reason"} \cup Stamped) \cup
  Of("payment status enum", {"pending", "authorized", "captured", "failed", "refunded"})
Promotion == Entity("promotions",
  {"id", "title", "description", "discount_percent", "is_active", "start_date",
   "end_date", "vendor_id", "approved_by", "funding_type",
   "vendor_contribution_percent", "marketplace_contribution_percent", "currency",
   "approval_state", "approved_at", "submitted_at"} \cup Stamped)
PromotionCheckoutSnapshot == Entity("promotion_checkout_snapshots",
  {"id", "promotion_id", "checkout_attempt_id", "order_id", "captured_at",
   "funding_type", "vendor_contribution_percent", "marketplace_contribution_percent",
   "currency", "approval_state", "discount_percent", "original_unit_price_cents",
   "discounted_unit_price_cents", "discount_amount_cents", "vendor_funding_cents",
   "marketplace_funding_cents", "total_funding_cents", "line_item_id",
   "captured_amount_cents", "reconciled", "reconciliation_note", "created_at"})
Review == Entity("reviews",
  {"id", "product_id", "buyer_id", "rating", "comment", "created_at"})
RefreshToken == Entity("refresh_tokens",
  {"id", "user_id", "token_hash", "expires_at", "revoked_at", "created_at"})
PasswordResetToken == Entity("password_reset_tokens",
  {"id", "user_id", "token_hash", "expires_at", "used_at", "created_at"})
CustomerAddress == Entity("customer_addresses",
  {"id", "user_id", "label", "street", "city", "state", "zip", "country",
   "is_default"} \cup Stamped)
VendorApplication == Entity("vendor_applications",
  {"id", "email", "business_name", "reason", "status", "applicant_user_id",
   "reviewer_user_id", "reviewed_at"} \cup Stamped)
Refund == Entity("payment_refunds",
  {"id", "refundReference", "orderReference", "amountPaise", "currency", "state",
   "providerRefundId", "idempotencyKey", "reason",
   "reconciliationNote"} \cup StampedCamel)
Dispute == Entity("payment_disputes",
  {"id", "providerDisputeId", "orderReference", "state", "amountPaise", "currency",
   "reason", "providerPayload", "dueAt"} \cup StampedCamel)
VendorPaymentAllocation == Entity("vendor_payment_allocations",
  {"id", "orderReference", "vendorId", "amount_cents", "commission_cents", "currency",
   "rulesVersion", "gross_line_cents", "reconciliationStatus", "snapshot",
   "idempotencyKey", "createdAt"})
VendorPaymentAccount == Entity("vendor_payment_accounts",
  {"id", "vendorId", "provider", "linkedAccountId", "onboardingState"} \cup
  StampedCamel)
PaymentTransfer == Entity("payment_transfers",
  {"id", "providerTransferId", "vendorId", "allocationReference", "orderReference",
   "amountPaise", "currency", "destinationLinkedAccount", "state", "attempts",
   "providerResponse", "idempotencyKey"} \cup StampedCamel)
WebhookEvent == Entity("webhook_events",
  {"id", "eventId", "eventType", "payloadId", "processed_at", "status"})

\* What the connection of the application is given.
Registered ==
  {Vendor, VendorPaymentAccount, VendorPaymentAllocation, PaymentTransfer, Category,
   Order, Product, OrderLineItem, VendorSyncJob, AuditLog, User, RefreshToken,
   PasswordResetToken, PaymentAuthorization, PromotionCheckoutSnapshot, Review,
   WebhookEvent, CustomerAddress, VendorApplication, Promotion, Refund, Dispute}

\* Everything the entity names is there, and an insert, which gives a value for
\* each column of the entity, leaves out none that must have one.
Fits(entity) ==
  /\ entity \subseteq db.parts
  /\ {c \in db.must : \E own \in entity : own[1] = c[1]} \subseteq entity

\* A fully migrated database serves every entity of the application, as the
\* source says: "migrations own the schema" (app.module.ts:112).
EntitiesFit == recorded = All => \A entity \in Registered : Fits(entity)
================================================================================
