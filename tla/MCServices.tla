------------------------------ MODULE MCServices ------------------------------
(***************************************************************************)
(* The parts that share nothing with one another, on small instances.      *)
(* A behaviour is one of a single service, so that their states add up     *)
(* rather than multiply; the variables x1 to x11 are those of the service  *)
(* chosen at the start, and those it does not need stay "unused".          *)
(***************************************************************************)
EXTENDS Integers, TLC, MigrationList, Client

CONSTANTS
  Sessions, NoRow,                                       \* several services
  Amounts, Instants,                                     \* InsertOnce
  MaxPromos, Percents, Shares, Checkouts, Prices, Quantities, Policies,
  Users, Staff, Applications, Vendors, Names, Guest, None,  \* Membership
  Addrs, Labels, NoLabel,                                \* Addresses
  Jobs, DefaultConcurrency, MaxConcurrency, Requested, NoVendor,  \* Queues
  Calls, MaxRestores, MaxStock,                          \* Storefront
  Ids, Accounts,                                         \* Payouts
  MaxSeeds, MaxCopies,                                   \* Seeding
  Questions, Acts, MaxLoads,                             \* Pages
  Releases, Kinds,                                       \* Migrations
  Goods, Categories, ListPrices, PageSize, Unset, MaxEdits,  \* Listing
  Shelves, Initial, PoolSize, MaxChanges, NoChange,      \* AuditTrail
  VendorSeeds, SeedStock, MinStock, TestStock, Concurrent, PerProduct,
  MaxScripts, MaxShop, Nobody,                           \* Scripts
  MaxSettings,                                           \* Startup, and Unset
  Passwords, Links, NoOne,                               \* Credentials
  Tokens, NoToken,                                       \* RefreshTokens
  MaxUnits                                               \* ShopWindow

VARIABLES service, x1, x2, x3, x4, x5, x6, x7, x8, x9, x10, x11
vars == <<service, x1, x2, x3, x4, x5, x6, x7, x8, x9, x10, x11>>

Rows == INSTANCE InsertOnce WITH
  table <- x1, numbers <- x2, row <- x3, pc <- x4, mine <- x5, answered <- x6
Pricing == INSTANCE Promotions WITH
  numbers <- x1, promos <- x2, approved <- x3, pc <- x4, quote <- x5, line <- x6,
  allocation <- x7
Members == INSTANCE Membership WITH
  user <- x1, app <- x2, vendor <- x3, pc <- x4, req <- x5
Book == INSTANCE Addresses WITH
  table <- x1, pc <- x2, req <- x3, addr <- x4, overlapped <- x5
Workers == INSTANCE Queues WITH
  queue <- x1, worker <- x2, asked <- x3, stage <- x4, dropped <- x5
Browser == INSTANCE Storefront WITH
  tokens <- x1, user <- x2, latest <- x3, call <- x4, crossed <- x5, cart <- x6,
  savedCarts <- x7, wishlist <- x8, savedWishlists <- x9, pay <- x10, told <- x11
Payees == INSTANCE Payouts WITH
  row <- x1, pc <- x2, read <- x3, instructed <- x4, used <- x5, activated <- x6,
  unlinked <- x7, raced <- x8
Seeder == INSTANCE Seeding WITH
  categories <- x1, rows <- x2, others <- x3, pc <- x4, at <- x5, outcome <- x6,
  disturbed <- x7
Screen == INSTANCE Pages WITH
  page <- x1, question <- x2, newest <- x3, flight <- x4, act <- x5, committed <- x6,
  shown <- x7, failed <- x8, finished <- x9, crossed <- x10

Schema == INSTANCE Migrations WITH
  Runners <- Sessions, Registry <- MigrationRegistry,
  target <- x1, db <- x2, history <- x3, recorded <- x4, bad <- x5, pc <- x6,
  release <- x7, pending <- x8, excused <- x9
Screens == INSTANCE Contract WITH
  Asked <- RoutedOffers,
  account <- x1, token <- x2, refresh <- x3, user <- x4, said <- x5
Reader == INSTANCE Listing WITH Prices <- ListPrices,
  product <- x1, url <- x2, answer <- x3, collected <- x4, edited <- x5
Auditor == INSTANCE AuditTrail WITH Clerks <- Sessions,
  stock <- x1, trail <- x2, change <- x3, committed <- x4, begun <- x5, patched <- x6
Script == INSTANCE Scripts WITH Seeders <- Sessions,
  db <- x1, seed <- x2, emptied <- x3, assign <- x4, load <- x5, shop <- x6
Starter == INSTANCE Startup WITH settings <- x1, app <- x2, edited <- x3
Account == INSTANCE Credentials WITH
  user <- x1, links <- x2, pc <- x3, mem <- x4, granted <- x5, raced <- x6,
  spent <- x7, respent <- x8
Tickets == INSTANCE RefreshTokens WITH
  tokens <- x1, pc <- x2, old <- x3, root <- x4, contested <- x5
View == INSTANCE ShopWindow WITH PriceTags <- Prices, Rates <- {0} \cup Percents,
  product <- x1, page <- x2, cart <- x3, pay <- x4, attempt <- x5, lost <- x6,
  edits <- x7

\* What the modules ask of their constants: the values that stand for nothing are
\* none of the real ones, and bounds are numbers.
ASSUME ServicesAssumption ==
  /\ Rows!NoRowAssumption
  /\ Members!NamesAssumption
  /\ Book!NamesAssumption
  /\ Workers!ConcurrencyAssumption
  /\ Browser!BrowserAssumption
  /\ Payees!NoRowAssumption
  /\ Seeder!SeedsAssumption
  /\ Screen!BoundAssumption
  /\ Auditor!TrailAssumption
  /\ Pricing!PricesAssumption
  /\ Script!ScriptsAssumption
  /\ Starter!UnsetAssumption
  /\ Reader!ListingAssumption
  /\ Schema!RegistryAssumption
  /\ Account!NoOneAssumption
  /\ Tickets!TokensAssumption
  /\ View!WindowAssumption

\* The services with three to ten variables leave the rest alone.
After9 == <<x10, x11>>
After8 == <<x9, After9>>
After7 == <<x8, After8>>
After6 == <<x7, After7>>
After5 == <<x6, After6>>
After3 == <<x4, x5, After5>>
Unused9 == x10 = "unused" /\ x11 = "unused"
Unused8 == x9 = "unused" /\ Unused9
Unused7 == x8 = "unused" /\ Unused8
Unused6 == x7 = "unused" /\ Unused7
Unused5 == x6 = "unused" /\ Unused6
Unused3 == x4 = "unused" /\ x5 = "unused" /\ Unused5

Init ==
  \/ service = "rows"       /\ Rows!Init    /\ Unused6
  \/ service = "pricing"    /\ Pricing!Init /\ Unused7
  \/ service = "membership" /\ Members!Init /\ Unused5
  \/ service = "addresses"  /\ Book!Init    /\ Unused5
  \/ service = "queues"     /\ Workers!Init /\ Unused5
  \/ service = "storefront" /\ Browser!Init
  \/ service = "payouts"    /\ Payees!Init  /\ Unused8
  \/ service = "seeding"    /\ Seeder!Init  /\ Unused7
  \/ service = "pages"      /\ Screen!Init  /\ x11 = "unused"
  \/ service = "migrations" /\ Schema!Init  /\ Unused9
  \/ service = "contract"   /\ Screens!Init /\ Unused5
  \/ service = "listing"    /\ Reader!Init  /\ Unused5
  \/ service = "audit"      /\ Auditor!Init /\ Unused6
  \/ service = "scripts"    /\ Script!Init  /\ Unused6
  \/ service = "startup"    /\ Starter!Init /\ Unused3
  \/ service = "account"    /\ Account!Init /\ Unused8
  \/ service = "tokens"     /\ Tickets!Init /\ Unused5
  \/ service = "window"     /\ View!Init  /\ Unused7

RowStep        == service = "rows"       /\ Rows!Next    /\ UNCHANGED <<service, After6>>
PricingStep    == service = "pricing"    /\ Pricing!Next /\ UNCHANGED <<service, After7>>
MembershipStep == service = "membership" /\ Members!Next /\ UNCHANGED <<service, After5>>
AddressStep    == service = "addresses"  /\ Book!Next    /\ UNCHANGED <<service, After5>>
QueueStep      == service = "queues"     /\ Workers!Next /\ UNCHANGED <<service, After5>>
StorefrontStep == service = "storefront" /\ Browser!Next /\ UNCHANGED service
PayoutStep     == service = "payouts"    /\ Payees!Next  /\ UNCHANGED <<service, After8>>
SeedingStep    == service = "seeding"    /\ Seeder!Next  /\ UNCHANGED <<service, After7>>
PageStep       == service = "pages"      /\ Screen!Next  /\ UNCHANGED <<service, x11>>
MigrationStep  == service = "migrations" /\ Schema!Next  /\ UNCHANGED <<service, After9>>
ContractStep   == service = "contract"   /\ Screens!Next /\ UNCHANGED <<service, After5>>
ListingStep    == service = "listing"    /\ Reader!Next  /\ UNCHANGED <<service, After5>>
AuditStep      == service = "audit"      /\ Auditor!Next /\ UNCHANGED <<service, After6>>
ScriptStep     == service = "scripts"    /\ Script!Next  /\ UNCHANGED <<service, After6>>
StartupStep    == service = "startup"    /\ Starter!Next /\ UNCHANGED <<service, After3>>
AccountStep    == service = "account"    /\ Account!Next /\ UNCHANGED <<service, After8>>
TokenStep      == service = "tokens"     /\ Tickets!Next /\ UNCHANGED <<service, After5>>
WindowStep     == service = "window"     /\ View!Next  /\ UNCHANGED <<service, After7>>

Next ==
  \/ RowStep \/ PricingStep \/ MembershipStep \/ AddressStep
  \/ QueueStep \/ StorefrontStep \/ PayoutStep \/ SeedingStep \/ PageStep
  \/ MigrationStep \/ ContractStep \/ ListingStep \/ AuditStep
  \/ ScriptStep \/ StartupStep \/ AccountStep \/ TokenStep \/ WindowStep

Spec == Init /\ [][Next]_vars

Symmetry == Permutations(Sessions)

\* 12.5 %, all of it and a fee, and a fixed amount and a fee.
Policy(model, rate, fee) == [model |-> model, rate |-> rate, fee |-> fee]
MCPolicies == {Policy("PERCENTAGE", 1250, 0), Policy("PERCENTAGE", 10000, 3),
               Policy("FIXED_AMOUNT", 6, 5)}

(***************************************************************************)
(* What is checked of each.                                                *)
(***************************************************************************)
\* Callers that race for a row under a unique key, and retries long after, are
\* told what is stored.
OneAnswer == service = "rows" => Rows!OneAnswer

\* A plain checkout applies only what staff approved, and its parts add up to the
\* price although promotions change meanwhile; both checkouts round a discount by
\* at most half a cent a unit, and vendor and platform are allocated neither more
\* nor less than the line.  The cart holds what the buyer asked for and there was;
\* the provider asks for what the form said, unless it was out of date; and the cart
\* that a payment clears is the one that was bought.
AmountsAddUp ==
  /\ service = "pricing" =>
       Pricing!PlainOrderAddsUp /\ Pricing!PricedToTheCent /\ Pricing!AllocationAddsUp
  /\ service = "window" =>
       /\ View!ChargedAsShown /\ View!ClearedWasBought
       /\ View!HoldsWhatWasAsked /\ View!WithinStock

\* An account has at most one pending application; it keeps the role that staff gave
\* it, unless that was set while a password was saved; and the links that were
\* reported as delivered work until they are used or too old.
AccountsSound ==
  /\ service = "membership" => Members!OnePending
  /\ service = "account" => Account!RoleKept /\ Account!DeliveredLinksWork

\* A decision on an application is final, and only the approval of its application
\* moves an account from one vendor to another.
DecisionIsFinal ==
  [][service = "membership" => Members!DecisionKept /\ Members!ApprovedOrBuyer]_vars

\* A customer has one default address, unless requests overlapped.
OneDefaultUnlessRaced == service = "addresses" => Book!OneDefaultUnlessRaced

\* Vendors with waiting jobs have workers, unless a restart took them.
JobsHaveWorkers == service = "queues" => Workers!JobsHaveWorkers

\* The identity shown is that of the stored tokens, and a login has one good refresh
\* token, unless two refreshes held the same.
SessionsSound ==
  /\ service = "storefront" => Browser!SessionAgrees
  /\ service = "tokens" => Tickets!OneTokenPerLogin

\* Changing accounts alters nobody's cart or wishlist.
ListsKept == [][service = "storefront" => Browser!OnlyTheOwnersChange]_vars

\* A payment attempt has one outcome, and "closed" only before verification.
OneOutcome == service = "storefront" => Browser!OneOutcome

\* Transfers go to accounts that staff activated.
PaidWhereApproved == service = "payouts" => Payees!PaidWhereApproved

\* Repeating the seeder changes nothing.
SeededOnce == service = "seeding" => Seeder!SeededOnce

\* A page shows the answer to the question on its screen.
ScreenAnswers == service = "pages" => Screen!ScreenAnswers

\* Upgrades of the database arrive, whatever the releases, at one schema.
SchemaSettles == service = "migrations" => Schema!SchemaSettles

\* What the screens offer is served and understood, but for the known misfits.
OffersServed == service = "contract" => Screens!OffersServed

\* Pages of a catalog that nobody edits are the list, and its counts are true.
BrowsingIsComplete == service = "listing" => Reader!BrowsingIsComplete

\* The audit entries of committed requests explain the stock.
TrailExplainsStock == service = "audit" => Auditor!TrailExplainsStock

\* What the database scripts say at the end is so.
ReportsAreTrue == service = "scripts" => Script!ReportsAreTrue

\* Application and scripts open one database, refuse, or differ as is known.
StartsAgree == service = "startup" => Starter!StartsAgree
================================================================================
