-------------------------------- MODULE Seeding --------------------------------
(***************************************************************************)
(* The catalog seeder: default categories, each looked up by name before   *)
(* it is inserted, and then, when there are no products, the vendors with  *)
(* their products, one insertion after the other without a transaction.    *)
(* Staff create categories and products in between; deleting a product     *)
(* only deactivates it.  Category names are unique in the database, vendor *)
(* names are not.                                                          *)
(***************************************************************************)
EXTENDS Integers

CONSTANTS
  Sessions,      \* requests served at the same time
  MaxSeeds,      \* how many categories and how many vendors are seeded
  MaxCopies      \* bound: insertions of the same vendor

VARIABLES
  categories,    \* the seeded categories that exist
  rows,          \* how often the seeder has inserted each vendor and its products
  others,        \* products that do not come from the seeder
  pc,            \* where each seeder stands
  at,            \* the category or vendor it is at
  outcome,       \* history: what seeders were told
  disturbed      \* history: two seeders overlapped, or one did not finish

vars == <<categories, rows, others, pc, at, outcome, disturbed>>

Seeds == 1..MaxSeeds

Init ==
  /\ categories \in SUBSET Seeds
  /\ rows = [v \in Seeds |-> [vendor |-> 0, products |-> 0]]
  /\ others \in BOOLEAN
  /\ pc = [s \in Sessions |-> "idle"]
  /\ at = [s \in Sessions |-> 1]
  /\ outcome = {}
  /\ disturbed = FALSE

Goto(s, step, n) ==
  /\ pc' = [pc EXCEPT ![s] = step]
  /\ at' = [at EXCEPT ![s] = n]

Busy(s) == \E t \in Sessions : t # s /\ pc[t] # "idle"

Seed(s) ==
  /\ pc[s] = "idle"
  /\ Goto(s, "find", 1)
  /\ disturbed' = (disturbed \/ Busy(s))
  /\ UNCHANGED <<categories, rows, others, outcome>>

\* After a category, the next one; after the last, the products are counted.
PastCategory(s) ==
  IF at[s] < MaxSeeds THEN Goto(s, "find", at[s] + 1) ELSE Goto(s, "count", 1)

FindCategory(s) ==
  /\ pc[s] = "find"
  /\ IF at[s] \in categories THEN PastCategory(s) ELSE Goto(s, "insert", at[s])
  /\ UNCHANGED <<categories, rows, others, outcome, disturbed>>

\* The name may have been taken meanwhile: the request fails.
InsertCategory(s) ==
  /\ pc[s] = "insert"
  /\ IF at[s] \in categories
       THEN Goto(s, "idle", 1) /\ disturbed' = TRUE /\ UNCHANGED categories
       ELSE PastCategory(s) /\ categories' = categories \cup {at[s]} /\ UNCHANGED disturbed
  /\ UNCHANGED <<rows, others, outcome>>

HasProducts == others \/ \E v \in Seeds : rows[v].products > 0

\* Fault: the products are not counted.
CountNothing(s) ==
  /\ pc[s] = "count"
  /\ Goto(s, "vendor", 1)
  /\ UNCHANGED <<categories, rows, others, outcome, disturbed>>

\* A catalog with products is taken to be seeded.
CountProducts(s) ==
  /\ pc[s] = "count"
  /\ IF HasProducts THEN Goto(s, "idle", 1) /\ outcome' = outcome \cup {"already"}
                    ELSE Goto(s, "vendor", 1) /\ UNCHANGED outcome
  /\ UNCHANGED <<categories, rows, others, disturbed>>

InsertVendor(s) ==
  /\ pc[s] = "vendor"
  /\ rows[at[s]].vendor < MaxCopies
  /\ rows' = [rows EXCEPT ![at[s]].vendor = @ + 1]
  /\ Goto(s, "products", at[s])
  /\ UNCHANGED <<categories, others, outcome, disturbed>>

InsertProducts(s) ==
  /\ pc[s] = "products"
  /\ rows' = [rows EXCEPT ![at[s]].products = @ + 1]
  /\ IF at[s] < MaxSeeds
       THEN Goto(s, "vendor", at[s] + 1) /\ UNCHANGED outcome
       ELSE Goto(s, "idle", 1) /\ outcome' = outcome \cup {"seeded"}
  /\ UNCHANGED <<categories, others, disturbed>>

\* createCategory: looked up and inserted, or refused.
CreateCategory(c) ==
  /\ c \notin categories
  /\ categories' = categories \cup {c}
  /\ UNCHANGED <<rows, others, pc, at, outcome, disturbed>>

\* createProduct, by a vendor or by staff.
CreateProduct ==
  /\ ~others
  /\ others' = TRUE
  /\ UNCHANGED <<categories, rows, pc, at, outcome, disturbed>>

\* A crash or a failed statement: what is inserted stays.
Abort(s) ==
  /\ pc[s] # "idle"
  /\ Goto(s, "idle", 1)
  /\ disturbed' = TRUE
  /\ UNCHANGED <<categories, rows, others, outcome>>

Next ==
  \/ \E s \in Sessions :
       \/ Seed(s) \/ FindCategory(s) \/ InsertCategory(s) \/ CountProducts(s)
       \/ InsertVendor(s) \/ InsertProducts(s) \/ Abort(s)
  \/ \E c \in Seeds : CreateCategory(c)
  \/ CreateProduct

Spec == Init /\ [][Next]_vars

(***************************************************************************)
(* Properties.                                                             *)
(***************************************************************************)
\* Seeding is idempotent: however often it is repeated, and whatever is created
\* meanwhile, no vendor and no product is seeded twice and a catalog that was
\* seeded is whole, unless two seeders overlapped or one did not finish.
SeededOnce ==
  ~disturbed =>
    /\ \A v \in Seeds : rows[v].products =< rows[v].vendor /\ rows[v].vendor =< 1
    /\ "seeded" \in outcome => /\ categories = Seeds
                               /\ \A v \in Seeds : rows[v].products = 1

(***************************************************************************)
(* Why it holds: the inductive invariant of the proofs.                    *)
(***************************************************************************)
SeedsAssumption == MaxSeeds \in Nat \ {0}

TypeOK ==
  /\ categories \subseteq Seeds
  /\ rows \in [Seeds -> [vendor : Nat, products : Nat]]
  /\ others \in BOOLEAN
  /\ pc \in [Sessions -> {"idle", "find", "insert", "count", "vendor", "products"}]
  /\ at \in [Sessions -> Seeds]
  /\ outcome \subseteq {"already", "seeded"}
  /\ disturbed \in BOOLEAN

\* How far the vendors are seeded: those before n with their products, the n-th
\* as often as told, none after it.
SeededUpTo(n, nth) ==
  \A v \in Seeds :
    rows[v] = IF v < n THEN [vendor |-> 1, products |-> 1]
              ELSE [vendor |-> IF v = n THEN nth ELSE 0, products |-> 0]
Fresh == SeededUpTo(1, 0)
Whole == SeededUpTo(MaxSeeds + 1, 0)

\* A seeder that is at n has been everywhere before.
Progress(s) ==
  /\ pc[s] \in {"find", "insert"} => 1 .. at[s] - 1 \subseteq categories
  /\ pc[s] \in {"count", "vendor", "products"} => categories = Seeds
  /\ pc[s] = "vendor" => SeededUpTo(at[s], 0)
  /\ pc[s] = "products" => SeededUpTo(at[s], 1)
  /\ pc[s] \in {"vendor", "products"} => "seeded" \notin outcome

\* One seeder at a time, and none at its products: nothing is seeded, or all is.
InTurn ==
  /\ \A s, t \in Sessions : pc[s] # "idle" /\ pc[t] # "idle" => s = t
  /\ \A s \in Sessions : Progress(s)
  /\ (\A s \in Sessions : pc[s] \notin {"vendor", "products"}) => Fresh \/ Whole
  /\ "seeded" \in outcome => Whole /\ categories = Seeds

IInv == TypeOK /\ (~disturbed => InTurn)
================================================================================
