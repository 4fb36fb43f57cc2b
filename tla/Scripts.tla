-------------------------------- MODULE Scripts --------------------------------
(***************************************************************************)
(* The scripts that are run by hand on a database which others may be      *)
(* using: the seed script, the one that gives every product to the demo    *)
(* vendor, and the load test.  Each is a sequence of statements, few of    *)
(* them in transactions, and ends by telling how it went.                  *)
(***************************************************************************)
EXTENDS Integers, Sequences, FiniteSets, Functions

CONSTANTS
  Seeders,        \* runs of the seed script
  VendorSeeds,    \* its vendors: 1 to their number, each with a category and a product
  SeedStock,      \* the stock of a seeded product
  MinStock,       \* the load test takes products with at least this much
  TestStock,      \* what it then puts on the shelf; each purchase takes one
  Concurrent,     \* purchases at once in its first test
  PerProduct,     \* purchases of each product in its second test
  MaxScripts,     \* bound: scripts begun
  MaxShop,        \* bound: what shop and staff do meanwhile
  Nobody

\* The seeds are numbered, there is at least one, and stocks are natural numbers.
ScriptsAssumption ==
  /\ Cardinality(VendorSeeds) \in Nat \ {0} /\ VendorSeeds = 1 .. Cardinality(VendorSeeds)
  /\ {SeedStock, TestStock} \subseteq Nat
  /\ Nobody \notin Seeders

VARIABLES
  db,             \* the tables, each reduced to what the scripts look at
  seed,           \* seeders: the next statement, "completed" or "failed"
  emptied,        \* the seeder that truncated last
  assign,         \* the script that gives products to the demo vendor
  load,           \* the load test
  shop            \* how often the shop intervened

vars == <<db, seed, emptied, assign, load, shop>>

\* A row belongs to the run that inserted it: identifiers are random.
RowOf(run, n) == [run |-> run, n |-> n]
Empty == [categories |-> {}, vendors |-> {}, products |-> <<>>, users |-> <<>>]

\* The table with one more row, if its key is not there.
With(table, key, row) ==
  [k \in DOMAIN table \cup {key} |-> IF k \in DOMAIN table THEN table[k] ELSE row]

Init ==
  /\ db = Empty
  /\ seed = [s \in Seeders |-> <<"truncate", 0>>]
  /\ emptied = Nobody
  /\ assign = [at |-> "user", target |-> Nobody, count |-> 0, backup |-> <<>>, ids |-> {},
               owner |-> <<>>, disturbed |-> FALSE]
  /\ load = [at |-> "pick", products |-> <<>>, tries |-> <<>>, sold |-> 0, restocked |-> FALSE]
  /\ shop = 0

Products == DOMAIN db.products
Holding == {i \in DOMAIN load.tries : load.tries[i].at = "holding"}
Locked(p) == \E i \in Holding : load.tries[i].product = p

Begun == Cardinality({s \in Seeders : seed[s] # <<"truncate", 0>>})
         + (IF assign.at = "user" THEN 0 ELSE 1) + (IF load.at = "pick" THEN 0 ELSE 1)

\* What the others do disturbs a script that is between two of its statements.
Disturb == assign' = [assign EXCEPT !.disturbed = @ \/ assign.at # "user"]

(***************************************************************************)
(* seedDatabase: a statement per step.  An insertion fails when its key is *)
(* taken or what it refers to is not there, and that ends the script.      *)
(***************************************************************************)
\* A fourth, for operations, is inserted as "admin" is.
DemoUsers == <<"buyer", "vendor", "admin">>
Last(what) == CASE what = "category" -> Cardinality(VendorSeeds)
                [] what = "user" -> Len(DemoUsers)
                [] OTHER -> 1

\* The statement after <<what, n>>.
Following(what, n) ==
  CASE what = "truncate" -> <<"category", 1>>
    [] what = "vendor"   -> <<"product", n>>
    [] what = "product"  -> IF n < Cardinality(VendorSeeds) THEN <<"vendor", n + 1>>
                            ELSE <<"user", 1>>
    [] OTHER             -> IF n < Last(what) THEN <<what, n + 1>>
                            ELSE IF what = "category" THEN <<"vendor", 1>>
                            ELSE <<"completed", 0>>

Fits(s, what, n) ==
  CASE what = "category" -> n \notin db.categories
    [] what = "product"  -> RowOf(s, n) \in db.vendors /\ n \in db.categories
    [] what = "user"     -> /\ DemoUsers[n] \notin DOMAIN db.users
                            /\ DemoUsers[n] = "vendor" => RowOf(s, 1) \in db.vendors
    [] OTHER             -> TRUE

Insert(s, what, n) ==
  CASE what = "truncate" -> Empty
    [] what = "category" -> [db EXCEPT !.categories = @ \cup {n}]
    [] what = "vendor"   -> [db EXCEPT !.vendors = @ \cup {RowOf(s, n)}]
    [] what = "product"  -> [db EXCEPT !.products =
                              With(@, RowOf(s, n), [vendor |-> RowOf(s, n), stock |-> SeedStock])]
    [] what = "user"     -> [db EXCEPT !.users =
                              With(@, DemoUsers[n], IF DemoUsers[n] = "vendor" THEN RowOf(s, 1)
                                                    ELSE Nobody)]

Running(s) == seed[s][1] \notin {"completed", "failed"}

\* TRUNCATE waits for every transaction that has touched the tables.
Statement(s) ==
  /\ Running(s)
  /\ LET what == seed[s][1]  n == seed[s][2] IN
       /\ what = "truncate" => Begun < MaxScripts
       /\ Fits(s, what, n)
       /\ what = "truncate" => Holding = {}
       /\ db' = Insert(s, what, n)
       /\ seed' = [seed EXCEPT ![s] = Following(what, n)]
       /\ emptied' = IF what = "truncate" THEN s ELSE emptied
  /\ Disturb
  /\ UNCHANGED <<load, shop>>

\* A row that does not fit, a lost connection, an interrupt.
Fail(s) ==
  /\ Running(s) /\ seed[s] # <<"truncate", 0>>
  /\ seed' = [seed EXCEPT ![s] = <<"failed", 0>>]
  /\ UNCHANGED <<db, emptied, assign, load, shop>>

(***************************************************************************)
(* update-product-vendor-ids: all products to the demo vendor.             *)
(***************************************************************************)
Assigns(from, changes) ==
  /\ assign.at = from
  /\ assign' = changes
  /\ UNCHANGED <<seed, emptied, load, shop>>
Looks(from, changes) == Assigns(from, changes) /\ UNCHANGED db

ReadUser ==
  /\ Begun < MaxScripts
  /\ Looks("user", IF "vendor" \in DOMAIN db.users
                   THEN [assign EXCEPT !.at = "vendor", !.target = db.users["vendor"]]
                   ELSE [assign EXCEPT !.at = "aborted"])
ReadVendor ==
  Looks("vendor", [assign EXCEPT !.at =
                     IF assign.target \in db.vendors THEN "before" ELSE "aborted"])
CountBefore == Looks("before", [assign EXCEPT !.at = "backup", !.count = Cardinality(Products)])
BackUp ==
  Looks("backup", [assign EXCEPT !.at = "ids",
                     !.backup = [p \in Products |-> db.products[p].vendor]])
ReadIds == Looks("ids", [assign EXCEPT !.at = "update", !.ids = Products])

\* One transaction; rows that are gone are passed over.  "owner" is not of the
\* script: whose the products were that it changed.
UpdateAll ==
  /\ \A p \in assign.ids \cap Products : ~Locked(p)
  /\ Assigns("update",
       IF assign.target \in db.vendors
       THEN [assign EXCEPT !.at = "after",
               !.owner = [p \in assign.ids \cap Products |-> db.products[p].vendor]]
       ELSE [assign EXCEPT !.at = IF assign.ids \cap Products = {} THEN "after" ELSE "aborted"])
  /\ db' = IF assign'.at = "aborted" THEN db
           ELSE [db EXCEPT !.products = [p \in Products |->
                  IF p \in assign.ids THEN [@[p] EXCEPT !.vendor = assign.target] ELSE @[p]]]

Validate ==
  Looks("after", [assign EXCEPT !.at =
    IF Cardinality(Products) = assign.count /\ assign.target \in db.vendors
    THEN "passed" ELSE "validation failed"])

(***************************************************************************)
(* The load test.  Its purchases are its own, not those of the service.    *)
(***************************************************************************)
Loads(from) == load.at = from /\ UNCHANGED <<seed, emptied, assign, shop>>

\* The products with most stock first; which of equals come first is open.
Pick ==
  /\ Loads("pick")
  /\ Begun < MaxScripts
  /\ LET rich == {p \in Products : db.products[p].stock >= MinStock} IN
       IF rich = {} THEN load' = [load EXCEPT !.at = "no products"]
       ELSE \E p \in rich, q \in rich :
              /\ \A r \in rich : db.products[r].stock <= db.products[p].stock
              /\ (p = q) <=> (Cardinality(rich) = 1)
              /\ load' = [load EXCEPT !.at = "set", !.products = <<p, q>>]
  /\ UNCHANGED db

Try(p) == [product |-> p, at |-> "waiting", read |-> 0]

SetStock ==
  /\ Loads("set")
  /\ load' = [load EXCEPT !.at = "oversell",
                          !.tries = [i \in 1 .. Concurrent |-> Try(load.products[1])]]
  /\ db' = IF load.products[1] \in Products
           THEN [db EXCEPT !.products[load.products[1]].stock = TestStock] ELSE db

Testing == load.at \in {"oversell", "parallel"} /\ UNCHANGED <<seed, emptied, assign, shop>>
Ends(i, how) == [load EXCEPT !.tries[i].at = how,
                             !.sold = IF how = "sold" /\ load.at = "oversell" THEN @ + 1 ELSE @]

\* Fault: the row is read without its lock.
ReadProduct(i) ==
  /\ Testing
  /\ load.tries[i].at = "waiting"
  /\ LET p == load.tries[i].product IN
       load' = IF p \notin Products \/ db.products[p].stock < 1 THEN Ends(i, "refused")
               ELSE [load EXCEPT !.tries[i].at = "holding", !.tries[i].read = db.products[p].stock]
  /\ UNCHANGED db

LockProduct(i) ==
  /\ Testing
  /\ load.tries[i].at = "waiting"
  /\ LET p == load.tries[i].product IN
       /\ ~Locked(p)
       /\ load' = IF p \notin Products \/ db.products[p].stock < 1 THEN Ends(i, "refused")
                  ELSE [load EXCEPT !.tries[i].at = "holding",
                                    !.tries[i].read = db.products[p].stock]
  /\ UNCHANGED db

Purchase(i) ==
  /\ Testing
  /\ load.tries[i].at = "holding"
  /\ db' = [db EXCEPT !.products[load.tries[i].product].stock = load.tries[i].read - 1]
  /\ load' = Ends(i, "sold")

Settled == \A i \in DOMAIN load.tries : load.tries[i].at \in {"sold", "refused"}

RunParallel ==
  /\ Loads("oversell")
  /\ Settled
  /\ load' = [load EXCEPT !.at = "parallel",
       !.tries = [i \in 1 .. PerProduct * Cardinality({load.products[1], load.products[2]}) |->
                    Try(load.products[1 + (i % 2)])]]
  /\ UNCHANGED db

\* Only the first test is judged.
Report ==
  /\ Loads("parallel")
  /\ Settled
  /\ load' = [load EXCEPT !.at = IF load.sold > TestStock THEN "failed" ELSE "passed"]
  /\ UNCHANGED db

(***************************************************************************)
(* The shop that is open meanwhile.                                        *)
(***************************************************************************)
Intervene == shop < MaxShop /\ shop' = shop + 1 /\ UNCHANGED <<seed, emptied>>

CreateProduct ==
  /\ Intervene
  /\ \E v \in db.vendors :
       db' = [db EXCEPT !.products =
                With(@, RowOf(Nobody, shop'), [vendor |-> v, stock |-> SeedStock])]
  /\ Disturb
  /\ UNCHANGED load

Sell(p) ==
  /\ Intervene
  /\ ~Locked(p) /\ db.products[p].stock > 0
  /\ db' = [db EXCEPT !.products[p].stock = @ - 1]
  /\ UNCHANGED <<assign, load>>

\* A cancellation or an adjustment.
Restock(p) ==
  /\ Intervene
  /\ ~Locked(p)
  /\ db' = [db EXCEPT !.products[p].stock = @ + 1]
  /\ load' = [load EXCEPT !.restocked = @ \/ load.at = "oversell"]
  /\ UNCHANGED assign

Next ==
  \/ \E s \in Seeders : Statement(s) \/ Fail(s)
  \/ ReadUser \/ ReadVendor \/ CountBefore \/ BackUp \/ ReadIds \/ UpdateAll \/ Validate
  \/ Pick \/ SetStock \/ RunParallel \/ Report
  \/ \E i \in DOMAIN load.tries : LockProduct(i) \/ Purchase(i)
  \/ CreateProduct
  \/ \E p \in Products : Sell(p) \/ Restock(p)

Spec == Init /\ [][Next]_vars

(***************************************************************************)
(* Properties.                                                             *)
(***************************************************************************)
Rows == [run : Seeders \cup {Nobody}, n : Nat]
Statements ==
  ({"truncate", "completed", "failed"} \X {0}) \cup
  ({"category", "vendor", "product"} \X VendorSeeds) \cup ({"user"} \X (1 .. 3))

TypeOK ==
  /\ DOMAIN db = {"categories", "vendors", "products", "users"}
  /\ db.categories \subseteq VendorSeeds
  /\ Products \subseteq Rows /\ DOMAIN db.users \subseteq Range(DemoUsers)
  /\ \A p \in Products : db.products[p] \in [vendor : db.vendors, stock : Nat]
  /\ seed \in [Seeders -> Statements]
  /\ emptied \in Seeders \cup {Nobody}
  /\ shop \in Nat
  /\ DOMAIN assign = {"at", "target", "count", "backup", "ids", "owner", "disturbed"}
  /\ DOMAIN load = {"at", "products", "tries", "sold", "restocked"}
  /\ \A i \in DOMAIN load.tries : DOMAIN load.tries[i] = {"product", "at", "read"}
  /\ load.sold \in Nat
  /\ {assign.disturbed, load.restocked} \subseteq BOOLEAN

\* A seeder that says it is done, and that nobody truncated after, has left a
\* whole catalog and all its users, although others like it may have died or be
\* running: what they leave behind makes it fail or stands next to its own.
SeededIsWhole ==
  \A s \in Seeders : seed[s][1] = "completed" /\ emptied = s =>
    /\ db.categories = VendorSeeds
    /\ \A n \in VendorSeeds : RowOf(s, n) \in db.vendors /\ RowOf(s, n) \in Products
    /\ DOMAIN db.users = Range(DemoUsers)
    /\ db.users["vendor"] = RowOf(s, 1)

\* A validation that passed, with nobody inserting or truncating meanwhile,
\* found every product with the demo vendor, and the backup tells whose each was.
AssignedIsUndoable ==
  assign.at = "passed" /\ ~assign.disturbed =>
    /\ \A p \in Products : db.products[p].vendor = assign.target
    /\ assign.backup = assign.owner

\* The load test finds no oversale, unless stock was added while it counted.
NoFalseAlarm == load.at = "failed" => load.restocked

\* What the scripts say at the end is so.
ReportsAreTrue == SeededIsWhole /\ AssignedIsUndoable /\ NoFalseAlarm

(***************************************************************************)
(* Why it holds.                                                           *)
(***************************************************************************)
\* The place of a statement in the script, and what a seeder has done.
LastSeed == Cardinality(VendorSeeds)
Rank(what, n) ==
  CASE what = "truncate"  -> 0
    [] what = "category"  -> n
    [] what = "vendor"    -> LastSeed + 2 * n - 1
    [] what = "product"   -> LastSeed + 2 * n
    [] what = "user"      -> 3 * LastSeed + n
    [] what = "completed" -> 3 * LastSeed + 4
    [] what = "failed"    -> 3 * LastSeed + 5
RankOf(s) == Rank(seed[s][1], seed[s][2])
Past(s, what, n) == Rank(what, n) < RankOf(s)

\* What the seeder that truncated last has inserted is there.
Inserted(s) ==
  /\ \A n \in VendorSeeds :
       /\ Past(s, "category", n) => n \in db.categories
       /\ Past(s, "vendor", n) => RowOf(s, n) \in db.vendors
       /\ Past(s, "product", n) => RowOf(s, n) \in Products
  /\ \A n \in 1 .. 3 : Past(s, "user", n) =>
       /\ DemoUsers[n] \in DOMAIN db.users
       /\ DemoUsers[n] = "vendor" => db.users["vendor"] = RowOf(s, 1)
SeedersSound == \A s \in Seeders : seed[s][1] # "failed" /\ emptied = s => Inserted(s)

\* A row that was there once is never inserted again.
Old(p) ==
  IF p.run = Nobody THEN p.n <= shop
  ELSE p.run \in Seeders /\ Past(p.run, "product", p.n)
RowsOld == \A p \in Products : Old(p)

\* As long as nothing disturbs the assignment, what it read is so.
Owners == [p \in Products |-> db.products[p].vendor]
AssignSound ==
  assign.disturbed \/
    /\ assign.at \in {"before", "backup", "ids", "update", "after", "passed"} =>
         assign.target \in db.vendors
    /\ assign.at \in {"ids", "update"} => assign.backup = Owners
    /\ assign.at = "update" => assign.ids = Products
    /\ assign.at \in {"after", "passed"} =>
         /\ \A p \in Products : db.products[p].vendor = assign.target
         /\ assign.backup = assign.owner

\* A purchase that holds its row read what is there, and no two hold one; what the
\* first test sold and what is left of its product are no more than it began with.
HoldersSound ==
  /\ \A i \in Holding :
       LET p == load.tries[i].product IN
       p \in Products /\ load.tries[i].read = db.products[p].stock /\ load.tries[i].read > 0
  /\ \A i, j \in Holding : load.tries[i].product = load.tries[j].product => i = j
Counted ==
  /\ load.at \in {"pick", "set", "no products"} => Holding = {} /\ load.sold = 0
  /\ load.at \in {"set", "oversell"} => load.products[1] \in Rows /\ Old(load.products[1])
  /\ load.at = "oversell" =>
       \A i \in DOMAIN load.tries : load.tries[i].product = load.products[1]
  /\ load.restocked \/
       /\ load.at # "failed" /\ load.sold <= TestStock
       /\ load.at = "oversell" /\ load.products[1] \in Products =>
            load.sold + db.products[load.products[1]].stock <= TestStock

IInv ==
  /\ TypeOK
  /\ SeedersSound /\ RowsOld
  /\ AssignSound
  /\ HoldersSound /\ Counted
================================================================================
