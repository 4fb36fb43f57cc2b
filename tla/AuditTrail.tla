------------------------------- MODULE AuditTrail -------------------------------
(***************************************************************************)
(* The audit trail of the stock.  A checkout, a cancellation or an         *)
(* adjustment changes the stock in a transaction of its own connection;    *)
(* the entry that tells of a change is inserted by the audit service, on   *)
(* another connection of the pool, and is there whatever becomes of the    *)
(* transaction.  Staff read the entries in the order of their insertion.   *)
(***************************************************************************)
EXTENDS Integers, Sequences, SequencesExt, FiniteSets

CONSTANTS
  Clerks,         \* the requests that run at a time
  Shelves,        \* products: numbers, which stand for the order of their ids
  Initial,        \* the stock of each at first
  PoolSize,       \* connections; the driver's default is 10
  MaxChanges,     \* bound: requests
  NoChange        \* in place of a request, or of a stock not read or written

\* A request, and an entry of the trail.
Stocks == [Shelves -> Nat \cup {NoChange}]
Request == [id : Nat \ {0}, kind : {"purchase", "cancel", "adjust"}, lines : Seq(Shelves),
            delta : {-1, 0, 1}, read : Stocks, written : Stocks, told : SUBSET Shelves]
Entry == [id : Nat, product : Shelves, before : Nat, after : Nat]

\* There are finitely many products, stocks are natural numbers, and NoChange is
\* neither a stock nor a request.
TrailAssumption ==
  /\ IsFiniteSet(Shelves)
  /\ Initial \in Nat
  /\ NoChange \notin Request \cup Nat

VARIABLES
  stock,          \* products: the committed stock
  trail,          \* the entries, in the order of their insertion
  change,         \* clerks: the transaction, or NoChange
  committed,      \* the requests that committed
  begun,          \* how many requests began; their numbers are correlation ids
  patched         \* products whose stock an administrator's PATCH has set

vars == <<stock, trail, change, committed, begun, patched>>

Init ==
  /\ stock = [p \in Shelves |-> Initial]
  /\ trail = <<>>
  /\ change = [c \in Clerks |-> NoChange]
  /\ committed = {}
  /\ begun = 0
  /\ patched = {}

(***************************************************************************)
(* Connections and locks.                                                  *)
(***************************************************************************)
InFlight == {c \in Clerks : change[c] # NoChange}
Free == PoolSize - Cardinality(InFlight)
Locked(c) == {p \in Shelves : change[c].read[p] # NoChange}
Unlocked(p) == \A c \in InFlight : p \notin Locked(c)

(***************************************************************************)
(* A request.  "lines" are the products to change, in the order it names   *)
(* them; "read" is what the transaction read of the rows that it has       *)
(* locked; "written" what it has written; "told" the products whose        *)
(* entries are inserted.                                                   *)
(***************************************************************************)
Orders(products) == SetToSeqs(products)
Nothing == [p \in Shelves |-> NoChange]

Begin(c, kind, lines, delta) ==
  /\ change[c] = NoChange
  /\ Free > 0
  /\ begun < MaxChanges
  /\ begun' = begun + 1
  /\ change' = [change EXCEPT ![c] =
       [id |-> begun', kind |-> kind, lines |-> lines, delta |-> delta,
        read |-> Nothing, written |-> Nothing, told |-> {}]]
  /\ UNCHANGED <<stock, trail, committed, patched>>

\* A purchase of either kind takes its items in their order, a cancellation its
\* line items; staff adjust one row, up or down or, by zero, not at all.
Purchase(c) ==
  \E products \in SUBSET Shelves \ {{}} :
    \E lines \in Orders(products) : Begin(c, "purchase", lines, -1)
Cancel(c) ==
  \E products \in SUBSET Shelves \ {{}} :
    \E lines \in Orders(products) : Begin(c, "cancel", lines, 1)
Adjust(c) ==
  \E p \in Shelves, delta \in {-1, 0, 1} : Begin(c, "adjust", <<p>>, delta)

Active(c) == change[c] # NoChange
Lines(c) == ToSet(change[c].lines)
IsNext(c, done, p) ==
  \E i \in DOMAIN change[c].lines :
    /\ change[c].lines[i] = p /\ p \notin done
    /\ \A j \in 1 .. i - 1 : change[c].lines[j] \in done

Written(c) == {p \in Shelves : change[c].written[p] # NoChange}
MayLock(c) ==
  \/ change[c].kind = "purchase"
  \/ Written(c) = Locked(c) /\ change[c].told = Written(c)

\* A purchase locks every row before it writes, in the order of their ids; the
\* others lock, write and tell of a row before they turn to the next.
Wants(c, p) ==
  IF change[c].kind = "purchase"
  THEN p \in Lines(c) \ Locked(c) /\ \A q \in Lines(c) \ Locked(c) : p <= q
  ELSE IsNext(c, Locked(c), p)
Read(c, p) == change' = [change EXCEPT ![c].read[p] = stock[p]]

\* Fault: the row is read whoever may hold it.
LockRowLate(c) ==
  /\ Active(c) /\ MayLock(c)
  /\ \E p \in Shelves : Wants(c, p) /\ Read(c, p)
  /\ UNCHANGED <<stock, trail, committed, begun, patched>>

LockRow(c) ==
  /\ Active(c) /\ MayLock(c)
  /\ \E p \in Shelves : Wants(c, p) /\ Unlocked(p) /\ Read(c, p)
  /\ UNCHANGED <<stock, trail, committed, begun, patched>>

After(c, p) == change[c].read[p] + change[c].delta
Enough(c) == \A p \in Locked(c) : After(c, p) >= 0
ReadyToWrite(c) ==
  IF change[c].kind = "purchase" THEN Locked(c) = Lines(c) ELSE Locked(c) # Written(c)

WriteRow(c) ==
  /\ Active(c)
  /\ ReadyToWrite(c)
  /\ Enough(c)
  /\ Written(c) # Locked(c)
  /\ change[c].told = Written(c)
  /\ \E p \in Lines(c) :
       /\ IsNext(c, Written(c), p)
       /\ change' = [change EXCEPT
            ![c].written[p] = After(c, p),
            ![c].told = IF change[c].delta = 0 THEN @ \cup {p} ELSE @]
  /\ UNCHANGED <<stock, trail, committed, begun, patched>>

\* log takes a second connection, and gives it back once the entry is there.
Tell(c) ==
  /\ Active(c)
  /\ Written(c) # change[c].told
  /\ Free > 0
  /\ \E p \in Lines(c) :
       /\ IsNext(c, change[c].told, p)
       /\ trail' = Append(trail, [id |-> change[c].id, product |-> p,
                                  before |-> change[c].read[p],
                                  after |-> change[c].written[p]])
       /\ change' = [change EXCEPT ![c].told = @ \cup {p}]
  /\ UNCHANGED <<stock, committed, begun, patched>>

\* An adjustment that would take too much answers so and commits nothing.
Finished(c) ==
  \/ change[c].told = Lines(c)
  \/ change[c].kind = "adjust" /\ Locked(c) = Lines(c) /\ ~Enough(c)

Commit(c) ==
  /\ Active(c)
  /\ Finished(c)
  /\ stock' = [p \in Shelves |->
                 IF p \in Written(c) THEN change[c].written[p] ELSE stock[p]]
  /\ committed' = committed \cup {change[c].id}
  /\ change' = [change EXCEPT ![c] = NoChange]
  /\ UNCHANGED <<trail, begun, patched>>

\* Too little stock, a statement that fails, a deadlock, a crash.
Rollback(c) ==
  /\ Active(c)
  /\ change' = [change EXCEPT ![c] = NoChange]
  /\ UNCHANGED <<stock, trail, committed, begun, patched>>

\* updateProduct by an administrator, which tells nobody.
PatchStock(p) ==
  /\ Free > 0
  /\ Unlocked(p)
  /\ \E n \in {0, Initial} : stock' = [stock EXCEPT ![p] = n]
  /\ patched' = patched \cup {p}
  /\ UNCHANGED <<trail, change, committed, begun>>

Next ==
  \/ \E c \in Clerks :
       \/ Purchase(c) \/ Cancel(c) \/ Adjust(c)
       \/ LockRow(c) \/ WriteRow(c) \/ Tell(c) \/ Commit(c) \/ Rollback(c)
  \/ \E p \in Shelves : PatchStock(p)

Spec == Init /\ [][Next]_vars

(***************************************************************************)
(* Properties.                                                             *)
(***************************************************************************)
TypeOK ==
  /\ stock \in [Shelves -> Nat]
  /\ trail \in Seq(Entry)
  /\ change \in [Clerks -> Request \cup {NoChange}]
  /\ committed \subseteq 1 .. begun
  /\ begun \in Nat
  /\ patched \subseteq Shelves

\* The entries of a product that committed requests told of.
Told(p) == {i \in DOMAIN trail : trail[i].product = p /\ trail[i].id \in committed}

\* The entries of the requests that committed explain the stock: the first
\* begins with what there was, each with what the one before left, and the last
\* leaves what there is, although they are inserted outside the transactions and
\* between entries of changes that never happened.  Only a PATCH goes untold.
ExplainsStock(p) ==
  /\ Told(p) = {} => stock[p] = Initial
  /\ \A i \in Told(p) :
       /\ (\A j \in Told(p) : i <= j) => trail[i].before = Initial
       /\ (\A j \in Told(p) : j <= i) => trail[i].after = stock[p]
       /\ \A j \in Told(p) :
            (j < i /\ ~ \E k \in Told(p) : j < k /\ k < i) => trail[i].before = trail[j].after

TrailExplainsStock == \A p \in Shelves \ patched : ExplainsStock(p)

(***************************************************************************)
(* Why it holds.                                                           *)
(***************************************************************************)
\* A row has one holder, and every request its number.
RowsExclusive ==
  \A c, d \in InFlight : c # d =>
    Locked(c) \cap Locked(d) = {} /\ change[c].id # change[d].id

\* A request locks, writes and tells of its lines in their order; what it read of
\* a row it holds is still so, and it writes what follows from it.
InOrder(c) ==
  /\ change[c].told \subseteq Written(c) /\ Written(c) \subseteq Locked(c)
  /\ Locked(c) \subseteq Lines(c) /\ Lines(c) \subseteq Shelves
  /\ \A p \in Written(c) \ change[c].told : IsNext(c, change[c].told, p)
  /\ change[c].kind # "purchase" =>
       \A p \in Locked(c) \ Written(c) : IsNext(c, Written(c), p)
  /\ change[c].kind = "adjust" => \A p, q \in Lines(c) : p = q
ReadIsCurrent(c) ==
  /\ \A p \in Locked(c) : change[c].read[p] = stock[p]
  /\ \A p \in Written(c) : change[c].written[p] = After(c, p)

\* Its entries tell what it read and wrote, each is the last of its product, and
\* none is missing.  Its number is not among those that committed.
EntriesAgree(c) ==
  /\ change[c].id <= begun /\ change[c].id \notin committed
  /\ \A i \in DOMAIN trail :
       trail[i].id = change[c].id =>
         /\ trail[i].product \in change[c].told
         /\ trail[i].before = change[c].read[trail[i].product]
         /\ trail[i].after = change[c].written[trail[i].product]
         /\ \A j \in DOMAIN trail : trail[j].product = trail[i].product => j <= i
  /\ \A p \in change[c].told :
       change[c].delta # 0 =>
         \E i \in DOMAIN trail : trail[i].id = change[c].id /\ trail[i].product = p

Sound(c) == InOrder(c) /\ ReadIsCurrent(c) /\ EntriesAgree(c)

IInv ==
  /\ TypeOK
  /\ RowsExclusive
  /\ \A i \in DOMAIN trail : trail[i].id <= begun
  /\ \A c \in InFlight : Sound(c)
  /\ TrailExplainsStock
================================================================================
