-------------------------------- MODULE Payouts --------------------------------
(***************************************************************************)
(* The payment account of a vendor, and the transfers it makes eligible.   *)
(*                                                                         *)
(* Staff link, activate, suspend and unlink the account.  Activation and   *)
(* suspension read the row and save it whole: save looks the row up by its *)
(* id and then updates it or, when it is not there, inserts it.  None of   *)
(* the reads is locked.  A unique index allows a vendor one account.       *)
(***************************************************************************)
EXTENDS Integers

CONSTANTS
  Sessions,     \* requests served at the same time
  Ids,          \* ids of rows, each used once
  Accounts,     \* accounts at the provider
  NoRow         \* no row, and a request that has read nothing

VARIABLES
  row,          \* the vendor's row
  pc,           \* where each request stands
  read,         \* the entity each request holds
  instructed,   \* a transfer instruction was created
  used,         \* ids given to rows
  activated,    \* history: the accounts, by row, that staff activated
  unlinked,     \* history: the ids of rows that were unlinked
  raced         \* history: a row was unlinked between a look and a write

vars == <<row, pc, read, instructed, used, activated, unlinked, raced>>

Row == [id : Ids, account : Accounts, state : {"PENDING", "ACTIVE", "SUSPENDED"}]

Init ==
  /\ row = NoRow
  /\ pc = [s \in Sessions |-> "idle"]
  /\ read = [s \in Sessions |-> NoRow]
  /\ instructed = FALSE
  /\ used = {}
  /\ activated = {}
  /\ unlinked = {}
  /\ raced = FALSE

history == <<activated, unlinked, raced>>

Goto(s, step, entity) ==
  /\ pc' = [pc EXCEPT ![s] = step]
  /\ read' = [read EXCEPT ![s] = entity]
End(s) == Goto(s, "idle", NoRow)

\* Fault: linking again replaces the account of the row.
LinkInPlace(s, id, account) ==
  /\ pc[s] = "idle"
  /\ id \notin used
  /\ row' = IF row = NoRow THEN [id |-> id, account |-> account, state |-> "PENDING"]
                           ELSE [row EXCEPT !.account = account]
  /\ used' = used \cup {id}
  /\ UNCHANGED <<pc, read, instructed, history>>

\* link: an active account is refused by the look at it, any other by the
\* unique index, so that the look never matters.
Link(s, id, account) ==
  /\ pc[s] = "idle"
  /\ id \notin used
  /\ row = NoRow
  /\ row' = [id |-> id, account |-> account, state |-> "PENDING"]
  /\ used' = used \cup {id}
  /\ UNCHANGED <<pc, read, instructed, history>>

\* activate and suspend find the row by its id; a row that is as asked is
\* returned as it is.
FindFor(s, id, state) ==
  /\ pc[s] = "idle"
  /\ row # NoRow /\ row.id = id
  /\ row.state # state
  /\ Goto(s, "save", [row EXCEPT !.state = state])
  /\ activated' = IF state = "ACTIVE" THEN activated \cup {<<id, row.account>>}
                                      ELSE activated
  /\ UNCHANGED <<row, instructed, used, unlinked, raced>>

Present(s) == row # NoRow /\ row.id = read[s].id

\* save looks the row up.
Look(s) ==
  /\ pc[s] = "save"
  /\ Goto(s, IF Present(s) THEN "update" ELSE "insert", read[s])
  /\ UNCHANGED <<row, instructed, used, history>>

\* An update of a row that is gone changes nothing.
SaveUpdate(s) ==
  /\ pc[s] = "update"
  /\ row' = IF Present(s) THEN [row EXCEPT !.state = read[s].state] ELSE row
  /\ End(s)
  /\ UNCHANGED <<instructed, used, history>>

\* The insertion of a row that was unlinked brings it back, unless there is a
\* new one.
SaveInsert(s) ==
  /\ pc[s] = "insert"
  /\ row' = IF row = NoRow THEN read[s] ELSE row
  /\ End(s)
  /\ UNCHANGED <<instructed, used, history>>

Unlink(s) ==
  /\ pc[s] = "idle"
  /\ row # NoRow
  /\ row' = NoRow
  /\ unlinked' = unlinked \cup {row.id}
  /\ raced' = (raced \/ \E t \in Sessions : read[t] # NoRow)
  /\ UNCHANGED <<pc, read, instructed, used, activated>>

\* submitForEligibleAllocation: eligibility is read, the instruction is created
\* later.
CheckEligible(s) ==
  /\ pc[s] = "idle"
  /\ row # NoRow /\ row.state = "ACTIVE"
  /\ Goto(s, "create", row)
  /\ UNCHANGED <<row, instructed, used, history>>

CreateInstruction(s) ==
  /\ pc[s] = "create"
  /\ instructed' = TRUE
  /\ End(s)
  /\ UNCHANGED <<row, used, history>>

\* A crash or a lost connection.
Abort(s) ==
  /\ pc[s] # "idle"
  /\ End(s)
  /\ UNCHANGED <<row, instructed, used, history>>

Next == \E s \in Sessions :
  \/ \E id \in Ids, account \in Accounts : Link(s, id, account)
  \/ \E id \in Ids, state \in {"ACTIVE", "SUSPENDED"} : FindFor(s, id, state)
  \/ Look(s) \/ SaveUpdate(s) \/ SaveInsert(s) \/ Unlink(s)
  \/ CheckEligible(s) \/ CreateInstruction(s) \/ Abort(s)

Spec == Init /\ [][Next]_vars

(***************************************************************************)
(* Properties.                                                             *)
(***************************************************************************)
\* Transfers become eligible only for an account that staff activated as it is,
\* and an account that was unlinked stays so, unless it was unlinked while a
\* request held it.
PaidWhereApproved ==
  /\ row # NoRow /\ row.state = "ACTIVE" => <<row.id, row.account>> \in activated
  /\ row # NoRow /\ row.id \in unlinked => raced
  /\ instructed => activated # {}

(***************************************************************************)
(* Why it holds: the inductive invariant of the proofs.                    *)
(***************************************************************************)
NoRowAssumption == NoRow \notin Row

TypeOK ==
  /\ row \in Row \cup {NoRow}
  /\ pc \in [Sessions -> {"idle", "save", "update", "insert", "create"}]
  /\ read \in [Sessions -> Row \cup {NoRow}]
  /\ instructed \in BOOLEAN
  /\ used \subseteq Ids
  /\ activated \subseteq Ids \X Accounts
  /\ unlinked \subseteq used
  /\ raced \in BOOLEAN

\* The rows there are: the vendor's, and the copies requests hold of it.
Copies == {row} \cup {read[s] : s \in Sessions}

\* A row keeps its id and its account for good, and what is or will become
\* active was activated as it is.
CopiesAgree ==
  \A x \in Copies \ {NoRow} :
    /\ x.id \in used
    /\ x.state = "ACTIVE" => <<x.id, x.account>> \in activated
    /\ x.id \in unlinked => raced
    /\ \A y \in Copies \ {NoRow} : x.id = y.id => x.account = y.account

\* A request between two statements holds a row, and one that found the vendor
\* eligible did so after an activation.
HoldsARow(s) ==
  /\ pc[s] # "idle" => read[s] # NoRow
  /\ pc[s] = "create" => activated # {}

IInv ==
  /\ TypeOK
  /\ CopiesAgree
  /\ \A s \in Sessions : HoldsARow(s)
  /\ instructed => activated # {}
================================================================================
