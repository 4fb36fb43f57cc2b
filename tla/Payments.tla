-------------------------------- MODULE Payments --------------------------------
(***************************************************************************)
(* The payment of one Razorpay order and everybody who writes it: the      *)
(* browser's verification, the provider's webhook, a refund, a             *)
(* cancellation and the staff transitions that read it to confirm the      *)
(* order.  With it, the writers of the line items, whose stock a           *)
(* cancellation gives back: the workers, the retries and resolutions of    *)
(* staff and the reconciliation of sync jobs.  What the rows of the jobs   *)
(* say is left out, so that a job may be delivered, reset or reconciled at *)
(* any time (statement by statement and with the rows: Fulfillment).       *)
(*                                                                         *)
(* A session serves one request.  A transaction locks rows as it goes and  *)
(* its writes become visible in one step when it commits; every error and  *)
(* every crash is a rollback.  Where a session stands says which rows it   *)
(* has locked: settlements lock the payment, then the order; cancellation  *)
(* locks the order with its line items, then writes the payment.  Staff    *)
(* transitions and fulfilment lock nothing and write each statement alone. *)
(*                                                                         *)
(* Two facts about the deployment decide what the webhook does and are     *)
(* left open, as is NODE_ENV: whether a decimal column is read back as a   *)
(* number (the tests mock it so) or as a string (what the pg driver does   *)
(* unless told otherwise), and whether the provider's event ids parse as   *)
(* the uuid the webhook passes them for.                                   *)
(***************************************************************************)
EXTENDS Integers

CONSTANTS
  Sessions,      \* database connections serving requests
  Payments,      \* payment ids the provider may create for the order
  NoRef,         \* no payment recorded
  Items,         \* line items of the order
  Deployments    \* the deployments considered

ASSUME NoRefAssumption == NoRef \notin Payments
ASSUME DeploymentsAssumption ==
  Deployments \subseteq [numbers : BOOLEAN, uuids : BOOLEAN, production : BOOLEAN]

VARIABLES
  deployed,  \* the deployment
  pay,       \* the payment_authorizations row: status and provider_reference
  order,     \* orders.status
  items,     \* order_line_items.fulfillment_status
  jobs,      \* which have a sync job, and which an answer of their vendor
  events,    \* the event ids webhook_events has a row for
  pc,        \* where each session's request stands
  req,       \* the request it serves
  charged,   \* payments the provider has captured (external)
  declined,  \* payments the provider has declined (external)
  past,      \* history: what befell each line item since its stock went back
  twice      \* history: items whose stock went back again before both befell them

provider == <<charged, declined>>
history  == <<past, twice>>
goods    == <<items, jobs, history>>
rows     == <<pay, order, goods, events>>
vars     == <<deployed, rows, pc, req, provider>>

PaymentStatus == {"pending", "captured", "failed", "refunded"}
OrderStatus   == {"placed", "confirmed", "fulfilling", "fulfilled", "cancelled"}
\* "open": pending or syncing, which a cancellation treats alike.
ItemStatus    == {"open", "confirmed", "failed", "dead_letter", "ambiguous"}
\* What befalls an item whose stock can go back again.
Excuses       == {"restored", "revived", "reopened"}

\* transitionOrder's table: the status an action starts from, and leads to.
Transitions == {"CONFIRM", "FULFILL", "SHIP"}
From(a) == CASE a = "CONFIRM" -> "placed"
             [] a = "FULFILL" -> "confirmed"
             [] a = "SHIP"    -> "fulfilling"
To(a)   == CASE a = "CONFIRM" -> "confirmed"
             [] a = "FULFILL" -> "fulfilling"
             [] a = "SHIP"    -> "fulfilled"

Event  == [type : {"payment.captured", "payment.failed"}, payment : Payments]
Verify == [kind : {"verify"}, payment : Payments]
Deliver == [kind : {"deliver"}, event : Event]
Move   == [kind : {"move"}, action : Transitions]
Simple == [kind : {"refund", "cancel"}]
\* next: the status that checkOrderFulfillment is going to write.
Sync    == [kind : {"sync"}, item : Items, next : {"none", "fulfilling", "fulfilled"}]
Resolve == [kind : {"resolve"}, item : Items, to : {"confirmed", "failed"},
            next : {"none", "fulfilling", "fulfilled"}]
Fulfil  == Sync \cup Resolve
Request == Verify \cup Deliver \cup Move \cup Simple \cup Fulfil
NoReq == [kind |-> "none"]

(***************************************************************************)
(* Locks, read off the sessions.                                           *)
(***************************************************************************)
HoldsPayment(s) == pc[s] = "order" /\ req[s].kind # "cancel"
HoldsOrder(s)   == pc[s] \in {"reverse", "payment"} /\ req[s].kind = "cancel"
HoldsEvent(s)   == pc[s] \in {"payment", "order"} /\ req[s].kind = "deliver"

PaymentFree  == \A s \in Sessions : ~HoldsPayment(s)
OrderFree    == \A s \in Sessions : ~HoldsOrder(s)
EventFree(e) == \A s \in Sessions : HoldsEvent(s) => req[s].event # e

Init ==
  /\ deployed \in Deployments
  /\ pay = [status |-> "pending", ref |-> NoRef]
  /\ order = "placed"
  /\ items = [i \in Items |-> "open"]
  /\ jobs = [i \in Items |-> "none"]
  /\ events = {}
  /\ pc = [s \in Sessions |-> "idle"]
  /\ req = [s \in Sessions |-> NoReq]
  /\ charged = {}
  /\ declined = {}
  /\ past = [i \in Items |-> {}]
  /\ twice = {}

(***************************************************************************)
(* What the handlers write.                                                *)
(***************************************************************************)
Goto(s, step) ==
  /\ pc' = [pc EXCEPT ![s] = step]
  /\ UNCHANGED req

\* COMMIT, ROLLBACK or a plain return: the session is idle and holds nothing.
End(s) ==
  /\ pc' = [pc EXCEPT ![s] = "idle"]
  /\ req' = [req EXCEPT ![s] = NoReq]

Capture(p) ==
  /\ pay' = [status |-> "captured", ref |-> p]
  /\ order' = IF order \in {"placed", "confirmed"} THEN "confirmed" ELSE order

\* History: an item whose stock is back was opened again, or its order was.
Befalls(i, what) == IF "restored" \in past[i] THEN past[i] \cup {what} ELSE past[i]

\* The order is closed and its line items fail; the stock of some goes back.
Close(given) ==
  /\ order' = "cancelled"
  /\ items' = [i \in Items |-> "failed"]
  /\ past' = [i \in Items |-> IF i \in given THEN {"restored"} ELSE past[i]]
  /\ twice' = twice \cup {i \in given : past[i] \notin {{}, Excuses}}
  /\ UNCHANGED jobs

\* ... of those that are pending or syncing.
GiveBack == Close({i \in Items : items[i] = "open"})

(***************************************************************************)
(* Requests, and what the provider does.                                   *)
(***************************************************************************)
\* Events are delivered any number of times and in any order, once the
\* provider has something to tell.
Sent(e) == e.payment \in (IF e.type = "payment.captured" THEN charged ELSE declined)

FirstStep(r) == CASE r.kind = "deliver" -> "insert"
                  [] r.kind = "cancel"  -> "order"
                  [] OTHER              -> "read"

Begin(s, r) ==
  /\ pc[s] = "idle"
  /\ r.kind = "deliver" => Sent(r.event)
  /\ r \in Fulfil => r.next = "none" /\ jobs[r.item] # "none"
  /\ req' = [req EXCEPT ![s] = r]
  /\ pc' = [pc EXCEPT ![s] = FirstStep(r)]
  /\ UNCHANGED <<deployed, rows, provider>>

\* A crash, or an answer the client no longer waits for: a transaction is
\* rolled back.  Also a sync that its vendor rejects, but for the last time.
Abort(s) ==
  /\ pc[s] # "idle"
  /\ End(s)
  /\ UNCHANGED <<deployed, rows, provider>>

\* A declined payment may still be captured later (late authorization).
ProviderCharges(p) ==
  /\ p \notin charged
  /\ charged' = charged \cup {p}
  /\ UNCHANGED <<deployed, rows, pc, req, declined>>

ProviderDeclines(p) ==
  /\ p \notin charged \cup declined
  /\ declined' = declined \cup {p}
  /\ UNCHANGED <<deployed, rows, pc, req, charged>>

(***************************************************************************)
(* Reads made before any lock.                                             *)
(***************************************************************************)
\* Where a request goes on to after reading the rows; "idle": it is answered.
AfterRead(r) ==
  CASE r.kind = "verify"    -> IF pay.status = "pending" THEN "ask" ELSE "idle"
    [] r.kind = "refund"    -> IF pay.status = "refunded" \/ deployed.production
                                 THEN "idle" ELSE "payment"
    [] r.kind = "move"      -> IF order # From(r.action) THEN "idle"
                               ELSE IF r.action = "CONFIRM" THEN "check" ELSE "write"
    [] r.kind = "sync"      -> IF pay.status = "captured" THEN "mark" ELSE "idle"
    [] r.kind = "resolve"   -> IF items[r.item] \in {"ambiguous", "dead_letter"}
                                 THEN "report" ELSE "idle"

Answered(s, step) == IF step = "idle" THEN End(s) ELSE Goto(s, step)

Read(s) ==
  /\ pc[s] = "read"
  /\ Answered(s, AfterRead(req[s]))
  /\ UNCHANGED <<deployed, rows, provider>>

\* Fault: the signature alone is taken for proof that the money was captured.
AskNobody(s) ==
  /\ pc[s] = "ask"
  /\ Goto(s, "payment")
  /\ UNCHANGED <<deployed, rows, provider>>

\* verify asks the provider whether the payment is captured.
Ask(s) ==
  /\ pc[s] = "ask"
  /\ Answered(s, IF req[s].payment \in charged THEN "payment" ELSE "idle")
  /\ UNCHANGED <<deployed, rows, provider>>

\* Fault: an order is confirmed without looking at its payment.
CheckNothing(s) ==
  /\ pc[s] = "check"
  /\ Goto(s, "write")
  /\ UNCHANGED <<deployed, rows, provider>>

\* CONFIRM reads the payment before it writes the order.
Check(s) ==
  /\ pc[s] = "check"
  /\ Answered(s, IF pay.status = "captured" THEN "write" ELSE "idle")
  /\ UNCHANGED <<deployed, rows, provider>>

\* transitionOrder and checkOrderFulfillment write without a lock what they
\* decided from their reads, be the order cancelled by then or not.
Decided(r) == IF r.kind = "move" THEN To(r.action) ELSE r.next

Write(s) ==
  /\ pc[s] = "write"
  /\ OrderFree
  /\ order' = Decided(req[s])
  /\ past' = IF order = "cancelled" THEN [i \in Items |-> Befalls(i, "reopened")] ELSE past
  /\ End(s)
  /\ UNCHANGED <<deployed, pay, items, jobs, twice, events, provider>>

(***************************************************************************)
(* Settlement: verification and webhook events lock the payment row, then  *)
(* the order row, and commit in the step that locks it.                    *)
(***************************************************************************)
\* Fault: the event table has no unique index.
InsertAgain(s) ==
  /\ pc[s] = "insert"
  /\ Goto(s, "payment")
  /\ UNCHANGED <<deployed, rows, provider>>

\* A second row for an event id violates the unique index; an uncommitted row
\* makes the insert wait.
Insert(s) ==
  /\ pc[s] = "insert"
  /\ EventFree(req[s].event)
  /\ Answered(s, IF req[s].event \in events THEN "idle" ELSE "payment")
  /\ UNCHANGED <<deployed, rows, provider>>

\* Events that change nothing in the state the locked payment is in.
Skipped(e) ==
  IF e.type = "payment.failed" THEN pay.status # "pending"
                               ELSE pay.status \in {"captured", "failed"}

LockPayment(s) ==
  /\ pc[s] = "payment"
  /\ PaymentFree
  /\ \/ req[s].kind = "verify" /\ Goto(s, "order")
     \/ req[s].kind = "deliver" /\ ~Skipped(req[s].event) /\ Goto(s, "order")
  /\ UNCHANGED <<deployed, rows, provider>>

\* Fault: the payment locked is not looked at again.
VerifyUnchecked(s) ==
  /\ pc[s] = "order"
  /\ req[s].kind = "verify"
  /\ OrderFree
  /\ IF order \in {"placed", "confirmed"}
       THEN Capture(req[s].payment)
       ELSE UNCHANGED <<pay, order>>
  /\ End(s)
  /\ UNCHANGED <<deployed, goods, events, provider>>

\* verify: the payment is recorded and the order confirmed, if both rows are
\* still in a state to be; the same payment recorded meanwhile is a success, a
\* different one a conflict, and neither writes.
VerifyCommits(s) ==
  /\ pc[s] = "order"
  /\ req[s].kind = "verify"
  /\ OrderFree
  /\ IF pay.status = "pending" /\ order \in {"placed", "confirmed"}
       THEN Capture(req[s].payment)
       ELSE UNCHANGED <<pay, order>>
  /\ End(s)
  /\ UNCHANGED <<deployed, goods, events, provider>>

\* Where the webhook is done: it answers here, and marks the event processed.
Delivered(s) ==
  /\ req[s].kind = "deliver"
  /\ \/ pc[s] = "payment" /\ PaymentFree /\ Skipped(req[s].event)
     \/ pc[s] = "order" /\ OrderFree

\* Marking passes the provider's event id for the row's uuid.  When it does not
\* parse as one the statement fails, and everything is rolled back ...
DeliverFails(s) ==
  /\ Delivered(s)
  /\ ~deployed.uuids
  /\ End(s)
  /\ UNCHANGED <<deployed, rows, provider>>

\* ... when it does, no row has that id, so the event's row commits unmarked.
\* The amount is compared as a number, so a string settles nothing.
DeliverCommits(s) ==
  /\ Delivered(s)
  /\ deployed.uuids
  /\ events' = events \cup {req[s].event}
  /\ IF pc[s] = "order" /\ deployed.numbers
       THEN IF req[s].event.type = "payment.captured"
              THEN Capture(req[s].event.payment)
              ELSE /\ pay' = [status |-> "failed", ref |-> req[s].event.payment]
                   /\ UNCHANGED order
       ELSE UNCHANGED <<pay, order>>
  /\ End(s)
  /\ UNCHANGED <<deployed, goods, provider>>

(***************************************************************************)
(* Refunds and cancellation.  A refund is a flag on the payment row: no    *)
(* caller asks the provider to return the money.                           *)
(***************************************************************************)
Refund(s) ==
  /\ pc[s] = "payment"
  /\ req[s].kind = "refund"
  /\ PaymentFree
  /\ pay' = [pay EXCEPT !.status = "refunded"]
  /\ End(s)
  /\ UNCHANGED <<deployed, order, goods, events, provider>>

CancelLocksOrder(s) ==
  /\ pc[s] = "order"
  /\ req[s].kind = "cancel"
  /\ OrderFree
  /\ Answered(s, IF order \in {"fulfilled", "cancelled"} THEN "idle" ELSE "reverse")
  /\ UNCHANGED <<deployed, rows, provider>>

\* Its stock is given back and its order row written; the payment is read
\* without a lock.  In production the refund throws, and all is rolled back.
CancelReads(s) ==
  /\ pc[s] = "reverse"
  /\ \/ /\ pay.status = "refunded"
        /\ GiveBack
        /\ End(s)
     \/ /\ pay.status # "refunded"
        /\ Answered(s, IF deployed.production THEN "idle" ELSE "payment")
        /\ UNCHANGED <<order, goods>>
  /\ UNCHANGED <<deployed, pay, events, provider>>

\* Fault: the stock is given back whatever the line items say.
CancelRestocksAlways(s) ==
  /\ pc[s] = "payment"
  /\ req[s].kind = "cancel"
  /\ PaymentFree
  /\ pay' = [pay EXCEPT !.status = "refunded"]
  /\ Close(Items)
  /\ End(s)
  /\ UNCHANGED <<deployed, events, provider>>

\* Fault: a cancellation in the middle of a payment leaves the payment alone.
CancelWithoutRefund(s) ==
  /\ pc[s] = "payment"
  /\ req[s].kind = "cancel"
  /\ PaymentFree
  /\ GiveBack
  /\ End(s)
  /\ UNCHANGED <<deployed, pay, events, provider>>

CancelCommits(s) ==
  /\ pc[s] = "payment"
  /\ req[s].kind = "cancel"
  /\ PaymentFree
  /\ pay' = [pay EXCEPT !.status = "refunded"]
  /\ GiveBack
  /\ End(s)
  /\ UNCHANGED <<deployed, events, provider>>

(***************************************************************************)
(* Fulfilment.  Its updates of a line item wait for a cancellation that    *)
(* has locked it, and look at nothing when they go on.                     *)
(***************************************************************************)
SetItem(i, status) ==
  /\ OrderFree
  /\ items' = [items EXCEPT ![i] = status]
  /\ UNCHANGED <<deployed, pay, order, events, twice, provider>>

\* The item is pending or syncing (again), although its stock may be back.
Revive(i) ==
  /\ SetItem(i, "open")
  /\ past' = [past EXCEPT ![i] = Befalls(i, "revived")]
  /\ UNCHANGED jobs

\* createSyncJob, as of the moment it finds the payment captured.
CreateSyncJob(i) ==
  /\ pay.status = "captured"
  /\ jobs[i] = "none"
  /\ jobs' = [jobs EXCEPT ![i] = "made"]
  /\ UNCHANGED <<deployed, pay, order, items, events, history, pc, req, provider>>

\* processSyncJob marks its line item, long after it read the payment.
Mark(s) ==
  /\ pc[s] = "mark"
  /\ Revive(req[s].item)
  /\ Goto(s, "report")

\* The vendor accepts, or staff resolve the item and may enter a reference.
Report(s) ==
  /\ pc[s] = "report"
  /\ SetItem(req[s].item, IF req[s].kind = "sync" THEN "confirmed" ELSE req[s].to)
  /\ \E answer \in {"answered"} \cup (IF req[s].kind = "sync" THEN {} ELSE {jobs[req[s].item]}) :
       jobs' = [jobs EXCEPT ![req[s].item] = answer]
  /\ Goto(s, "look")
  /\ UNCHANGED past

\* The vendor rejects for the last time, or a statement after its answer fails.
GiveUp(s) ==
  /\ pc[s] \in {"report", "look", "decide", "write"}
  /\ req[s].kind = "sync"
  /\ SetItem(req[s].item, "dead_letter")
  /\ End(s)
  /\ UNCHANGED <<jobs, past>>

\* retryDeadLetterJob, whatever the item is by then.
RetryDeadLetterJob(i) ==
  /\ jobs[i] # "none"
  /\ Revive(i)
  /\ UNCHANGED <<pc, req>>

\* reconcile asks the vendor about an item it has a reference for.
ReconcileItem(i) ==
  /\ jobs[i] = "answered"
  /\ \E status \in {"confirmed", "ambiguous"} : SetItem(i, status)
  /\ UNCHANGED <<jobs, past, pc, req>>

\* checkOrderFulfillment: the items, then the order, then the update.
AllConfirmed == Items # {} /\ \A i \in Items : items[i] = "confirmed"
AnyLost      == \E i \in Items : items[i] \in {"dead_letter", "failed"}

Look(s) ==
  /\ pc[s] = "look"
  /\ IF AllConfirmed \/ AnyLost
       THEN /\ req' = [req EXCEPT ![s].next = IF AllConfirmed THEN "fulfilled"
                                              ELSE "fulfilling"]
            /\ pc' = [pc EXCEPT ![s] = "decide"]
       ELSE End(s)
  /\ UNCHANGED <<deployed, rows, provider>>

Decide(s) ==
  /\ pc[s] = "decide"
  /\ Answered(s, IF order \in {"fulfilled", "cancelled", req[s].next} THEN "idle"
                                                                      ELSE "write")
  /\ UNCHANGED <<deployed, rows, provider>>

(***************************************************************************)
(* A cancellation and a settlement lock the two rows in opposite orders;   *)
(* the database breaks the deadlock by rolling one of them back.           *)
(***************************************************************************)
Deadlocked(s, t) ==
  /\ HoldsPayment(s)
  /\ HoldsOrder(t)
  /\ pc[t] = "payment"

\* Fault: the database waits for ever.
NeverBroken(s) == FALSE

BreakDeadlock(s) ==
  /\ \E t \in Sessions : Deadlocked(s, t) \/ Deadlocked(t, s)
  /\ End(s)
  /\ UNCHANGED <<deployed, rows, provider>>

(***************************************************************************)
(* The next-state relation, and fairness: a session goes on; one that      *)
(* waits for a lock gets it if the lock is free again and again, because   *)
(* the database grants waiting transactions in turn.                       *)
(***************************************************************************)
WaitsForNoLock(s) ==
  Read(s) \/ Ask(s) \/ Check(s) \/ CancelReads(s) \/ Look(s) \/ Decide(s)

WaitsForLock(s) ==
  \/ Insert(s)
  \/ LockPayment(s)
  \/ VerifyCommits(s)
  \/ DeliverFails(s)
  \/ DeliverCommits(s)
  \/ Refund(s)
  \/ CancelLocksOrder(s)
  \/ CancelCommits(s)
  \/ Write(s)
  \/ Mark(s)
  \/ Report(s)

Next ==
  \/ \E s \in Sessions :
       \/ \E r \in Request : Begin(s, r)
       \/ WaitsForNoLock(s)
       \/ WaitsForLock(s)
       \/ GiveUp(s)
       \/ BreakDeadlock(s)
       \/ Abort(s)
  \/ \E i \in Items : CreateSyncJob(i) \/ RetryDeadLetterJob(i) \/ ReconcileItem(i)
  \/ \E p \in Payments : ProviderCharges(p) \/ ProviderDeclines(p)

Spec == Init /\ [][Next]_vars

Fairness ==
  \A s \in Sessions :
    /\ WF_vars(WaitsForNoLock(s))
    /\ SF_vars(WaitsForLock(s))
    /\ WF_vars(BreakDeadlock(s))

FairSpec == Spec /\ Fairness

(***************************************************************************)
(* Properties.                                                             *)
(***************************************************************************)
Step == {"idle", "read", "ask", "check", "write", "insert", "payment", "order",
         "reverse", "mark", "report", "look", "decide"}

TypeOK ==
  /\ deployed \in Deployments
  /\ pay \in [status : PaymentStatus, ref : Payments \cup {NoRef}]
  /\ order \in OrderStatus
  /\ items \in [Items -> ItemStatus]
  /\ jobs \in [Items -> {"none", "made", "answered"}]
  /\ events \subseteq Event
  /\ pc \in [Sessions -> Step]
  /\ req \in [Sessions -> Request \cup {NoReq}]
  /\ charged \subseteq Payments
  /\ declined \subseteq Payments
  /\ past \in [Items -> SUBSET Excuses]
  /\ twice \subseteq Items

\* A payment is only ever recorded as captured when the provider has captured
\* it, whether the browser or the webhook says so.
CapturedWasCharged == pay.status = "captured" => pay.ref \in charged

\* An order that went past "placed" and was not closed was paid at the
\* provider, although staff and workers write its status from a payment, or
\* from line items, that they read earlier.
ConfirmedWasPaid ==
  order \in {"confirmed", "fulfilling", "fulfilled"} => charged # {}

\* Stock that goes back is accounted for.  It goes back again only after a
\* worker or a retry opened the line item again (processSyncJob,
\* retryDeadLetterJob) and a stale write opened the cancelled order again
\* (transitionOrder, checkOrderFulfillment), both since the last time:
\* cancelOrder alone, however often it is repeated and whom it races, gives it
\* back once.  And the stock of an item that was never handed to fulfilment is
\* not lost when its order is cancelled.
RestocksExplained ==
  /\ twice = {}
  /\ order = "cancelled" => \A i \in Items : jobs[i] = "none" => past[i] # {}

\* A cancelled order keeps its buyer's money on the record only if the
\* provider's own event said so; no browser request leaves it that way.
CancelledKeepsOnlyByEvent ==
  order = "cancelled" /\ pay.status = "captured" =>
    [type |-> "payment.captured", payment |-> pay.ref] \in events

\* An event accepted before does not undo a refund: a redelivery changes
\* nothing, however often and however late it comes.
RefundSurvivesRedelivery ==
  [][pay.status = "refunded" /\ pay'.status = "captured" =>
       [type |-> "payment.captured", payment |-> pay'.ref] \notin events]_vars

\* The row's life as the outside sees it implements PaymentLifecycle: two
\* settlements that race agree, a capture is never downgraded by a late
\* payment.failed, a recorded payment is never replaced by another.
Phase == CASE pay.status = "pending"  -> "open"
           [] pay.status = "captured" -> "settled"
           [] pay.status = "failed"   -> "refused"
           [] pay.status = "refunded" -> "returned"

Lifecycle == INSTANCE PaymentLifecycle
               WITH phase <- Phase, paidBy <- pay.ref,
                    charged <- charged, declined <- declined

ImplementsLifecycle == Lifecycle!Spec

(***************************************************************************)
(* Why it holds: the inductive invariant of the proofs.                    *)
(***************************************************************************)
\* The steps each kind of request goes through.
Fits(step, r) ==
  /\ step = "idle" => r = NoReq
  /\ step = "read" => r \in Verify \cup Move \cup [kind : {"refund"}] \cup Fulfil
  /\ step = "ask" => r \in Verify
  /\ step = "check" => r \in Move
  /\ step = "write" => r \in Move \cup Fulfil
  /\ step = "insert" => r \in Deliver
  /\ step = "payment" => r \in Verify \cup Deliver \cup Simple
  /\ step = "order" => r \in Verify \cup Deliver \cup [kind : {"cancel"}]
  /\ step = "reverse" => r \in [kind : {"cancel"}]
  /\ step = "mark" => r \in Sync
  /\ step \in {"report", "look", "decide"} => r \in Fulfil
  /\ step \in {"decide", "write"} /\ r \in Fulfil => r.next # "none"

\* What a session learnt earlier and may still rely on: money once captured
\* stays so, a locked row does not change, and a sync job remains.
Knows(s) ==
  /\ req[s].kind = "verify" /\ pc[s] \in {"payment", "order"} => req[s].payment \in charged
  /\ req[s].kind = "deliver" => Sent(req[s].event)
  /\ req[s] \in Fulfil => jobs[req[s].item] # "none"
  /\ pc[s] = "write" => charged # {}
  /\ HoldsPayment(s) /\ req[s].kind = "deliver" => ~Skipped(req[s].event)
  /\ HoldsOrder(s) => order # "cancelled"
  /\ HoldsEvent(s) => req[s].event \notin events

\* Two sessions never hold the payment row, nor cancel the order, nor hold the
\* row of one event.
Exclusive ==
  \A s, t \in Sessions :
    s # t => /\ ~(HoldsPayment(s) /\ HoldsPayment(t))
             /\ ~(HoldsOrder(s) /\ HoldsOrder(t))
             /\ HoldsEvent(s) /\ HoldsEvent(t) => req[s].event # req[t].event

\* A line item: its job came after the money, it is open and in an open order
\* again only if its history says so, and with no job it is as it was sold or
\* as a cancellation left it.
Item(i) ==
  /\ jobs[i] # "none" => charged # {}
  /\ past[i] = {} \/ "restored" \in past[i]
  /\ "restored" \in past[i] /\ items[i] = "open" => "revived" \in past[i]
  /\ "restored" \in past[i] /\ order # "cancelled" => "reopened" \in past[i]
  /\ jobs[i] = "none" /\ past[i] = {} => items[i] = "open"

Ledger ==
  /\ CapturedWasCharged
  /\ ConfirmedWasPaid
  /\ RestocksExplained
  /\ CancelledKeepsOnlyByEvent

IInv ==
  /\ TypeOK
  /\ Ledger
  /\ \A i \in Items : Item(i)
  /\ \A s \in Sessions : Fits(pc[s], req[s]) /\ Knows(s)
  /\ Exclusive
================================================================================
