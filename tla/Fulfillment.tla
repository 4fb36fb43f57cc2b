------------------------------- MODULE Fulfillment -------------------------------
(***************************************************************************)
(* The fulfilment of one order: sync jobs, their BullMQ deliveries, the    *)
(* workers that call the vendor, reconciliation, and what an admin may do  *)
(* meanwhile.  Different orders share none of these rows, so one order is  *)
(* enough.                                                                 *)
(*                                                                         *)
(* FulfillmentService opens no transaction and takes no lock: every query  *)
(* and update is a step of its own, and what a handler read may be stale   *)
(* when it writes.  The exception is OrdersService.cancelOrder, which      *)
(* locks the order and its line items and is one step here.                *)
(***************************************************************************)
EXTENDS Integers, FiniteSets

CONSTANTS
  Items,          \* line items of the order
  Jobs,           \* vendor_sync_jobs ids the generator may hand out
  NoJob,
  Procs,          \* workers, request handlers and the reconciliation cron
  MaxAttempts,    \* MAX_RETRY_ATTEMPTS
  QueueAttempts,  \* BullMQ: how often a delivery that throws is tried
  MaxStalls,      \* BullMQ: how often a stalled delivery is handed out again
  MaxFaults,      \* bound: crashes and failed statements
  MayReject,      \* may the vendor reject a request?
  Staff           \* which of the staff's operations take place

ASSUME ItemsAssumption == Items # {}
ASSUME NoJobAssumption == NoJob \notin Jobs
ASSUME BoundsAssumption ==
  /\ MaxAttempts \in Nat \ {0}
  /\ QueueAttempts \in Nat \ {0}
  /\ MaxStalls \in Nat
  /\ MaxFaults \in Nat
ASSUME StaffAssumption ==
  /\ MayReject \in BOOLEAN
  /\ Staff \subseteq {"create", "reconcile", "resolve", "retry", "transition", "cancel"}
ASSUME ProcsAssumption == Procs \cap {"none", "waiting", "done", "failed"} = {}

VARIABLES
  status,   \* orders.status
  pay,      \* status of the latest payment row, "none" if there is none
  item,     \* order_line_items.fulfillment_status
  ref,      \* items with a vendor_reference
  job,      \* vendor_sync_jobs rows
  ticket,   \* the delivery of each job: where it is, its throws and its stalls
  pc,       \* the statement each handler runs next
  loc,      \* what the handler has read
  sent,     \* history: how often the vendor accepted each item
  cleared,  \* history: the order needed no payment, or it was captured
  resolved, \* history: items an admin confirmed or gave a vendor reference
  shipped,  \* history: an admin marked the order as shipped
  faults    \* crashes and failed statements so far

history == <<sent, cleared, resolved, shipped>>
vars == <<status, pay, item, ref, job, ticket, pc, loc, history, faults>>

OrderStatus == {"placed", "confirmed", "fulfilling", "fulfilled", "cancelled"}
PaymentStatus == {"none", "pending", "captured", "failed", "refunded"}
FulfillmentStatus == {"pending", "syncing", "confirmed", "failed", "dead_letter", "ambiguous"}
SyncJobStatus == {"pending", "in_progress", "completed", "failed", "ambiguous", "dead_letter"}

NoRow == [status |-> "absent"]
JobRow == [item : Items, status : SyncJobStatus, attempts : Nat]
Created == {j \in Jobs : job[j] # NoRow}

NoLoc == [kind |-> "none"]
\* kind: whose handler ("caught": a sync in its catch block); tries: the
\* attempts it read; next: the status it is going to write.
Loc(kind, j, i, tries, next) ==
  [kind |-> kind, job |-> j, item |-> i, tries |-> tries, next |-> next]

Init ==
  /\ status = "placed"
  /\ pay \in {"none", "pending", "captured"}
  /\ item = [i \in Items |-> "pending"]
  /\ ref = {}
  /\ job = [j \in Jobs |-> NoRow]
  /\ ticket = [j \in Jobs |-> [at |-> "none", throws |-> 0, stalls |-> 0]]
  /\ pc = [p \in Procs |-> "idle"]
  /\ loc = [p \in Procs |-> NoLoc]
  /\ sent = [i \in Items |-> 0]
  /\ cleared = (pay # "pending")
  /\ resolved = {}
  /\ shipped = FALSE
  /\ faults = 0

(***************************************************************************)
(* Handlers.                                                               *)
(***************************************************************************)
\* The handler begins, having read what l says.
Start(p, at, l) ==
  /\ pc[p] = "idle"
  /\ pc' = [pc EXCEPT ![p] = at]
  /\ loc' = [loc EXCEPT ![p] = l]

Goto(p, at) == pc' = [pc EXCEPT ![p] = at] /\ UNCHANGED <<loc, ticket>>

\* The handler returns; a delivery it still owns is done.
Return(p) ==
  /\ pc' = [pc EXCEPT ![p] = "idle"]
  /\ loc' = [loc EXCEPT ![p] = NoLoc]
  /\ ticket' = [j \in Jobs |-> IF ticket[j].at = p THEN [ticket[j] EXCEPT !.at = "done"]
                               ELSE ticket[j]]

\* The handler throws: BullMQ tries the delivery again, up to its attempts.
Rethrow(t) == IF t.throws + 1 < QueueAttempts
                THEN [t EXCEPT !.at = "waiting", !.throws = @ + 1]
                ELSE [t EXCEPT !.at = "failed"]
Throw(p) ==
  /\ pc' = [pc EXCEPT ![p] = "idle"]
  /\ loc' = [loc EXCEPT ![p] = NoLoc]
  /\ ticket' = [j \in Jobs |-> IF ticket[j].at = p THEN Rethrow(ticket[j]) ELSE ticket[j]]

Then(p, at) == IF at = "idle" THEN Return(p) ELSE Goto(p, at)

WriteJob(p, to, attempts, at) ==
  /\ job' = [job EXCEPT ![loc[p].job].status = to, ![loc[p].job].attempts = attempts]
  /\ Then(p, at)
  /\ UNCHANGED <<status, pay, item, ref, history, faults>>

WriteItem(p, to, at) ==
  /\ item' = [item EXCEPT ![loc[p].item] = to]
  /\ Then(p, at)
  /\ UNCHANGED <<status, pay, job, history, faults>>

MyAttempts(p) == job[loc[p].job].attempts

(***************************************************************************)
(* createSyncJob and the enqueue of its controller.                        *)
(***************************************************************************)
\* Fault: assertPaymentCapturedOrLegacy lets a pending payment pass.
PendingPasses == pay \in {"none", "captured", "pending"}

PaymentOk == pay \in {"none", "captured"}

\* Bound: no more jobs are created than there are ids (uuids never run out).
IdsLeft == Cardinality({p \in Procs : pc[p] = "insertJob"}) < Cardinality(Jobs \ Created)

CreateSyncJob(p, i) ==
  /\ "create" \in Staff
  /\ IdsLeft
  /\ PaymentOk
  /\ Start(p, "insertJob", Loc("create", NoJob, i, 0, "pending"))
  /\ UNCHANGED <<status, pay, item, ref, job, ticket, history, faults>>

InsertJob(p) ==
  /\ pc[p] = "insertJob"
  /\ \E j \in Jobs \ Created :
       /\ job' = [job EXCEPT ![j] = [item |-> loc[p].item, status |-> "pending",
                                     attempts |-> 0]]
       /\ loc' = [loc EXCEPT ![p].job = j]
  /\ pc' = [pc EXCEPT ![p] = "enqueue"]
  /\ UNCHANGED <<status, pay, item, ref, ticket, history, faults>>

Enqueue(p) ==
  /\ pc[p] = "enqueue"
  /\ ticket' = [ticket EXCEPT ![loc[p].job].at = "waiting"]
  /\ pc' = [pc EXCEPT ![p] = "idle"]
  /\ loc' = [loc EXCEPT ![p] = NoLoc]
  /\ UNCHANGED <<status, pay, item, ref, job, history, faults>>

(***************************************************************************)
(* processSyncJob.                                                         *)
(***************************************************************************)
Deliver(p, j) ==
  /\ ticket[j].at = "waiting"
  /\ IF job[j].status = "completed"
       THEN /\ pc[p] = "idle"
            /\ ticket' = [ticket EXCEPT ![j].at = "done"]
            /\ UNCHANGED <<pc, loc>>
       ELSE /\ Start(p, "readPayment",
                     Loc("sync", j, job[j].item, job[j].attempts, "pending"))
            /\ ticket' = [ticket EXCEPT ![j].at = p]
  /\ UNCHANGED <<status, pay, item, ref, job, history, faults>>

ReadPayment(p) ==
  /\ pc[p] = "readPayment"
  /\ IF PaymentOk THEN Goto(p, "markJob") ELSE Throw(p)
  /\ UNCHANGED <<status, pay, item, ref, job, history, faults>>

MarkJob(p) ==
  /\ pc[p] = "markJob"
  /\ WriteJob(p, "in_progress", loc[p].tries + 1, "markItem")

MarkItem(p) ==
  /\ pc[p] = "markItem"
  /\ WriteItem(p, "syncing", "call")
  /\ UNCHANGED ref

VendorAccepts(p) ==
  /\ pc[p] = "call"
  /\ sent' = [sent EXCEPT ![loc[p].item] = @ + 1]
  /\ Goto(p, "completeJob")
  /\ UNCHANGED <<status, pay, item, ref, job, cleared, resolved, shipped, faults>>

\* Fault: response.success is not looked at.
VendorRejectsUnseen(p) ==
  /\ pc[p] = "call"
  /\ MayReject
  /\ Goto(p, "completeJob")
  /\ UNCHANGED <<status, pay, item, ref, job, history, faults>>

\* A rejection and a timeout are the same to the handler.
VendorRejects(p) ==
  /\ pc[p] = "call"
  /\ MayReject
  /\ Goto(p, "failJob")
  /\ UNCHANGED <<status, pay, item, ref, job, history, faults>>

CompleteJob(p) ==
  /\ pc[p] = "completeJob"
  /\ WriteJob(p, "completed", MyAttempts(p), "confirmItem")

\* Fault: nobody looks at the order after its last item is confirmed.
ConfirmItemOnly(p) ==
  /\ pc[p] = "confirmItem"
  /\ WriteItem(p, "confirmed", "idle")
  /\ ref' = ref \cup {loc[p].item}

ConfirmItem(p) ==
  /\ pc[p] = "confirmItem"
  /\ WriteItem(p, "confirmed", "checkItems")
  /\ ref' = ref \cup {loc[p].item}

(***************************************************************************)
(* checkOrderFulfillment: the end of processSyncJob and manualResolve.     *)
(***************************************************************************)
AllConfirmed == \A i \in Items : item[i] = "confirmed"
AnyLost == \E i \in Items : item[i] \in {"dead_letter", "failed"}

\* Fault: one confirmed item is enough.
CheckItemsAny(p) ==
  /\ pc[p] = "checkItems"
  /\ loc' = [loc EXCEPT ![p].next = IF AnyLost THEN "fulfilling" ELSE "fulfilled"]
  /\ pc' = [pc EXCEPT ![p] = "readOrder"]
  /\ UNCHANGED <<status, pay, item, ref, job, ticket, history, faults>>

CheckItems(p) ==
  /\ pc[p] = "checkItems"
  /\ IF AllConfirmed \/ AnyLost
       THEN /\ loc' = [loc EXCEPT ![p].next = IF AllConfirmed THEN "fulfilled"
                                              ELSE "fulfilling"]
            /\ pc' = [pc EXCEPT ![p] = "readOrder"]
            /\ UNCHANGED ticket
       ELSE Return(p)
  /\ UNCHANGED <<status, pay, item, ref, job, history, faults>>

ReadOrder(p) ==
  /\ pc[p] = "readOrder"
  /\ IF status \in {"fulfilled", "cancelled", loc[p].next}
       THEN Return(p) ELSE Goto(p, "writeOrder")
  /\ UNCHANGED <<status, pay, item, ref, job, history, faults>>

WriteOrder(p) ==
  /\ pc[p] = "writeOrder"
  /\ status' = loc[p].next
  /\ shipped' = (shipped \/ (loc[p].kind = "transition" /\ loc[p].next = "fulfilled"))
  /\ Return(p)
  /\ UNCHANGED <<pay, item, ref, job, sent, cleared, resolved, faults>>

(***************************************************************************)
(* handleSyncFailure: the job is dead after MaxAttempts; otherwise it is   *)
(* pending again and the handler returns normally.                         *)
(***************************************************************************)
FailJob(p) ==
  LET attempts == loc[p].tries + 1 IN
  /\ pc[p] = "failJob"
  /\ IF attempts >= MaxAttempts
       THEN WriteJob(p, "dead_letter", attempts, "deadItem")
       ELSE WriteJob(p, "pending", attempts, "idle")

DeadItem(p) ==
  /\ pc[p] = "deadItem"
  /\ WriteItem(p, "dead_letter", "idle")
  /\ UNCHANGED ref

(***************************************************************************)
(* reconcile, for one of the jobs its query returned.                      *)
(***************************************************************************)
\* A cron run waits ten minutes, a request may pass olderThanMinutes = 0: the
\* job may belong to a worker that is still alive.
ReadStaleJob(p, j) ==
  /\ "reconcile" \in Staff
  /\ job[j] # NoRow
  /\ job[j].status = "in_progress"
  /\ Start(p, IF job[j].item \in ref THEN "queryVendor" ELSE "requeueJob",
           Loc("reconcile", j, job[j].item, 0, "pending"))
  /\ UNCHANGED <<status, pay, item, ref, job, ticket, history, faults>>

\* Fault: reconciliation hands the job out again without asking whether a worker
\* still has it.
RequeueAndDeliver(p) ==
  /\ pc[p] = "requeueJob"
  /\ job' = [job EXCEPT ![loc[p].job].status = "pending"]
  /\ ticket' = [ticket EXCEPT ![loc[p].job].at = "waiting"]
  /\ pc' = [pc EXCEPT ![p] = "idle"]
  /\ loc' = [loc EXCEPT ![p] = NoLoc]
  /\ UNCHANGED <<status, pay, item, ref, history, faults>>

\* "No vendor reference - retry the job": the row is reset, nothing is queued.
RequeueJob(p) ==
  /\ pc[p] = "requeueJob"
  /\ WriteJob(p, "pending", MyAttempts(p), "idle")

QueryVendor(p) ==
  /\ pc[p] = "queryVendor"
  /\ \E at \in {"reconcileJob", "ambiguousJob"} : Goto(p, at)
  /\ UNCHANGED <<status, pay, item, ref, job, history, faults>>

ReconcileJob(p) ==
  /\ pc[p] = "reconcileJob"
  /\ WriteJob(p, "completed", MyAttempts(p), "reconcileItem")

ReconcileItem(p) ==
  /\ pc[p] = "reconcileItem"
  /\ WriteItem(p, "confirmed", "idle")
  /\ UNCHANGED ref

AmbiguousJob(p) ==
  /\ pc[p] = "ambiguousJob"
  /\ WriteJob(p, "ambiguous", MyAttempts(p), "ambiguousItem")

AmbiguousItem(p) ==
  /\ pc[p] = "ambiguousItem"
  /\ WriteItem(p, "ambiguous", "idle")
  /\ UNCHANGED ref

(***************************************************************************)
(* manualResolve.                                                          *)
(***************************************************************************)
JobsOf(i) == {j \in Created : job[j].item = i}

ReadLineItem(p, i, to) ==
  /\ "resolve" \in Staff
  /\ item[i] \in {"ambiguous", "dead_letter"}
  /\ \E j \in IF JobsOf(i) = {} THEN {NoJob} ELSE JobsOf(i) :
        Start(p, "resolveItem", Loc("resolve", j, i, 0, to))
  /\ UNCHANGED <<status, pay, item, ref, job, ticket, history, faults>>

ResolveItem(p) ==
  /\ pc[p] = "resolveItem"
  /\ item' = [item EXCEPT ![loc[p].item] = loc[p].next]
  /\ ref' \in {ref, ref \cup {loc[p].item}}
  /\ resolved' = IF loc[p].next = "confirmed" \/ ref' # ref
                   THEN resolved \cup {loc[p].item} ELSE resolved
  /\ Goto(p, IF loc[p].job = NoJob THEN "checkItems" ELSE "resolveJob")
  /\ UNCHANGED <<status, pay, job, sent, cleared, shipped, faults>>

ResolveJob(p) ==
  /\ pc[p] = "resolveJob"
  /\ WriteJob(p, IF loc[p].next = "confirmed" THEN "completed" ELSE "failed",
              MyAttempts(p), "checkItems")

(***************************************************************************)
(* The other operations of staff, and the payment provider.                *)
(***************************************************************************)
\* AdminService.retryDeadLetterJob looks the job up and never at its status.
RetryDeadLetterJob(p, j) ==
  /\ "retry" \in Staff
  /\ job[j] # NoRow
  /\ Start(p, "resetJob", Loc("retry", j, job[j].item, 0, "pending"))
  /\ UNCHANGED <<status, pay, item, ref, job, ticket, history, faults>>

ResetJob(p) ==
  /\ pc[p] = "resetJob"
  /\ WriteJob(p, "pending", 0, "resetItem")

ResetItem(p) ==
  /\ pc[p] = "resetItem"
  /\ WriteItem(p, "pending", "idle")
  /\ UNCHANGED ref

allowedTransitions ==
  [placed |-> "confirmed", confirmed |-> "fulfilling", fulfilling |-> "fulfilled"]

\* OrdersService.transitionOrder reads the order and, to confirm it, the
\* payments; the status is written later.
TransitionOrder(p) ==
  /\ "transition" \in Staff
  /\ status \in DOMAIN allowedTransitions
  /\ status = "placed" => PaymentOk
  /\ \E i \in Items :   \* any: the handler looks at none
        Start(p, "writeOrder", Loc("transition", NoJob, i, 0, allowedTransitions[status]))
  /\ UNCHANGED <<status, pay, item, ref, job, ticket, history, faults>>

\* cancelOrder with its refund, in one transaction (stock: module Checkout).
CancelOrder ==
  /\ "cancel" \in Staff
  /\ status \notin {"fulfilled", "cancelled"}
  /\ status' = "cancelled"
  /\ item' = [i \in Items |-> "failed"]
  /\ pay' = IF pay = "none" THEN "none" ELSE "refunded"
  /\ UNCHANGED <<ref, job, ticket, pc, loc, history, faults>>

\* The Razorpay verification or a webhook event settles the payment.  An event
\* may come late: a capture is written over a refund, and a placed order is
\* confirmed with it.
SettlePayment(outcome) ==
  /\ pay = "pending" \/ (outcome = "captured" /\ pay = "refunded")
  /\ pay' = outcome
  /\ status' = IF outcome = "captured" /\ status = "placed" THEN "confirmed" ELSE status
  /\ cleared' = (cleared \/ outcome = "captured")
  /\ UNCHANGED <<item, ref, job, ticket, pc, loc, sent, resolved, shipped, faults>>

(***************************************************************************)
(* Faults.                                                                 *)
(***************************************************************************)
InTry == {"call", "completeJob", "confirmItem", "checkItems", "readOrder", "writeOrder",
          "failJob", "deadItem"}

\* A statement fails: inside the try of processSyncJob the error becomes a
\* sync failure (once: the catch block itself is not guarded), everywhere else
\* the handler throws.
StatementFails(p) ==
  /\ faults < MaxFaults
  /\ pc[p] # "idle"
  /\ faults' = faults + 1
  /\ IF loc[p].kind = "sync" /\ pc[p] \in InTry
       THEN /\ pc' = [pc EXCEPT ![p] = "failJob"]
            /\ loc' = [loc EXCEPT ![p].kind = "caught"]
            /\ UNCHANGED ticket
       ELSE Throw(p)
  /\ UNCHANGED <<status, pay, item, ref, job, history>>

Stalled(t) == IF t.stalls < MaxStalls
                THEN [t EXCEPT !.at = "waiting", !.stalls = @ + 1]
                ELSE [t EXCEPT !.at = "failed"]

\* The process dies; the delivery stalls and is handed out again.
Crash(p) ==
  /\ faults < MaxFaults
  /\ pc[p] # "idle"
  /\ faults' = faults + 1
  /\ pc' = [pc EXCEPT ![p] = "idle"]
  /\ loc' = [loc EXCEPT ![p] = NoLoc]
  /\ ticket' = [j \in Jobs |-> IF ticket[j].at = p THEN Stalled(ticket[j]) ELSE ticket[j]]
  /\ UNCHANGED <<status, pay, item, ref, job, history>>

\* The worker lives but loses its lock on the delivery, which stalls.
LoseLock(j) ==
  /\ faults < MaxFaults
  /\ ticket[j].at \in Procs
  /\ faults' = faults + 1
  /\ ticket' = [ticket EXCEPT ![j] = Stalled(@)]
  /\ UNCHANGED <<status, pay, item, ref, job, pc, loc, history>>

\* The next statement of a handler that is under way.
Step(p) ==
  \/ InsertJob(p) \/ Enqueue(p)
  \/ ReadPayment(p) \/ MarkJob(p) \/ MarkItem(p) \/ VendorAccepts(p) \/ VendorRejects(p)
  \/ CompleteJob(p) \/ ConfirmItem(p) \/ FailJob(p) \/ DeadItem(p)
  \/ CheckItems(p) \/ ReadOrder(p) \/ WriteOrder(p)
  \/ RequeueJob(p) \/ QueryVendor(p) \/ ReconcileJob(p) \/ ReconcileItem(p)
  \/ AmbiguousJob(p) \/ AmbiguousItem(p)
  \/ ResolveItem(p) \/ ResolveJob(p) \/ ResetJob(p) \/ ResetItem(p)

Next ==
  \/ \E p \in Procs : Step(p) \/ StatementFails(p) \/ Crash(p) \/ TransitionOrder(p)
  \/ \E p \in Procs, i \in Items :
        CreateSyncJob(p, i) \/ \E to \in {"confirmed", "failed"} : ReadLineItem(p, i, to)
  \/ \E p \in Procs, j \in Jobs :
        Deliver(p, j) \/ ReadStaleJob(p, j) \/ RetryDeadLetterJob(p, j)
  \/ \E j \in Jobs : LoseLock(j)
  \/ \E outcome \in {"captured", "failed"} : SettlePayment(outcome)
  \/ CancelOrder

Spec == Init /\ [][Next]_vars

\* A handler runs on, and a worker takes every delivery that waits: each queue
\* has a worker before its first job.  Nothing obliges staff, the provider or
\* the vendor's choice.
Fairness ==
  /\ \A p \in Procs : WF_vars(Step(p))
  /\ \A j \in Jobs : SF_vars(\E p \in Procs : Deliver(p, j))

FairSpec == Spec /\ Fairness

(***************************************************************************)
(* Properties.                                                             *)
(***************************************************************************)
Stage ==
  {"idle", "insertJob", "enqueue", "readPayment", "markJob", "markItem", "call",
   "completeJob", "confirmItem", "failJob", "deadItem", "checkItems", "readOrder",
   "writeOrder", "requeueJob", "queryVendor", "reconcileJob", "reconcileItem",
   "ambiguousJob", "ambiguousItem", "resolveItem", "resolveJob", "resetJob", "resetItem"}

Reading ==
  [kind : {"create", "sync", "caught", "reconcile", "resolve", "retry", "transition"},
   job : Jobs \cup {NoJob}, item : Items, tries : Nat,
   next : OrderStatus \cup FulfillmentStatus]

Ticket == [at : {"none", "waiting", "done", "failed"} \cup Procs, throws : Nat, stalls : Nat]

\* Every variable has its type.
TypeOK ==
  /\ status \in OrderStatus
  /\ pay \in PaymentStatus
  /\ item \in [Items -> FulfillmentStatus]
  /\ ref \in SUBSET Items
  /\ job \in [Jobs -> JobRow \cup {NoRow}]
  /\ ticket \in [Jobs -> Ticket]
  /\ pc \in [Procs -> Stage]
  /\ loc \in [Procs -> {NoLoc} \cup Reading]
  /\ sent \in [Items -> Nat]
  /\ cleared \in BOOLEAN
  /\ resolved \in SUBSET Items
  /\ shipped \in BOOLEAN
  /\ faults \in Nat

\* No vendor is asked to fulfil an order whose payment was never captured
\* (assertPaymentCapturedOrLegacy, in createSyncJob and processSyncJob).
OnlyPaidSent == (\E i \in Items : sent[i] > 0) => cleared

\* Fulfilment is never recorded out of thin air: a confirmed line item and a
\* completed job stand for a vendor that accepted or an admin who resolved,
\* however stale the handler that wrote them.
Earned(i) == sent[i] > 0 \/ i \in resolved
ConfirmedIsEarned ==
  /\ \A i \in Items : item[i] = "confirmed" => Earned(i)
  /\ \A j \in Created : job[j].status = "completed" => Earned(job[j].item)

\* An order is fulfilled only once every line item was accepted by its vendor
\* or resolved by an admin, unless an admin shipped it by hand.
FulfilledIsEarned == status = "fulfilled" => shipped \/ \A i \in Items : Earned(i)

\* Every duplicate request to a vendor is explained by a second job for the
\* line item or by a fault: reconciliation never hands out a job a live worker
\* still has, and no worker takes a job that is done.
DuplicatesExplained ==
  \A i \in Items : sent[i] =< Cardinality(JobsOf(i)) + faults

\* checkOrderFulfillment: "never flip a terminal order back to an active
\* status", a cancelled or fulfilled order stays terminal.
TerminalStays ==
  [][status' # status => status \notin {"fulfilled", "cancelled"}]_vars

\* processSyncJob: a retry after a crash is safe, the vendor is not asked to
\* fulfil the same line item again.
NotSentTwice == \A i \in Items : sent[i] =< 1

\* A failed sync is retried until it succeeds or is dead.
FailedJobRetried ==
  \A j \in Jobs :
    (job[j] # NoRow /\ job[j].status = "pending" /\ job[j].attempts > 0)
       ~> (job[j].status # "pending")

\* When every line item has been queued and vendors accept, the order is
\* fulfilled, although no worker knows which of them comes last.
Queued(i) == \E j \in JobsOf(i) : ticket[j].at # "none"
OrderFulfilled == (\A i \in Items : Queued(i)) ~> status = "fulfilled"

(***************************************************************************)
(* Why it holds: the inductive invariant of the proofs.                    *)
(***************************************************************************)
Jobless == {"insertJob", "resolveItem", "checkItems", "readOrder", "writeOrder"}

\* What a handler at stage a has read is a row: its job exists and is a job for
\* its line item, and the status it is going to write is one.
Knows(a, l) ==
  a # "idle" =>
    /\ l \in Reading
    /\ l.job # NoJob => job[l.job] # NoRow /\ job[l.job].item = l.item
    /\ a \notin Jobless \/ l.kind = "sync" => l.job # NoJob
    /\ a \in {"resolveItem", "resolveJob"} => l.next \in {"confirmed", "failed"}
    /\ a \in {"readOrder", "writeOrder"} => l.next \in OrderStatus

\* Only a job that exists has a delivery.
QueuedIsCreated == \A j \in Jobs : ticket[j].at # "none" => job[j] # NoRow

\* A handler past a check still has what the check was for, however much has
\* happened since: the payment was captured, the item was accepted or resolved,
\* the whole order was.
Justified(a, l) ==
  /\ a \in {"markJob", "markItem", "call"} => cleared
  /\ a \in {"completeJob", "confirmItem"} => Earned(l.item)
  /\ a \in {"queryVendor", "reconcileJob", "reconcileItem"} => l.item \in ref
  /\ a = "resolveJob" /\ l.next = "confirmed" => Earned(l.item)
  /\ a \in {"readOrder", "writeOrder"} /\ l.next = "fulfilled" /\ l.kind # "transition" =>
       \A i \in Items : Earned(i)

\* A vendor reference is earned, and a payment that passes was once captured.
RecordsOK ==
  /\ \A i \in ref : Earned(i)
  /\ PaymentOk => cleared

IInv ==
  /\ TypeOK
  /\ \A p \in Procs : Knows(pc[p], loc[p]) /\ Justified(pc[p], loc[p])
  /\ QueuedIsCreated
  /\ RecordsOK
  /\ OnlyPaidSent
  /\ ConfirmedIsEarned
  /\ FulfilledIsEarned

(***************************************************************************)
(* Why duplicates are explained: requests to the vendor are counted        *)
(* against the jobs and the faults that account for them.                  *)
(***************************************************************************)
\* A sync that may still ask the vendor for i, and a job of i that may still be
\* handed to one.
Asking(i) ==
  {p \in Procs : pc[p] \in {"readPayment", "markJob", "markItem", "call"} /\ loc[p].item = i}
Undelivered(i) == {j \in JobsOf(i) : ticket[j].at \in {"none", "waiting"}}

\* Every request made or still to come has its job or its fault.
Budgeted(i) ==
  /\ IsFiniteSet(Asking(i)) /\ IsFiniteSet(JobsOf(i))
  /\ sent[i] + Cardinality(Asking(i)) + Cardinality(Undelivered(i))
       =< Cardinality(JobsOf(i)) + faults

\* A handler holds the delivery of the job it syncs and no other.
HoldsItsOwn(p) ==
  \A j \in Jobs : ticket[j].at = p =>
    pc[p] # "idle" /\ loc[p].kind \in {"sync", "caught"} /\ loc[p].job = j

\* A job is queued by the request that inserted it, once.
QueuesOnce(p) ==
  /\ pc[p] \in {"insertJob", "enqueue"} => loc[p].kind = "create"
  /\ pc[p] = "enqueue" =>
       /\ ticket[loc[p].job].at = "none"
       /\ \A q \in Procs \ {p} : pc[q] = "enqueue" => loc[q].job # loc[p].job

Accounted ==
  /\ \A p \in Procs : HoldsItsOwn(p) /\ QueuesOnce(p)
  /\ \A i \in Items : Budgeted(i)
================================================================================
