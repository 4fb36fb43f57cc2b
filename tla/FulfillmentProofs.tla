--------------------------- MODULE FulfillmentProofs ---------------------------
(***************************************************************************)
(* What is proved about Fulfillment for every set of line items, jobs and  *)
(* handlers and every bound on attempts, stalls and faults: the inductive  *)
(* invariant IInv and the safety properties of the passing runs that are   *)
(* part of it; then, relative to it, Accounted and what it says of         *)
(* duplicate requests.                                                     *)
(***************************************************************************)
EXTENDS Fulfillment, FiniteSetTheorems, TLAPS

(***************************************************************************)
(* The data.                                                               *)
(***************************************************************************)
\* A missing row is not a job, a handler that has read nothing has no reading.
LEMMA NonesApart == NoRow \notin JobRow /\ NoLoc \notin Reading
  BY DEF NoRow, JobRow, NoLoc, Reading, SyncJobStatus

\* What a handler reads when it starts is a reading.
LEMMA LocFacts ==
  ASSUME NEW kind \in {"create", "sync", "caught", "reconcile", "resolve", "retry",
                       "transition"},
         NEW j \in Jobs \cup {NoJob}, NEW i \in Items, NEW tries \in Nat,
         NEW next \in OrderStatus \cup FulfillmentStatus
  PROVE  /\ Loc(kind, j, i, tries, next) \in Reading
         /\ Loc(kind, j, i, tries, next).kind = kind
         /\ Loc(kind, j, i, tries, next).job = j
         /\ Loc(kind, j, i, tries, next).item = i
         /\ Loc(kind, j, i, tries, next).tries = tries
         /\ Loc(kind, j, i, tries, next).next = next
  BY DEF Loc, Reading

\* A row that exists is a job for one of the order's line items.
LEMMA RowFacts ==
  ASSUME TypeOK, NEW j \in Jobs, job[j] # NoRow
  PROVE  /\ job[j] \in JobRow
         /\ job[j].item \in Items
         /\ job[j].status \in SyncJobStatus
         /\ job[j].attempts \in Nat
  BY DEF TypeOK, JobRow

\* Rethrow and Stalled keep a delivery a delivery of a job that was queued.
LEMMA TicketFacts ==
  ASSUME NEW t \in Ticket
  PROVE  /\ Rethrow(t) \in Ticket /\ Rethrow(t).at # "none"
         /\ Stalled(t) \in Ticket /\ Stalled(t).at # "none"
         /\ [t EXCEPT !.at = "done"] \in Ticket
         /\ [t EXCEPT !.at = "waiting"] \in Ticket
         /\ \A p \in Procs : [t EXCEPT !.at = p] \in Ticket
<1>1. \A at \in {"done", "waiting", "failed"} \cup Procs : [t EXCEPT !.at = at] \in Ticket
  BY DEF Ticket
<1>2. t.throws + 1 \in Nat /\ t.stalls + 1 \in Nat
  BY DEF Ticket
<1>3. Rethrow(t) \in Ticket /\ Rethrow(t).at # "none"
  BY <1>2 DEF Ticket, Rethrow
<1>4. Stalled(t) \in Ticket /\ Stalled(t).at # "none"
  BY <1>2 DEF Ticket, Stalled
<1> QED  BY <1>1, <1>3, <1>4

(***************************************************************************)
(* How a step moves the handlers.                                          *)
(***************************************************************************)
Alone(p) == \A q \in Procs \ {p} : pc'[q] = pc[q] /\ loc'[q] = loc[q]

\* Jobs stay, each with its line item.
JobsKept == \A j \in Jobs : job[j] # NoRow => job'[j] # NoRow /\ job'[j].item = job[j].item

\* What was cleared or earned stays so.
HistoryKept ==
  /\ cleared => cleared'
  /\ ref \subseteq ref'
  /\ \A i \in Items : Earned(i) => Earned(i)'

\* Deliveries stay deliveries, and none appears.
QueueKept ==
  /\ ticket' \in [Jobs -> Ticket]
  /\ \A j \in Jobs : ticket[j].at = "none" => ticket'[j].at = "none"

\* A handler that goes on to its next statement.
LEMMA GotoFacts ==
  ASSUME TypeOK, NEW p \in Procs, NEW at \in Stage, Goto(p, at)
  PROVE  /\ pc' \in [Procs -> Stage] /\ loc' \in [Procs -> {NoLoc} \cup Reading]
         /\ QueueKept /\ Alone(p)
         /\ pc'[p] = at /\ loc'[p] = loc[p]
  BY DEF TypeOK, Goto, QueueKept, Alone

\* A handler that returns.
LEMMA ReturnFacts ==
  ASSUME TypeOK, NEW p \in Procs, Return(p)
  PROVE  /\ pc' \in [Procs -> Stage] /\ loc' \in [Procs -> {NoLoc} \cup Reading]
         /\ QueueKept /\ Alone(p)
         /\ pc'[p] = "idle"
<1>1. /\ pc' \in [Procs -> Stage] /\ loc' \in [Procs -> {NoLoc} \cup Reading]
      /\ Alone(p) /\ pc'[p] = "idle"
  BY DEF TypeOK, Return, Alone, Stage
<1>2. QueueKept
  BY TicketFacts, ProcsAssumption DEF TypeOK, Return, QueueKept
<1> QED  BY <1>1, <1>2

\* A handler that throws.
LEMMA ThrowFacts ==
  ASSUME TypeOK, NEW p \in Procs, Throw(p)
  PROVE  /\ pc' \in [Procs -> Stage] /\ loc' \in [Procs -> {NoLoc} \cup Reading]
         /\ QueueKept /\ Alone(p)
         /\ pc'[p] = "idle"
<1>1. /\ pc' \in [Procs -> Stage] /\ loc' \in [Procs -> {NoLoc} \cup Reading]
      /\ Alone(p) /\ pc'[p] = "idle"
  BY DEF TypeOK, Throw, Alone, Stage
<1>2. QueueKept
  BY TicketFacts, ProcsAssumption DEF TypeOK, Throw, QueueKept
<1> QED  BY <1>1, <1>2

LEMMA ThenFacts ==
  ASSUME TypeOK, NEW p \in Procs, NEW at \in Stage, Then(p, at)
  PROVE  /\ pc' \in [Procs -> Stage] /\ loc' \in [Procs -> {NoLoc} \cup Reading]
         /\ QueueKept /\ Alone(p)
         /\ pc'[p] = at
         /\ at # "idle" => loc'[p] = loc[p]
  BY GotoFacts, ReturnFacts DEF Then

\* A handler that starts.
LEMMA StartFacts ==
  ASSUME TypeOK, NEW p \in Procs, NEW at \in Stage, NEW l \in Reading, Start(p, at, l)
  PROVE  /\ pc' \in [Procs -> Stage] /\ loc' \in [Procs -> {NoLoc} \cup Reading]
         /\ Alone(p)
         /\ pc'[p] = at /\ loc'[p] = l
  BY DEF TypeOK, Start, Alone

(***************************************************************************)
(* What a step must keep.                                                  *)
(***************************************************************************)
\* A handler that does not move knows and may do what it did before.
LEMMA OthersInv ==
  ASSUME TypeOK, TypeOK', NEW p \in Procs, Knows(pc[p], loc[p]), Justified(pc[p], loc[p]),
         pc'[p] = pc[p], loc'[p] = loc[p], JobsKept, HistoryKept
  PROVE  Knows(pc[p], loc[p])' /\ Justified(pc[p], loc[p])'
<1>1. Knows(pc[p], loc[p])'
  BY DEF Knows, JobsKept, Reading
<1>2. Justified(pc[p], loc[p])'
  <2>1. pc[p] # "idle" => loc[p].item \in Items
    BY DEF Knows, Reading
  <2> QED  BY <2>1 DEF Justified, HistoryKept
<1> QED  BY <1>1, <1>2

\* The conjuncts of IInv that no single handler owns.
Records == QueuedIsCreated /\ RecordsOK /\ OnlyPaidSent /\ ConfirmedIsEarned /\ FulfilledIsEarned

\* A step of p keeps the invariant if p knows and may do what it does next and
\* the records are in order.
LEMMA StepInv ==
  ASSUME IInv, NEW p \in Procs, TypeOK', Alone(p), JobsKept, HistoryKept, Records',
         Knows(pc[p], loc[p])', Justified(pc[p], loc[p])'
  PROVE  IInv'
<1>1. \A q \in Procs : Knows(pc[q], loc[q])' /\ Justified(pc[q], loc[q])'
  <2> SUFFICES ASSUME NEW q \in Procs, q # p
               PROVE  Knows(pc[q], loc[q])' /\ Justified(pc[q], loc[q])'
    OBVIOUS
  <2> QED  BY OthersInv DEF Alone, IInv
<1> QED  BY <1>1 DEF IInv, Records

(***************************************************************************)
(* The three kinds of statement: one that writes nothing, one that writes  *)
(* a job, one that writes a line item.                                     *)
(***************************************************************************)
\* A step that writes no row.
LEMMA QuietInv ==
  ASSUME IInv, NEW p \in Procs, UNCHANGED <<status, pay, item, ref, job, history>>,
         faults' \in Nat, QueueKept, Alone(p),
         pc' \in [Procs -> Stage], loc' \in [Procs -> {NoLoc} \cup Reading],
         Knows(pc[p], loc[p])', Justified(pc[p], loc[p])'
  PROVE  IInv'
<1> USE DEF IInv
<1>1. TypeOK'
  BY DEF TypeOK, QueueKept, history
<1>2. JobsKept /\ HistoryKept
  BY DEF JobsKept, HistoryKept, Earned, history
<1>3. Records'
  <2>1. QueuedIsCreated'
    BY DEF QueuedIsCreated, QueueKept
  <2>2. RecordsOK' /\ OnlyPaidSent'
    BY DEF RecordsOK, OnlyPaidSent, PaymentOk, Earned, history
  <2>3. ConfirmedIsEarned' /\ FulfilledIsEarned'
    BY DEF ConfirmedIsEarned, FulfilledIsEarned, Earned, Created, history
  <2> QED  BY <2>1, <2>2, <2>3 DEF Records
<1> QED  BY <1>1, <1>2, <1>3, StepInv

\* A handler that goes on without writing.
LEMMA QuietGotoInv ==
  ASSUME IInv, NEW p \in Procs, NEW at \in Stage, Goto(p, at),
         UNCHANGED <<status, pay, item, ref, job, history, faults>>,
         Knows(at, loc[p]), Justified(at, loc[p])
  PROVE  IInv'
<1>1. TypeOK
  BY DEF IInv
<1>2. Knows(pc[p], loc[p])' /\ Justified(pc[p], loc[p])'
  BY <1>1, GotoFacts DEF Knows, Justified, Earned, history
<1> QED  BY <1>1, <1>2, GotoFacts, QuietInv DEF TypeOK

\* Nothing is asked of a handler that is done.
LEMMA IdleFits ==
  ASSUME NEW p \in Procs, pc'[p] = "idle"
  PROVE  Knows(pc[p], loc[p])' /\ Justified(pc[p], loc[p])'
  BY DEF Knows, Justified

\* A handler that returns or throws without writing.
LEMMA QuietEndInv ==
  ASSUME IInv, NEW p \in Procs, Return(p) \/ Throw(p),
         UNCHANGED <<status, pay, item, ref, job, history>>, faults' \in Nat
  PROVE  IInv'
<1>1. TypeOK
  BY DEF IInv
<1> QED  BY <1>1, ReturnFacts, ThrowFacts, IdleFits, QuietInv

\* A handler writes the status and attempts of the job it works on.
LEMMA WriteJobInv ==
  ASSUME IInv, NEW p \in Procs, NEW to \in SyncJobStatus, NEW attempts \in Nat,
         NEW at \in Stage, WriteJob(p, to, attempts, at),
         pc[p] # "idle", loc[p].job # NoJob,
         to = "completed" => Earned(loc[p].item),
         Knows(at, loc[p]), Justified(at, loc[p])
  PROVE  IInv'
<1> DEFINE j == loc[p].job
<1> USE DEF IInv
<1>1. loc[p] \in Reading /\ j \in Jobs /\ job[j] # NoRow /\ job[j].item = loc[p].item
  BY DEF Knows, Reading
<1>2. job[j] \in JobRow
  BY <1>1, RowFacts
<1>3. /\ job' = [job EXCEPT ![j] = [job[j] EXCEPT !.status = to, !.attempts = attempts]]
      /\ Then(p, at)
      /\ UNCHANGED <<status, pay, item, ref, history, faults>>
  BY <1>1 DEF WriteJob, TypeOK
<1>4. /\ pc' \in [Procs -> Stage] /\ loc' \in [Procs -> {NoLoc} \cup Reading]
      /\ QueueKept /\ Alone(p)
      /\ pc'[p] = at
      /\ at # "idle" => loc'[p] = loc[p]
  BY <1>3, ThenFacts
<1>5. /\ job'[j] \in JobRow /\ job'[j].item = job[j].item /\ job'[j].status = to
      /\ \A k \in Jobs \ {j} : job'[k] = job[k]
      /\ job' \in [Jobs -> JobRow \cup {NoRow}]
  BY <1>1, <1>2, <1>3 DEF JobRow, TypeOK
<1>6. TypeOK'
  BY <1>3, <1>4, <1>5 DEF TypeOK, QueueKept, history
<1>7. JobsKept /\ HistoryKept
  BY <1>1, <1>3, <1>5, NonesApart DEF JobsKept, HistoryKept, Earned, history
<1>8. Knows(pc[p], loc[p])' /\ Justified(pc[p], loc[p])'
  <2>1. CASE at = "idle"
    BY <1>4, <2>1, IdleFits
  <2>2. CASE at # "idle"
    <3>1. Knows(pc[p], loc[p])'
      BY <1>1, <1>4, <1>7, <2>2 DEF Knows, JobsKept
    <3>2. Justified(pc[p], loc[p])'
      BY <1>3, <1>4, <2>2 DEF Justified, Earned, history
    <3> QED  BY <3>1, <3>2
  <2> QED  BY <2>1, <2>2
<1>9. Records'
  <2>1. QueuedIsCreated'
    BY <1>4, <1>7 DEF QueuedIsCreated, QueueKept, JobsKept
  <2>2. RecordsOK' /\ OnlyPaidSent' /\ FulfilledIsEarned'
    BY <1>3 DEF RecordsOK, OnlyPaidSent, FulfilledIsEarned, PaymentOk, Earned, history
  <2>3. ConfirmedIsEarned'
    BY <1>1, <1>3, <1>5 DEF ConfirmedIsEarned, Earned, Created, history
  <2> QED  BY <2>1, <2>2, <2>3 DEF Records
<1> QED  BY <1>4, <1>6, <1>7, <1>8, <1>9, StepInv

\* A handler writes the status of its line item, and perhaps its vendor
\* reference.
LEMMA WriteItemInv ==
  ASSUME IInv, NEW p \in Procs, NEW to \in FulfillmentStatus, NEW at \in Stage,
         WriteItem(p, to, at), ref' \in {ref, ref \cup {loc[p].item}},
         pc[p] # "idle",
         to = "confirmed" \/ ref' # ref => Earned(loc[p].item),
         Knows(at, loc[p]), Justified(at, loc[p])
  PROVE  IInv'
<1> DEFINE i == loc[p].item
<1> USE DEF IInv
<1>1. loc[p] \in Reading /\ i \in Items
  BY DEF Knows, Reading
<1>2. /\ item' = [item EXCEPT ![i] = to]
      /\ Then(p, at)
      /\ UNCHANGED <<status, pay, job, history, faults>>
  BY DEF WriteItem
<1>3. /\ pc' \in [Procs -> Stage] /\ loc' \in [Procs -> {NoLoc} \cup Reading]
      /\ QueueKept /\ Alone(p)
      /\ pc'[p] = at
      /\ at # "idle" => loc'[p] = loc[p]
  BY <1>2, ThenFacts
<1>4. TypeOK'
  BY <1>1, <1>2, <1>3 DEF TypeOK, QueueKept, history
<1>5. JobsKept /\ HistoryKept
  BY <1>2 DEF JobsKept, HistoryKept, Earned, history
<1>6. Knows(pc[p], loc[p])' /\ Justified(pc[p], loc[p])'
  <2>1. CASE at = "idle"
    BY <1>3, <2>1, IdleFits
  <2>2. CASE at # "idle"
    <3>1. Knows(pc[p], loc[p])'
      BY <1>2, <1>3, <2>2 DEF Knows
    <3>2. Justified(pc[p], loc[p])'
      BY <1>2, <1>3, <1>5, <2>2 DEF Justified, Earned, history, HistoryKept
    <3> QED  BY <3>1, <3>2
  <2> QED  BY <2>1, <2>2
<1>7. Records'
  <2>1. QueuedIsCreated'
    BY <1>2, <1>3 DEF QueuedIsCreated, QueueKept
  <2>2. RecordsOK' /\ OnlyPaidSent' /\ FulfilledIsEarned'
    BY <1>1, <1>2 DEF RecordsOK, OnlyPaidSent, FulfilledIsEarned, PaymentOk, Earned, history
  <2>3. ConfirmedIsEarned'
    BY <1>1, <1>2 DEF ConfirmedIsEarned, Earned, Created, history, TypeOK
  <2> QED  BY <2>1, <2>2, <2>3 DEF Records
<1> QED  BY <1>3, <1>4, <1>5, <1>6, <1>7, StepInv

\* A handler that starts with what l says.
LEMMA QuietStartInv ==
  ASSUME IInv, NEW p \in Procs, NEW at \in Stage, NEW l \in Reading, Start(p, at, l),
         UNCHANGED <<status, pay, item, ref, job, history, faults>>, QueueKept,
         Knows(at, l), Justified(at, l)
  PROVE  IInv'
<1>1. TypeOK
  BY DEF IInv
<1>2. Knows(pc[p], loc[p])' /\ Justified(pc[p], loc[p])'
  BY <1>1, StartFacts DEF Knows, Justified, Earned, history
<1> QED  BY <1>1, <1>2, StartFacts, QuietInv DEF TypeOK

LEMMA SameQueue == ASSUME TypeOK, ticket' = ticket PROVE QueueKept
  BY DEF TypeOK, QueueKept

(***************************************************************************)
(* createSyncJob and its queue.                                            *)
(***************************************************************************)
LEMMA CreateSyncJobInv ==
  ASSUME IInv, NEW p \in Procs, NEW i \in Items, CreateSyncJob(p, i)
  PROVE  IInv'
<1> DEFINE l == Loc("create", NoJob, i, 0, "pending")
<1>1. /\ l \in Reading /\ l.job = NoJob /\ l.kind = "create"
  BY LocFacts DEF FulfillmentStatus
<1>2. Knows("insertJob", l) /\ Justified("insertJob", l)
  BY <1>1 DEF Knows, Justified, Jobless
<1> QED  BY <1>1, <1>2, SameQueue, QuietStartInv DEF CreateSyncJob, IInv, Stage

LEMMA InsertJobInv ==
  ASSUME IInv, NEW p \in Procs, InsertJob(p)
  PROVE  IInv'
<1> USE DEF IInv
<1>1. PICK j \in Jobs : /\ job[j] = NoRow
                        /\ job' = [job EXCEPT ![j] = [item |-> loc[p].item,
                                                      status |-> "pending", attempts |-> 0]]
                        /\ loc' = [loc EXCEPT ![p].job = j]
  BY DEF InsertJob, Created
<1>2. loc[p] \in Reading /\ loc[p].item \in Items
  BY DEF InsertJob, Knows, Reading
<1>3. /\ job'[j] \in JobRow /\ job'[j].item = loc[p].item /\ job'[j].status = "pending"
      /\ \A k \in Jobs \ {j} : job'[k] = job[k]
      /\ job' \in [Jobs -> JobRow \cup {NoRow}]
  BY <1>1, <1>2 DEF JobRow, SyncJobStatus, TypeOK
<1>4. /\ loc'[p] \in Reading /\ loc'[p].job = j /\ loc'[p].item = loc[p].item
      /\ loc' \in [Procs -> {NoLoc} \cup Reading] /\ pc'[p] = "enqueue"
      /\ pc' \in [Procs -> Stage] /\ Alone(p)
  BY <1>1, <1>2 DEF TypeOK, InsertJob, Reading, Alone, Stage
<1>5. UNCHANGED <<status, pay, item, ref, ticket, history, faults>>
  BY DEF InsertJob
<1>6. TypeOK'
  BY <1>3, <1>4, <1>5 DEF TypeOK, history
<1>7. JobsKept /\ HistoryKept
  BY <1>1, <1>3, <1>5 DEF JobsKept, HistoryKept, Earned, history
<1>8. Knows(pc[p], loc[p])' /\ Justified(pc[p], loc[p])'
  BY <1>3, <1>4, NonesApart, NoJobAssumption DEF Knows, Justified
<1>9. Records'
  <2>1. QueuedIsCreated'
    BY <1>5, <1>7 DEF QueuedIsCreated, JobsKept
  <2>2. RecordsOK' /\ OnlyPaidSent' /\ FulfilledIsEarned'
    BY <1>5 DEF RecordsOK, OnlyPaidSent, FulfilledIsEarned, PaymentOk, Earned, history
  <2>3. ConfirmedIsEarned'
    BY <1>3, <1>5 DEF ConfirmedIsEarned, Earned, Created, history
  <2> QED  BY <2>1, <2>2, <2>3 DEF Records
<1> QED  BY <1>4, <1>6, <1>7, <1>8, <1>9, StepInv

LEMMA EnqueueInv ==
  ASSUME IInv, NEW p \in Procs, Enqueue(p)
  PROVE  IInv'
<1> DEFINE j == loc[p].job
<1> USE DEF IInv
<1>1. j \in Jobs /\ job[j] # NoRow
  BY DEF Enqueue, Knows, Jobless, Reading
<1>2. /\ ticket' = [ticket EXCEPT ![j] = [ticket[j] EXCEPT !.at = "waiting"]]
      /\ UNCHANGED <<status, pay, item, ref, job, history, faults>>
  BY DEF Enqueue
<1>3. /\ pc' \in [Procs -> Stage] /\ loc' \in [Procs -> {NoLoc} \cup Reading]
      /\ Alone(p) /\ pc'[p] = "idle"
  BY DEF TypeOK, Enqueue, Alone, Stage
<1>4. ticket' \in [Jobs -> Ticket] /\ \A k \in Jobs \ {j} : ticket'[k] = ticket[k]
  BY <1>1, <1>2, TicketFacts DEF TypeOK
<1>5. TypeOK'
  BY <1>2, <1>3, <1>4 DEF TypeOK, history
<1>6. JobsKept /\ HistoryKept
  BY <1>2 DEF JobsKept, HistoryKept, Earned, history
<1>7. Records'
  <2>1. QueuedIsCreated'
    BY <1>1, <1>2, <1>4 DEF QueuedIsCreated
  <2>2. RecordsOK' /\ OnlyPaidSent' /\ FulfilledIsEarned'
    BY <1>2 DEF RecordsOK, OnlyPaidSent, FulfilledIsEarned, PaymentOk, Earned, history
  <2>3. ConfirmedIsEarned'
    BY <1>2 DEF ConfirmedIsEarned, Earned, Created, history
  <2> QED  BY <2>1, <2>2, <2>3 DEF Records
<1> QED  BY <1>3, <1>5, <1>6, <1>7, IdleFits, StepInv

(***************************************************************************)
(* processSyncJob.                                                         *)
(***************************************************************************)
LEMMA DeliverInv ==
  ASSUME IInv, NEW p \in Procs, NEW j \in Jobs, Deliver(p, j)
  PROVE  IInv'
<1> USE DEF IInv
<1>1. job[j] # NoRow
  BY DEF Deliver, QueuedIsCreated
<1>2. UNCHANGED <<status, pay, item, ref, job, history, faults>>
  BY DEF Deliver
<1>3. CASE job[j].status = "completed"
  <2>1. /\ ticket' = [ticket EXCEPT ![j] = [ticket[j] EXCEPT !.at = "done"]]
        /\ UNCHANGED <<pc, loc>>
    BY <1>3 DEF Deliver
  <2>2. QueueKept
    BY <2>1, TicketFacts DEF TypeOK, QueueKept, Deliver
  <2>3. TypeOK'
    BY <1>2, <2>1, <2>2 DEF TypeOK, QueueKept, history
  <2>4. Knows(pc[p], loc[p])' /\ Justified(pc[p], loc[p])'
    BY <1>2, <2>1 DEF Knows, Justified, Earned, history
  <2> QED  BY <1>2, <2>1, <2>2, <2>3, <2>4, QuietInv DEF TypeOK, Alone
<1>4. CASE job[j].status # "completed"
  <2> DEFINE l == Loc("sync", j, job[j].item, job[j].attempts, "pending")
  <2>1. /\ ticket' = [ticket EXCEPT ![j] = [ticket[j] EXCEPT !.at = p]]
        /\ Start(p, "readPayment", l)
    BY <1>4 DEF Deliver
  <2>2. QueueKept
    BY <2>1, TicketFacts DEF TypeOK, QueueKept, Deliver
  <2>3. l \in Reading /\ l.job = j /\ l.item = job[j].item
    BY <1>1, RowFacts, LocFacts DEF FulfillmentStatus
  <2>4. Knows("readPayment", l) /\ Justified("readPayment", l)
    BY <1>1, <2>3, NoJobAssumption DEF Knows, Justified
  <2> QED  BY <1>2, <2>1, <2>2, <2>3, <2>4, QuietStartInv DEF Stage
<1> QED  BY <1>3, <1>4

\* The facts a worker past its first statement relies on.
LEMMA JobHolder ==
  ASSUME IInv, NEW p \in Procs, pc[p] # "idle", pc[p] \notin Jobless
  PROVE  /\ loc[p] \in Reading /\ loc[p].item \in Items
         /\ loc[p].job # NoJob /\ loc[p].job \in Jobs
         /\ job[loc[p].job] # NoRow /\ job[loc[p].job].item = loc[p].item
         /\ job[loc[p].job].attempts \in Nat
         /\ loc[p].tries + 1 \in Nat
<1>1. /\ loc[p] \in Reading /\ loc[p].job # NoJob
      /\ job[loc[p].job] # NoRow /\ job[loc[p].job].item = loc[p].item
  BY DEF IInv, Knows
<1>2. loc[p].item \in Items /\ loc[p].job \in Jobs /\ loc[p].tries \in Nat
  BY <1>1 DEF Reading
<1> QED  BY <1>1, <1>2, RowFacts DEF IInv

LEMMA ReadPaymentInv ==
  ASSUME IInv, NEW p \in Procs, ReadPayment(p)
  PROVE  IInv'
<1>1. pc[p] = "readPayment" /\ UNCHANGED <<status, pay, item, ref, job, history, faults>>
  BY DEF ReadPayment
<1>2. CASE PaymentOk
  <2>1. Knows("markJob", loc[p]) /\ Justified("markJob", loc[p])
    BY <1>1, <1>2, JobHolder DEF Knows, Justified, IInv, RecordsOK, Jobless
  <2> QED  BY <1>1, <1>2, <2>1, QuietGotoInv DEF ReadPayment, Stage
<1>3. CASE ~PaymentOk
  BY <1>1, <1>3, QuietEndInv DEF ReadPayment, IInv, TypeOK
<1> QED  BY <1>2, <1>3

LEMMA MarkJobInv ==
  ASSUME IInv, NEW p \in Procs, MarkJob(p)
  PROVE  IInv'
<1>1. pc[p] = "markJob"
  BY DEF MarkJob
<1>2. Knows("markItem", loc[p]) /\ Justified("markItem", loc[p])
  BY <1>1, JobHolder DEF Knows, Justified, IInv, Jobless
<1> QED  BY <1>1, <1>2, JobHolder, WriteJobInv DEF MarkJob, SyncJobStatus, Stage, Jobless

LEMMA MarkItemInv ==
  ASSUME IInv, NEW p \in Procs, MarkItem(p)
  PROVE  IInv'
<1>1. pc[p] = "markItem"
  BY DEF MarkItem
<1>2. Knows("call", loc[p]) /\ Justified("call", loc[p])
  BY <1>1, JobHolder DEF Knows, Justified, IInv, Jobless
<1> QED  BY <1>1, <1>2, WriteItemInv DEF MarkItem, FulfillmentStatus, Stage

LEMMA VendorAcceptsInv ==
  ASSUME IInv, NEW p \in Procs, VendorAccepts(p)
  PROVE  IInv'
<1> DEFINE i == loc[p].item
<1> USE DEF IInv
<1>1. /\ pc[p] = "call"
      /\ sent' = [sent EXCEPT ![i] = sent[i] + 1]
      /\ Goto(p, "completeJob")
      /\ UNCHANGED <<status, pay, item, ref, job, cleared, resolved, shipped, faults>>
  BY DEF VendorAccepts
<1>2. i \in Items /\ cleared
  BY <1>1, JobHolder DEF Justified, Jobless
<1>3. sent' \in [Items -> Nat] /\ sent'[i] > 0 /\ \A k \in Items : sent[k] > 0 => sent'[k] > 0
  BY <1>1, <1>2 DEF TypeOK
<1>4. /\ pc' \in [Procs -> Stage] /\ loc' \in [Procs -> {NoLoc} \cup Reading]
      /\ QueueKept /\ Alone(p)
      /\ pc'[p] = "completeJob" /\ loc'[p] = loc[p]
  BY <1>1, GotoFacts DEF Stage
<1>5. TypeOK'
  BY <1>1, <1>3, <1>4 DEF TypeOK, QueueKept
<1>6. JobsKept /\ HistoryKept
  BY <1>1, <1>3 DEF JobsKept, HistoryKept, Earned
<1>7. Knows(pc[p], loc[p])' /\ Justified(pc[p], loc[p])'
  BY <1>1, <1>3, <1>4, JobHolder DEF Knows, Justified, Earned, Jobless
<1>8. Records'
  <2>1. QueuedIsCreated'
    BY <1>1, <1>4 DEF QueuedIsCreated, QueueKept
  <2>2. RecordsOK'
    BY <1>1, <1>6 DEF RecordsOK, PaymentOk, HistoryKept, TypeOK
  <2>3. OnlyPaidSent'
    BY <1>1, <1>2 DEF OnlyPaidSent
  <2>4. ConfirmedIsEarned' /\ FulfilledIsEarned'
    <3>1. \A j \in Jobs : job[j] # NoRow => job[j].item \in Items
      BY RowFacts
    <3> QED  BY <1>1, <1>6, <3>1 DEF ConfirmedIsEarned, FulfilledIsEarned, HistoryKept, Created
  <2> QED  BY <2>1, <2>2, <2>3, <2>4 DEF Records
<1> QED  BY <1>4, <1>5, <1>6, <1>7, <1>8, StepInv

LEMMA VendorRejectsInv ==
  ASSUME IInv, NEW p \in Procs, VendorRejects(p)
  PROVE  IInv'
<1>1. pc[p] = "call"
  BY DEF VendorRejects
<1>2. Knows("failJob", loc[p]) /\ Justified("failJob", loc[p])
  BY <1>1, JobHolder DEF Knows, Justified, Jobless
<1> QED  BY <1>2, QuietGotoInv DEF VendorRejects, Stage

LEMMA CompleteJobInv ==
  ASSUME IInv, NEW p \in Procs, CompleteJob(p)
  PROVE  IInv'
<1>1. pc[p] = "completeJob"
  BY DEF CompleteJob
<1>2. Earned(loc[p].item)
  BY <1>1 DEF IInv, Justified
<1>3. Knows("confirmItem", loc[p]) /\ Justified("confirmItem", loc[p])
  BY <1>1, <1>2, JobHolder DEF Knows, Justified, Jobless
<1> QED  BY <1>1, <1>2, <1>3, JobHolder, WriteJobInv
            DEF CompleteJob, MyAttempts, SyncJobStatus, Stage, Jobless

LEMMA ConfirmItemInv ==
  ASSUME IInv, NEW p \in Procs, ConfirmItem(p)
  PROVE  IInv'
<1>1. pc[p] = "confirmItem"
  BY DEF ConfirmItem
<1>2. Earned(loc[p].item)
  BY <1>1 DEF IInv, Justified
<1>3. Knows("checkItems", loc[p]) /\ Justified("checkItems", loc[p])
  BY <1>1, JobHolder DEF Knows, Justified, Jobless
<1> QED  BY <1>1, <1>2, <1>3, WriteItemInv DEF ConfirmItem, FulfillmentStatus, Stage

(***************************************************************************)
(* checkOrderFulfillment and handleSyncFailure.                            *)
(***************************************************************************)
\* A handler in use that has a reading, jobless or not.
LEMMA Reader ==
  ASSUME IInv, NEW p \in Procs, pc[p] # "idle"
  PROVE  loc[p] \in Reading /\ loc[p].item \in Items /\ Knows(pc[p], loc[p])
  BY DEF IInv, Knows, Reading

LEMMA CheckItemsInv ==
  ASSUME IInv, NEW p \in Procs, CheckItems(p)
  PROVE  IInv'
<1>1. pc[p] = "checkItems" /\ UNCHANGED <<status, pay, item, ref, job, history, faults>>
  BY DEF CheckItems
<1>2. CASE AllConfirmed \/ AnyLost
  <2> DEFINE to == IF AllConfirmed THEN "fulfilled" ELSE "fulfilling"
  <2>0. to \in OrderStatus
    BY DEF OrderStatus
  <2>1. /\ loc' = [loc EXCEPT ![p] = [loc[p] EXCEPT !.next = to]]
        /\ pc' = [pc EXCEPT ![p] = "readOrder"]
        /\ ticket' = ticket
    BY <1>2 DEF CheckItems
  <2>2. loc[p] \in Reading
    BY <1>1, Reader
  <2>3. /\ loc'[p] \in Reading /\ loc'[p].next = to /\ loc'[p].kind = loc[p].kind
        /\ loc'[p].job = loc[p].job /\ loc'[p].item = loc[p].item
        /\ loc' \in [Procs -> {NoLoc} \cup Reading]
        /\ pc'[p] = "readOrder" /\ pc' \in [Procs -> Stage] /\ Alone(p)
    <3>1. /\ loc'[p] \in Reading /\ loc'[p].next = to /\ loc'[p].kind = loc[p].kind
          /\ loc'[p].job = loc[p].job /\ loc'[p].item = loc[p].item
      BY <2>0, <2>1, <2>2 DEF IInv, TypeOK, Reading
    <3> QED  BY <2>1, <3>1 DEF IInv, TypeOK, Stage, Alone
  <2>4. to = "fulfilled" => \A i \in Items : Earned(i)
    BY DEF IInv, ConfirmedIsEarned, AllConfirmed
  <2>5. Knows(pc[p], loc[p])'
    BY <1>1, <2>0, <2>3, Reader DEF Knows, Jobless
  <2>6. Justified(pc[p], loc[p])'
    BY <1>1, <2>3, <2>4 DEF Justified, Earned, history
  <2> QED  BY <1>1, <2>1, <2>3, <2>5, <2>6, SameQueue, QuietInv DEF IInv, TypeOK
<1>3. CASE ~(AllConfirmed \/ AnyLost)
  BY <1>1, <1>3, QuietEndInv DEF CheckItems, IInv, TypeOK
<1> QED  BY <1>2, <1>3

LEMMA ReadOrderInv ==
  ASSUME IInv, NEW p \in Procs, ReadOrder(p)
  PROVE  IInv'
<1>1. pc[p] = "readOrder" /\ UNCHANGED <<status, pay, item, ref, job, history, faults>>
  BY DEF ReadOrder
<1>2. Knows("writeOrder", loc[p]) /\ Justified("writeOrder", loc[p])
  <2>1. Justified(pc[p], loc[p])
    BY DEF IInv
  <2> QED  BY <1>1, <2>1, Reader DEF Knows, Justified, Jobless
<1> QED  BY <1>1, <1>2, QuietGotoInv, QuietEndInv DEF ReadOrder, Stage, IInv, TypeOK

LEMMA WriteOrderInv ==
  ASSUME IInv, NEW p \in Procs, WriteOrder(p)
  PROVE  IInv'
<1> USE DEF IInv
<1>1. /\ pc[p] = "writeOrder"
      /\ status' = loc[p].next
      /\ shipped' = (shipped \/ (loc[p].kind = "transition" /\ loc[p].next = "fulfilled"))
      /\ Return(p)
      /\ UNCHANGED <<pay, item, ref, job, sent, cleared, resolved, faults>>
  BY DEF WriteOrder
<1>2. loc[p].next \in OrderStatus
  BY <1>1 DEF Knows
<1>3. /\ pc' \in [Procs -> Stage] /\ loc' \in [Procs -> {NoLoc} \cup Reading]
      /\ QueueKept /\ Alone(p) /\ pc'[p] = "idle"
  BY <1>1, ReturnFacts
<1>4. TypeOK'
  BY <1>1, <1>2, <1>3 DEF TypeOK, QueueKept
<1>5. JobsKept /\ HistoryKept
  BY <1>1 DEF JobsKept, HistoryKept, Earned
<1>6. Records'
  <2>1. QueuedIsCreated'
    BY <1>1, <1>3 DEF QueuedIsCreated, QueueKept
  <2>2. RecordsOK' /\ OnlyPaidSent' /\ ConfirmedIsEarned'
    BY <1>1 DEF RecordsOK, OnlyPaidSent, ConfirmedIsEarned, PaymentOk, Earned, Created
  <2>3. FulfilledIsEarned'
    BY <1>1 DEF FulfilledIsEarned, Earned, Justified
  <2> QED  BY <2>1, <2>2, <2>3 DEF Records
<1> QED  BY <1>3, <1>4, <1>5, <1>6, IdleFits, StepInv

LEMMA FailJobInv ==
  ASSUME IInv, NEW p \in Procs, FailJob(p)
  PROVE  IInv'
<1>1. pc[p] = "failJob"
  BY DEF FailJob
<1>2. \/ WriteJob(p, "dead_letter", loc[p].tries + 1, "deadItem")
      \/ WriteJob(p, "pending", loc[p].tries + 1, "idle")
  BY DEF FailJob
<1>3. Knows("deadItem", loc[p]) /\ Justified("deadItem", loc[p])
  BY <1>1, JobHolder DEF Knows, Justified, Jobless
<1>4. Knows("idle", loc[p]) /\ Justified("idle", loc[p])
  BY DEF Knows, Justified
<1> QED  BY <1>1, <1>2, <1>3, <1>4, JobHolder, WriteJobInv DEF SyncJobStatus, Stage, Jobless

LEMMA DeadItemInv ==
  ASSUME IInv, NEW p \in Procs, DeadItem(p)
  PROVE  IInv'
<1>1. Knows("idle", loc[p]) /\ Justified("idle", loc[p])
  BY DEF Knows, Justified
<1> QED  BY <1>1, WriteItemInv DEF DeadItem, FulfillmentStatus, Stage

(***************************************************************************)
(* reconcile.                                                              *)
(***************************************************************************)
LEMMA ReadStaleJobInv ==
  ASSUME IInv, NEW p \in Procs, NEW j \in Jobs, ReadStaleJob(p, j)
  PROVE  IInv'
<1> DEFINE l == Loc("reconcile", j, job[j].item, 0, "pending")
           at == IF job[j].item \in ref THEN "queryVendor" ELSE "requeueJob"
<1>1. job[j] # NoRow /\ Start(p, at, l)
  BY DEF ReadStaleJob
<1>2. UNCHANGED <<status, pay, item, ref, job, ticket, history, faults>>
  BY DEF ReadStaleJob
<1>3. l \in Reading /\ l.job = j /\ l.item = job[j].item /\ l.kind = "reconcile"
  BY <1>1, RowFacts, LocFacts DEF IInv, FulfillmentStatus
<1>4. Knows(at, l) /\ Justified(at, l)
  BY <1>1, <1>3, NoJobAssumption DEF Knows, Justified
<1> QED  BY <1>1, <1>2, <1>3, <1>4, SameQueue, QuietStartInv DEF IInv, Stage

LEMMA RequeueJobInv ==
  ASSUME IInv, NEW p \in Procs, RequeueJob(p)
  PROVE  IInv'
<1>1. pc[p] = "requeueJob"
  BY DEF RequeueJob
<1>2. Knows("idle", loc[p]) /\ Justified("idle", loc[p])
  BY DEF Knows, Justified
<1> QED  BY <1>1, <1>2, JobHolder, WriteJobInv
            DEF RequeueJob, MyAttempts, SyncJobStatus, Stage, Jobless

LEMMA QueryVendorInv ==
  ASSUME IInv, NEW p \in Procs, QueryVendor(p)
  PROVE  IInv'
<1>1. /\ pc[p] = "queryVendor"
      /\ UNCHANGED <<status, pay, item, ref, job, history, faults>>
  BY DEF QueryVendor
<1>2. loc[p].item \in ref
  BY <1>1 DEF IInv, Justified
<1>3. /\ Knows("reconcileJob", loc[p]) /\ Justified("reconcileJob", loc[p])
      /\ Knows("ambiguousJob", loc[p]) /\ Justified("ambiguousJob", loc[p])
  BY <1>1, <1>2, JobHolder DEF Knows, Justified, Jobless
<1> QED  BY <1>1, <1>3, QuietGotoInv DEF QueryVendor, Stage

LEMMA ReconcileJobInv ==
  ASSUME IInv, NEW p \in Procs, ReconcileJob(p)
  PROVE  IInv'
<1>1. pc[p] = "reconcileJob"
  BY DEF ReconcileJob
<1>2. loc[p].item \in ref /\ Earned(loc[p].item)
  BY <1>1 DEF IInv, Justified, RecordsOK
<1>3. Knows("reconcileItem", loc[p]) /\ Justified("reconcileItem", loc[p])
  BY <1>1, <1>2, JobHolder DEF Knows, Justified, Jobless
<1> QED  BY <1>1, <1>2, <1>3, JobHolder, WriteJobInv
            DEF ReconcileJob, MyAttempts, SyncJobStatus, Stage, Jobless

LEMMA ReconcileItemInv ==
  ASSUME IInv, NEW p \in Procs, ReconcileItem(p)
  PROVE  IInv'
<1>1. pc[p] = "reconcileItem"
  BY DEF ReconcileItem
<1>2. Earned(loc[p].item)
  BY <1>1 DEF IInv, Justified, RecordsOK
<1>3. Knows("idle", loc[p]) /\ Justified("idle", loc[p])
  BY DEF Knows, Justified
<1> QED  BY <1>1, <1>2, <1>3, WriteItemInv DEF ReconcileItem, FulfillmentStatus, Stage

LEMMA AmbiguousJobInv ==
  ASSUME IInv, NEW p \in Procs, AmbiguousJob(p)
  PROVE  IInv'
<1>1. pc[p] = "ambiguousJob"
  BY DEF AmbiguousJob
<1>2. Knows("ambiguousItem", loc[p]) /\ Justified("ambiguousItem", loc[p])
  BY <1>1, JobHolder DEF Knows, Justified, Jobless
<1> QED  BY <1>1, <1>2, JobHolder, WriteJobInv
            DEF AmbiguousJob, MyAttempts, SyncJobStatus, Stage, Jobless

LEMMA AmbiguousItemInv ==
  ASSUME IInv, NEW p \in Procs, AmbiguousItem(p)
  PROVE  IInv'
<1>1. Knows("idle", loc[p]) /\ Justified("idle", loc[p])
  BY DEF Knows, Justified
<1> QED  BY <1>1, WriteItemInv DEF AmbiguousItem, FulfillmentStatus, Stage

(***************************************************************************)
(* manualResolve and the other operations of staff.                        *)
(***************************************************************************)
LEMMA ReadLineItemInv ==
  ASSUME IInv, NEW p \in Procs, NEW i \in Items, NEW to \in {"confirmed", "failed"},
         ReadLineItem(p, i, to)
  PROVE  IInv'
<1>1. PICK j \in IF JobsOf(i) = {} THEN {NoJob} ELSE JobsOf(i) :
              Start(p, "resolveItem", Loc("resolve", j, i, 0, to))
  BY DEF ReadLineItem
<1> DEFINE l == Loc("resolve", j, i, 0, to)
<1>2. j \in Jobs \cup {NoJob} /\ (j # NoJob => job[j] # NoRow /\ job[j].item = i)
  BY DEF JobsOf, Created
<1>3. UNCHANGED <<status, pay, item, ref, job, ticket, history, faults>>
  BY DEF ReadLineItem
<1>4. l \in Reading /\ l.job = j /\ l.item = i /\ l.kind = "resolve" /\ l.next = to
  BY <1>2, LocFacts DEF FulfillmentStatus
<1>5. Knows("resolveItem", l) /\ Justified("resolveItem", l)
  BY <1>2, <1>4 DEF Knows, Justified, Jobless
<1> QED  BY <1>1, <1>3, <1>4, <1>5, SameQueue, QuietStartInv DEF IInv, Stage

LEMMA ResolveItemInv ==
  ASSUME IInv, NEW p \in Procs, ResolveItem(p)
  PROVE  IInv'
<1> DEFINE i == loc[p].item
           at == IF loc[p].job = NoJob THEN "checkItems" ELSE "resolveJob"
<1> USE DEF IInv
<1>1. /\ pc[p] = "resolveItem"
      /\ item' = [item EXCEPT ![i] = loc[p].next]
      /\ ref' \in {ref, ref \cup {i}}
      /\ resolved' = IF loc[p].next = "confirmed" \/ ref' # ref
                       THEN resolved \cup {i} ELSE resolved
      /\ Goto(p, at)
      /\ UNCHANGED <<status, pay, job, sent, cleared, shipped, faults>>
  BY DEF ResolveItem
<1>2. loc[p] \in Reading /\ i \in Items /\ loc[p].next \in {"confirmed", "failed"}
  BY <1>1, Reader DEF Knows
<1>3. /\ pc' \in [Procs -> Stage] /\ loc' \in [Procs -> {NoLoc} \cup Reading]
      /\ QueueKept /\ Alone(p) /\ pc'[p] = at /\ loc'[p] = loc[p]
  BY <1>1, GotoFacts DEF Stage
<1>4. TypeOK'
  BY <1>1, <1>2, <1>3 DEF TypeOK, QueueKept, FulfillmentStatus
<1>5. JobsKept /\ HistoryKept
  BY <1>1 DEF JobsKept, HistoryKept, Earned
<1>6. i \in resolved' \/ (loc[p].next # "confirmed" /\ ref' = ref)
  BY <1>1
<1>7. Knows(pc[p], loc[p])'
  BY <1>1, <1>2, <1>3, Reader DEF Knows, Jobless
<1>8. Justified(pc[p], loc[p])'
  BY <1>3, <1>6 DEF Justified, Earned
<1>9. Records'
  <2>1. QueuedIsCreated'
    BY <1>1, <1>3 DEF QueuedIsCreated, QueueKept
  <2>2. RecordsOK'
    <3>1. \A k \in ref' : Earned(k)'
      BY <1>1, <1>2, <1>5, <1>6 DEF RecordsOK, HistoryKept, Earned, TypeOK
    <3> QED  BY <1>1, <3>1 DEF RecordsOK, PaymentOk
  <2>3. OnlyPaidSent'
    BY <1>1 DEF OnlyPaidSent
  <2>4. FulfilledIsEarned'
    BY <1>1, <1>5 DEF FulfilledIsEarned, HistoryKept
  <2>5. ConfirmedIsEarned'
    <3>1. \A k \in Items : item'[k] = "confirmed" => Earned(k)'
      BY <1>1, <1>2, <1>5, <1>6 DEF ConfirmedIsEarned, HistoryKept, Earned, TypeOK
    <3>2. \A j \in Created : job[j].item \in Items
      BY RowFacts DEF Created
    <3> QED  BY <1>1, <1>5, <3>1, <3>2 DEF ConfirmedIsEarned, HistoryKept, Created
  <2> QED  BY <2>1, <2>2, <2>3, <2>4, <2>5 DEF Records
<1> QED  BY <1>3, <1>4, <1>5, <1>7, <1>8, <1>9, StepInv

LEMMA ResolveJobInv ==
  ASSUME IInv, NEW p \in Procs, ResolveJob(p)
  PROVE  IInv'
<1> DEFINE to == IF loc[p].next = "confirmed" THEN "completed" ELSE "failed"
<1>1. pc[p] = "resolveJob" /\ WriteJob(p, to, MyAttempts(p), "checkItems")
  BY DEF ResolveJob
<1>2. to = "completed" => Earned(loc[p].item)
  BY <1>1 DEF IInv, Justified
<1>3. Knows("checkItems", loc[p]) /\ Justified("checkItems", loc[p])
  BY <1>1, JobHolder DEF Knows, Justified, Jobless
<1> QED  BY <1>1, <1>2, <1>3, JobHolder, WriteJobInv
            DEF MyAttempts, SyncJobStatus, Stage, Jobless

LEMMA RetryDeadLetterJobInv ==
  ASSUME IInv, NEW p \in Procs, NEW j \in Jobs, RetryDeadLetterJob(p, j)
  PROVE  IInv'
<1> DEFINE l == Loc("retry", j, job[j].item, 0, "pending")
<1>1. job[j] # NoRow /\ Start(p, "resetJob", l)
  BY DEF RetryDeadLetterJob
<1>2. UNCHANGED <<status, pay, item, ref, job, ticket, history, faults>>
  BY DEF RetryDeadLetterJob
<1>3. l \in Reading /\ l.job = j /\ l.item = job[j].item /\ l.kind = "retry"
  BY <1>1, RowFacts, LocFacts DEF IInv, FulfillmentStatus
<1>4. Knows("resetJob", l) /\ Justified("resetJob", l)
  BY <1>1, <1>3, NoJobAssumption DEF Knows, Justified
<1> QED  BY <1>1, <1>2, <1>3, <1>4, SameQueue, QuietStartInv DEF IInv, Stage

LEMMA ResetJobInv ==
  ASSUME IInv, NEW p \in Procs, ResetJob(p)
  PROVE  IInv'
<1>1. pc[p] = "resetJob"
  BY DEF ResetJob
<1>2. Knows("resetItem", loc[p]) /\ Justified("resetItem", loc[p])
  BY <1>1, JobHolder DEF Knows, Justified, Jobless
<1> QED  BY <1>1, <1>2, JobHolder, WriteJobInv
            DEF ResetJob, SyncJobStatus, Stage, Jobless

LEMMA ResetItemInv ==
  ASSUME IInv, NEW p \in Procs, ResetItem(p)
  PROVE  IInv'
<1>1. Knows("idle", loc[p]) /\ Justified("idle", loc[p])
  BY DEF Knows, Justified
<1> QED  BY <1>1, WriteItemInv DEF ResetItem, FulfillmentStatus, Stage

LEMMA TransitionOrderInv ==
  ASSUME IInv, NEW p \in Procs, TransitionOrder(p)
  PROVE  IInv'
<1>1. PICK i \in Items :
        Start(p, "writeOrder", Loc("transition", NoJob, i, 0, allowedTransitions[status]))
  BY DEF TransitionOrder
<1> DEFINE to == allowedTransitions[status]
           l == Loc("transition", NoJob, i, 0, to)
<1>2. to \in OrderStatus
  <2>1. status \in {"placed", "confirmed", "fulfilling"}
    BY DEF TransitionOrder, allowedTransitions
  <2> QED  BY <2>1 DEF allowedTransitions, OrderStatus
<1>3. UNCHANGED <<status, pay, item, ref, job, ticket, history, faults>>
  BY DEF TransitionOrder
<1>4. l \in Reading /\ l.job = NoJob /\ l.kind = "transition" /\ l.next = to
  <2> HIDE DEF to
  <2> QED  BY <1>2, LocFacts
<1>5. Knows("writeOrder", l) /\ Justified("writeOrder", l)
  BY <1>2, <1>4 DEF Knows, Justified, Jobless
<1> QED  BY <1>1, <1>3, <1>4, <1>5, SameQueue, QuietStartInv DEF IInv, Stage

(***************************************************************************)
(* Steps of no handler.                                                    *)
(***************************************************************************)
LEMMA EnvironmentInv ==
  ASSUME IInv, UNCHANGED <<pc, loc>>, TypeOK', JobsKept, HistoryKept, Records'
  PROVE  IInv'
<1>1. \A p \in Procs : Knows(pc[p], loc[p])' /\ Justified(pc[p], loc[p])'
  <2> TAKE p \in Procs
  <2> QED  BY OthersInv DEF IInv
<1> QED  BY <1>1 DEF IInv, Records

LEMMA CancelOrderInv ==
  ASSUME IInv, CancelOrder
  PROVE  IInv'
<1> USE DEF IInv
<1>1. /\ status' = "cancelled"
      /\ item' = [i \in Items |-> "failed"]
      /\ pay' = IF pay = "none" THEN "none" ELSE "refunded"
      /\ UNCHANGED <<ref, job, ticket, pc, loc, history, faults>>
  BY DEF CancelOrder
<1>2. TypeOK'
  BY <1>1 DEF TypeOK, OrderStatus, PaymentStatus, FulfillmentStatus, history
<1>3. JobsKept /\ HistoryKept
  BY <1>1 DEF JobsKept, HistoryKept, Earned, history
<1>4. Records'
  <2>1. QueuedIsCreated' /\ OnlyPaidSent' /\ FulfilledIsEarned'
    BY <1>1 DEF QueuedIsCreated, OnlyPaidSent, FulfilledIsEarned, history
  <2>2. RecordsOK'
    BY <1>1 DEF RecordsOK, PaymentOk, Earned, history
  <2>3. ConfirmedIsEarned'
    BY <1>1 DEF ConfirmedIsEarned, Earned, Created, history
  <2> QED  BY <2>1, <2>2, <2>3 DEF Records
<1> QED  BY <1>1, <1>2, <1>3, <1>4, EnvironmentInv

LEMMA SettlePaymentInv ==
  ASSUME IInv, NEW outcome \in {"captured", "failed"}, SettlePayment(outcome)
  PROVE  IInv'
<1> USE DEF IInv
<1>1. /\ pay' = outcome
      /\ status' = IF outcome = "captured" /\ status = "placed" THEN "confirmed" ELSE status
      /\ cleared' = (cleared \/ outcome = "captured")
      /\ UNCHANGED <<item, ref, job, ticket, pc, loc, sent, resolved, shipped, faults>>
  BY DEF SettlePayment
<1>2. TypeOK'
  BY <1>1 DEF TypeOK, OrderStatus, PaymentStatus
<1>3. JobsKept /\ HistoryKept
  BY <1>1 DEF JobsKept, HistoryKept, Earned
<1>4. Records'
  <2>1. QueuedIsCreated' /\ OnlyPaidSent'
    BY <1>1 DEF QueuedIsCreated, OnlyPaidSent
  <2>2. FulfilledIsEarned'
    BY <1>1 DEF FulfilledIsEarned, Earned
  <2>3. RecordsOK'
    BY <1>1 DEF RecordsOK, PaymentOk, Earned
  <2>4. ConfirmedIsEarned'
    BY <1>1 DEF ConfirmedIsEarned, Earned, Created
  <2> QED  BY <2>1, <2>2, <2>3, <2>4 DEF Records
<1> QED  BY <1>1, <1>2, <1>3, <1>4, EnvironmentInv

(***************************************************************************)
(* Faults.                                                                 *)
(***************************************************************************)
LEMMA StatementFailsInv ==
  ASSUME IInv, NEW p \in Procs, StatementFails(p)
  PROVE  IInv'
<1> USE DEF IInv
<1>1. /\ pc[p] # "idle" /\ faults' \in Nat
      /\ UNCHANGED <<status, pay, item, ref, job, history>>
  BY DEF StatementFails, TypeOK
<1>2. CASE loc[p].kind = "sync" /\ pc[p] \in InTry
  <2>1. /\ pc' = [pc EXCEPT ![p] = "failJob"]
        /\ loc' = [loc EXCEPT ![p] = [loc[p] EXCEPT !.kind = "caught"]]
        /\ ticket' = ticket
    BY <1>2 DEF StatementFails
  <2>2. loc[p] \in Reading /\ Knows(pc[p], loc[p])
    BY <1>1, Reader
  <2>3. /\ loc'[p] \in Reading /\ loc'[p].job = loc[p].job /\ loc'[p].item = loc[p].item
        /\ loc' \in [Procs -> {NoLoc} \cup Reading]
        /\ pc'[p] = "failJob" /\ pc' \in [Procs -> Stage] /\ Alone(p)
    <3>1. /\ loc'[p] \in Reading
          /\ loc'[p].job = loc[p].job /\ loc'[p].item = loc[p].item
      BY <2>1, <2>2 DEF TypeOK, Reading
    <3> QED  BY <2>1, <3>1 DEF TypeOK, Stage, Alone
  <2>4. Knows(pc[p], loc[p])' /\ Justified(pc[p], loc[p])'
    BY <1>1, <1>2, <2>2, <2>3 DEF Knows, Justified
  <2> QED  BY <1>1, <2>1, <2>3, <2>4, SameQueue, QuietInv
<1>3. CASE ~(loc[p].kind = "sync" /\ pc[p] \in InTry)
  BY <1>1, <1>3, QuietEndInv DEF StatementFails
<1> QED  BY <1>2, <1>3

LEMMA CrashInv ==
  ASSUME IInv, NEW p \in Procs, Crash(p)
  PROVE  IInv'
<1> USE DEF IInv
<1>1. /\ faults' \in Nat /\ UNCHANGED <<status, pay, item, ref, job, history>>
      /\ pc' = [pc EXCEPT ![p] = "idle"] /\ loc' = [loc EXCEPT ![p] = NoLoc]
      /\ ticket' = [j \in Jobs |-> IF ticket[j].at = p THEN Stalled(ticket[j])
                                   ELSE ticket[j]]
  BY DEF Crash, TypeOK
<1>2. /\ pc' \in [Procs -> Stage] /\ loc' \in [Procs -> {NoLoc} \cup Reading]
      /\ Alone(p) /\ pc'[p] = "idle"
  BY <1>1 DEF TypeOK, Alone, Stage
<1>3. QueueKept
  BY <1>1, TicketFacts, ProcsAssumption DEF TypeOK, QueueKept
<1> QED  BY <1>1, <1>2, <1>3, IdleFits, QuietInv

LEMMA LoseLockInv ==
  ASSUME IInv, NEW j \in Jobs, LoseLock(j)
  PROVE  IInv'
<1> USE DEF IInv
<1>1. PICK p \in Procs : ticket[j].at = p
  BY DEF LoseLock
<1>2. /\ faults' \in Nat
      /\ ticket' = [ticket EXCEPT ![j] = Stalled(ticket[j])]
      /\ UNCHANGED <<status, pay, item, ref, job, pc, loc, history>>
  BY DEF LoseLock, TypeOK
<1>3. QueueKept
  BY <1>1, <1>2, TicketFacts, ProcsAssumption DEF TypeOK, QueueKept
<1>4. Knows(pc[p], loc[p])' /\ Justified(pc[p], loc[p])'
  BY <1>2 DEF Knows, Justified, Earned, history
<1> QED  BY <1>2, <1>3, <1>4, QuietInv DEF TypeOK, Alone

(***************************************************************************)
(* The theorems.                                                           *)
(***************************************************************************)
LEMMA InitInv == Init => IInv
<1> SUFFICES ASSUME Init PROVE IInv
  OBVIOUS
<1> USE DEF Init
<1>1. TypeOK
  <2>1. [at |-> "none", throws |-> 0, stalls |-> 0] \in Ticket
    BY DEF Ticket
  <2> QED  BY <2>1 DEF TypeOK, OrderStatus, PaymentStatus, FulfillmentStatus, Stage
<1>2. \A p \in Procs : Knows(pc[p], loc[p]) /\ Justified(pc[p], loc[p])
  BY DEF Knows, Justified
<1>3. QueuedIsCreated /\ OnlyPaidSent
  BY DEF QueuedIsCreated, OnlyPaidSent
<1>4. RecordsOK
  <2>1. PaymentOk => cleared
    BY Zenon DEF PaymentOk
  <2> QED  BY <2>1 DEF RecordsOK
<1>5. ConfirmedIsEarned /\ FulfilledIsEarned
  BY DEF ConfirmedIsEarned, FulfilledIsEarned, Created
<1> QED  BY <1>1, <1>2, <1>3, <1>4, <1>5 DEF IInv

LEMMA HandlerInv ==
  ASSUME IInv, NEW p \in Procs, Step(p)
  PROVE  IInv'
<1>1. CASE InsertJob(p) \/ Enqueue(p)
  BY <1>1, InsertJobInv, EnqueueInv
<1>2. CASE \/ ReadPayment(p) \/ MarkJob(p) \/ MarkItem(p) \/ VendorAccepts(p)
           \/ VendorRejects(p) \/ CompleteJob(p) \/ ConfirmItem(p)
  BY <1>2, ReadPaymentInv, MarkJobInv, MarkItemInv, VendorAcceptsInv, VendorRejectsInv,
     CompleteJobInv, ConfirmItemInv
<1>3. CASE FailJob(p) \/ DeadItem(p) \/ CheckItems(p) \/ ReadOrder(p) \/ WriteOrder(p)
  BY <1>3, FailJobInv, DeadItemInv, CheckItemsInv, ReadOrderInv, WriteOrderInv
<1>4. CASE \/ RequeueJob(p) \/ QueryVendor(p) \/ ReconcileJob(p) \/ ReconcileItem(p)
           \/ AmbiguousJob(p) \/ AmbiguousItem(p)
  BY <1>4, RequeueJobInv, QueryVendorInv, ReconcileJobInv, ReconcileItemInv,
     AmbiguousJobInv, AmbiguousItemInv
<1>5. CASE ResolveItem(p) \/ ResolveJob(p) \/ ResetJob(p) \/ ResetItem(p)
  BY <1>5, ResolveItemInv, ResolveJobInv, ResetJobInv, ResetItemInv
<1> QED  BY <1>1, <1>2, <1>3, <1>4, <1>5 DEF Step

LEMMA NextInv == IInv /\ [Next]_vars => IInv'
<1> SUFFICES ASSUME IInv, [Next]_vars PROVE IInv'
  OBVIOUS
<1>1. ASSUME NEW p \in Procs, Step(p) \/ StatementFails(p) \/ Crash(p) \/ TransitionOrder(p)
      PROVE  IInv'
  BY <1>1, HandlerInv, StatementFailsInv, CrashInv, TransitionOrderInv
<1>2. ASSUME NEW p \in Procs, NEW i \in Items,
             CreateSyncJob(p, i) \/ \E to \in {"confirmed", "failed"} : ReadLineItem(p, i, to)
      PROVE  IInv'
  BY <1>2, CreateSyncJobInv, ReadLineItemInv
<1>3. ASSUME NEW p \in Procs, NEW j \in Jobs,
             Deliver(p, j) \/ ReadStaleJob(p, j) \/ RetryDeadLetterJob(p, j)
      PROVE  IInv'
  BY <1>3, DeliverInv, ReadStaleJobInv, RetryDeadLetterJobInv
<1>4. ASSUME NEW j \in Jobs, LoseLock(j) PROVE IInv'
  BY <1>4, LoseLockInv
<1>5. ASSUME NEW outcome \in {"captured", "failed"}, SettlePayment(outcome) PROVE IInv'
  BY <1>5, SettlePaymentInv
<1>6. CASE CancelOrder
  BY <1>6, CancelOrderInv
<1>7. CASE UNCHANGED vars
  <2>1. UNCHANGED <<status, pay, item, ref, job, ticket, pc, loc, history, faults>>
    BY <1>7 DEF vars
  <2>2. TypeOK'
    BY <2>1 DEF IInv, TypeOK, history
  <2>3. JobsKept /\ HistoryKept
    BY <2>1 DEF JobsKept, HistoryKept, Earned, history
  <2>4. Records'
    BY <2>1 DEF IInv, Records, QueuedIsCreated, RecordsOK, OnlyPaidSent, ConfirmedIsEarned,
                FulfilledIsEarned, PaymentOk, Earned, Created, history
  <2> QED  BY <2>1, <2>2, <2>3, <2>4, EnvironmentInv
<1> QED  BY <1>1, <1>2, <1>3, <1>4, <1>5, <1>6, <1>7 DEF Next

\* The inductive invariant holds in every reachable state.
THEOREM FulfillmentInvariance == Spec => []IInv
<1>1. Init => IInv
  BY InitInv
<1>2. IInv /\ [Next]_vars => IInv'
  BY NextInv
<1> QED  BY <1>1, <1>2, PTL DEF Spec

\* Every variable of Fulfillment keeps its type.
THEOREM FulfillmentTypes == Spec => []TypeOK
<1>1. IInv => TypeOK
  BY DEF IInv
<1> QED  BY <1>1, FulfillmentInvariance, PTL

\* No vendor is asked for an order that was never paid (the checks of
\* assertPaymentCapturedOrLegacy), whatever happens to the payment meanwhile.
THEOREM NothingUnpaidIsSent == Spec => []OnlyPaidSent
<1>1. IInv => OnlyPaidSent
  BY DEF IInv
<1> QED  BY <1>1, FulfillmentInvariance, PTL

\* A confirmed item and a completed job stand for a vendor's acceptance or an
\* admin's act (processSyncJob, reconcile, manualResolve).
THEOREM ConfirmationsAreEarned == Spec => []ConfirmedIsEarned
<1>1. IInv => ConfirmedIsEarned
  BY DEF IInv
<1> QED  BY <1>1, FulfillmentInvariance, PTL

\* A fulfilled order has all its items earned, unless staff shipped it by hand
\* (checkOrderFulfillment, transitionOrder).
THEOREM FulfilmentIsEarned == Spec => []FulfilledIsEarned
<1>1. IInv => FulfilledIsEarned
  BY DEF IInv
<1> QED  BY <1>1, FulfillmentInvariance, PTL

(***************************************************************************)
(* Counting.                                                               *)
(***************************************************************************)
\* A set that loses elements, one that loses x, one that may gain x.
LEMMA NoMore ==
  ASSUME NEW S, IsFiniteSet(S), NEW T \in SUBSET S
  PROVE  IsFiniteSet(T) /\ Cardinality(T) \in Nat /\ Cardinality(S) \in Nat
         /\ Cardinality(T) =< Cardinality(S)
  BY FS_Subset, FS_CardinalityType

LEMMA OneLess ==
  ASSUME NEW S, IsFiniteSet(S), NEW x \in S, NEW T \in SUBSET (S \ {x})
  PROVE  IsFiniteSet(T) /\ Cardinality(T) \in Nat /\ Cardinality(S) \in Nat
         /\ Cardinality(T) + 1 =< Cardinality(S)
<1>1. IsFiniteSet(S \ {x}) /\ Cardinality(S \ {x}) = Cardinality(S) - 1
  BY FS_RemoveElement
<1> QED  BY <1>1, FS_Subset, FS_CardinalityType

LEMMA OneMore ==
  ASSUME NEW S, IsFiniteSet(S), NEW x, NEW T \in SUBSET (S \cup {x})
  PROVE  IsFiniteSet(T) /\ Cardinality(T) \in Nat /\ Cardinality(S) \in Nat
         /\ Cardinality(T) =< Cardinality(S) + 1
<1>1. /\ IsFiniteSet(S \cup {x}) /\ Cardinality(S \cup {x}) \in Nat
      /\ Cardinality(S \cup {x}) =< Cardinality(S) + 1
  BY FS_AddElement, FS_CardinalityType
<1> QED  BY <1>1, FS_Subset, FS_CardinalityType

(***************************************************************************)
(* How a step moves handlers and deliveries.                               *)
(***************************************************************************)
Asks == {"readPayment", "markJob", "markItem", "call"}

\* The rows stay, none is added, each keeps its line item.
SameJobs == \A j \in Jobs : /\ job'[j] = NoRow <=> job[j] = NoRow
                            /\ job[j] # NoRow => job'[j].item = job[j].item

\* A handler that goes on keeps what it works on and does not turn to asking.
GoesOn(p) ==
  /\ Alone(p) /\ UNCHANGED ticket
  /\ pc[p] # "idle" /\ pc'[p] \notin {"idle", "insertJob", "enqueue"}
  /\ loc'[p].item = loc[p].item /\ loc'[p].job = loc[p].job
  /\ loc[p].kind \in {"sync", "caught"} => loc'[p].kind \in {"sync", "caught"}
  /\ pc'[p] \in Asks => pc[p] \in Asks

\* A handler that ends lets go of its delivery.
Ends(p) ==
  /\ Alone(p) /\ pc'[p] = "idle"
  /\ \A j \in Jobs : IF ticket[j].at = p THEN ticket'[j].at \in {"waiting", "done", "failed"}
                     ELSE ticket'[j] = ticket[j]

\* A request begins.
Begins(p) ==
  /\ Alone(p) /\ UNCHANGED ticket
  /\ pc[p] = "idle" /\ pc'[p] \notin {"idle", "enqueue"} \cup Asks
  /\ pc'[p] = "insertJob" => loc'[p].kind = "create"

LEMMA SameJobsOf ==
  ASSUME SameJobs, NEW i
  PROVE  JobsOf(i)' = JobsOf(i)
  BY DEF SameJobs, JobsOf, Created

\* However a handler moves, deliveries stay with their handlers and jobs with
\* the requests that will queue them.
LEMMA HandlersKept ==
  ASSUME IInv, Accounted, NEW p \in Procs, GoesOn(p) \/ Ends(p) \/ Begins(p)
  PROVE  \A q \in Procs : HoldsItsOwn(q)' /\ QueuesOnce(q)'
<1> TAKE q \in Procs
<1>1. HoldsItsOwn(q)'
  <2> SUFFICES ASSUME NEW j \in Jobs, ticket'[j].at = q
               PROVE  pc'[q] # "idle" /\ loc'[q].kind \in {"sync", "caught"} /\ loc'[q].job = j
    BY DEF HoldsItsOwn
  <2>1. ticket'[j] = ticket[j] /\ ticket[j].at = q
    BY ProcsAssumption DEF GoesOn, Ends, Begins
  <2>2. pc[q] # "idle" /\ loc[q].kind \in {"sync", "caught"} /\ loc[q].job = j
    BY <2>1 DEF Accounted, HoldsItsOwn
  <2>3. q # p \/ GoesOn(p)
    BY <2>1, <2>2, ProcsAssumption DEF Ends, Begins
  <2> QED  BY <2>2, <2>3 DEF GoesOn, Ends, Begins, Alone
<1>2. QueuesOnce(q)'
  <2>1. pc'[q] \in {"insertJob", "enqueue"} => loc'[q].kind = "create"
    BY DEF Accounted, QueuesOnce, GoesOn, Ends, Begins, Alone
  <2>2. ASSUME pc'[q] = "enqueue"
        PROVE  /\ ticket'[loc'[q].job].at = "none"
               /\ \A r \in Procs \ {q} : pc'[r] = "enqueue" => loc'[r].job # loc'[q].job
    <3>1. \A r \in Procs : pc'[r] = "enqueue" => r # p /\ pc[r] = "enqueue" /\ loc'[r] = loc[r]
      BY DEF GoesOn, Ends, Begins, Alone
    <3>2. ticket[loc[q].job].at = "none" /\ loc[q].job \in Jobs
      BY <2>2, <3>1, JobHolder DEF Accounted, QueuesOnce, Jobless
    <3> QED  BY <2>2, <3>1, <3>2, ProcsAssumption
             DEF Accounted, QueuesOnce, GoesOn, Ends, Begins
  <2> QED  BY <2>1, <2>2 DEF QueuesOnce
<1> QED  BY <1>1, <1>2

\* Nobody turns to asking for an item but a sync that takes its job.
LEMMA NobodyNew ==
  ASSUME NEW p \in Procs, GoesOn(p) \/ Ends(p) \/ Begins(p), NEW i
  PROVE  Asking(i)' \in SUBSET Asking(i)
<1> SUFFICES ASSUME NEW q \in Procs, pc'[q] \in Asks, loc'[q].item = i
             PROVE  pc[q] \in Asks /\ loc[q].item = i
  BY DEF Asking, Asks
<1> QED  BY DEF GoesOn, Ends, Begins, Alone, Asks

\* A step after which nothing more is asked and nothing more is waiting.
LEMMA FewerBudgeted ==
  ASSUME IInv, IInv', NEW i \in Items, Budgeted(i), SameJobs,
         Asking(i)' \in SUBSET Asking(i), Undelivered(i)' \in SUBSET Undelivered(i),
         sent'[i] = sent[i], faults =< faults'
  PROVE  Budgeted(i)'
<1>1. JobsOf(i)' = JobsOf(i)
  BY SameJobsOf
<1>2. sent[i] \in Nat /\ faults \in Nat /\ faults' \in Nat
  BY DEF IInv, TypeOK
<1>3. /\ IsFiniteSet(Asking(i)') /\ Cardinality(Asking(i)') \in Nat
      /\ Cardinality(Asking(i)) \in Nat /\ Cardinality(Asking(i)') =< Cardinality(Asking(i))
  BY NoMore DEF Budgeted
<1>4. IsFiniteSet(Undelivered(i))
  BY FS_Subset DEF Budgeted, Undelivered
<1>5. /\ Cardinality(Undelivered(i)') \in Nat /\ Cardinality(Undelivered(i)) \in Nat
      /\ Cardinality(Undelivered(i)') =< Cardinality(Undelivered(i))
  BY <1>4, NoMore
<1>6. Cardinality(JobsOf(i)) \in Nat
  BY FS_CardinalityType DEF Budgeted
<1> QED  BY <1>1, <1>2, <1>3, <1>5, <1>6 DEF Budgeted

\* A handler that moves, asks nothing new and leaves no delivery waiting.
LEMMA QuietAccount ==
  ASSUME IInv, IInv', Accounted, NEW p \in Procs, GoesOn(p) \/ Ends(p) \/ Begins(p),
         \A j \in Jobs : ticket'[j].at = "waiting" => ticket[j].at = "waiting",
         SameJobs, UNCHANGED <<sent, faults>>
  PROVE  Accounted'
<1>1. ASSUME NEW i \in Items PROVE Budgeted(i)'
  <2>1. \A j \in Jobs : ticket'[j].at = "none" => ticket[j].at = "none"
    BY DEF GoesOn, Ends, Begins
  <2>2. Undelivered(i)' \in SUBSET Undelivered(i)
    <3>1. JobsOf(i)' = JobsOf(i) /\ JobsOf(i) \subseteq Jobs
      BY SameJobsOf DEF JobsOf, Created
    <3> QED  BY <2>1, <3>1 DEF Undelivered
  <2> QED  BY <2>2, NobodyNew, FewerBudgeted DEF Accounted, IInv, TypeOK
<1> QED  BY <1>1, HandlersKept DEF Accounted

\* A delivery of i may wait again: a fault pays for it.
LEMMA FaultBudgeted ==
  ASSUME IInv, IInv', NEW i \in Items, Budgeted(i), SameJobs, NEW j,
         Asking(i)' \in SUBSET Asking(i), Undelivered(i)' \in SUBSET (Undelivered(i) \cup {j}),
         sent'[i] = sent[i], faults' = faults + 1
  PROVE  Budgeted(i)'
<1>1. JobsOf(i)' = JobsOf(i)
  BY SameJobsOf
<1>2. sent[i] \in Nat /\ faults \in Nat
  BY DEF IInv, TypeOK
<1>3. /\ IsFiniteSet(Asking(i)') /\ Cardinality(Asking(i)') \in Nat
      /\ Cardinality(Asking(i)) \in Nat /\ Cardinality(Asking(i)') =< Cardinality(Asking(i))
  BY NoMore DEF Budgeted
<1>4. IsFiniteSet(Undelivered(i))
  BY FS_Subset DEF Budgeted, Undelivered
<1>5. /\ Cardinality(Undelivered(i)') \in Nat /\ Cardinality(Undelivered(i)) \in Nat
      /\ Cardinality(Undelivered(i)') =< Cardinality(Undelivered(i)) + 1
  BY <1>4, OneMore
<1>6. Cardinality(JobsOf(i)) \in Nat
  BY FS_CardinalityType DEF Budgeted
<1> QED  BY <1>1, <1>2, <1>3, <1>5, <1>6 DEF Budgeted

\* What a handler that ends leaves waiting is the delivery of its own job, and
\* of its own line item.
LEMMA OneGoesBack ==
  ASSUME IInv, Accounted, NEW p \in Procs, Ends(p), SameJobs, NEW i \in Items
  PROVE  /\ Undelivered(i)' \in SUBSET (Undelivered(i) \cup {loc[p].job})
         /\ i # loc[p].item => Undelivered(i)' \in SUBSET Undelivered(i)
<1>1. JobsOf(i)' = JobsOf(i) /\ JobsOf(i) \subseteq Jobs
  BY SameJobsOf DEF JobsOf, Created
<1>2. \A j \in Jobs : ticket[j].at = p => pc[p] # "idle" /\ loc[p].job = j
  BY DEF Accounted, HoldsItsOwn
<1>3. \A j \in Undelivered(i)' :
        j \in Undelivered(i) \/ (ticket[j].at = p /\ j \in JobsOf(i))
  BY <1>1 DEF Undelivered, Ends
<1>4. \A j \in JobsOf(i) : ticket[j].at = p => loc[p].item = i
  <2> SUFFICES ASSUME NEW j \in JobsOf(i), ticket[j].at = p PROVE loc[p].item = i
    OBVIOUS
  <2>1. loc[p].job = j /\ pc[p] # "idle" /\ j \in Jobs /\ job[j].item = i
    BY <1>1, <1>2 DEF JobsOf
  <2>2. loc[p].job # NoJob
    BY <2>1, NoJobAssumption
  <2> QED  BY <2>1, <2>2 DEF IInv, Knows
<1> QED  BY <1>1, <1>2, <1>3, <1>4

\* A handler that ends with a fault.
LEMMA FaultAccount ==
  ASSUME IInv, IInv', Accounted, NEW p \in Procs, Ends(p), SameJobs,
         UNCHANGED sent, faults' = faults + 1
  PROVE  Accounted'
<1>1. ASSUME NEW i \in Items PROVE Budgeted(i)'
  BY OneGoesBack, NobodyNew, FaultBudgeted DEF Accounted
<1> QED  BY <1>1, HandlersKept DEF Accounted

(***************************************************************************)
(* The kinds of statement.                                                 *)
(***************************************************************************)
Onward == Stage \ {"idle", "insertJob", "enqueue"}
NoneWaits == \A j \in Jobs : ticket'[j].at = "waiting" => ticket[j].at = "waiting"

LEMMA GotoGoesOn ==
  ASSUME TypeOK, NEW p \in Procs, NEW at \in Onward, Goto(p, at),
         pc[p] # "idle", at \in Asks => pc[p] \in Asks
  PROVE  GoesOn(p)
<1>1. Alone(p) /\ pc'[p] = at /\ loc'[p] = loc[p]
  BY GotoFacts DEF Onward
<1> QED  BY <1>1 DEF GoesOn, Goto, Onward

LEMMA ReturnEnds ==
  ASSUME TypeOK, NEW p \in Procs, Return(p)
  PROVE  Ends(p) /\ NoneWaits
<1>1. Alone(p) /\ pc'[p] = "idle"
  BY ReturnFacts
<1>2. \A j \in Jobs : ticket'[j] = IF ticket[j].at = p THEN [ticket[j] EXCEPT !.at = "done"]
                                    ELSE ticket[j]
  BY DEF Return
<1>3. \A j \in Jobs : [ticket[j] EXCEPT !.at = "done"].at = "done"
  BY DEF TypeOK, Ticket
<1> QED  BY <1>1, <1>2, <1>3 DEF Ends, NoneWaits

LEMMA ThrowEnds ==
  ASSUME TypeOK, NEW p \in Procs, Throw(p)
  PROVE  Ends(p)
<1>1. Alone(p) /\ pc'[p] = "idle"
  BY ThrowFacts
<1>2. \A j \in Jobs : ticket'[j] = IF ticket[j].at = p THEN Rethrow(ticket[j]) ELSE ticket[j]
  BY DEF Throw
<1>3. \A j \in Jobs : Rethrow(ticket[j]).at \in {"waiting", "failed"}
  BY DEF TypeOK, Ticket, Rethrow
<1> QED  BY <1>1, <1>2, <1>3 DEF Ends

LEMMA ThenMoves ==
  ASSUME TypeOK, NEW p \in Procs, NEW at \in Onward \cup {"idle"}, Then(p, at),
         pc[p] # "idle", at \in Asks => pc[p] \in Asks
  PROVE  (GoesOn(p) \/ Ends(p)) /\ NoneWaits
<1>1. CASE at = "idle"
  BY <1>1, ReturnEnds DEF Then
<1>2. CASE at # "idle"
  BY <1>2, GotoGoesOn DEF Then, NoneWaits, GoesOn
<1> QED  BY <1>1, <1>2

LEMMA SameRows == ASSUME job' = job PROVE SameJobs
  BY DEF SameJobs

\* A handler that writes no job and asks nothing new.
LEMMA ThenAccount ==
  ASSUME IInv, IInv', Accounted, NEW p \in Procs, NEW at \in Onward \cup {"idle"},
         Then(p, at), pc[p] # "idle", at \in Asks => pc[p] \in Asks,
         UNCHANGED <<job, sent, faults>>
  PROVE  Accounted'
  BY ThenMoves, SameRows, QuietAccount DEF IInv, NoneWaits

LEMMA GotoAccount ==
  ASSUME IInv, IInv', Accounted, NEW p \in Procs, NEW at \in Onward,
         Goto(p, at), pc[p] # "idle", at \in Asks => pc[p] \in Asks,
         UNCHANGED <<job, sent, faults>>
  PROVE  Accounted'
<1>1. Then(p, at)
  BY DEF Then, Onward
<1> QED  BY <1>1, ThenAccount

LEMMA ReturnAccount ==
  ASSUME IInv, IInv', Accounted, NEW p \in Procs, Return(p), UNCHANGED <<job, sent, faults>>
  PROVE  Accounted'
  BY ReturnEnds, SameRows, QuietAccount DEF IInv, NoneWaits

\* A handler that writes a job.
LEMMA WriteJobAccount ==
  ASSUME IInv, IInv', Accounted, NEW p \in Procs, NEW to \in SyncJobStatus,
         NEW attempts \in Nat, NEW at \in Onward \cup {"idle"},
         WriteJob(p, to, attempts, at),
         pc[p] # "idle", pc[p] \notin Jobless, at \in Asks => pc[p] \in Asks
  PROVE  Accounted'
<1> DEFINE j == loc[p].job
<1>1. j \in Jobs /\ job[j] # NoRow /\ job[j] \in JobRow
  BY JobHolder, RowFacts DEF IInv
<1>2. job' = [job EXCEPT ![j] = [job[j] EXCEPT !.status = to, !.attempts = attempts]]
  BY <1>1 DEF WriteJob, IInv, TypeOK
<1>3. job'[j] \in JobRow /\ job'[j].item = job[j].item
  BY <1>1, <1>2 DEF JobRow, IInv, TypeOK
<1>4. SameJobs
  BY <1>1, <1>2, <1>3, NonesApart DEF SameJobs, IInv, TypeOK
<1>5. Then(p, at) /\ UNCHANGED <<sent, faults>>
  BY DEF WriteJob, history
<1> QED  BY <1>4, <1>5, ThenMoves, QuietAccount DEF IInv, NoneWaits

LEMMA WriteItemAccount ==
  ASSUME IInv, IInv', Accounted, NEW p \in Procs, NEW to,
         NEW at \in Onward \cup {"idle"}, WriteItem(p, to, at),
         pc[p] # "idle", at \in Asks => pc[p] \in Asks
  PROVE  Accounted'
  BY ThenAccount DEF WriteItem, history

\* A request of staff begins.
LEMMA StartAccount ==
  ASSUME IInv, IInv', Accounted, NEW p \in Procs, NEW at \in Stage, NEW l \in Reading,
         Start(p, at, l), at \notin {"idle", "enqueue"} \cup Asks,
         at = "insertJob" => l.kind = "create",
         UNCHANGED <<job, ticket, sent, faults>>
  PROVE  Accounted'
<1>1. Begins(p)
  BY StartFacts DEF IInv, Begins, Start
<1> QED  BY <1>1, SameRows, QuietAccount

(***************************************************************************)
(* The statements of the handlers.                                         *)
(***************************************************************************)
LEMMA InsertJobAccount ==
  ASSUME IInv, IInv', Accounted, NEW p \in Procs, InsertJob(p)
  PROVE  Accounted'
<1>1. PICK j \in Jobs : /\ job[j] = NoRow
                        /\ job' = [job EXCEPT ![j] = [item |-> loc[p].item,
                                                      status |-> "pending", attempts |-> 0]]
                        /\ loc' = [loc EXCEPT ![p] = [loc[p] EXCEPT !.job = j]]
  BY DEF InsertJob, Created
<1>2. /\ pc[p] = "insertJob" /\ pc' = [pc EXCEPT ![p] = "enqueue"]
      /\ UNCHANGED <<ticket, sent, faults>>
  BY DEF InsertJob, history
<1>3. loc[p] \in Reading /\ loc[p].item \in Items
  BY <1>2, Reader
<1>4. /\ loc'[p].job = j /\ loc'[p].item = loc[p].item /\ loc'[p].kind = loc[p].kind
      /\ pc'[p] = "enqueue" /\ Alone(p)
  BY <1>1, <1>2, <1>3 DEF IInv, TypeOK, Reading, Alone
<1>5. /\ job'[j] # NoRow /\ job'[j].item = loc[p].item
      /\ \A k \in Jobs \ {j} : job'[k] = job[k]
  BY <1>1, <1>3, NonesApart DEF IInv, TypeOK, JobRow, SyncJobStatus, NoRow
<1>6. ticket[j].at = "none"
  BY <1>1 DEF IInv, QueuedIsCreated
<1>7. \A q \in Procs : HoldsItsOwn(q)'
  BY <1>2, <1>4, ProcsAssumption DEF Accounted, HoldsItsOwn, QueuesOnce, Alone
<1>8. \A q \in Procs : pc[q] = "enqueue" => loc[q].job # j
  BY <1>1, JobHolder DEF Jobless
<1>9. \A q \in Procs : QueuesOnce(q)'
  BY <1>2, <1>4, <1>6, <1>8 DEF Accounted, QueuesOnce, Alone
<1>10. ASSUME NEW i \in Items PROVE Budgeted(i)'
  <2>1. Asking(i)' \in SUBSET Asking(i)
    BY <1>2, <1>4 DEF Asking, Alone
  <2>2. CASE i # loc[p].item
    <3>1. JobsOf(i)' = JobsOf(i) /\ Undelivered(i)' = Undelivered(i)
      BY <1>1, <1>2, <1>5, <2>2 DEF JobsOf, Created, Undelivered
    <3>2. /\ Cardinality(Asking(i)') \in Nat /\ Cardinality(Asking(i)) \in Nat
          /\ Cardinality(Asking(i)') =< Cardinality(Asking(i)) /\ IsFiniteSet(Asking(i)')
      BY <2>1, NoMore DEF Accounted, Budgeted
    <3>3. Cardinality(Undelivered(i)) \in Nat /\ Cardinality(JobsOf(i)) \in Nat
      BY NoMore, FS_CardinalityType DEF Accounted, Budgeted, Undelivered
    <3> QED  BY <1>2, <3>1, <3>2, <3>3 DEF Accounted, Budgeted, IInv, TypeOK
  <2>3. CASE i = loc[p].item
    <3>1. /\ JobsOf(i)' = JobsOf(i) \cup {j} /\ j \notin JobsOf(i)
          /\ Undelivered(i)' \in SUBSET (Undelivered(i) \cup {j})
      BY <1>1, <1>2, <1>5, <2>3 DEF JobsOf, Created, Undelivered
    <3>2. /\ Cardinality(Asking(i)') \in Nat /\ Cardinality(Asking(i)) \in Nat
          /\ Cardinality(Asking(i)') =< Cardinality(Asking(i)) /\ IsFiniteSet(Asking(i)')
      BY <2>1, NoMore DEF Accounted, Budgeted
    <3>3. /\ IsFiniteSet(JobsOf(i)') /\ Cardinality(JobsOf(i)) \in Nat
          /\ Cardinality(JobsOf(i)') = Cardinality(JobsOf(i)) + 1
      BY <3>1, FS_AddElement, FS_CardinalityType DEF Accounted, Budgeted
    <3>4. IsFiniteSet(Undelivered(i))
      BY NoMore DEF Accounted, Budgeted, Undelivered
    <3>5. /\ Cardinality(Undelivered(i)) \in Nat /\ Cardinality(Undelivered(i)') \in Nat
          /\ Cardinality(Undelivered(i)') =< Cardinality(Undelivered(i)) + 1
      BY <3>1, <3>4, OneMore
    <3> QED  BY <1>2, <3>2, <3>3, <3>5 DEF Accounted, Budgeted, IInv, TypeOK
  <2> QED  BY <2>2, <2>3
<1> QED  BY <1>7, <1>9, <1>10 DEF Accounted

LEMMA EnqueueAccount ==
  ASSUME IInv, IInv', Accounted, NEW p \in Procs, Enqueue(p)
  PROVE  Accounted'
<1> DEFINE j == loc[p].job
<1>1. /\ pc[p] = "enqueue" /\ j \in Jobs /\ ticket[j].at = "none"
      /\ loc[p].kind = "create"
  BY JobHolder DEF Enqueue, Jobless, Accounted, QueuesOnce
<1>2. /\ ticket' = [ticket EXCEPT ![j] = [ticket[j] EXCEPT !.at = "waiting"]]
      /\ UNCHANGED <<job, sent, faults>>
  BY DEF Enqueue, history
<1>3. Alone(p) /\ pc'[p] = "idle"
  BY DEF IInv, TypeOK, Enqueue, Alone
<1>4. ticket'[j].at = "waiting" /\ \A k \in Jobs \ {j} : ticket'[k] = ticket[k]
  BY <1>1, <1>2 DEF IInv, TypeOK, Ticket
<1>5. \A q \in Procs : HoldsItsOwn(q)'
  <2> TAKE q \in Procs
  <2>1. \A k \in Jobs : ticket'[k].at = q => ticket[k].at = q /\ q # p
    BY <1>1, <1>4, ProcsAssumption DEF Accounted, HoldsItsOwn
  <2> QED  BY <1>3, <2>1 DEF Accounted, HoldsItsOwn, Alone
<1>6. \A q \in Procs : QueuesOnce(q)'
  <2> TAKE q \in Procs
  <2>1. pc'[q] = "enqueue" => q # p /\ loc[q].job # j /\ loc[q].job \in Jobs
    BY <1>1, <1>3, JobHolder DEF Accounted, QueuesOnce, Alone, Jobless
  <2> QED  BY <1>3, <1>4, <2>1 DEF Accounted, QueuesOnce, Alone
<1>7. ASSUME NEW i \in Items PROVE Budgeted(i)'
  <2>1. SameJobs
    BY <1>2, SameRows
  <2>2. Asking(i)' \in SUBSET Asking(i)
    BY <1>3 DEF Asking, Alone
  <2>3. JobsOf(i)' = JobsOf(i) /\ JobsOf(i) \subseteq Jobs
    BY <2>1, SameJobsOf DEF JobsOf, Created
  <2>4. Undelivered(i)' \in SUBSET Undelivered(i)
    BY <1>1, <1>4, <2>3 DEF Undelivered
  <2> QED  BY <1>2, <2>1, <2>2, <2>4, FewerBudgeted DEF Accounted, IInv, TypeOK
<1> QED  BY <1>5, <1>6, <1>7 DEF Accounted

\* A worker takes a delivery: what was undelivered is being asked for.
LEMMA DeliverAccount ==
  ASSUME IInv, IInv', Accounted, NEW p \in Procs, NEW j \in Jobs, Deliver(p, j)
  PROVE  Accounted'
<1>1. ticket[j].at = "waiting" /\ pc[p] = "idle" /\ job[j] # NoRow /\ job[j].item \in Items
  BY RowFacts DEF Deliver, Start, IInv, QueuedIsCreated
<1>2. SameJobs /\ UNCHANGED <<sent, faults>>
  BY SameRows DEF Deliver, history
<1>3. \A i : JobsOf(i)' = JobsOf(i) /\ JobsOf(i) \subseteq Jobs
  BY <1>2, SameJobsOf DEF JobsOf, Created
<1>4. CASE job[j].status = "completed"
  <2>1. /\ ticket' = [ticket EXCEPT ![j] = [ticket[j] EXCEPT !.at = "done"]]
        /\ UNCHANGED <<pc, loc>>
    BY <1>4 DEF Deliver
  <2>2. ticket'[j].at = "done" /\ \A k \in Jobs \ {j} : ticket'[k] = ticket[k]
    BY <2>1 DEF IInv, TypeOK, Ticket
  <2>3. \A q \in Procs : HoldsItsOwn(q)'
    BY <2>1, <2>2, ProcsAssumption DEF Accounted, HoldsItsOwn
  <2>4. \A q \in Procs : QueuesOnce(q)'
    <3> TAKE q \in Procs
    <3>1. pc[q] = "enqueue" => loc[q].job \in Jobs \ {j}
      BY <1>1, JobHolder DEF Jobless, Accounted, QueuesOnce
    <3> QED  BY <2>1, <2>2, <3>1 DEF Accounted, QueuesOnce
  <2>5. ASSUME NEW i \in Items PROVE Budgeted(i)'
    <3>1. Asking(i)' = Asking(i)
      BY <2>1 DEF Asking
    <3>2. Undelivered(i)' \in SUBSET Undelivered(i)
      BY <1>3, <2>2 DEF Undelivered
    <3> QED  BY <1>2, <3>1, <3>2, FewerBudgeted DEF Accounted, IInv, TypeOK
  <2> QED  BY <2>3, <2>4, <2>5 DEF Accounted
<1>5. CASE job[j].status # "completed"
  <2> DEFINE l == Loc("sync", j, job[j].item, job[j].attempts, "pending")
  <2>1. /\ ticket' = [ticket EXCEPT ![j] = [ticket[j] EXCEPT !.at = p]]
        /\ Start(p, "readPayment", l)
    BY <1>5 DEF Deliver
  <2>2. ticket'[j].at = p /\ \A k \in Jobs \ {j} : ticket'[k] = ticket[k]
    BY <2>1 DEF IInv, TypeOK, Ticket
  <2>3. l \in Reading /\ l.job = j /\ l.item = job[j].item /\ l.kind = "sync"
    BY <1>1, RowFacts, LocFacts DEF IInv, FulfillmentStatus
  <2>4. Alone(p) /\ pc'[p] = "readPayment" /\ loc'[p] = l
    BY <2>1, <2>3, StartFacts DEF IInv, Stage
  <2>5. \A q \in Procs : HoldsItsOwn(q)'
    <3> TAKE q \in Procs
    <3>1. \A k \in Jobs : ticket'[k].at = q => (q = p /\ k = j) \/ (ticket[k].at = q /\ q # p)
      BY <1>1, <2>2 DEF Accounted, HoldsItsOwn
    <3> QED  BY <2>3, <2>4, <3>1 DEF Accounted, HoldsItsOwn, Alone
  <2>6. \A q \in Procs : QueuesOnce(q)'
    <3> TAKE q \in Procs
    <3>1. \A k \in Jobs : ticket[k].at = "none" => ticket'[k].at = "none"
      BY <1>1, <2>2
    <3>2. pc[q] = "enqueue" => loc[q].job \in Jobs
      BY JobHolder DEF Jobless
    <3> QED  BY <2>4, <3>1, <3>2 DEF Accounted, QueuesOnce, Alone
  <2>7. ASSUME NEW i \in Items PROVE Budgeted(i)'
    <3>1. CASE i # job[j].item
      <4>1. Asking(i)' \in SUBSET Asking(i)
        BY <2>3, <2>4, <3>1 DEF Asking, Alone
      <4>2. Undelivered(i)' \in SUBSET Undelivered(i)
        BY <1>3, <2>2, <3>1 DEF Undelivered, JobsOf
      <4> QED  BY <1>2, <4>1, <4>2, FewerBudgeted DEF Accounted, IInv, TypeOK
    <3>2. CASE i = job[j].item
      <4>1. Asking(i)' \in SUBSET (Asking(i) \cup {p})
        BY <2>4 DEF Asking, Alone
      <4>2. j \in Undelivered(i) /\ Undelivered(i)' \in SUBSET (Undelivered(i) \ {j})
        <5>1. j \in JobsOf(i)
          BY <1>1, <3>2 DEF JobsOf, Created
        <5> QED  BY <1>1, <1>3, <2>2, <5>1, ProcsAssumption DEF Undelivered
      <4>3. /\ IsFiniteSet(Asking(i)') /\ Cardinality(Asking(i)') \in Nat
            /\ Cardinality(Asking(i)) \in Nat
            /\ Cardinality(Asking(i)') =< Cardinality(Asking(i)) + 1
        BY <4>1, OneMore DEF Accounted, Budgeted
      <4>4. IsFiniteSet(Undelivered(i)) /\ Cardinality(JobsOf(i)) \in Nat
        BY NoMore, FS_CardinalityType DEF Accounted, Budgeted, Undelivered
      <4>5. /\ Cardinality(Undelivered(i)') \in Nat /\ Cardinality(Undelivered(i)) \in Nat
            /\ Cardinality(Undelivered(i)') + 1 =< Cardinality(Undelivered(i))
        BY <4>2, <4>4, OneLess
      <4> QED  BY <1>2, <1>3, <4>3, <4>4, <4>5 DEF Accounted, Budgeted, IInv, TypeOK
    <3> QED  BY <3>1, <3>2
  <2> QED  BY <2>5, <2>6, <2>7 DEF Accounted
<1> QED  BY <1>4, <1>5

\* The delivery goes back to the queue, and the sync that had it asks no more.
LEMMA ReadPaymentAccount ==
  ASSUME IInv, IInv', Accounted, NEW p \in Procs, ReadPayment(p)
  PROVE  Accounted'
<1>1. pc[p] = "readPayment" /\ UNCHANGED <<job, sent, faults>>
  BY DEF ReadPayment, history
<1>2. CASE PaymentOk
  BY <1>1, <1>2, GotoAccount DEF ReadPayment, Onward, Stage, Asks
<1>3. CASE ~PaymentOk
  <2>1. Throw(p) /\ Ends(p)
    BY <1>3, ThrowEnds DEF ReadPayment, IInv
  <2>2. SameJobs
    BY <1>1, SameRows
  <2>3. ASSUME NEW i \in Items PROVE Budgeted(i)'
    <3>1. CASE i # loc[p].item
      BY <1>1, <2>1, <2>2, <3>1, OneGoesBack, NobodyNew, FewerBudgeted
         DEF Accounted, IInv, TypeOK
    <3>2. CASE i = loc[p].item
      <4>1. p \in Asking(i) /\ Asking(i)' \in SUBSET (Asking(i) \ {p})
        BY <1>1, <2>1, <3>2 DEF Asking, Ends, Alone
      <4>2. Undelivered(i)' \in SUBSET (Undelivered(i) \cup {loc[p].job})
        BY <2>1, <2>2, OneGoesBack
      <4>3. /\ IsFiniteSet(Asking(i)') /\ Cardinality(Asking(i)') \in Nat
            /\ Cardinality(Asking(i)) \in Nat
            /\ Cardinality(Asking(i)') + 1 =< Cardinality(Asking(i))
        BY <4>1, OneLess DEF Accounted, Budgeted
      <4>4. IsFiniteSet(Undelivered(i)) /\ Cardinality(JobsOf(i)) \in Nat
        BY NoMore, FS_CardinalityType DEF Accounted, Budgeted, Undelivered
      <4>5. /\ Cardinality(Undelivered(i)') \in Nat /\ Cardinality(Undelivered(i)) \in Nat
            /\ Cardinality(Undelivered(i)') =< Cardinality(Undelivered(i)) + 1
        BY <4>2, <4>4, OneMore
      <4>6. JobsOf(i)' = JobsOf(i)
        BY <2>2, SameJobsOf
      <4> QED  BY <1>1, <4>3, <4>4, <4>5, <4>6 DEF Accounted, Budgeted, IInv, TypeOK
    <3> QED  BY <3>1, <3>2
  <2> QED  BY <2>1, <2>3, HandlersKept DEF Accounted
<1> QED  BY <1>2, <1>3

\* The vendor accepts: what was asked for is sent.
LEMMA VendorAcceptsAccount ==
  ASSUME IInv, IInv', Accounted, NEW p \in Procs, VendorAccepts(p)
  PROVE  Accounted'
<1>1. /\ pc[p] = "call" /\ Goto(p, "completeJob") /\ UNCHANGED <<job, ticket, faults>>
      /\ sent' = [sent EXCEPT ![loc[p].item] = sent[loc[p].item] + 1]
  BY DEF VendorAccepts, Goto
<1>2. GoesOn(p)
  BY <1>1, GotoGoesOn DEF IInv, Onward, Stage, Asks
<1>3. ASSUME NEW i \in Items PROVE Budgeted(i)'
  <2>0. SameJobs
    BY <1>1, SameRows
  <2>1. JobsOf(i)' = JobsOf(i) /\ Undelivered(i)' = Undelivered(i)
    BY <1>1, <2>0, SameJobsOf DEF Undelivered
  <2>2. CASE i # loc[p].item
    <3>1. sent'[i] = sent[i]
      BY <1>1, <2>2 DEF IInv, TypeOK
    <3> QED  BY <1>1, <1>2, <2>0, <2>1, <3>1, NobodyNew, FewerBudgeted
             DEF Accounted, IInv, TypeOK
  <2>3. CASE i = loc[p].item
    <3>1. p \in Asking(i) /\ Asking(i)' \in SUBSET (Asking(i) \ {p})
      <4>1. pc'[p] = "completeJob" /\ loc'[p].item = i /\ Alone(p)
        BY <1>1, <2>3, GotoFacts DEF IInv, Stage
      <4> QED  BY <1>1, <2>3, <4>1 DEF Asking, Alone
    <3>2. /\ IsFiniteSet(Asking(i)') /\ Cardinality(Asking(i)') \in Nat
          /\ Cardinality(Asking(i)) \in Nat
          /\ Cardinality(Asking(i)') + 1 =< Cardinality(Asking(i))
      BY <3>1, OneLess DEF Accounted, Budgeted
    <3>3. Cardinality(Undelivered(i)) \in Nat /\ Cardinality(JobsOf(i)) \in Nat
      BY NoMore, FS_CardinalityType DEF Accounted, Budgeted, Undelivered
    <3>4. sent'[i] = sent[i] + 1 /\ sent[i] \in Nat
      BY <1>1, <2>3 DEF IInv, TypeOK
    <3> QED  BY <1>1, <2>1, <3>2, <3>3, <3>4 DEF Accounted, Budgeted, IInv, TypeOK
  <2> QED  BY <2>2, <2>3
<1> QED  BY <1>2, <1>3, HandlersKept DEF Accounted

LEMMA CheckItemsAccount ==
  ASSUME IInv, IInv', Accounted, NEW p \in Procs, CheckItems(p)
  PROVE  Accounted'
<1>1. pc[p] = "checkItems" /\ UNCHANGED <<job, sent, faults>>
  BY DEF CheckItems, history
<1>2. CASE AllConfirmed \/ AnyLost
  <2>1. loc[p] \in Reading
    BY <1>1, Reader
  <2>2. GoesOn(p)
    BY <1>1, <1>2, <2>1 DEF CheckItems, GoesOn, Alone, IInv, TypeOK, Reading, Asks
  <2> QED  BY <1>1, <2>2, SameRows, QuietAccount DEF GoesOn
<1>3. CASE ~(AllConfirmed \/ AnyLost)
  BY <1>1, <1>3, ReturnAccount DEF CheckItems
<1> QED  BY <1>2, <1>3

\* The other statements write a job, write a line item, or only go on.
LEMMA WorkerAccount ==
  ASSUME IInv, IInv', Accounted, NEW p \in Procs,
         \/ MarkJob(p) \/ MarkItem(p) \/ VendorRejects(p) \/ CompleteJob(p)
         \/ ConfirmItem(p) \/ FailJob(p) \/ DeadItem(p)
         \/ ReadOrder(p) \/ WriteOrder(p)
  PROVE  Accounted'
<1> USE DEF Onward, Stage, Jobless, Asks
<1>1. pc[p] # "idle" => loc[p] \in Reading /\ loc[p].tries \in Nat
  BY Reader DEF Reading
<1>2. CASE MarkJob(p)
  BY <1>1, <1>2, WriteJobAccount DEF MarkJob, SyncJobStatus
<1>3. CASE MarkItem(p)
  BY <1>3, WriteItemAccount DEF MarkItem
<1>4. CASE VendorRejects(p)
  BY <1>4, GotoAccount DEF VendorRejects, history
<1>5. CASE CompleteJob(p)
  BY <1>5, JobHolder, WriteJobAccount DEF CompleteJob, MyAttempts, SyncJobStatus
<1>6. CASE ConfirmItem(p)
  BY <1>6, WriteItemAccount DEF ConfirmItem
<1>7. CASE FailJob(p)
  BY <1>1, <1>7, WriteJobAccount DEF FailJob, SyncJobStatus
<1>8. CASE DeadItem(p)
  BY <1>8, WriteItemAccount DEF DeadItem
<1>9. CASE ReadOrder(p)
  BY <1>9, GotoAccount, ReturnAccount DEF ReadOrder, history
<1>10. CASE WriteOrder(p)
  BY <1>10, ReturnAccount DEF WriteOrder
<1> QED  BY <1>2, <1>3, <1>4, <1>5, <1>6, <1>7, <1>8, <1>9, <1>10

LEMMA StaffAccount ==
  ASSUME IInv, IInv', Accounted, NEW p \in Procs,
         \/ RequeueJob(p) \/ QueryVendor(p) \/ ReconcileJob(p) \/ ReconcileItem(p)
         \/ AmbiguousJob(p) \/ AmbiguousItem(p)
         \/ ResolveItem(p) \/ ResolveJob(p) \/ ResetJob(p) \/ ResetItem(p)
  PROVE  Accounted'
<1> USE DEF Onward, Stage, Jobless, Asks
<1>1. pc[p] # "idle" /\ pc[p] \notin Jobless => MyAttempts(p) \in Nat
  BY JobHolder DEF MyAttempts
<1>2. CASE RequeueJob(p)
  BY <1>1, <1>2, WriteJobAccount DEF RequeueJob, SyncJobStatus
<1>3. CASE QueryVendor(p)
  BY <1>3, GotoAccount DEF QueryVendor, history
<1>4. CASE ReconcileJob(p)
  BY <1>1, <1>4, WriteJobAccount DEF ReconcileJob, SyncJobStatus
<1>5. CASE AmbiguousJob(p)
  BY <1>1, <1>5, WriteJobAccount DEF AmbiguousJob, SyncJobStatus
<1>6. CASE ReconcileItem(p) \/ AmbiguousItem(p) \/ ResetItem(p)
  BY <1>6, WriteItemAccount DEF ReconcileItem, AmbiguousItem, ResetItem
<1>7. CASE ResolveItem(p)
  BY <1>7, GotoAccount DEF ResolveItem
<1>8. CASE ResolveJob(p)
  BY <1>1, <1>8, WriteJobAccount DEF ResolveJob, SyncJobStatus
<1>9. CASE ResetJob(p)
  BY <1>9, WriteJobAccount DEF ResetJob, SyncJobStatus
<1> QED  BY <1>2, <1>3, <1>4, <1>5, <1>6, <1>7, <1>8, <1>9

(***************************************************************************)
(* Requests that begin, faults, and steps of no handler.                   *)
(***************************************************************************)
LEMMA RequestAccount ==
  ASSUME IInv, IInv', Accounted, NEW p \in Procs,
         \/ TransitionOrder(p)
         \/ \E i \in Items : CreateSyncJob(p, i)
         \/ \E i \in Items, to \in {"confirmed", "failed"} : ReadLineItem(p, i, to)
         \/ \E j \in Jobs : ReadStaleJob(p, j) \/ RetryDeadLetterJob(p, j)
  PROVE  Accounted'
<1>1. UNCHANGED <<job, ticket, sent, faults>>
  BY DEF TransitionOrder, CreateSyncJob, ReadLineItem, ReadStaleJob, RetryDeadLetterJob,
         history
<1>2. ASSUME NEW at, NEW l, Start(p, at, l), at \notin {"idle", "enqueue"} \cup Asks,
             at = "insertJob" => l.kind = "create"
      PROVE  Begins(p)
  BY <1>1, <1>2 DEF Start, Begins, Alone, IInv, TypeOK
<1>3. Begins(p)
  <2>1. ASSUME TransitionOrder(p) PROVE Begins(p)
    BY <1>2, <2>1 DEF TransitionOrder, Asks
  <2>2. ASSUME NEW i \in Items, CreateSyncJob(p, i) PROVE Begins(p)
    <3>1. Loc("create", NoJob, i, 0, "pending").kind = "create"
      BY DEF Loc
    <3> QED  BY <1>2, <2>2, <3>1 DEF CreateSyncJob, Asks
  <2>3. ASSUME NEW i \in Items, NEW to \in {"confirmed", "failed"}, ReadLineItem(p, i, to)
        PROVE  Begins(p)
    BY <1>2, <2>3 DEF ReadLineItem, Asks
  <2>4. ASSUME NEW j \in Jobs, ReadStaleJob(p, j) \/ RetryDeadLetterJob(p, j)
        PROVE  Begins(p)
    BY <1>2, <2>4 DEF ReadStaleJob, RetryDeadLetterJob, Asks
  <2> QED  BY <2>1, <2>2, <2>3, <2>4
<1> QED  BY <1>1, <1>3, SameRows, QuietAccount

LEMMA StatementFailsAccount ==
  ASSUME IInv, IInv', Accounted, NEW p \in Procs, StatementFails(p)
  PROVE  Accounted'
<1>1. pc[p] # "idle" /\ faults' = faults + 1 /\ UNCHANGED <<job, sent>>
  BY DEF StatementFails, history
<1>2. SameJobs
  BY <1>1, SameRows
<1>3. CASE loc[p].kind = "sync" /\ pc[p] \in InTry
  <2>1. loc[p] \in Reading
    BY <1>1, Reader
  <2>2. GoesOn(p)
    BY <1>1, <1>3, <2>1 DEF StatementFails, GoesOn, Alone, IInv, TypeOK, Reading, Asks
  <2>3. ASSUME NEW i \in Items PROVE Budgeted(i)'
    <3>1. Undelivered(i)' \in SUBSET Undelivered(i)
      <4>1. JobsOf(i)' = JobsOf(i)
        BY <1>2, SameJobsOf
      <4> QED  BY <2>2, <4>1 DEF GoesOn, Undelivered
    <3> QED  BY <1>1, <1>2, <2>2, <3>1, NobodyNew, FewerBudgeted DEF Accounted, IInv, TypeOK
  <2> QED  BY <2>2, <2>3, HandlersKept DEF Accounted
<1>4. CASE ~(loc[p].kind = "sync" /\ pc[p] \in InTry)
  <2>1. Ends(p)
    BY <1>4, ThrowEnds DEF StatementFails, IInv
  <2> QED  BY <1>1, <1>2, <2>1, FaultAccount
<1> QED  BY <1>3, <1>4

LEMMA StalledFacts ==
  ASSUME NEW t \in Ticket
  PROVE  Stalled(t).at \in {"waiting", "failed"}
  BY DEF Ticket, Stalled

LEMMA CrashAccount ==
  ASSUME IInv, IInv', Accounted, NEW p \in Procs, Crash(p)
  PROVE  Accounted'
<1>1. faults' = faults + 1 /\ UNCHANGED <<job, sent>>
  BY DEF Crash, history
<1>2. Ends(p)
  BY StalledFacts DEF Crash, Ends, Alone, IInv, TypeOK
<1> QED  BY <1>1, <1>2, SameRows, FaultAccount

LEMMA LoseLockAccount ==
  ASSUME IInv, IInv', Accounted, NEW j \in Jobs, LoseLock(j)
  PROVE  Accounted'
<1>1. /\ ticket' = [ticket EXCEPT ![j] = Stalled(ticket[j])] /\ ticket[j].at \in Procs
      /\ faults' = faults + 1 /\ UNCHANGED <<job, pc, loc, sent>>
  BY DEF LoseLock, history
<1>2. ticket'[j].at \in {"waiting", "failed"} /\ \A k \in Jobs \ {j} : ticket'[k] = ticket[k]
  BY <1>1, StalledFacts DEF IInv, TypeOK
<1>3. \A q \in Procs : HoldsItsOwn(q)'
  BY <1>1, <1>2, ProcsAssumption DEF Accounted, HoldsItsOwn
<1>4. \A q \in Procs : QueuesOnce(q)'
  <2> TAKE q \in Procs
  <2>1. pc[q] = "enqueue" => loc[q].job \in Jobs
    BY JobHolder DEF Jobless
  <2> QED  BY <1>1, <1>2, <2>1, ProcsAssumption DEF Accounted, QueuesOnce
<1>5. ASSUME NEW i \in Items PROVE Budgeted(i)'
  <2>1. SameJobs
    BY <1>1, SameRows
  <2>2. JobsOf(i)' = JobsOf(i) /\ JobsOf(i) \subseteq Jobs
    BY <2>1, SameJobsOf DEF JobsOf, Created
  <2>3. Undelivered(i)' \in SUBSET (Undelivered(i) \cup {j})
    BY <1>2, <2>2 DEF Undelivered
  <2>4. Asking(i)' \in SUBSET Asking(i)
    BY <1>1 DEF Asking
  <2> QED  BY <1>1, <2>1, <2>3, <2>4, FaultBudgeted DEF Accounted
<1> QED  BY <1>3, <1>4, <1>5 DEF Accounted

LEMMA EnvironmentAccount ==
  ASSUME Accounted, UNCHANGED <<job, ticket, pc, loc, sent, faults>>
  PROVE  Accounted'
<1>1. \A i \in Items : Budgeted(i)'
  BY DEF Accounted, Budgeted, Asking, Undelivered, JobsOf, Created
<1>2. \A p \in Procs : HoldsItsOwn(p)' /\ QueuesOnce(p)'
  BY DEF Accounted, HoldsItsOwn, QueuesOnce
<1> QED  BY <1>1, <1>2 DEF Accounted

LEMMA InitAccount == Init => Accounted
<1> SUFFICES ASSUME Init PROVE Accounted
  OBVIOUS
<1>1. \A p \in Procs : HoldsItsOwn(p) /\ QueuesOnce(p)
  BY ProcsAssumption DEF Init, HoldsItsOwn, QueuesOnce
<1>2. ASSUME NEW i \in Items PROVE Budgeted(i)
  <2>1. Asking(i) = {} /\ JobsOf(i) = {} /\ Undelivered(i) = {}
    BY DEF Init, Asking, JobsOf, Undelivered, Created
  <2> QED  BY <2>1, FS_EmptySet DEF Init, Budgeted
<1> QED  BY <1>1, <1>2 DEF Accounted

LEMMA NextAccount == IInv /\ IInv' /\ Accounted /\ [Next]_vars => Accounted'
<1> SUFFICES ASSUME IInv, IInv', Accounted, [Next]_vars PROVE Accounted'
  OBVIOUS
<1>1. ASSUME NEW p \in Procs, Step(p) PROVE Accounted'
  BY <1>1, InsertJobAccount, EnqueueAccount, ReadPaymentAccount, VendorAcceptsAccount,
     CheckItemsAccount, WorkerAccount, StaffAccount DEF Step
<1>2. ASSUME NEW p \in Procs, StatementFails(p) \/ Crash(p) PROVE Accounted'
  BY <1>2, StatementFailsAccount, CrashAccount
<1>3. ASSUME NEW p \in Procs,
             \/ TransitionOrder(p)
             \/ \E i \in Items : CreateSyncJob(p, i)
             \/ \E i \in Items, to \in {"confirmed", "failed"} : ReadLineItem(p, i, to)
             \/ \E j \in Jobs : ReadStaleJob(p, j) \/ RetryDeadLetterJob(p, j)
      PROVE  Accounted'
  BY <1>3, RequestAccount
<1>4. ASSUME NEW j \in Jobs, LoseLock(j) \/ \E p \in Procs : Deliver(p, j) PROVE Accounted'
  BY <1>4, LoseLockAccount, DeliverAccount
<1>5. CASE \/ \E outcome \in {"captured", "failed"} : SettlePayment(outcome)
           \/ CancelOrder
           \/ UNCHANGED vars
  BY <1>5, EnvironmentAccount DEF SettlePayment, CancelOrder, vars, history
<1> QED  BY <1>1, <1>2, <1>3, <1>4, <1>5 DEF Next

\* The vendor is asked at most once for each job of a line item and once more
\* for each fault (processSyncJob, reconcile, BullMQ's redelivery).
THEOREM DuplicatesAreExplained == Spec => []DuplicatesExplained
<1>1. Init => Accounted
  BY InitAccount
<1>2. IInv /\ IInv' /\ Accounted /\ [Next]_vars => Accounted'
  BY NextAccount
<1>3. IInv /\ Accounted => DuplicatesExplained
  <2> SUFFICES ASSUME IInv, Accounted, NEW i \in Items
               PROVE  sent[i] =< Cardinality(JobsOf(i)) + faults
    BY DEF DuplicatesExplained
  <2>1. /\ Cardinality(Asking(i)) \in Nat /\ Cardinality(Undelivered(i)) \in Nat
        /\ Cardinality(JobsOf(i)) \in Nat
    BY NoMore, FS_CardinalityType DEF Accounted, Budgeted, Undelivered
  <2> QED  BY <2>1 DEF Accounted, Budgeted, IInv, TypeOK
<1> QED  BY <1>1, <1>2, <1>3, FulfillmentInvariance, PTL DEF Spec
================================================================================
