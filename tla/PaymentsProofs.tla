----------------------------- MODULE PaymentsProofs -----------------------------
(***************************************************************************)
(* What is proved about Payments for every set of sessions, payments, line *)
(* items and deployments: the inductive invariant IInv and the safety properties     *)
(* that are part of it, that a redelivered event never undoes a refund,    *)
(* and that the locking transactions implement PaymentLifecycle.           *)
(***************************************************************************)
EXTENDS Payments, TLAPS

(***************************************************************************)
(* How a step moves the sessions.                                          *)
(***************************************************************************)
\* Only s moves.
Alone(s) == \A t \in Sessions \ {s} : pc'[t] = pc[t] /\ req'[t] = req[t]

TypedSessions == pc' \in [Sessions -> Step] /\ req' \in [Sessions -> Request \cup {NoReq}]

\* The provider takes nothing back.
ProviderKept == charged \subseteq charged' /\ declined \subseteq declined'

\* A session that goes on to its next step.
LEMMA GotoFacts ==
  ASSUME TypeOK, NEW s \in Sessions, NEW step \in Step, Goto(s, step)
  PROVE  TypedSessions /\ Alone(s) /\ pc'[s] = step /\ req'[s] = req[s]
  BY DEF TypeOK, Goto, TypedSessions, Alone

\* A session that is done.
LEMMA EndFacts ==
  ASSUME TypeOK, NEW s \in Sessions, End(s)
  PROVE  TypedSessions /\ Alone(s) /\ pc'[s] = "idle" /\ req'[s] = NoReq
  BY DEF TypeOK, End, TypedSessions, Alone, Step

LEMMA AnsweredFacts ==
  ASSUME TypeOK, NEW s \in Sessions, NEW step \in Step, Answered(s, step)
  PROVE  /\ TypedSessions /\ Alone(s) /\ pc'[s] = step
         /\ req'[s] = IF step = "idle" THEN NoReq ELSE req[s]
  BY GotoFacts, EndFacts DEF Answered

\* What a request is, by its kind.
LEMMA Kinds ==
  /\ \A r \in Verify : r.kind = "verify" /\ r.payment \in Payments
  /\ \A r \in Deliver : r.kind = "deliver" /\ r.event \in Event
  /\ \A r \in Move : r.kind = "move" /\ r.action \in Transitions
  /\ \A r \in Simple : r.kind \in {"refund", "cancel"}
  /\ NoReq.kind = "none"
  /\ \A r \in [kind : {"refund"}] : r.kind = "refund"
  /\ \A r \in [kind : {"cancel"}] : r.kind = "cancel"
  BY DEF Verify, Deliver, Move, Simple, NoReq

LEMMA FulfilFacts ==
  /\ \A r \in Sync : r.kind = "sync"
  /\ \A r \in Resolve : r.kind = "resolve" /\ r.to \in {"confirmed", "failed"}
  /\ \A r \in Fulfil :
       /\ r.kind \in {"sync", "resolve"} /\ r.item \in Items
       /\ r.next \in {"none", "fulfilling", "fulfilled"}
  BY DEF Sync, Resolve, Fulfil

\* What checkOrderFulfillment is going to write, once it knows.
Going(r, n) == [r EXCEPT !.next = n]

LEMMA NextFacts ==
  ASSUME NEW r \in Fulfil, NEW n \in {"fulfilling", "fulfilled"}
  PROVE  /\ Going(r, n) \in Fulfil
         /\ Going(r, n).kind = r.kind
         /\ Going(r, n).item = r.item
         /\ Going(r, n).next = n
  BY DEF Going, Fulfil, Sync, Resolve

LEMMA EventFacts ==
  \A e \in Event : e.type \in {"payment.captured", "payment.failed"} /\ e.payment \in Payments
  BY DEF Event

(***************************************************************************)
(* What a step must keep.                                                  *)
(***************************************************************************)
JobsKept == \A i \in Items : jobs[i] # "none" => jobs'[i] # "none"

\* How the rows may change under a session t that does not move.
Undisturbed(t) ==
  /\ ProviderKept
  /\ JobsKept
  /\ pay' = pay \/ ~HoldsPayment(t)
  /\ HoldsOrder(t) => order' # "cancelled"
  /\ events' = events \/ \E e \in Event :
       events' = events \cup {e} /\ (HoldsEvent(t) => req[t].event # e)

LEMMA OthersKnow ==
  ASSUME NEW t \in Sessions, pc'[t] = pc[t], req'[t] = req[t], Knows(t), Undisturbed(t)
  PROVE  Knows(t)'
<1>1. /\ HoldsPayment(t)' = HoldsPayment(t) /\ HoldsEvent(t)' = HoldsEvent(t)
      /\ HoldsOrder(t)' = HoldsOrder(t)
  BY DEF HoldsPayment, HoldsEvent, HoldsOrder
<1>2. req[t].kind = "verify" /\ pc[t] \in {"payment", "order"} => req[t].payment \in charged'
  BY DEF Knows, Undisturbed, ProviderKept
<1>3. req[t].kind = "deliver" => Sent(req[t].event)'
  BY DEF Knows, Undisturbed, ProviderKept, Sent
<1>4. pc[t] = "write" => charged' # {}
  BY DEF Knows, Undisturbed, ProviderKept
<1>5. HoldsPayment(t) => pay' = pay
  BY DEF Undisturbed
<1>6. HoldsEvent(t) => req[t].event \notin events'
  BY DEF Knows, Undisturbed
<1>7. req[t] \in Fulfil => jobs'[req[t].item] # "none"
  BY FulfilFacts DEF Knows, Undisturbed, JobsKept
<1>8. HoldsOrder(t) => order' # "cancelled"
  BY DEF Undisturbed
<1> QED  BY <1>1, <1>2, <1>3, <1>4, <1>5, <1>6, <1>7, <1>8 DEF Knows, Skipped

\* The locks s has after its step are its own, or were free.
TakesFreeLocks(s) ==
  /\ HoldsPayment(s)' => HoldsPayment(s) \/ PaymentFree
  /\ HoldsOrder(s)' => HoldsOrder(s) \/ OrderFree
  /\ HoldsEvent(s)' => \/ HoldsEvent(s) /\ req'[s] = req[s]
                       \/ EventFree(req'[s].event)

\* The session invariants, from what s is at after its step.
LEMMA SessionsInv ==
  ASSUME IInv, NEW s \in Sessions, Alone(s),
         \A t \in Sessions \ {s} : Undisturbed(t),
         Fits(pc'[s], req'[s]), Knows(s)', TakesFreeLocks(s)
  PROVE  /\ \A t \in Sessions : Fits(pc'[t], req'[t]) /\ Knows(t)'
         /\ Exclusive'
<1>1. ASSUME NEW t \in Sessions, t # s
      PROVE  /\ Fits(pc'[t], req'[t]) /\ Knows(t)'
             /\ HoldsPayment(t)' = HoldsPayment(t) /\ HoldsEvent(t)' = HoldsEvent(t)
             /\ HoldsOrder(t)' = HoldsOrder(t)
             /\ req'[t] = req[t]
  <2>1. pc'[t] = pc[t] /\ req'[t] = req[t]
    BY <1>1 DEF Alone
  <2>2. Knows(t)'
    BY <1>1, <2>1, OthersKnow DEF IInv
  <2> QED  BY <1>1, <2>1, <2>2 DEF IInv, HoldsPayment, HoldsEvent, HoldsOrder
<1>2. ASSUME NEW t \in Sessions, t # s
      PROVE  /\ ~(HoldsPayment(s)' /\ HoldsPayment(t)')
             /\ ~(HoldsOrder(s)' /\ HoldsOrder(t)')
             /\ HoldsEvent(s)' /\ HoldsEvent(t)' => req'[s].event # req'[t].event
  BY <1>1, <1>2 DEF IInv, Exclusive, PaymentFree, OrderFree, EventFree, TakesFreeLocks
<1>3. Exclusive'
  <2> SUFFICES ASSUME NEW t \in Sessions, NEW u \in Sessions, t # u
               PROVE  /\ ~(HoldsPayment(t)' /\ HoldsPayment(u)')
                      /\ ~(HoldsOrder(t)' /\ HoldsOrder(u)')
                      /\ HoldsEvent(t)' /\ HoldsEvent(u)' => req'[t].event # req'[u].event
    BY DEF Exclusive
  <2>1. CASE t = s \/ u = s
    BY <2>1, <1>2
  <2>2. CASE t # s /\ u # s
    BY <2>2, <1>1 DEF IInv, Exclusive
  <2> QED  BY <2>1, <2>2
<1> QED  BY <1>1, <1>3

\* Rows that are as they should be after a step.
TypedRows ==
  /\ deployed' = deployed
  /\ pay' \in [status : PaymentStatus, ref : Payments \cup {NoRef}]
  /\ order' \in OrderStatus
  /\ items' \in [Items -> ItemStatus]
  /\ jobs' \in [Items -> {"none", "made", "answered"}]
  /\ events' \subseteq Event
  /\ past' \in [Items -> SUBSET Excuses]
  /\ twice' \subseteq Items
  /\ charged' \subseteq Payments /\ declined' \subseteq Payments

SoundRows == TypedRows /\ Ledger' /\ \A i \in Items : Item(i)'

\* A step of the session s, and one of none.
LEMMA StepInv ==
  ASSUME IInv, NEW s \in Sessions, TypedSessions, Alone(s), SoundRows,
         \A t \in Sessions \ {s} : Undisturbed(t),
         Fits(pc'[s], req'[s]), Knows(s)', TakesFreeLocks(s)
  PROVE  IInv'
<1>1. TypeOK'
  BY DEF IInv, TypeOK, SoundRows, TypedRows, TypedSessions
<1>2. /\ \A t \in Sessions : Fits(pc'[t], req'[t]) /\ Knows(t)'
      /\ Exclusive'
  BY SessionsInv
<1> QED  BY <1>1, <1>2 DEF IInv, SoundRows

LEMMA NobodysInv ==
  ASSUME IInv, UNCHANGED <<pc, req>>, SoundRows, \A t \in Sessions : Undisturbed(t)
  PROVE  IInv'
<1>1. TypeOK'
  BY DEF IInv, TypeOK, SoundRows, TypedRows
<1>2. ASSUME NEW t \in Sessions PROVE Fits(pc'[t], req'[t]) /\ Knows(t)'
  BY OthersKnow DEF IInv
<1>3. Exclusive'
  BY DEF IInv, Exclusive, HoldsPayment, HoldsEvent, HoldsOrder
<1> QED  BY <1>1, <1>2, <1>3 DEF IInv, SoundRows

\* Nothing but the sessions changes.
RowsKept == UNCHANGED <<deployed, rows, provider>>

LEMMA KeptFacts ==
  ASSUME RowsKept
  PROVE  /\ deployed' = deployed /\ pay' = pay /\ order' = order /\ items' = items
         /\ jobs' = jobs /\ events' = events /\ past' = past /\ twice' = twice
         /\ charged' = charged /\ declined' = declined
  BY DEF RowsKept, rows, goods, history, provider

LEMMA QuietInv ==
  ASSUME IInv, NEW s \in Sessions, RowsKept, TypedSessions, Alone(s),
         Fits(pc'[s], req'[s]), Knows(s)', TakesFreeLocks(s)
  PROVE  IInv'
<1>1. TypedRows
  BY KeptFacts DEF IInv, TypeOK, TypedRows
<1>2. Ledger'
  BY KeptFacts DEF IInv, Ledger, CapturedWasCharged, ConfirmedWasPaid, RestocksExplained,
                   CancelledKeepsOnlyByEvent
<1>3. \A i \in Items : Item(i)'
  BY KeptFacts DEF IInv, Item
<1>4. \A t \in Sessions \ {s} : Undisturbed(t)
  BY KeptFacts DEF IInv, Knows, Undisturbed, ProviderKept, JobsKept
<1> QED  BY <1>1, <1>2, <1>3, <1>4, StepInv DEF SoundRows

\* A session that is idle fits, knows nothing and holds nothing.
LEMMA IdleFacts ==
  ASSUME NEW s \in Sessions, pc'[s] = "idle", req'[s] = NoReq
  PROVE  Fits(pc'[s], req'[s]) /\ Knows(s)' /\ TakesFreeLocks(s)
<1>1. NoReq \notin Fulfil
  BY Kinds, FulfilFacts
<1> QED  BY <1>1, Kinds
         DEF Fits, Knows, TakesFreeLocks, HoldsPayment, HoldsOrder, HoldsEvent

LEMMA QuietEndInv ==
  ASSUME IInv, NEW s \in Sessions, RowsKept, End(s)
  PROVE  IInv'
<1>1. TypedSessions /\ Alone(s) /\ pc'[s] = "idle" /\ req'[s] = NoReq
  BY EndFacts DEF IInv
<1>2. Fits(pc'[s], req'[s]) /\ Knows(s)' /\ TakesFreeLocks(s)
  BY <1>1, IdleFacts
<1> QED  BY <1>1, <1>2, QuietInv

\* A commit that writes rows and ends.
LEMMA CommitInv ==
  ASSUME IInv, NEW s \in Sessions, End(s), SoundRows,
         \A t \in Sessions \ {s} : Undisturbed(t)
  PROVE  IInv'
<1>1. TypedSessions /\ Alone(s) /\ pc'[s] = "idle" /\ req'[s] = NoReq
  BY EndFacts DEF IInv
<1>2. Fits(pc'[s], req'[s]) /\ Knows(s)' /\ TakesFreeLocks(s)
  BY <1>1, IdleFacts
<1> QED  BY <1>1, <1>2, StepInv

(***************************************************************************)
(* Steps that write no row.                                                *)
(***************************************************************************)
LEMMA BeginInv ==
  ASSUME IInv, NEW s \in Sessions, NEW r \in Request, Begin(s, r)
  PROVE  IInv'
<1> DEFINE step == FirstStep(r)
<1>1. /\ pc[s] = "idle" /\ RowsKept
      /\ req' = [req EXCEPT ![s] = r] /\ pc' = [pc EXCEPT ![s] = step]
      /\ r.kind = "deliver" => Sent(r.event)
      /\ r \in Fulfil => r.next = "none" /\ jobs[r.item] # "none"
  BY DEF Begin, RowsKept
<1>2. /\ r.kind = "deliver" => step = "insert" /\ r \in Deliver
      /\ r.kind = "cancel" => step = "order" /\ r \in [kind : {"cancel"}]
      /\ r.kind \notin {"deliver", "cancel"} =>
           step = "read" /\ r \in Verify \cup Move \cup [kind : {"refund"}] \cup Fulfil
  BY Kinds, FulfilFacts DEF FirstStep, Request, Simple
<1>3. step \in {"insert", "order", "read"}
  BY <1>2
<1> HIDE DEF step
<1>4. TypedSessions /\ Alone(s) /\ pc'[s] = step /\ req'[s] = r
  BY <1>1, <1>3 DEF IInv, TypeOK, TypedSessions, Alone, Step
<1>5. Fits(pc'[s], req'[s])
  BY <1>2, <1>3, <1>4 DEF Fits
<1>6. ~HoldsPayment(s)' /\ ~HoldsEvent(s)' /\ ~HoldsOrder(s)'
  BY <1>2, <1>3, <1>4 DEF HoldsPayment, HoldsEvent, HoldsOrder
<1>7. Sent(r.event)' = Sent(r.event) /\ jobs' = jobs
  BY <1>1, KeptFacts DEF Sent
<1>8. Knows(s)'
  BY <1>1, <1>2, <1>3, <1>4, <1>6, <1>7 DEF Knows
<1>9. TakesFreeLocks(s)
  BY <1>6 DEF TakesFreeLocks
<1> QED  BY <1>1, <1>4, <1>5, <1>8, <1>9, QuietInv

LEMMA AbortInv ==
  ASSUME IInv, NEW s \in Sessions, Abort(s) \/ BreakDeadlock(s)
  PROVE  IInv'
  BY QuietEndInv DEF Abort, BreakDeadlock, RowsKept

\* A request that goes on to another step, or ends.
LEMMA AnsweredInv ==
  ASSUME IInv, NEW s \in Sessions, NEW step \in Step, RowsKept, Answered(s, step),
         step # "idle" => Fits(step, req[s]),
         req[s].kind = "verify" /\ step \in {"payment", "order"} => req[s].payment \in charged,
         step = "write" => charged # {},
         step = "order" =>
           /\ PaymentFree
           /\ req[s].kind = "deliver" => ~Skipped(req[s].event),
         step \in {"reverse", "payment"} /\ req[s].kind = "cancel" =>
           order # "cancelled" /\ (OrderFree \/ HoldsOrder(s)),
         step \in {"payment", "order"} /\ req[s].kind = "deliver" =>
           /\ req[s].event \notin events
           /\ EventFree(req[s].event) \/ HoldsEvent(s)
  PROVE  IInv'
<1>1. CASE step = "idle"
  BY <1>1, QuietEndInv DEF Answered
<1>2. CASE step # "idle"
  <2>1. TypedSessions /\ Alone(s) /\ pc'[s] = step /\ req'[s] = req[s]
    BY <1>2, AnsweredFacts DEF IInv
  <2>2. /\ pay' = pay /\ order' = order /\ events' = events /\ jobs' = jobs
        /\ charged' = charged /\ declined' = declined
    BY KeptFacts
  <2>3. Knows(s)
    BY DEF IInv
  <2>4. Fits(pc'[s], req'[s])
    BY <1>2, <2>1
  <2>5. Knows(s)'
    BY <2>1, <2>2, <2>3 DEF Knows, HoldsPayment, HoldsOrder, HoldsEvent, Sent, Skipped
  <2>6. TakesFreeLocks(s)
    BY <2>1 DEF TakesFreeLocks, HoldsPayment, HoldsOrder, HoldsEvent
  <2> QED  BY <2>1, <2>4, <2>5, <2>6, QuietInv
<1> QED  BY <1>1, <1>2

\* What is known of the request a session serves where it stands.
LEMMA RequestFacts ==
  ASSUME IInv, NEW s \in Sessions
  PROVE  /\ Fits(pc[s], req[s]) /\ Knows(s)
         /\ pc[s] \in Step
         /\ req[s] \in Request \cup {NoReq}
  BY DEF IInv, TypeOK

LEMMA ReadInv ==
  ASSUME IInv, NEW s \in Sessions, Read(s)
  PROVE  IInv'
<1>1. pc[s] = "read" /\ Answered(s, AfterRead(req[s])) /\ RowsKept
  BY DEF Read, RowsKept
<1>2. req[s] \in Verify \cup Move \cup [kind : {"refund"}] \cup Fulfil
  BY <1>1, RequestFacts DEF Fits
<1>3. CASE req[s] \in Verify
  <2>1. req[s].kind = "verify"
    BY <1>3, Kinds
  <2>2. AfterRead(req[s]) \in {"ask", "idle"}
    BY <2>1 DEF AfterRead
  <2> QED  BY <1>1, <1>3, <2>1, <2>2, AnsweredInv DEF Fits, Step
<1>4. CASE req[s] \in [kind : {"refund"}]
  <2>1. req[s].kind = "refund" /\ req[s] \in Simple
    BY <1>4, Kinds DEF Simple
  <2>2. AfterRead(req[s]) \in {"payment", "idle"}
    BY <2>1 DEF AfterRead
  <2> QED  BY <1>1, <2>1, <2>2, AnsweredInv DEF Fits, Step
<1>5. CASE req[s] \in Move
  <2>1. req[s].kind = "move" /\ req[s].action \in Transitions /\ req[s] \notin Fulfil
    BY <1>5, Kinds, FulfilFacts
  <2>2. AfterRead(req[s]) \in {"check", "write", "idle"}
    BY <2>1 DEF AfterRead
  <2>3. AfterRead(req[s]) = "write" => order \in {"confirmed", "fulfilling"}
    BY <2>1 DEF AfterRead, From, Transitions
  <2>4. AfterRead(req[s]) = "write" => charged # {}
    BY <2>3 DEF IInv, Ledger, ConfirmedWasPaid
  <2> QED  BY <1>1, <1>5, <2>1, <2>2, <2>4, AnsweredInv DEF Fits, Step
<1>6. CASE req[s] \in Fulfil
  <2>1. /\ req[s].kind \in {"sync", "resolve"}
        /\ req[s].kind = "sync" => req[s] \in Sync
    BY <1>6, FulfilFacts DEF Fulfil
  <2>2. /\ AfterRead(req[s]) \in {"mark", "report", "idle"}
        /\ AfterRead(req[s]) = "mark" => req[s] \in Sync
    BY <2>1 DEF AfterRead
  <2> QED  BY <1>1, <1>6, <2>1, <2>2, AnsweredInv DEF Fits, Step
<1> QED  BY <1>2, <1>3, <1>4, <1>5, <1>6

\* A request about a line item finds its sync job, so the order was paid.
LEMMA JobFacts ==
  ASSUME IInv, NEW s \in Sessions, req[s] \in Fulfil
  PROVE  req[s].item \in Items /\ jobs[req[s].item] # "none" /\ charged # {}
<1>1. req[s].item \in Items /\ jobs[req[s].item] # "none"
  BY RequestFacts, FulfilFacts DEF Knows
<1>2. Item(req[s].item)
  BY <1>1 DEF IInv
<1> QED  BY <1>1, <1>2 DEF Item

LEMMA LookInv ==
  ASSUME IInv, NEW s \in Sessions, Look(s)
  PROVE  IInv'
<1>1. pc[s] = "look" /\ RowsKept
  BY DEF Look, RowsKept
<1>2. req[s] \in Fulfil
  BY <1>1, RequestFacts DEF Fits
<1>3. ASSUME NEW n \in {"fulfilling", "fulfilled"},
             req' = [req EXCEPT ![s].next = n], pc' = [pc EXCEPT ![s] = "decide"]
      PROVE  IInv'
  <2> DEFINE r == Going(req[s], n)
  <2>1. r \in Fulfil /\ r.item = req[s].item /\ r.next = n /\ r.kind \in {"sync", "resolve"}
    BY <1>2, NextFacts, FulfilFacts
  <2>2. req' = [req EXCEPT ![s] = r]
    BY <1>3 DEF Going
  <2> HIDE DEF r
  <2>3. TypedSessions /\ Alone(s) /\ pc'[s] = "decide" /\ req'[s] = r
    BY <1>3, <2>1, <2>2 DEF IInv, TypeOK, TypedSessions, Alone, Step, Request
  <2>4. Fits(pc'[s], req'[s])
    BY <2>1, <2>3 DEF Fits
  <2>5. TakesFreeLocks(s) /\ ~HoldsPayment(s)' /\ ~HoldsOrder(s)' /\ ~HoldsEvent(s)'
    BY <2>3 DEF TakesFreeLocks, HoldsPayment, HoldsOrder, HoldsEvent
  <2>6. jobs'[r.item] # "none"
    BY <1>1, <1>2, <2>1, KeptFacts, JobFacts
  <2>7. Knows(s)'
    BY <2>1, <2>3, <2>5, <2>6 DEF Knows
  <2> QED  BY <1>1, <2>3, <2>4, <2>5, <2>7, QuietInv
<1>4. CASE AllConfirmed \/ AnyLost
  BY <1>3, <1>4 DEF Look
<1>5. CASE ~(AllConfirmed \/ AnyLost)
  BY <1>1, <1>5, QuietEndInv DEF Look
<1> QED  BY <1>4, <1>5

LEMMA DecideInv ==
  ASSUME IInv, NEW s \in Sessions, Decide(s)
  PROVE  IInv'
<1>1. pc[s] = "decide" /\ RowsKept
  BY DEF Decide, RowsKept
<1>2. req[s] \in Fulfil /\ req[s].next # "none" /\ req[s].kind \in {"sync", "resolve"}
  BY <1>1, RequestFacts, FulfilFacts DEF Fits
<1>3. PICK step \in {"write", "idle"} : Answered(s, step)
  BY DEF Decide
<1>4. charged # {}
  BY <1>2, JobFacts
<1> QED  BY <1>1, <1>2, <1>3, <1>4, AnsweredInv DEF Fits, Step

LEMMA AskInv ==
  ASSUME IInv, NEW s \in Sessions, Ask(s)
  PROVE  IInv'
<1>1. pc[s] = "ask" /\ RowsKept
  BY DEF Ask, RowsKept
<1>2. req[s] \in Verify /\ req[s].kind = "verify"
  BY <1>1, RequestFacts, Kinds DEF Fits
<1>3. PICK step \in {"payment", "idle"} :
        Answered(s, step) /\ (step = "payment" => req[s].payment \in charged)
  BY DEF Ask
<1> QED  BY <1>1, <1>2, <1>3, AnsweredInv DEF Fits, Step

LEMMA CheckInv ==
  ASSUME IInv, NEW s \in Sessions, Check(s)
  PROVE  IInv'
<1>1. pc[s] = "check" /\ RowsKept
  BY DEF Check, RowsKept
<1>2. req[s] \in Move /\ req[s].kind = "move" /\ req[s] \notin Fulfil
  BY <1>1, RequestFacts, Kinds, FulfilFacts DEF Fits
<1>3. PICK step \in {"write", "idle"} :
        Answered(s, step) /\ (step = "write" => pay.status = "captured")
  BY DEF Check
<1>4. step = "write" => charged # {}
  BY <1>3 DEF IInv, Ledger, CapturedWasCharged
<1> QED  BY <1>1, <1>2, <1>3, <1>4, AnsweredInv DEF Fits, Step

LEMMA InsertInv ==
  ASSUME IInv, NEW s \in Sessions, Insert(s)
  PROVE  IInv'
<1>1. pc[s] = "insert" /\ RowsKept /\ EventFree(req[s].event)
  BY DEF Insert, RowsKept
<1>2. req[s] \in Deliver /\ req[s].kind = "deliver"
  BY <1>1, RequestFacts, Kinds DEF Fits
<1>3. PICK step \in {"payment", "idle"} :
        Answered(s, step) /\ (step = "payment" => req[s].event \notin events)
  BY DEF Insert
<1> QED  BY <1>1, <1>2, <1>3, AnsweredInv DEF Fits, Step

LEMMA LockPaymentInv ==
  ASSUME IInv, NEW s \in Sessions, LockPayment(s)
  PROVE  IInv'
<1>1. pc[s] = "payment" /\ PaymentFree /\ RowsKept
  BY DEF LockPayment, RowsKept
<1>2. /\ Answered(s, "order")
      /\ req[s].kind \in {"verify", "deliver"}
      /\ req[s].kind = "deliver" => ~Skipped(req[s].event)
  BY DEF LockPayment, Answered
<1>3. /\ req[s] \in Verify \cup Deliver \cup Simple
      /\ req[s].kind = "verify" => req[s].payment \in charged
      /\ req[s].kind = "deliver" => req[s].event \notin events /\ HoldsEvent(s)
  BY <1>1, RequestFacts DEF Fits, Knows, HoldsEvent
<1>4. req[s] \in Verify \cup Deliver \cup [kind : {"cancel"}]
  BY <1>2, <1>3, Kinds
<1> QED  BY <1>1, <1>2, <1>3, <1>4, AnsweredInv DEF Fits, Step

LEMMA CancelLocksOrderInv ==
  ASSUME IInv, NEW s \in Sessions, CancelLocksOrder(s)
  PROVE  IInv'
<1>1. pc[s] = "order" /\ req[s].kind = "cancel" /\ RowsKept /\ OrderFree
  BY DEF CancelLocksOrder, RowsKept
<1>2. PICK step \in {"reverse", "idle"} :
        Answered(s, step) /\ (step = "reverse" => order # "cancelled")
  BY DEF CancelLocksOrder
<1>3. req[s] \in [kind : {"cancel"}]
  BY <1>1, RequestFacts, Kinds DEF Fits
<1> QED  BY <1>1, <1>2, <1>3, AnsweredInv DEF Fits, Step

LEMMA DeliverFailsInv ==
  ASSUME IInv, NEW s \in Sessions, DeliverFails(s)
  PROVE  IInv'
  BY QuietEndInv DEF DeliverFails, RowsKept

(***************************************************************************)
(* Steps that write rows.                                                  *)
(***************************************************************************)
\* The state before, in the form the commits use it.
LEMMA RowFacts ==
  ASSUME IInv
  PROVE  /\ pay \in [status : PaymentStatus, ref : Payments \cup {NoRef}]
         /\ pay.status \in PaymentStatus /\ pay.ref \in Payments \cup {NoRef}
         /\ order \in OrderStatus /\ events \subseteq Event
         /\ items \in [Items -> ItemStatus]
         /\ jobs \in [Items -> {"none", "made", "answered"}]
         /\ past \in [Items -> SUBSET Excuses] /\ twice \subseteq Items
         /\ charged \subseteq Payments /\ declined \subseteq Payments
         /\ CapturedWasCharged /\ ConfirmedWasPaid /\ RestocksExplained
         /\ CancelledKeepsOnlyByEvent
         /\ \A i \in Items : Item(i)
  BY DEF IInv, TypeOK, Ledger

\* What is not written does not disturb: line items, the order, the payment.
GoodsKept ==
  /\ items' = items /\ jobs' = jobs /\ past' = past /\ twice' = twice
  /\ charged' = charged /\ declined' = declined

LEMMA GoodsFacts ==
  ASSUME IInv, GoodsKept, order' # "cancelled" <=> order # "cancelled"
  PROVE  /\ RestocksExplained' /\ \A i \in Items : Item(i)'
         /\ ProviderKept /\ JobsKept
         /\ \A t \in Sessions : HoldsOrder(t) => order' # "cancelled"
<1>1. RestocksExplained'
  BY RowFacts DEF GoodsKept, RestocksExplained
<1>2. \A i \in Items : Item(i)'
  BY RowFacts DEF GoodsKept, Item
<1> QED  BY <1>1, <1>2, RequestFacts DEF GoodsKept, ProviderKept, JobsKept, Knows

\* An order that was cancelled is written over: its line items remember.
LEMMA WriteInv ==
  ASSUME IInv, NEW s \in Sessions, Write(s)
  PROVE  IInv'
<1>1. /\ pc[s] = "write" /\ End(s) /\ order' = Decided(req[s])
      /\ deployed' = deployed /\ pay' = pay /\ events' = events
      /\ items' = items /\ jobs' = jobs /\ twice' = twice
      /\ charged' = charged /\ declined' = declined
      /\ past' = IF order = "cancelled" THEN [i \in Items |-> Befalls(i, "reopened")] ELSE past
  BY DEF Write, provider
<1>2. charged # {} /\ req[s] \in Move \cup Fulfil /\ (req[s] \in Fulfil => req[s].next # "none")
  BY <1>1, RequestFacts DEF Fits, Knows
<1>3. order' \in {"confirmed", "fulfilling", "fulfilled"}
  <2>1. CASE req[s] \in Move
    BY <1>1, <2>1, Kinds DEF Decided, To, Transitions
  <2>2. CASE req[s] \in Fulfil
    BY <1>1, <1>2, <2>2, FulfilFacts DEF Decided
  <2> QED  BY <1>2, <2>1, <2>2
<1>4. ASSUME NEW i \in Items
      PROVE  /\ past'[i] \in SUBSET Excuses
             /\ past'[i] = {} <=> past[i] = {}
             /\ past[i] \subseteq past'[i]
             /\ "restored" \in past'[i] <=> "restored" \in past[i]
             /\ "restored" \in past'[i] => "reopened" \in past'[i]
  <2>1. Item(i) /\ past[i] \in SUBSET Excuses
    BY RowFacts
  <2> QED  BY <1>1, <2>1 DEF Befalls, Excuses, Item
<1>5. past' \in [Items -> SUBSET Excuses]
  BY <1>1, <1>4, RowFacts
<1>6. TypedRows
  BY <1>1, <1>3, <1>5, RowFacts DEF TypedRows, OrderStatus
<1>7. Ledger'
  BY <1>1, <1>2, <1>3, RowFacts
     DEF Ledger, CapturedWasCharged, ConfirmedWasPaid, RestocksExplained,
         CancelledKeepsOnlyByEvent
<1>8. ASSUME NEW i \in Items PROVE Item(i)'
  <2>1. Item(i)
    BY RowFacts
  <2> QED  BY <1>1, <1>4, <2>1 DEF Item
<1>9. \A t \in Sessions \ {s} : Undisturbed(t)
  BY <1>1, <1>3 DEF Undisturbed, ProviderKept, JobsKept
<1> QED  BY <1>1, <1>6, <1>7, <1>8, <1>9, CommitInv DEF SoundRows

\* The update of a line item that has a sync job; opening it again is history.
LEMMA SetItemFacts ==
  ASSUME IInv, NEW i \in Items, NEW status \in ItemStatus, SetItem(i, status),
         jobs[i] # "none",
         jobs' \in [Items -> {"none", "made", "answered"}], JobsKept,
         \A j \in Items \ {i} : jobs'[j] = jobs[j],
         \/ past' = past /\ status # "open"
         \/ past' = [past EXCEPT ![i] = Befalls(i, "revived")]
  PROVE  SoundRows /\ \A t \in Sessions : Undisturbed(t)
<1>1. /\ deployed' = deployed /\ pay' = pay /\ order' = order /\ events' = events
      /\ twice' = twice /\ charged' = charged /\ declined' = declined
      /\ items' = [items EXCEPT ![i] = status]
  BY DEF SetItem, provider
<1>2. Item(i) /\ past[i] \in SUBSET Excuses
  BY RowFacts
<1>3. /\ past'[i] \in SUBSET Excuses
      /\ past[i] \subseteq past'[i]
      /\ "restored" \in past'[i] <=> "restored" \in past[i]
      /\ past'[i] = {} <=> past[i] = {}
      /\ "restored" \in past'[i] /\ status = "open" => "revived" \in past'[i]
  BY <1>2, RowFacts DEF Befalls, Excuses, Item
<1>4. past' \in [Items -> SUBSET Excuses] /\ \A j \in Items \ {i} : past'[j] = past[j]
  BY <1>3, RowFacts
<1>5. TypedRows
  BY <1>1, <1>4, RowFacts DEF TypedRows
<1>6. Ledger'
  BY <1>1, <1>4, RowFacts
     DEF Ledger, CapturedWasCharged, ConfirmedWasPaid, RestocksExplained, JobsKept,
         CancelledKeepsOnlyByEvent
<1>7. ASSUME NEW j \in Items PROVE Item(j)'
  <2>1. Item(j)
    BY RowFacts
  <2>2. CASE j = i
    BY <1>1, <1>2, <1>3, <2>2, RowFacts DEF Item, JobsKept
  <2>3. CASE j # i
    BY <1>1, <1>4, <2>1, <2>3, RowFacts DEF Item
  <2> QED  BY <2>2, <2>3
<1>8. ASSUME NEW t \in Sessions PROVE Undisturbed(t)
  BY <1>1, RequestFacts DEF Undisturbed, ProviderKept, Knows
<1> QED  BY <1>5, <1>6, <1>7, <1>8 DEF SoundRows

\* A request about a line item that goes on without a lock.
LEMMA GoesOnInv ==
  ASSUME IInv, NEW s \in Sessions, NEW step \in {"report", "look"}, Goto(s, step),
         req[s] \in Fulfil, SoundRows, \A t \in Sessions : Undisturbed(t)
  PROVE  IInv'
<1>1. TypedSessions /\ Alone(s) /\ pc'[s] = step /\ req'[s] = req[s]
  BY GotoFacts DEF IInv, Step
<1>2. TakesFreeLocks(s) /\ ~HoldsPayment(s)' /\ ~HoldsOrder(s)' /\ ~HoldsEvent(s)'
  BY <1>1 DEF TakesFreeLocks, HoldsPayment, HoldsOrder, HoldsEvent
<1>3. req[s].kind \in {"sync", "resolve"}
  BY FulfilFacts
<1>4. jobs'[req[s].item] # "none"
  BY JobFacts DEF Undisturbed, JobsKept
<1>5. Fits(pc'[s], req'[s]) /\ Knows(s)'
  BY <1>1, <1>2, <1>3, <1>4 DEF Fits, Knows
<1> QED  BY <1>1, <1>2, <1>5, StepInv

LEMMA MarkInv ==
  ASSUME IInv, NEW s \in Sessions, Mark(s)
  PROVE  IInv'
<1>1. pc[s] = "mark" /\ Revive(req[s].item) /\ Goto(s, "report")
  BY DEF Mark
<1>2. req[s] \in Fulfil
  BY <1>1, RequestFacts DEF Fits, Fulfil
<1>3. req[s].item \in Items /\ jobs[req[s].item] # "none"
  BY <1>2, JobFacts
<1>4. SoundRows /\ \A t \in Sessions : Undisturbed(t)
  BY <1>1, <1>3, RowFacts, SetItemFacts DEF Revive, ItemStatus, JobsKept
<1> QED  BY <1>1, <1>2, <1>4, GoesOnInv

LEMMA ReportInv ==
  ASSUME IInv, NEW s \in Sessions, Report(s)
  PROVE  IInv'
<1> DEFINE i == req[s].item
           status == IF req[s].kind = "sync" THEN "confirmed" ELSE req[s].to
<1>1. pc[s] = "report" /\ SetItem(i, status) /\ Goto(s, "look") /\ past' = past
  BY DEF Report
<1>2. req[s] \in Fulfil
  BY <1>1, RequestFacts DEF Fits
<1>3. i \in Items /\ jobs[i] # "none"
  BY <1>2, JobFacts
<1>4. PICK answer \in {"answered", jobs[i]} : jobs' = [jobs EXCEPT ![i] = answer]
  BY DEF Report
<1>5. /\ jobs' \in [Items -> {"none", "made", "answered"}] /\ JobsKept
      /\ \A j \in Items \ {i} : jobs'[j] = jobs[j]
  BY <1>3, <1>4, RowFacts DEF JobsKept
<1>6. status \in ItemStatus /\ status # "open"
  BY <1>2, FulfilFacts DEF Fulfil, ItemStatus
<1> HIDE DEF i, status
<1>7. SoundRows /\ \A t \in Sessions : Undisturbed(t)
  BY <1>1, <1>3, <1>5, <1>6, SetItemFacts
<1> QED  BY <1>1, <1>2, <1>7, GoesOnInv

LEMMA GiveUpInv ==
  ASSUME IInv, NEW s \in Sessions, GiveUp(s)
  PROVE  IInv'
<1>1. /\ pc[s] \in {"report", "look", "decide", "write"} /\ req[s].kind = "sync"
      /\ SetItem(req[s].item, "dead_letter") /\ End(s) /\ jobs' = jobs /\ past' = past
  BY DEF GiveUp
<1>2. req[s] \in Fulfil
  BY <1>1, RequestFacts, Kinds DEF Fits
<1>3. req[s].item \in Items /\ jobs[req[s].item] # "none"
  BY <1>2, JobFacts
<1>4. SoundRows /\ \A t \in Sessions : Undisturbed(t)
  BY <1>1, <1>3, RowFacts, SetItemFacts DEF ItemStatus, JobsKept
<1> QED  BY <1>1, <1>4, CommitInv

LEMMA RetryDeadLetterJobInv ==
  ASSUME IInv, NEW i \in Items, RetryDeadLetterJob(i)
  PROVE  IInv'
<1>1. jobs[i] # "none" /\ Revive(i) /\ UNCHANGED <<pc, req>>
  BY DEF RetryDeadLetterJob
<1>2. SoundRows /\ \A t \in Sessions : Undisturbed(t)
  BY <1>1, RowFacts, SetItemFacts DEF Revive, ItemStatus, JobsKept
<1> QED  BY <1>1, <1>2, NobodysInv

LEMMA ReconcileItemInv ==
  ASSUME IInv, NEW i \in Items, ReconcileItem(i)
  PROVE  IInv'
<1>1. jobs[i] = "answered" /\ jobs' = jobs /\ past' = past /\ UNCHANGED <<pc, req>>
  BY DEF ReconcileItem
<1>2. PICK status \in {"confirmed", "ambiguous"} : SetItem(i, status)
  BY DEF ReconcileItem
<1>3. SoundRows /\ \A t \in Sessions : Undisturbed(t)
  BY <1>1, <1>2, RowFacts, SetItemFacts DEF ItemStatus, JobsKept
<1> QED  BY <1>1, <1>3, NobodysInv

LEMMA CreateSyncJobInv ==
  ASSUME IInv, NEW i \in Items, CreateSyncJob(i)
  PROVE  IInv'
<1>1. /\ pay.status = "captured" /\ jobs[i] = "none" /\ jobs' = [jobs EXCEPT ![i] = "made"]
      /\ deployed' = deployed /\ pay' = pay /\ order' = order /\ items' = items
      /\ events' = events /\ past' = past /\ twice' = twice
      /\ charged' = charged /\ declined' = declined /\ UNCHANGED <<pc, req>>
  BY DEF CreateSyncJob, history, provider
<1>2. charged # {}
  BY <1>1, RowFacts DEF CapturedWasCharged
<1>3. JobsKept /\ TypedRows
  BY <1>1, RowFacts DEF JobsKept, TypedRows
<1>4. Ledger'
  BY <1>1, RowFacts
     DEF Ledger, CapturedWasCharged, ConfirmedWasPaid, RestocksExplained,
         CancelledKeepsOnlyByEvent
<1>5. \A j \in Items : Item(j)'
  BY <1>1, <1>2, RowFacts DEF Item
<1>6. \A t \in Sessions : Undisturbed(t)
  BY <1>1, <1>3, RequestFacts DEF Undisturbed, ProviderKept, Knows
<1> QED  BY <1>1, <1>3, <1>4, <1>5, <1>6, NobodysInv DEF SoundRows

\* The session that holds the payment is the only one.
LEMMA Holder ==
  ASSUME IInv, NEW s \in Sessions, HoldsPayment(s), NEW t \in Sessions, t # s
  PROVE  ~HoldsPayment(t)
  BY DEF IInv, Exclusive

\* A captured payment is recorded, the order is confirmed unless it went on.
LEMMA CaptureFacts ==
  ASSUME IInv, NEW p \in charged, Capture(p)
  PROVE  /\ pay' \in [status : PaymentStatus, ref : Payments \cup {NoRef}]
         /\ pay'.status = "captured" /\ pay'.ref = p
         /\ order' \in OrderStatus
         /\ order' # "cancelled" <=> order # "cancelled"
         /\ charged' = charged => CapturedWasCharged' /\ ConfirmedWasPaid'
<1>1. p \in Payments
  BY DEF IInv, TypeOK
<1>2. /\ pay' = [status |-> "captured", ref |-> p]
      /\ order' = IF order \in {"placed", "confirmed"} THEN "confirmed" ELSE order
  BY DEF Capture
<1> QED  BY <1>1, <1>2, RowFacts
         DEF PaymentStatus, OrderStatus, CapturedWasCharged, ConfirmedWasPaid

LEMMA VerifyCommitsInv ==
  ASSUME IInv, NEW s \in Sessions, VerifyCommits(s)
  PROVE  IInv'
<1>1. /\ pc[s] = "order" /\ req[s].kind = "verify" /\ End(s)
      /\ deployed' = deployed /\ events' = events /\ GoodsKept
  BY DEF VerifyCommits, GoodsKept, goods, history, provider
<1>2. HoldsPayment(s) /\ req[s].payment \in charged
  BY <1>1, RequestFacts DEF HoldsPayment, Knows
<1>3. CASE pay.status = "pending" /\ order \in {"placed", "confirmed"}
  <2>1. Capture(req[s].payment)
    BY <1>3 DEF VerifyCommits
  <2>2. order' # "cancelled" /\ order # "cancelled"
    BY <1>3, <2>1 DEF Capture
  <2>3. /\ RestocksExplained' /\ \A i \in Items : Item(i)'
        /\ ProviderKept /\ JobsKept
    BY <1>1, <2>2, GoodsFacts
  <2>4. TypedRows /\ CapturedWasCharged' /\ ConfirmedWasPaid'
    BY <1>1, <1>2, <2>1, CaptureFacts, RowFacts DEF TypedRows, GoodsKept
  <2>5. Ledger'
    BY <2>2, <2>3, <2>4 DEF Ledger, CancelledKeepsOnlyByEvent
  <2>6. \A t \in Sessions \ {s} : Undisturbed(t)
    BY <1>1, <1>2, <2>2, <2>3, Holder DEF Undisturbed
  <2> QED  BY <1>1, <2>3, <2>4, <2>5, <2>6, CommitInv DEF SoundRows
<1>4. CASE ~(pay.status = "pending" /\ order \in {"placed", "confirmed"})
  <2>1. pay' = pay /\ order' = order
    BY <1>4 DEF VerifyCommits
  <2>2. RowsKept
    BY <1>1, <2>1 DEF RowsKept, GoodsKept, rows, goods, history, provider
  <2> QED  BY <1>1, <2>2, QuietEndInv
<1> QED  BY <1>3, <1>4

\* Where the webhook ends it holds its event, alone, and, where it settles, the
\* payment.
LEMMA DeliveredFacts ==
  ASSUME IInv, NEW s \in Sessions, Delivered(s)
  PROVE  /\ req[s] \in Deliver /\ req[s].kind = "deliver"
         /\ req[s].event \in Event /\ req[s].event \notin events
         /\ Sent(req[s].event)
         /\ pc[s] = "order" => HoldsPayment(s)
         /\ \A t \in Sessions \ {s} : HoldsEvent(t) => req[t].event # req[s].event
<1>1. req[s].kind = "deliver" /\ pc[s] \in {"payment", "order"}
  BY DEF Delivered
<1>2. req[s] \in Deliver
  BY <1>1, RequestFacts, Kinds, FulfilFacts DEF Request
<1>3. HoldsEvent(s)
  BY <1>1 DEF HoldsEvent
<1> QED  BY <1>1, <1>2, <1>3, RequestFacts, Kinds DEF Knows, HoldsPayment, IInv, Exclusive

LEMMA DeliverCommitsInv ==
  ASSUME IInv, NEW s \in Sessions, DeliverCommits(s)
  PROVE  IInv'
<1> DEFINE e == req[s].event
<1>1. /\ Delivered(s) /\ End(s) /\ events' = events \cup {e}
      /\ deployed' = deployed /\ GoodsKept
  BY DEF DeliverCommits, GoodsKept, goods, history, provider
<1>2. /\ e \in Event /\ e \notin events /\ Sent(e)
      /\ pc[s] = "order" => HoldsPayment(s)
      /\ \A t \in Sessions \ {s} : HoldsEvent(t) => req[t].event # e
  BY <1>1, DeliveredFacts
<1>3. e.type \in {"payment.captured", "payment.failed"} /\ e.payment \in Payments
  BY <1>2, EventFacts
<1>4. ASSUME pay' = pay \/ pc[s] = "order", TypedRows,
             order' # "cancelled" <=> order # "cancelled",
             CapturedWasCharged', ConfirmedWasPaid', CancelledKeepsOnlyByEvent'
      PROVE  IInv'
  <2>1. /\ RestocksExplained' /\ \A i \in Items : Item(i)'
        /\ ProviderKept /\ JobsKept
        /\ \A t \in Sessions : HoldsOrder(t) => order' # "cancelled"
    BY <1>1, <1>4, GoodsFacts
  <2>2. Ledger'
    BY <1>4, <2>1 DEF Ledger
  <2>3. \A t \in Sessions \ {s} : Undisturbed(t)
    BY <1>1, <1>2, <1>4, <2>1, Holder DEF Undisturbed
  <2> QED  BY <1>1, <1>4, <2>1, <2>2, <2>3, CommitInv DEF SoundRows
<1>5. CASE pc[s] = "order" /\ deployed.numbers /\ e.type = "payment.captured"
  <2>1. Capture(e.payment) /\ e.payment \in charged
    BY <1>2, <1>5 DEF DeliverCommits, Sent
  <2>2. e = [type |-> "payment.captured", payment |-> e.payment]
    BY <1>2, <1>5 DEF Event
  <2>3. /\ pay' \in [status : PaymentStatus, ref : Payments \cup {NoRef}]
        /\ pay'.status = "captured" /\ pay'.ref = e.payment
        /\ order' \in OrderStatus
        /\ order' # "cancelled" <=> order # "cancelled"
        /\ CapturedWasCharged' /\ ConfirmedWasPaid'
    BY <1>1, <2>1, CaptureFacts DEF GoodsKept
  <2>4. TypedRows
    BY <1>1, <1>2, <2>3, RowFacts DEF TypedRows, GoodsKept
  <2>5. CancelledKeepsOnlyByEvent'
    BY <1>1, <2>2, <2>3 DEF CancelledKeepsOnlyByEvent
  <2> QED  BY <1>4, <1>5, <2>3, <2>4, <2>5
<1>6. CASE pc[s] = "order" /\ deployed.numbers /\ e.type = "payment.failed"
  <2>1. pay' = [status |-> "failed", ref |-> e.payment] /\ order' = order
    BY <1>6 DEF DeliverCommits
  <2>2. TypedRows
    BY <1>1, <1>2, <1>3, <2>1, RowFacts DEF TypedRows, GoodsKept, PaymentStatus
  <2>3. CapturedWasCharged' /\ ConfirmedWasPaid' /\ CancelledKeepsOnlyByEvent'
    BY <1>1, <2>1, RowFacts
       DEF GoodsKept, CapturedWasCharged, ConfirmedWasPaid, CancelledKeepsOnlyByEvent
  <2> QED  BY <1>4, <1>6, <2>1, <2>2, <2>3
<1>7. CASE ~(pc[s] = "order" /\ deployed.numbers)
  <2>1. pay' = pay /\ order' = order
    BY <1>7 DEF DeliverCommits
  <2>2. TypedRows
    BY <1>1, <1>2, <2>1, RowFacts DEF TypedRows, GoodsKept
  <2>3. CapturedWasCharged' /\ ConfirmedWasPaid' /\ CancelledKeepsOnlyByEvent'
    BY <1>1, <2>1, RowFacts
       DEF GoodsKept, CapturedWasCharged, ConfirmedWasPaid, CancelledKeepsOnlyByEvent
  <2> QED  BY <1>4, <2>1, <2>2, <2>3
<1> QED  BY <1>3, <1>5, <1>6, <1>7

\* A cancellation holds the order, alone, and finds it open; so what goes back
\* was never given back, or was opened again together with its order.
LEMMA GiveBackFacts ==
  ASSUME IInv, NEW s \in Sessions, HoldsOrder(s), GiveBack,
         charged' = charged, declined' = declined
  PROVE  /\ order' = "cancelled" /\ order' \in OrderStatus
         /\ items' \in [Items -> ItemStatus] /\ jobs' = jobs
         /\ past' \in [Items -> SUBSET Excuses] /\ twice' \subseteq Items
         /\ ConfirmedWasPaid' /\ RestocksExplained'
         /\ \A i \in Items : Item(i)'
         /\ \A t \in Sessions \ {s} : ~HoldsOrder(t)
         /\ ProviderKept /\ JobsKept
<1> DEFINE given == {i \in Items : items[i] = "open"}
<1>1. /\ order' = "cancelled" /\ jobs' = jobs
      /\ items' = [i \in Items |-> "failed"]
      /\ past' = [i \in Items |-> IF i \in given THEN {"restored"} ELSE past[i]]
      /\ twice' = twice \cup {i \in given : past[i] \notin {{}, Excuses}}
  BY DEF GiveBack, Close
<1>2. order # "cancelled"
  BY RequestFacts DEF Knows
<1>3. ASSUME NEW i \in Items, items[i] = "open"
      PROVE  past[i] \in {{}, Excuses}
  <2>1. Item(i) /\ past[i] \in SUBSET Excuses
    BY RowFacts
  <2> QED  BY <1>2, <1>3, <2>1 DEF Item, Excuses
<1>4. twice' = {}
  BY <1>1, <1>3, RowFacts DEF RestocksExplained
<1>5. ASSUME NEW i \in Items
      PROVE  /\ items'[i] = "failed" /\ past'[i] \in SUBSET Excuses
             /\ past'[i] = {} => past[i] = {} /\ items[i] # "open"
             /\ past'[i] = {} \/ "restored" \in past'[i]
  <2>1. Item(i) /\ past[i] \in SUBSET Excuses
    BY RowFacts
  <2> QED  BY <1>1, <2>1 DEF Item, Excuses
<1>6. ASSUME NEW i \in Items PROVE Item(i)' /\ (jobs'[i] = "none" => past'[i] # {})
  <2>1. Item(i)
    BY RowFacts
  <2> QED  BY <1>1, <1>5, <2>1 DEF Item
<1>7. /\ items' \in [Items -> ItemStatus] /\ past' \in [Items -> SUBSET Excuses]
      /\ twice' \subseteq Items
  BY <1>1, <1>4, <1>5 DEF ItemStatus
<1>8. ConfirmedWasPaid' /\ RestocksExplained' /\ order' \in OrderStatus
  BY <1>1, <1>4, <1>6 DEF ConfirmedWasPaid, RestocksExplained, OrderStatus
<1>9. \A t \in Sessions \ {s} : ~HoldsOrder(t)
  BY DEF IInv, Exclusive
<1> QED  BY <1>1, <1>6, <1>7, <1>8, <1>9 DEF ProviderKept, JobsKept

\* A payment that ends up not captured owes nothing to the other rows.
LEMMA ClosedPayment ==
  ASSUME IInv, NEW status \in {"failed", "refunded"}, pay' = [pay EXCEPT !.status = status]
  PROVE  /\ pay' \in [status : PaymentStatus, ref : Payments \cup {NoRef}]
         /\ pay'.status = status
         /\ CapturedWasCharged' /\ CancelledKeepsOnlyByEvent'
<1>1. /\ pay' \in [status : PaymentStatus, ref : Payments \cup {NoRef}]
      /\ pay'.status = status
  BY RowFacts DEF PaymentStatus
<1> QED  BY <1>1 DEF CapturedWasCharged, CancelledKeepsOnlyByEvent

LEMMA RefundInv ==
  ASSUME IInv, NEW s \in Sessions, Refund(s)
  PROVE  IInv'
<1>1. /\ End(s) /\ PaymentFree /\ pay' = [pay EXCEPT !.status = "refunded"]
      /\ deployed' = deployed /\ order' = order /\ events' = events /\ GoodsKept
  BY DEF Refund, GoodsKept, goods, history, provider
<1>2. /\ RestocksExplained' /\ \A i \in Items : Item(i)'
      /\ ProviderKept /\ JobsKept
      /\ \A t \in Sessions : HoldsOrder(t) => order' # "cancelled"
  BY <1>1, GoodsFacts
<1>3. TypedRows
  BY <1>1, ClosedPayment, RowFacts DEF TypedRows, GoodsKept
<1>4. Ledger'
  BY <1>1, <1>2, ClosedPayment, RowFacts DEF Ledger, ConfirmedWasPaid, GoodsKept
<1>5. \A t \in Sessions \ {s} : Undisturbed(t)
  BY <1>1, <1>2 DEF PaymentFree, Undisturbed
<1> QED  BY <1>1, <1>2, <1>3, <1>4, <1>5, CommitInv DEF SoundRows

LEMMA CancelReadsInv ==
  ASSUME IInv, NEW s \in Sessions, CancelReads(s)
  PROVE  IInv'
<1>1. /\ pc[s] = "reverse"
      /\ deployed' = deployed /\ pay' = pay /\ events' = events
      /\ charged' = charged /\ declined' = declined
  BY DEF CancelReads, provider
<1>2. req[s] \in Simple /\ req[s].kind = "cancel" /\ HoldsOrder(s) /\ order # "cancelled"
  BY <1>1, RequestFacts, Kinds DEF Fits, Simple, HoldsOrder, Knows
<1>3. CASE pay.status = "refunded" /\ GiveBack /\ End(s)
  <2>1. TypedRows
    BY <1>1, <1>2, <1>3, GiveBackFacts, RowFacts DEF TypedRows
  <2>2. CapturedWasCharged' /\ CancelledKeepsOnlyByEvent'
    BY <1>1, <1>3 DEF CapturedWasCharged, CancelledKeepsOnlyByEvent
  <2>3. SoundRows
    BY <1>1, <1>2, <1>3, <2>1, <2>2, GiveBackFacts DEF SoundRows, Ledger
  <2>4. \A t \in Sessions \ {s} : Undisturbed(t)
    BY <1>1, <1>2, <1>3, GiveBackFacts DEF Undisturbed
  <2> QED  BY <1>3, <2>3, <2>4, CommitInv
<1>4. ASSUME NEW step \in {"payment", "idle"}, Answered(s, step),
             UNCHANGED <<order, goods>>
      PROVE  IInv'
  <2>1. RowsKept
    BY <1>1, <1>4 DEF RowsKept, rows, provider
  <2> QED  BY <1>2, <1>4, <2>1, AnsweredInv DEF Fits, Step
<1>5. CASE /\ Answered(s, IF deployed.production THEN "idle" ELSE "payment")
           /\ UNCHANGED <<order, goods>>
  BY <1>4, <1>5
<1> QED  BY <1>3, <1>5 DEF CancelReads

LEMMA CancelCommitsInv ==
  ASSUME IInv, NEW s \in Sessions, CancelCommits(s)
  PROVE  IInv'
<1>1. /\ End(s) /\ PaymentFree /\ GiveBack /\ pay' = [pay EXCEPT !.status = "refunded"]
      /\ deployed' = deployed /\ events' = events
      /\ charged' = charged /\ declined' = declined
      /\ HoldsOrder(s)
  BY DEF CancelCommits, provider, HoldsOrder
<1>2. TypedRows
  BY <1>1, GiveBackFacts, ClosedPayment, RowFacts DEF TypedRows
<1>3. SoundRows
  BY <1>1, <1>2, GiveBackFacts, ClosedPayment DEF SoundRows, Ledger
<1>4. \A t \in Sessions \ {s} : Undisturbed(t)
  BY <1>1, GiveBackFacts DEF PaymentFree, Undisturbed
<1> QED  BY <1>1, <1>3, <1>4, CommitInv

\* The provider captures or declines a payment.
LEMMA ProviderInv ==
  ASSUME IInv, NEW p \in Payments, ProviderCharges(p) \/ ProviderDeclines(p)
  PROVE  IInv'
<1>1. /\ deployed' = deployed /\ pay' = pay /\ order' = order /\ events' = events
      /\ items' = items /\ jobs' = jobs /\ past' = past /\ twice' = twice
      /\ UNCHANGED <<pc, req>> /\ ProviderKept
      /\ charged' \subseteq Payments /\ declined' \subseteq Payments
  BY DEF IInv, TypeOK, ProviderCharges, ProviderDeclines, ProviderKept, rows, goods, history
<1>2. TypedRows
  BY <1>1, RowFacts DEF TypedRows
<1>3. Ledger'
  BY <1>1, RowFacts
     DEF Ledger, CapturedWasCharged, ConfirmedWasPaid, RestocksExplained,
         CancelledKeepsOnlyByEvent, ProviderKept
<1>4. \A i \in Items : Item(i)'
  BY <1>1, RowFacts DEF Item, ProviderKept
<1>5. \A t \in Sessions : Undisturbed(t)
  BY <1>1, RequestFacts DEF Undisturbed, JobsKept, Knows
<1> QED  BY <1>1, <1>2, <1>3, <1>4, <1>5, NobodysInv DEF SoundRows

(***************************************************************************)
(* The invariant and the theorems.                                         *)
(***************************************************************************)
LEMMA InitInv == Init => IInv
<1> SUFFICES ASSUME Init PROVE IInv
  OBVIOUS
<1>1. \A s \in Sessions : pc[s] = "idle" /\ req[s] = NoReq
  BY DEF Init
<1>2. TypeOK
  BY DEF Init, TypeOK, Step, PaymentStatus, OrderStatus, ItemStatus
<1>3. Ledger
  BY DEF Init, Ledger, CapturedWasCharged, ConfirmedWasPaid, RestocksExplained,
         CancelledKeepsOnlyByEvent
<1>4. \A i \in Items : Item(i)
  BY DEF Init, Item
<1>5. NoReq \notin Fulfil
  BY Kinds, FulfilFacts
<1>6. \A s \in Sessions : Fits(pc[s], req[s]) /\ Knows(s)
  BY <1>1, <1>5, Kinds DEF Fits, Knows, HoldsPayment, HoldsOrder, HoldsEvent
<1>7. Exclusive
  BY <1>1 DEF Exclusive, HoldsPayment, HoldsOrder, HoldsEvent
<1> QED  BY <1>2, <1>3, <1>4, <1>6, <1>7 DEF IInv

LEMMA NextInv == IInv /\ [Next]_vars => IInv'
<1> SUFFICES ASSUME IInv, [Next]_vars PROVE IInv'
  OBVIOUS
<1>1. ASSUME NEW s \in Sessions, NEW r \in Request, Begin(s, r) PROVE IInv'
  BY <1>1, BeginInv
<1>2. ASSUME NEW s \in Sessions, WaitsForNoLock(s) PROVE IInv'
  BY <1>2, ReadInv, AskInv, CheckInv, CancelReadsInv, LookInv, DecideInv DEF WaitsForNoLock
<1>3. ASSUME NEW s \in Sessions, WaitsForLock(s) PROVE IInv'
  BY <1>3, InsertInv, LockPaymentInv, VerifyCommitsInv, DeliverFailsInv, DeliverCommitsInv,
     RefundInv, CancelLocksOrderInv, CancelCommitsInv, WriteInv, MarkInv, ReportInv
     DEF WaitsForLock
<1>4. ASSUME NEW s \in Sessions, GiveUp(s) \/ BreakDeadlock(s) \/ Abort(s) PROVE IInv'
  BY <1>4, GiveUpInv, AbortInv
<1>5. ASSUME NEW i \in Items, CreateSyncJob(i) \/ RetryDeadLetterJob(i) \/ ReconcileItem(i)
      PROVE  IInv'
  BY <1>5, CreateSyncJobInv, RetryDeadLetterJobInv, ReconcileItemInv
<1>6. ASSUME NEW p \in Payments, ProviderCharges(p) \/ ProviderDeclines(p) PROVE IInv'
  BY <1>6, ProviderInv
<1>7. CASE UNCHANGED vars
  <2>1. /\ deployed' = deployed /\ pay' = pay /\ order' = order /\ events' = events
        /\ items' = items /\ jobs' = jobs /\ past' = past /\ twice' = twice
        /\ charged' = charged /\ declined' = declined /\ UNCHANGED <<pc, req>>
    BY <1>7 DEF vars, rows, goods, history, provider
  <2>2. TypedRows
    BY <2>1, RowFacts DEF TypedRows
  <2>3. Ledger'
    BY <2>1, RowFacts
       DEF Ledger, CapturedWasCharged, ConfirmedWasPaid, RestocksExplained,
           CancelledKeepsOnlyByEvent
  <2>4. \A i \in Items : Item(i)'
    BY <2>1, RowFacts DEF Item
  <2>5. \A t \in Sessions : Undisturbed(t)
    BY <2>1, RequestFacts DEF Undisturbed, ProviderKept, JobsKept, Knows
  <2> QED  BY <2>1, <2>2, <2>3, <2>4, <2>5, NobodysInv DEF SoundRows
<1> QED  BY <1>1, <1>2, <1>3, <1>4, <1>5, <1>6, <1>7 DEF Next

\* The inductive invariant holds in every reachable state.
THEOREM PaymentsInvariance == Spec => []IInv
<1>1. Init => IInv
  BY InitInv
<1>2. IInv /\ [Next]_vars => IInv'
  BY NextInv
<1> QED  BY <1>1, <1>2, PTL DEF Spec

\* Every variable of Payments keeps its type.
THEOREM PaymentsTypes == Spec => []TypeOK
<1>1. IInv => TypeOK
  BY DEF IInv
<1> QED  BY <1>1, PaymentsInvariance, PTL

\* A payment recorded as captured was captured by the provider, whichever of
\* verify and processEvent recorded it.
THEOREM CapturesAreReal == Spec => []CapturedWasCharged
<1>1. IInv => CapturedWasCharged
  BY DEF IInv, Ledger
<1> QED  BY <1>1, PaymentsInvariance, PTL

\* A confirmed, shipped or fulfilled order was paid, though transitionOrder
\* writes without a lock what it decided from an earlier read.
THEOREM ConfirmedOrdersArePaid == Spec => []ConfirmedWasPaid
<1>1. IInv => ConfirmedWasPaid
  BY DEF IInv, Ledger
<1> QED  BY <1>1, PaymentsInvariance, PTL

\* However cancellations, workers, retries, resolutions and stale writes of the
\* order interleave, stock goes back again only after the line item and the
\* order were both opened again, and is not lost.
THEOREM RestocksAreExplained == Spec => []RestocksExplained
<1>1. IInv => RestocksExplained
  BY DEF IInv, Ledger
<1> QED  BY <1>1, PaymentsInvariance, PTL

\* Only the webhook can leave a cancelled order with a captured payment.
THEOREM OnlyEventsKeepMoney == Spec => []CancelledKeepsOnlyByEvent
<1>1. IInv => CancelledKeepsOnlyByEvent
  BY DEF IInv, Ledger
<1> QED  BY <1>1, PaymentsInvariance, PTL

(***************************************************************************)
(* The life of the payment row.                                            *)
(***************************************************************************)
\* Which steps write the payment, and how.
Settles(p) ==
  /\ pay.status \in {"pending", "refunded"} /\ p \in charged
  /\ pay' = [status |-> "captured", ref |-> p]
  /\ pay.status = "refunded" =>
       [type |-> "payment.captured", payment |-> p] \notin events
Refuses(p) ==
  /\ pay.status = "pending" /\ p \in declined
  /\ pay' = [status |-> "failed", ref |-> p]
Returns == pay' = [pay EXCEPT !.status = "refunded"]

PaymentMoves ==
  \/ /\ charged' = charged /\ declined' = declined
     /\ \/ pay' = pay
        \/ \E p \in Payments : Settles(p) \/ Refuses(p)
        \/ Returns
  \/ pay' = pay /\ ProviderKept

LEMMA VerifyMoves ==
  ASSUME IInv, NEW s \in Sessions, VerifyCommits(s)
  PROVE  PaymentMoves
<1>1. charged' = charged /\ declined' = declined
  BY DEF VerifyCommits, provider
<1>2. req[s].payment \in charged /\ req[s].payment \in Payments
  BY RequestFacts DEF VerifyCommits, Knows, IInv, TypeOK
<1>3. CASE pay.status = "pending" /\ Capture(req[s].payment)
  BY <1>1, <1>2, <1>3 DEF PaymentMoves, Settles, Capture
<1>4. CASE pay' = pay
  BY <1>1, <1>4 DEF PaymentMoves
<1> QED  BY <1>3, <1>4 DEF VerifyCommits

LEMMA DeliverMoves ==
  ASSUME IInv, NEW s \in Sessions, DeliverCommits(s)
  PROVE  PaymentMoves
<1> DEFINE e == req[s].event
<1>1. charged' = charged /\ declined' = declined /\ Delivered(s)
  BY DEF DeliverCommits, provider
<1>2. /\ e \in Event /\ e \notin events /\ Sent(e) /\ req[s].kind = "deliver"
      /\ pc[s] = "order" => ~Skipped(e)
  BY <1>1, DeliveredFacts, RequestFacts DEF Knows
<1>3. e.payment \in Payments /\ e.type \in {"payment.captured", "payment.failed"}
  BY <1>2, EventFacts
<1>4. CASE pc[s] = "order" /\ e.type = "payment.captured" /\ Capture(e.payment)
  <2>1. pay.status \in {"pending", "refunded"} /\ e.payment \in charged
    BY <1>2, <1>4, RowFacts DEF Skipped, PaymentStatus, Sent
  <2>2. e = [type |-> "payment.captured", payment |-> e.payment]
    BY <1>2, <1>4 DEF Event
  <2>3. Settles(e.payment)
    BY <1>2, <1>4, <2>1, <2>2 DEF Settles, Capture
  <2> QED  BY <1>1, <1>3, <2>3 DEF PaymentMoves
<1>5. CASE /\ pc[s] = "order" /\ e.type = "payment.failed"
           /\ pay' = [status |-> "failed", ref |-> e.payment]
  <2>1. pay.status = "pending" /\ e.payment \in declined
    BY <1>2, <1>5 DEF Skipped, Sent
  <2> QED  BY <1>1, <1>3, <1>5, <2>1 DEF PaymentMoves, Refuses
<1>6. CASE pay' = pay
  BY <1>1, <1>6 DEF PaymentMoves
<1> QED  BY <1>3, <1>4, <1>5, <1>6 DEF DeliverCommits

LEMMA StepMoves == IInv /\ [Next]_vars => PaymentMoves
<1> SUFFICES ASSUME IInv, [Next]_vars PROVE PaymentMoves
  OBVIOUS
<1>1. ASSUME NEW s \in Sessions, NEW r \in Request, Begin(s, r) PROVE PaymentMoves
  BY <1>1 DEF Begin, rows, provider, PaymentMoves
<1>2. ASSUME NEW s \in Sessions, WaitsForNoLock(s) PROVE PaymentMoves
  BY <1>2 DEF WaitsForNoLock, Read, Ask, Check, CancelReads, Look, Decide,
              rows, provider, PaymentMoves
<1>3. ASSUME NEW s \in Sessions, WaitsForLock(s) PROVE PaymentMoves
  <2>1. CASE Insert(s) \/ LockPayment(s) \/ DeliverFails(s) \/ CancelLocksOrder(s)
    BY <2>1 DEF Insert, LockPayment, DeliverFails, CancelLocksOrder, rows, provider, PaymentMoves
  <2>2. CASE Refund(s) \/ CancelCommits(s) \/ Write(s)
    BY <2>2 DEF Refund, CancelCommits, Write, provider, PaymentMoves, Returns
  <2>3. CASE Mark(s) \/ Report(s)
    BY <2>3 DEF Mark, Report, Revive, SetItem, provider, PaymentMoves
  <2> QED  BY <1>3, <2>1, <2>2, <2>3, VerifyMoves, DeliverMoves DEF WaitsForLock
<1>4. ASSUME NEW s \in Sessions, BreakDeadlock(s) \/ Abort(s) \/ GiveUp(s) PROVE PaymentMoves
  BY <1>4 DEF BreakDeadlock, Abort, GiveUp, SetItem, rows, provider, PaymentMoves
<1>7. ASSUME NEW i \in Items, CreateSyncJob(i) \/ RetryDeadLetterJob(i) \/ ReconcileItem(i)
      PROVE  PaymentMoves
  BY <1>7 DEF CreateSyncJob, RetryDeadLetterJob, ReconcileItem, Revive, SetItem, provider,
              PaymentMoves
<1>5. ASSUME NEW p \in Payments, ProviderCharges(p) \/ ProviderDeclines(p) PROVE PaymentMoves
  BY <1>5 DEF ProviderCharges, ProviderDeclines, rows, ProviderKept, PaymentMoves
<1>6. CASE UNCHANGED vars
  BY <1>6 DEF vars, rows, provider, PaymentMoves
<1> QED  BY <1>1, <1>2, <1>3, <1>4, <1>5, <1>6, <1>7 DEF Next

\* A redelivered payment.captured event never undoes a refund: the row in
\* webhook_events stops it (processEvent), and verify writes pending payments
\* only.
THEOREM RefundsSurvive == Spec => RefundSurvivesRedelivery
<1>1. IInv /\ [Next]_vars =>
        [pay.status = "refunded" /\ pay'.status = "captured" =>
           [type |-> "payment.captured", payment |-> pay'.ref] \notin events]_vars
  <2> SUFFICES ASSUME IInv, [Next]_vars, pay.status = "refunded", pay'.status = "captured"
               PROVE  [type |-> "payment.captured", payment |-> pay'.ref] \notin events
    OBVIOUS
  <2>1. PICK p \in Payments : Settles(p)
    BY StepMoves, ClosedPayment, RowFacts DEF PaymentMoves, Refuses, Returns
  <2> QED  BY <2>1 DEF Settles
<1> QED  BY <1>1, PaymentsInvariance, PTL DEF Spec, RefundSurvivesRedelivery

\* The row's life, as verification, webhook, refund and cancellation write it,
\* implements PaymentLifecycle.
THEOREM PaymentsImplementLifecycle == Spec => ImplementsLifecycle
<1>1. Init => Lifecycle!Init
  BY DEF Init, Lifecycle!Init, Phase
<1>2. IInv /\ [Next]_vars => [Lifecycle!Next]_(Lifecycle!vars)
  <2> SUFFICES ASSUME IInv, [Next]_vars
               PROVE  [Lifecycle!Next]_(Lifecycle!vars)
    OBVIOUS
  <2>1. CASE pay' = pay /\ charged' = charged /\ declined' = declined
    BY <2>1 DEF Lifecycle!vars, Phase
  <2>2. ASSUME NEW p \in Payments, Settles(p), charged' = charged, declined' = declined
        PROVE  Lifecycle!Settle(p)
    BY <2>2 DEF Settles, Lifecycle!Settle, Phase
  <2>3. ASSUME NEW p \in Payments, Refuses(p), charged' = charged, declined' = declined
        PROVE  Lifecycle!Refuse(p)
    BY <2>3 DEF Refuses, Lifecycle!Refuse, Phase
  <2>5. ASSUME Returns, charged' = charged, declined' = declined
        PROVE  Lifecycle!Return
    <3>1. pay'.status = "refunded" /\ pay'.ref = pay.ref
      BY <2>5, RowFacts DEF Returns
    <3> QED  BY <2>5, <3>1 DEF Lifecycle!Return, Phase
  <2>6. ASSUME pay' = pay, ProviderKept
        PROVE  Lifecycle!Provider
    BY <2>6 DEF ProviderKept, Lifecycle!Provider, Phase
  <2> QED  BY <2>1, <2>2, <2>3, <2>5, <2>6, StepMoves DEF PaymentMoves, Lifecycle!Next
<1> QED  BY <1>1, <1>2, PaymentsInvariance, PTL DEF Spec, ImplementsLifecycle, Lifecycle!Spec

================================================================================
