--------------------------- MODULE PaymentLifecycle ---------------------------
(***************************************************************************)
(* What the payment row of a Razorpay order promises, whoever writes it:   *)
(* it records a payment only when the provider took the money, it never    *)
(* goes from one recorded payment to another or back to "open", and a      *)
(* refused payment stays refused until somebody refunds the order.         *)
(*                                                                         *)
(* There are no requests, locks or deliveries here.  A refund can be       *)
(* followed by a new settlement: the code lets a payment.captured event    *)
(* overwrite a refund, so that is not promised away.                       *)
(***************************************************************************)
CONSTANTS
  Payments,   \* the provider's payment ids
  NoRef       \* no payment recorded

VARIABLES
  phase,      \* "open", "settled", "refused" or "returned"
  paidBy,     \* the payment recorded, or NoRef
  charged,    \* payments the provider has captured
  declined    \* payments the provider has declined

vars == <<phase, paidBy, charged, declined>>

Init ==
  /\ phase = "open"
  /\ paidBy = NoRef
  /\ charged = {}
  /\ declined = {}

Settle(p) ==
  /\ phase \in {"open", "returned"}
  /\ p \in charged
  /\ phase' = "settled"
  /\ paidBy' = p
  /\ UNCHANGED <<charged, declined>>

Refuse(p) ==
  /\ phase = "open"
  /\ p \in declined
  /\ phase' = "refused"
  /\ paidBy' = p
  /\ UNCHANGED <<charged, declined>>

Return ==
  /\ phase' = "returned"
  /\ UNCHANGED <<paidBy, charged, declined>>

\* The provider captures or declines a payment; it never takes a capture back.
Provider ==
  /\ charged \subseteq charged'
  /\ declined \subseteq declined'
  /\ UNCHANGED <<phase, paidBy>>

Next ==
  \/ \E p \in Payments : Settle(p) \/ Refuse(p)
  \/ Return
  \/ Provider

Spec == Init /\ [][Next]_vars
================================================================================
