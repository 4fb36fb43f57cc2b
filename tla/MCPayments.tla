------------------------------- MODULE MCPayments -------------------------------
(***************************************************************************)
(* Payments on a small instance: one payment may be declined and another   *)
(* captured, two requests are served at a time, events are redelivered;    *)
(* one line item is sent, retried, resolved and given back meanwhile.      *)
(***************************************************************************)
EXTENDS Payments, TLC

Symmetry == Permutations(Sessions) \cup Permutations(Payments)

\* numbers, uuids, production
Deployment(n, u, p) == [numbers |-> n, uuids |-> u, production |-> p]

\* Every webhook works to its end; every webhook fails; and production, where
\* no webhook settles.
MCDeployments == {Deployment(TRUE, TRUE, FALSE), Deployment(TRUE, FALSE, FALSE),
                  Deployment(FALSE, TRUE, TRUE)}
================================================================================
