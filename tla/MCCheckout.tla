------------------------------- MODULE MCCheckout -------------------------------
(***************************************************************************)
(* Checkout on a small instance: two products, carts that overlap, and a   *)
(* stock that not every pair of requests fits in.                          *)
(***************************************************************************)
EXTENDS Checkout, TLC

Cart(a, b) == [p \in {1, 2} |-> IF p = 1 THEN a ELSE b]
MCCarts == {Cart(1, 0), Cart(1, 1)}
MCStock == Cart(1, 2)

Symmetry == Permutations(Sessions) \cup Permutations(Orders)
================================================================================
