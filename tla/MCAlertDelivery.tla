---------------------------- MODULE MCAlertDelivery ----------------------------
(***************************************************************************)
(* AlertDelivery for TLC.                                                  *)
(***************************************************************************)
EXTENDS AlertDelivery, TLC

Symmetry ==
  Permutations(Alerts) \cup Permutations(Users) \cup Permutations(Deliveries)
===============================================================================
