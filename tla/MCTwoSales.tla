----------------------------- MODULE MCTwoSales -----------------------------
(***************************************************************************)
(* Two sales of one product and nobody who buys: what creations, PATCHes,  *)
(* deletions and tasks do to each other.                                   *)
(***************************************************************************)
EXTENDS MCSaleLifecycle, SaleHistory
=============================================================================
