------------------------------ MODULE Browser ------------------------------
(***************************************************************************)
(* The parts of the frontend that keep state of their own, side by side:   *)
(* the cookies that the tabs share, the view of the subscription and the   *)
(* page of the active warehouse.  They have no variable in common.         *)
(***************************************************************************)
EXTENDS Client, Checkout, WarehousePage

BrowserSpec == CLSpec /\ COSpec /\ WPSpec

\* The variables of the tabs, of the checkout and of the pages have their types.
TypesOK == CLTypeOK /\ COTypeOK /\ WPTypeOK

=============================================================================
