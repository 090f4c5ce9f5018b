----------------------------- MODULE MCDelivery -----------------------------
(* Delivery.tla for TLC: mails of one size. *)
EXTENDS DeliveryRefinement

UnitSize == [m \in Messages |-> 1]
=============================================================================
