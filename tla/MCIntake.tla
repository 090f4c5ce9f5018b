------------------------------ MODULE MCIntake ------------------------------
(* Intake.tla for TLC: mails of different sizes. *)
EXTENDS Intake, TLC

CONSTANTS m1, m2, m3

SizeOf   == (m1 :> 1 @@ m2 :> 2 @@ m3 :> 2)
UnitSize == [m \in Messages |-> 1]
=============================================================================
