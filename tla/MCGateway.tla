------------------------------ MODULE MCGateway ------------------------------
(* Gateway.tla for TLC: mails of one size, interchangeable workers. *)
EXTENDS Gateway, TLC

UnitSize == [m \in Messages |-> 1]

Symmetry == Permutations(Workers) \cup Permutations(Messages)
=============================================================================
