------------------------------ MODULE MCTokens ------------------------------
(* Tokens.tla for TLC. *)
EXTENDS Tokens, TLC
=============================================================================
