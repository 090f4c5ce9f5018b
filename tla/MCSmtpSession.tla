---------------------------- MODULE MCSmtpSession ----------------------------
(* SmtpSession.tla for TLC. *)
EXTENDS SmtpSession, TLC
=============================================================================
