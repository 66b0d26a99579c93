---------------------------- MODULE WebSessionMC ---------------------------
(* WebSession for TLC: the accounts and the handlers are model values.      *)
EXTENDS WebSession
=============================================================================
