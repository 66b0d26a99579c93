---------------------------- MODULE StatusPageMC ---------------------------
(* StatusPage for TLC: the services are model values.                       *)
EXTENDS StatusPage
=============================================================================
