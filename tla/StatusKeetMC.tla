---------------------------- MODULE StatusKeetMC ---------------------------
(* Small instances of StatusKeet.                                          *)
EXTENDS StatusKeet
=============================================================================
