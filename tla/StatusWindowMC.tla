--------------------------- MODULE StatusWindowMC --------------------------
(* StatusWindow at the program's own window size: nothing is scaled down.  *)
EXTENDS StatusWindow
=============================================================================
