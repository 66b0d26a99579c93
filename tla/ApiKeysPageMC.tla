--------------------------- MODULE ApiKeysPageMC ---------------------------
(* ApiKeysPage for TLC: the calls are model values.                         *)
EXTENDS ApiKeysPage
=============================================================================
