----------------------------- MODULE AccountsMC ----------------------------
(* Small instances of Accounts.                                            *)
EXTENDS Accounts
=============================================================================
