----------------------------- MODULE MCAccounts -----------------------------
(* Two requests of one email at a time, among them retries and two tabs.     *)
EXTENDS Accounts

CONSTANTS r1, r2
=============================================================================
