------------------------------ MODULE MCSigning ------------------------------
(* Two flows of one user, in two tabs.                                       *)
EXTENDS Signing

CONSTANTS f1, f2
=============================================================================
