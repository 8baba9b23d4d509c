------------------------------ MODULE MCKycSync ------------------------------
(* One user and the backend's admin.                                         *)
EXTENDS KycSync

CONSTANTS user, ops
=============================================================================
