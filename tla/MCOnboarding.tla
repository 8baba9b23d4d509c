----------------------------- MODULE MCOnboarding -----------------------------
(* Onboarding with its bounds for TLC. *)
EXTENDS Onboarding
=============================================================================
