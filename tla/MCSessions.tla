----------------------------- MODULE MCSessions -----------------------------
(* One tab, other reads of its session, and another device.                  *)
EXTENDS Sessions

CONSTANTS tab, page
=============================================================================
