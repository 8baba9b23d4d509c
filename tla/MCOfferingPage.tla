--------------------------- MODULE MCOfferingPage ---------------------------
(* A shipper who can collect, settle and collect again, in two tabs, and an *)
(* investor who can buy both halves of 24 at 9.5%, or one and redeem it.    *)
EXTENDS OfferingPage, ListingFacts, TLC

CONSTANTS shipper, ann, s1, s2, a1, rwa

MCPurse == [u \in Users |-> 26]
MCPresses == (shipper :> 3) @@ (ann :> 2)
MCUserOf == (s1 :> shipper) @@ (s2 :> shipper) @@ (a1 :> ann)
TwoTabs == (s1 :> shipper) @@ (a1 :> ann)
ShipperTabs == Permutations({s1, s2})
=============================================================================
