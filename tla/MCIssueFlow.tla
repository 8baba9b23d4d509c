----------------------------- MODULE MCIssueFlow -----------------------------
(* Two tabs, two records at most, a USDC balance for two creations.        *)
EXTENDS IssueFlow, Forms, TLC

CONSTANTS shipper, rwa1, rwa2

\* At fees of 950 and 700 bps 6 are approved and 5 pulled on 40; 4 are approved
\* on 24 at 1000 bps, which the factory refuses.
Ask(raise, rate) == [raise |-> raise, rate |-> rate]
MCTerms == {Ask(40, 950), Ask(24, 1000)}
MCPurse == [u \in Users |-> 12]
=============================================================================
