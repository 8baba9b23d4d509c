------------------------------ MODULE MCFactory ------------------------------
(* Instances of the factory: one shipper, one or two investors, the admin.   *)
EXTENDS FactoryLedger, TLC

CONSTANTS shipper, ann, bob, ops, rwa1, rwa2, tok1, tok2, n1, n2, n3, n4

MintPermit(t, amount, nonce, deadline) ==
    [action |-> "mint", token |-> t, account |-> Factory, amount |-> amount,
     nonce |-> nonce, deadline |-> deadline]
BurnPermit(t, account, amount, nonce, deadline) ==
    [action |-> "burn", token |-> t, account |-> account, amount |-> amount,
     nonce |-> nonce, deadline |-> deadline]
Verify(user, role) == [user |-> user, verified |-> TRUE, role |-> role]
Revoke(user, role) == [user |-> user, verified |-> FALSE, role |-> role]

\* One offering, two investors, claims split 8 + 8 + 8 or 16 + 8: interest at
\* 950 bps is 2 on the raise of 24 but 0 on a claim of 8 and 1 on 16.
OneOfferingPermits ==
    {MintPermit(tok1, 24, n1, 2),
     BurnPermit(tok1, ann, 8, n2, 2), BurnPermit(tok1, ann, 16, n3, 2),
     BurnPermit(tok1, bob, 8, n4, 2)}
OneOfferingIdentities ==
    {Verify(shipper, "KYB"), Verify(Factory, "KYC"), Verify(ann, "KYC"),
     Verify(bob, "KYC")}
Allow(from, amount, until) == [from |-> from, amount |-> amount, until |-> until]
OneOfferingApprovals ==
    {Allow(shipper, 24, 1), Allow(ann, 24, 1), Allow(bob, 16, 1)}
OneOfferingUsdc == (shipper :> 29) @@ (ann :> 24) @@ (bob :> 16) @@ (ops :> 0)
OneOfferingPayments == {[from |-> shipper, to |-> bob, amount |-> 24]}

\* Two offerings of one shipper whose money is pooled in one balance, while
\* ledgers close: permits and allowances expire, tokens change hands, permits
\* are relayed past the factory.  The admin is verified as an investor too, so
\* that the hatch can give tokens.
TwoOfferingsPermits ==
    {MintPermit(tok1, 16, n1, 2), MintPermit(tok2, 16, n1, 2),
     BurnPermit(tok1, ann, 16, n2, 2), BurnPermit(tok2, ann, 16, n2, 2)}
TwoOfferingsIdentities ==
    {Verify(shipper, "KYB"), Verify(Factory, "KYC"), Verify(ann, "KYC")}
TwoOfferingsApprovals == {Allow(shipper, 16, 1), Allow(ann, 16, 1)}
TwoOfferingsUsdc == (shipper :> 4) @@ (ann :> 32)
\* Neither ids nor tokens differ in anything but their name.
TwoOfferingsSymmetry == Permutations({rwa1, rwa2}) \cup Permutations({tok1, tok2})
=============================================================================
