------------------------------- MODULE MCSep57 -------------------------------
(* One token, two holders beside the factory account, four permits that      *)
(* share three nonces, and an admin that revokes one holder.                 *)
EXTENDS Sep57

CONSTANTS ann, bob, tok, n1, n2, n3

MCPermits ==
    {[action |-> "mint", token |-> tok, account |-> ann, amount |-> 2,
      nonce |-> n1, deadline |-> 3],
     [action |-> "mint", token |-> tok, account |-> bob, amount |-> 1,
      nonce |-> n2, deadline |-> 2],
     [action |-> "burn", token |-> tok, account |-> ann, amount |-> 1,
      nonce |-> n2, deadline |-> 3],
     [action |-> "burn", token |-> tok, account |-> bob, amount |-> 2,
      nonce |-> n3, deadline |-> 3]}

MCIdentityCalls ==
    {[user |-> ann, verified |-> TRUE, role |-> "KYC"],
     [user |-> bob, verified |-> TRUE, role |-> "KYC"],
     [user |-> bob, verified |-> FALSE, role |-> "KYB"]}
=============================================================================
