--------------------------- MODULE IdentityVerifier ---------------------------
(***************************************************************************)
(* contract/contracts/identity-verifier: the on-chain KYC/KYB registry.    *)
(* One record per address, overwritten whole, role included, by every      *)
(* set_identity.                                                           *)
(***************************************************************************)
EXTENDS Soroban

CONSTANTS
    IdentityCalls   \* bound: the set_identity arguments the admin uses

Roles    == {"KYC", "KYB"}
Identity == [verified : BOOLEAN, role : Roles]

ASSUME NoneIsNoIdentity == None \notin Identity
ASSUME IdentityCallsType ==
    IdentityCalls \subseteq [user : Addresses, verified : BOOLEAN, role : Roles]

VARIABLES
    verifierAdmin,   \* DataKey::Admin, None until initialize
    identity         \* DataKey::Users

verifierVars == <<verifierAdmin, identity>>

VerifierType ==
    /\ verifierAdmin \in Users \cup {None}
    /\ identity \in [Addresses -> Identity \cup {None}]

VerifierInit ==
    /\ verifierAdmin = None
    /\ identity = [a \in Addresses |-> None]

InitializeVerifier(admin) ==
    /\ verifierAdmin = None
    /\ verifierAdmin' = admin
    /\ UNCHANGED identity

\* verify_identity: panics unless the registry knows the user as verified.
Verified(user) ==
    /\ verifierAdmin # None
    /\ identity[user] # None
    /\ identity[user].verified

\* factory::require_role, through get_identity.
HasRole(user, role) ==
    /\ identity[user] # None
    /\ identity[user].verified
    /\ identity[user].role = role

SetIdentity(operator, user, verified, role) ==
    /\ operator = verifierAdmin
    /\ identity' = [identity EXCEPT ![user] = [verified |-> verified, role |-> role]]
    /\ UNCHANGED verifierAdmin

VerifierNext ==
    \/ \E admin \in Users : InitializeVerifier(admin)
    \/ \E operator \in Users, c \in IdentityCalls :
          SetIdentity(operator, c.user, c.verified, c.role)
=============================================================================
