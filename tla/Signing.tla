------------------------------- MODULE Signing -------------------------------
(***************************************************************************)
(* Signing and submitting a transaction, from the button to the ledger:    *)
(* frontend use-tx-action and use-transfer, backend/src/wallets (sign and  *)
(* transfer sessions), and BlockchainService.submitTransaction with its    *)
(* RPC failover, for the flows one user has open.                          *)
(*                                                                         *)
(* Every flow builds one transaction, so a flow stands for its transaction.*)
(* DFNS (which binds a challenge to the transaction it was made for), the  *)
(* RPC endpoints and the ledger (which applies an account's transactions   *)
(* in sequence order, one in its queue at a time) are external.            *)
(***************************************************************************)
EXTENDS Integers, FiniteSets, Sequences

CONSTANTS
    Flows,         \* presses of a button, in any tabs
    Endpoints,     \* how many RPC endpoints are configured
    DfnsFields,    \* the fields DFNS may put a signed transaction in
    MaxFaults      \* bound: failed calls, slow ledgers

ASSUME EndpointsConfigured == Endpoints \in Nat \ {0} /\ MaxFaults \in Nat
ASSUME DfnsAnswers == DfnsFields \subseteq {"signedTransaction", "signedData"}

Kinds == {"action", "transfer"}
Endpoint == 0..Endpoints - 1

\* withRpcRetry: two passes over the endpoints and at least four attempts.
Attempts == IF 2 * Endpoints > 4 THEN 2 * Endpoints ELSE 4

VARIABLES
    sequence,   \* the account's sequence number on the ledger
    queue,      \* transactions the network has accepted
    applied,    \* what the ledger made of each transaction
    sessions,   \* SignSession rows, in order of creation
    flow,       \* the flows
    activeRpc,  \* the endpoint every call of the backend uses
    faults,     \* bound
    alone       \* history: no other flow was under way at any time of this one,
                \* nor was its transaction still queued

ledgerVars == <<sequence, queue, applied>>
vars == <<ledgerVars, sessions, flow, activeRpc, faults, alone>>

Steps == {"idle", "init", "passkey", "complete", "broadcast", "mark", "send", "poll",
          "done", "failed"}
Statuses == {"", "SUCCESS", "FAILED", "NOT_FOUND", "BROADCAST"}
New == [pc |-> "idle", kind |-> "action", seq |-> 0, session |-> 0,
        signedIn |-> "", attempts |-> 0, resent |-> FALSE, status |-> ""]

TypeOK ==
    /\ sequence \in Nat
    /\ queue \subseteq Flows
    /\ applied \in [Flows -> {"no", "SUCCESS", "FAILED"}]
    /\ sessions \in Seq([flow : Flows, status : {"initiated", "completed"}])
    /\ flow \in [Flows ->
          [pc : Steps, kind : Kinds, seq : Nat, session : 0..Len(sessions),
           signedIn : DfnsFields \union {""}, attempts : 0..Attempts,
           resent : BOOLEAN, status : Statuses]]
    /\ activeRpc \in Endpoint
    /\ faults \in 0..MaxFaults
    /\ alone \in [Flows -> BOOLEAN]

Init ==
    /\ sequence = 0 /\ queue = {} /\ applied = [f \in Flows |-> "no"]
    /\ sessions = <<>>
    /\ flow = [f \in Flows |-> New]
    /\ activeRpc = 0 /\ faults = 0
    /\ alone = [f \in Flows |-> TRUE]

At(f, pc) == flow[f].pc = pc
Over(f) == flow[f].pc \in {"done", "failed"}
Fault == faults < MaxFaults /\ faults' = faults + 1
Goto(f, pc) == flow' = [flow EXCEPT ![f].pc = pc]
End(f, pc, status) == flow' = [flow EXCEPT ![f].pc = pc, ![f].status = status]

---------------------------------------------------------------------------
(* The network.                                                            *)

\* What an endpoint answers to a submission, by what the network knows.
SendStatus(f) ==
    IF f \in queue THEN "DUPLICATE"
    ELSE IF flow[f].seq <= sequence THEN "ERROR"
    ELSE IF queue # {} THEN "TRY_AGAIN_LATER" ELSE "PENDING"

Accept(f) == queue' = IF SendStatus(f) = "PENDING" THEN {f} ELSE queue

\* A ledger applies the queued transaction: it succeeds or fails, and uses the
\* sequence number either way.
LedgerCloses ==
    \E f \in queue : \E outcome \in {"SUCCESS", "FAILED"} :
        /\ flow[f].seq = sequence + 1
        /\ sequence' = sequence + 1
        /\ queue' = queue \ {f}
        /\ applied' = [applied EXCEPT ![f] = outcome]
        /\ UNCHANGED <<sessions, flow, activeRpc, faults, alone>>

---------------------------------------------------------------------------
(* Preparing and signing.                                                  *)

Begin(f, kind, pc, session) ==
    /\ At(f, "idle")
    /\ flow' = [flow EXCEPT ![f] = [New EXCEPT !.pc = pc, !.kind = kind,
                                    !.seq = sequence + 1, !.session = session]]
    /\ LET open == {g \in Flows : g # f /\ ~At(g, "idle") /\ ~Over(g)}
       IN  alone' = [g \in Flows |->
                       IF g = f THEN open = {} /\ queue = {} ELSE alone[g] /\ g \notin open]

createSignSession(f) == sessions' = Append(sessions, [flow |-> f, status |-> "initiated"])

\* useTxAction: prepareFn has the backend build the transaction, at the
\* sequence number of that moment.
prepare(f) ==
    /\ Begin(f, "action", "init", 0)
    /\ UNCHANGED <<ledgerVars, sessions, activeRpc, faults>>

\* A whole transaction is handed to DFNS as it is.
signInit(f) ==
    /\ At(f, "init")
    /\ createSignSession(f)
    /\ flow' = [flow EXCEPT ![f].pc = "passkey", ![f].session = Len(sessions) + 1]
    /\ UNCHANGED <<ledgerVars, activeRpc, faults, alone>>

\* The payment is built and its session stored in one request.
transferInit(f) ==
    /\ Begin(f, "transfer", "passkey", Len(sessions) + 1)
    /\ createSignSession(f)
    /\ UNCHANGED <<ledgerVars, activeRpc, faults>>

\* The user answers the passkey prompt, or dismisses it: the session stays open.
Passkey(f) ==
    /\ At(f, "passkey")
    /\ \/ Goto(f, "complete") /\ UNCHANGED faults
       \/ Fault /\ End(f, "failed", "")
    /\ UNCHANGED <<ledgerVars, sessions, activeRpc, alone>>

\* The user's latest initiated session, of whichever flow and kind.
getActiveSignSession ==
    LET open == {i \in DOMAIN sessions : sessions[i].status = "initiated"}
    IN  CHOOSE i \in open \union {0} : \A j \in open : j <= i

\* generateSignatureComplete: DFNS refuses a transaction that is not the one the
\* challenge was made for.
Sign(f, next) ==
    /\ At(f, "complete")
    /\ IF getActiveSignSession = flow[f].session
       THEN \E field \in DfnsFields :
               flow' = [flow EXCEPT ![f].pc = next, ![f].signedIn = field]
       ELSE End(f, "failed", "")

\* Mutant: only one of the fields DFNS may use.
signCompleteStrict(f) ==
    /\ flow[f].kind = "action" /\ At(f, "complete")
    /\ IF getActiveSignSession = flow[f].session
       THEN \E field \in DfnsFields :
               IF field = "signedTransaction" THEN Goto(f, "mark") ELSE End(f, "failed", "")
       ELSE End(f, "failed", "")
    /\ UNCHANGED <<ledgerVars, sessions, activeRpc, faults, alone>>

\* Either field becomes the signed transaction.
signComplete(f) ==
    /\ flow[f].kind = "action"
    /\ Sign(f, "mark")
    /\ UNCHANGED <<ledgerVars, sessions, activeRpc, faults, alone>>

transferComplete(f) ==
    /\ flow[f].kind = "transfer"
    /\ Sign(f, "broadcast")
    /\ UNCHANGED <<ledgerVars, sessions, activeRpc, faults, alone>>

\* transferComplete goes on to broadcast what is in signedTransaction, if
\* anything is; DFNS throws when the network does not take it.
Broadcast(f) ==
    /\ At(f, "broadcast")
    /\ IF flow[f].signedIn # "signedTransaction"
       THEN Goto(f, "mark") /\ UNCHANGED queue
       ELSE /\ Accept(f)
            /\ IF SendStatus(f) \in {"PENDING", "DUPLICATE"}
               THEN Goto(f, "mark") ELSE End(f, "failed", "")
    /\ UNCHANGED <<sequence, applied, sessions, activeRpc, faults, alone>>

\* The session is marked last; then the flow is answered.
updateSignSession(f) ==
    /\ At(f, "mark")
    /\ sessions' = [sessions EXCEPT ![flow[f].session].status = "completed"]
    /\ IF flow[f].kind = "action" THEN Goto(f, "send") ELSE End(f, "done", "BROADCAST")
    /\ UNCHANGED <<ledgerVars, activeRpc, faults, alone>>

\* A request throws, or its answer is lost: the flow stops where it is.
Fail(f) ==
    /\ flow[f].pc \in {"init", "complete", "broadcast", "mark"}
    /\ Fault
    /\ End(f, "failed", "")
    /\ UNCHANGED <<ledgerVars, sessions, activeRpc, alone>>

---------------------------------------------------------------------------
(* submitTransaction.                                                      *)

\* withRpcRetry after a transient error: the shared endpoint moves on, and the
\* call is repeated while it has attempts left.  resend: the call is a send.
Retried(f, resend) ==
    LET spent == flow[f].attempts + 1 = Attempts
    IN  /\ flow' = [flow EXCEPT ![f].attempts = @ + 1, ![f].resent = @ \/ resend,
                                ![f].pc = IF spent THEN "failed" ELSE @]
        /\ activeRpc' = IF spent THEN activeRpc ELSE (activeRpc + 1) % Endpoints

\* The error may follow an acceptance.
sendTransactionFails(f) ==
    /\ At(f, "send") /\ Fault
    /\ Accept(f) \/ UNCHANGED queue
    /\ Retried(f, TRUE)
    /\ UNCHANGED <<sequence, applied, sessions, alone>>

\* Only ERROR is final; TRY_AGAIN_LATER is polled for like the others.
sendTransaction(f) ==
    /\ At(f, "send")
    /\ Accept(f)
    /\ IF SendStatus(f) = "ERROR"
       THEN End(f, "failed", "FAILED")
       ELSE flow' = [flow EXCEPT ![f].pc = "poll", ![f].attempts = 0]
    /\ UNCHANGED <<sequence, applied, sessions, activeRpc, faults, alone>>

pollTransactionFails(f) ==
    /\ At(f, "poll") /\ Fault
    /\ Retried(f, FALSE)
    /\ UNCHANGED <<ledgerVars, sessions, alone>>

\* Mutant: a transaction that is in a ledger is done.
ReportIncluded(f, status) ==
    End(f, IF status \in {"SUCCESS", "FAILED"} THEN "done" ELSE "failed", status)

\* useTxAction takes anything but SUCCESS for a failure.
Report(f, status) == End(f, IF status = "SUCCESS" THEN "done" ELSE "failed", status)

\* Mutant: a transaction not found after twenty attempts has failed.
pollForSuccess(f) ==
    /\ At(f, "poll")
    /\ \/ applied[f] # "no" /\ Report(f, applied[f]) /\ UNCHANGED faults
       \/ applied[f] = "no" /\ f \notin queue /\ Report(f, "FAILED") /\ UNCHANGED faults
       \/ f \in queue /\ Fault /\ Report(f, "FAILED")
    /\ UNCHANGED <<ledgerVars, sessions, activeRpc, alone>>

\* Mutant: polls until the ledger has it.
pollForever(f) ==
    /\ At(f, "poll") /\ applied[f] # "no" /\ Report(f, applied[f])
    /\ UNCHANGED <<ledgerVars, sessions, activeRpc, faults, alone>>

\* Twenty attempts may be too few for a transaction that is still queued.
pollTransaction(f) ==
    /\ At(f, "poll")
    /\ \/ applied[f] # "no" /\ Report(f, applied[f]) /\ UNCHANGED faults
       \/ applied[f] = "no" /\ f \notin queue /\ Report(f, "NOT_FOUND") /\ UNCHANGED faults
       \/ f \in queue /\ Fault /\ Report(f, "NOT_FOUND")
    /\ UNCHANGED <<ledgerVars, sessions, activeRpc, alone>>

---------------------------------------------------------------------------
Start(f) == prepare(f) \/ transferInit(f)
Advance(f) ==
    \/ signInit(f) \/ Passkey(f) \/ signComplete(f) \/ transferComplete(f)
    \/ Broadcast(f) \/ updateSignSession(f) \/ sendTransaction(f) \/ pollTransaction(f)
Trouble(f) == Fail(f) \/ sendTransactionFails(f) \/ pollTransactionFails(f)

Next == LedgerCloses \/ \E f \in Flows : Start(f) \/ Advance(f) \/ Trouble(f)

Spec == Init /\ [][Next]_vars

\* Handlers run on, the ledger keeps closing; faults are bounded.
FairSpec == Spec /\ WF_vars(LedgerCloses) /\ \A f \in Flows : WF_vars(Advance(f))

---------------------------------------------------------------------------
\* An action reported as done was applied, and applied successfully: neither
\* acceptance by an endpoint nor inclusion is taken for success
\* (submitTransaction, useTxAction).
DoneMeansApplied ==
    \A f \in Flows : At(f, "done") /\ flow[f].kind = "action" => applied[f] = "SUCCESS"

\* FAILED is final when the send needed no repeat (polls may): an action so
\* reported neither has succeeded nor can, its sequence number being used up
\* (submitTransaction).  After a repeated send it may have succeeded: the endpoint
\* answers ERROR to a transaction the ledger has applied in between (ResendIsSafe).
FailedIsFinal ==
    \A f \in Flows : flow[f].status = "FAILED" /\ ~flow[f].resent
        => applied[f] # "SUCCESS" /\ f \notin queue /\ flow[f].seq <= sequence

\* A flow with the account to itself fails only by a fault or on the ledger:
\* its own session is the latest, and its sequence number is not taken.
\* (Two flows at once may well fail each other.)
AloneSucceeds ==
    \A f \in Flows : At(f, "failed") /\ alone[f] /\ faults = 0 => applied[f] = "FAILED"

\* Every flow is answered: polls end, and no flow waits on another's session.
EveryFlowEnds == \A f \in Flows : ~At(f, "idle") ~> Over(f)

\* "Reject immediately on ERROR / TRY_AGAIN_LATER" and "The tx is already in the
\* mempool (PENDING) at this point" (submitTransaction): what is polled for was
\* accepted.
TryAgainIsRejected == \A f \in Flows : At(f, "poll") => f \in queue \/ applied[f] # "no"

\* "Re-sending the same signed envelope is safe: a duplicate lands as
\* TRY_AGAIN_LATER / DUPLICATE" (submitTransaction): a resend is never the
\* reason for reporting a transaction that went through as FAILED.
ResendIsSafe == \A f \in Flows : flow[f].status = "FAILED" => applied[f] # "SUCCESS"
=============================================================================
