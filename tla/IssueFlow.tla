------------------------------- MODULE IssueFlow -------------------------------
(***************************************************************************)
(* Issuing an offering, as its shipper does from one or several tabs:      *)
(* frontend .../collateral/new, backend/src/collateral, the two endpoints  *)
(* of backend/src/rwa it calls, and the factory as OfferingLedger promises *)
(* it.                                                                     *)
(*                                                                         *)
(* One flow writes to the database (a record, its documents), to the       *)
(* document store, and twice to the chain: an approval, and the creation   *)
(* it pays for.  Nothing undoes a step when a later one fails, and a retry *)
(* starts a new record.  The shipper's role and KYB are taken as given;    *)
(* Signing has what happens inside one signAndSubmit.                      *)
(***************************************************************************)
EXTENDS OfferingLedger, Sequences

CONSTANTS
    Shipper,
    Tabs,
    Docs,               \* document slots of the form
    Terms,              \* bound: what is typed in: [raise, rate]
    InitialPurse,
    ProtocolFeeBps,     \* the factory's
    PROTOCOL_FEE_BPS,   \* the form's
    MaxFaults           \* bound: failed calls, lost answers, slow ledgers

ASSUME IssueConstants ==
    /\ Shipper \in Users /\ None \notin Tabs \union Rwas
    /\ Terms \subseteq [raise : Nat \ {0}, rate : Nat]
    /\ InitialPurse \in [Users -> Nat]
    /\ ProtocolFeeBps \in Nat /\ PROTOCOL_FEE_BPS \in Nat /\ MaxFaults \in Nat

VARIABLES
    record,     \* Collateral rows by rwaId, with their CollateralDocument rows
    stored,     \* the documents whose bytes are in the bucket
    allowance,  \* what the factory may pull of the shipper's USDC
    sequence,   \* the sequence number of the shipper's account
    late,       \* transactions the network may still apply, given up by their flow
    flow,       \* what the form of each tab is doing
    sessions,   \* the status of the shipper's SignSession rows, as they were created
    indexed,    \* the offerings whose rwa_created the poller has been past ...
    skipped,    \* history: ... and those whose record it did not promote
    refused,    \* history: a signature was completed against another tab's session
    gaveUp,     \* history: the records whose flow ended in an error
    faults      \* bound

chainVars == <<ledgerVars, allowance, sequence>>
signVars == <<sessions, refused>>
databaseVars == <<record, stored, indexed, skipped, sessions, refused>>
issueVars == <<chainVars, databaseVars, flow, late, gaveUp, faults>>

Pcs == {"idle", "create", "documents", "approve", "approving", "prepare",
        "creating", "finalize", "done"}
Slots == {"none", "uploading", "sent", "done", "error"}
Tx == [step : {"approving", "creating"}, rwa : Rwas, seq : Nat]
Form ==
    [pc : Pcs, rwa : Rwas \union {None}, seq : Nat, terms : Terms \union {None},
     session : Nat, signed : BOOLEAN, slots : [Docs -> Slots], affordable : BOOLEAN]
Collateral ==
    [terms : Terms, status : {"DRAFT", "ON_CHAIN"}, token : BOOLEAN, documents : SUBSET Docs]
Recorded ==
    [shipper : Users, rate : Nat, total : Nat, sold : Nat, held : [Users -> Nat],
     principal : Nat, status : {"Open", "Funded", "Settled"}]

\* A missing row or offering is none that is there.
ASSUME NoneIsMissing == None \notin Collateral /\ None \notin Recorded

IssueTypeOK ==
    /\ offering \in [Rwas -> Recorded \union {None}]
    /\ record \in [Rwas -> Collateral \union {None}]
    /\ stored \in [Rwas -> SUBSET Docs]
    /\ \A r \in Rwas : stored[r] # {} => stored[r] \subseteq record[r].documents
    /\ vault \in Nat /\ purse \in [Users -> Nat]
    /\ allowance \in Nat /\ sequence \in Nat /\ late \subseteq Tx
    /\ flow \in [Tabs -> Form]
    /\ sessions \in Seq({"initiated", "completed"}) /\ refused \in BOOLEAN
    /\ skipped \subseteq indexed /\ indexed \subseteq Rwas /\ gaveUp \subseteq Rwas
    /\ faults \in 0..MaxFaults

NoFlow == [pc |-> "idle", rwa |-> None, seq |-> 0, terms |-> None,
           session |-> 0, signed |-> FALSE,
           slots |-> [d \in Docs |-> "none"], affordable |-> TRUE]

IssueInit ==
    /\ LedgerInit /\ purse = InitialPurse
    /\ allowance = 0 /\ sequence = 0 /\ late = {}
    /\ record = [r \in Rwas |-> None] /\ stored = [r \in Rwas |-> {}]
    /\ flow = [t \in Tabs |-> NoFlow] /\ sessions = <<>> /\ refused = FALSE
    /\ indexed = {} /\ skipped = {} /\ gaveUp = {} /\ faults = 0

At(t, pc) == flow[t].pc = pc
Pending(t) == flow[t].pc \notin {"idle", "done"}
Fault == faults < MaxFaults /\ faults' = faults + 1
Goto(t, pc) == flow' = [flow EXCEPT ![t].pc = pc, ![t].signed = FALSE]

\* The form is idle again, whatever has been done so far.
onError(t) ==
    /\ flow' = [flow EXCEPT ![t] = [NoFlow EXCEPT !.affordable = flow[t].affordable]]
    /\ gaveUp' = gaveUp \union ({flow[t].rwa} \ {None})

---------------------------------------------------------------------------
(* The form.                                                               *)

\* Compared in fractions of base units, unrounded.
useEstimatedAllowance(balance, terms) ==
    balance * BpsScale >= terms.raise * (terms.rate + PROTOCOL_FEE_BPS)

\* A balance that is not there yet, or cannot be fetched, disables nothing.
hasInsufficientBalance(balance, terms) ==
    balance # None /\ ~useEstimatedAllowance(balance, terms)

\* The mutation of a form that has none pending.  Documents are attached or not.
issue(t) ==
    /\ ~Pending(t)
    /\ \E terms \in Terms, attached \in SUBSET Docs, balance \in {purse[Shipper], None} :
          /\ ~hasInsufficientBalance(balance, terms)
          /\ flow' = [flow EXCEPT ![t] =
                [NoFlow EXCEPT !.pc = "create", !.terms = terms,
                    !.slots = [d \in Docs |-> IF d \in attached THEN "uploading" ELSE "none"],
                    !.affordable = useEstimatedAllowance(purse[Shipper], terms)]]
    /\ UNCHANGED <<chainVars, databaseVars, late, gaveUp, faults>>

\* A request fails before it has done anything.
Fail(t) ==
    /\ flow[t].pc \in {"create", "approve", "approving", "prepare", "creating"}
    /\ Fault /\ onError(t)
    /\ UNCHANGED <<chainVars, databaseVars, late>>

---------------------------------------------------------------------------
(* The record and its documents.                                           *)

NewRecord(terms) ==
    [terms |-> terms, status |-> "DRAFT", token |-> FALSE, documents |-> {}]

\* The form sends no id; which new one is generated makes no difference.
generateCustomId == CHOOSE r \in Rwas : record[r] = None

create(t) ==
    /\ At(t, "create")
    /\ {r \in Rwas : record[r] = None} # {}
    /\ LET r == generateCustomId
       IN  /\ record' = [record EXCEPT ![r] = NewRecord(flow[t].terms)]
           /\ \/ /\ flow' = [flow EXCEPT ![t].pc = "documents", ![t].rwa = r]
                 /\ UNCHANGED <<gaveUp, faults>>
              \/ Fault /\ onError(t)
    /\ UNCHANGED <<chainVars, stored, indexed, skipped, signVars, late>>

Slot(t, d, state) == flow' = [flow EXCEPT ![t].slots[d] = state]

\* The row comes before the upload URL, and before the bytes.
requestDocumentUpload(t, d) ==
    /\ At(t, "documents") /\ flow[t].slots[d] = "uploading"
    /\ LET row == record' = [record EXCEPT ![flow[t].rwa].documents = @ \union {d}]
       IN  \/ row /\ Slot(t, d, "sent") /\ UNCHANGED faults
           \/ (row \/ UNCHANGED record) /\ Slot(t, d, "error") /\ Fault
    /\ UNCHANGED <<chainVars, stored, indexed, skipped, signVars, late, gaveUp>>

\* The browser puts the bytes into the bucket itself.
putBytes(t, d) ==
    /\ At(t, "documents") /\ flow[t].slots[d] = "sent"
    /\ \/ /\ stored' = [stored EXCEPT ![flow[t].rwa] = @ \union {d}]
          /\ Slot(t, d, "done") /\ UNCHANGED faults
       \/ Fault /\ Slot(t, d, "error") /\ UNCHANGED stored
    /\ UNCHANGED <<chainVars, record, indexed, skipped, signVars, late, gaveUp>>

\* A failed upload is reported and stops nothing.
uploadsSettled(t) ==
    /\ At(t, "documents")
    /\ \A d \in Docs : flow[t].slots[d] \notin {"uploading", "sent"}
    /\ flow' = [flow EXCEPT ![t].pc = "approve", ![t].slots = NoFlow.slots]
    /\ UNCHANGED <<chainVars, databaseVars, late, gaveUp, faults>>

---------------------------------------------------------------------------
(* The two transactions.                                                   *)

TermsOf(r) == record[r].terms

\* Mutant: the protocol fee is left out of the approval.
upfrontInterest(terms) == Fee(terms.raise, terms.rate)

\* What is approved, rounded once, and what the factory pulls, each part rounded.
upfront(terms) == Fee(terms.raise, terms.rate + ProtocolFeeBps)
Pulled(terms) == Fee(terms.raise, terms.rate) + Fee(terms.raise, ProtocolFeeBps)

\* The form takes rates the factory refuses.
Acceptable(terms) == terms.rate > 0 /\ terms.rate <= MaxInterestBps

\* create_rwa_token, by OfferingLedger's promise, if the allowance covers it.
Creates(r) ==
    /\ Acceptable(TermsOf(r))
    /\ Pulled(TermsOf(r)) <= allowance
    /\ Pulled(TermsOf(r)) <= purse[Shipper]

\* A transaction is built at the sequence number of the moment.
Prepared(t, step) ==
    flow' = [flow EXCEPT ![t].pc = step, ![t].seq = sequence + 1]

\* The DTO refuses a rate of zero.
prepareApproveFactory(t) ==
    /\ At(t, "approve")
    /\ IF flow[t].terms.rate > 0 THEN Prepared(t, "approving") /\ UNCHANGED gaveUp
                                 ELSE onError(t)
    /\ UNCHANGED <<chainVars, databaseVars, late, faults>>

\* Simulated, unlike the approval, against what it pulls.
prepareCreateRwaToken(t) ==
    /\ At(t, "prepare")
    /\ IF Creates(flow[t].rwa) THEN Prepared(t, "creating") /\ UNCHANGED gaveUp
                               ELSE onError(t)
    /\ UNCHANGED <<chainVars, databaseVars, late, faults>>

\* The ledger applies an account's transactions in the order of their numbers.
InSequence(tx) == tx.seq = sequence + 1
Succeeds(tx) == tx.step = "approving" \/ Creates(tx.rwa)

Land(tx) ==
    /\ InSequence(tx) /\ sequence' = tx.seq
    /\ CASE tx.step = "approving" ->
              allowance' = upfront(TermsOf(tx.rwa)) /\ UNCHANGED ledgerVars
         [] tx.step = "creating" /\ Succeeds(tx) ->
              /\ allowance' = allowance - Pulled(TermsOf(tx.rwa))
              /\ Issue(tx.rwa, Shipper, TermsOf(tx.rwa).raise, TermsOf(tx.rwa).rate,
                       Pulled(TermsOf(tx.rwa)))
         [] OTHER -> UNCHANGED <<allowance, ledgerVars>>

TxOf(t) == [step |-> flow[t].pc, rwa |-> flow[t].rwa, seq |-> flow[t].seq]
Sent(t) == flow[t].pc \in {"approving", "creating"}
Signed(t) == Sent(t) /\ flow[t].signed

\* DFNS gives the flow a challenge for its transaction, and the backend keeps
\* the transaction in a session of the user's.
signInit(t) ==
    /\ Sent(t) /\ ~flow[t].signed /\ flow[t].session = 0
    /\ sessions' = Append(sessions, "initiated")
    /\ flow' = [flow EXCEPT ![t].session = Len(sessions) + 1]
    /\ UNCHANGED <<chainVars, record, stored, indexed, skipped, refused, late, gaveUp, faults>>

\* The user's latest initiated session, whichever tab it belongs to.
getActiveSignSession ==
    CHOOSE n \in DOMAIN sessions :
        /\ sessions[n] = "initiated"
        /\ \A m \in DOMAIN sessions : m > n => sessions[m] = "completed"

\* The challenge is completed with the transaction of that session: DFNS refuses
\* it for another's, which leaves both sessions as they are.
signComplete(t) ==
    /\ Sent(t) /\ flow[t].session # 0
    /\ \/ /\ flow[t].session = getActiveSignSession
          /\ sessions' = [sessions EXCEPT ![flow[t].session] = "completed"]
          /\ flow' = [flow EXCEPT ![t].session = 0, ![t].signed = TRUE]
          /\ UNCHANGED <<refused, gaveUp>>
       \/ /\ flow[t].session # getActiveSignSession
          /\ refused' = TRUE /\ onError(t) /\ UNCHANGED sessions
    /\ UNCHANGED <<chainVars, record, stored, indexed, skipped, late, faults>>

\* Submitted and applied: the flow goes on when it gets the answer.
signAndSubmit(t) ==
    /\ Signed(t) /\ Land(TxOf(t))
    /\ \/ /\ Succeeds(TxOf(t))
          /\ Goto(t, IF At(t, "approving") THEN "prepare" ELSE "finalize")
          /\ UNCHANGED <<gaveUp, faults>>
       \/ ~Succeeds(TxOf(t)) /\ onError(t) /\ UNCHANGED faults
       \/ Fault /\ onError(t)
    /\ UNCHANGED <<databaseVars, late>>

\* Another tab's transaction was applied since this one was built.
outOfSequence(t) ==
    /\ Signed(t) /\ ~InSequence(TxOf(t))
    /\ onError(t)
    /\ UNCHANGED <<chainVars, databaseVars, late, faults>>

\* Mutant: the flow does not wait for the ledger.
givesUpAtOnce(t) ==
    /\ Signed(t) /\ onError(t)
    /\ late' = late \union {TxOf(t)}
    /\ UNCHANGED <<chainVars, databaseVars, faults>>

\* The backend stops polling for a transaction that is still on its way ...
givesUp(t) ==
    /\ Signed(t) /\ Fault /\ onError(t)
    /\ late' = late \union {TxOf(t)}
    /\ UNCHANGED <<chainVars, databaseVars>>

\* ... and is applied, or not.
AppliedLate ==
    /\ \E tx \in late :
          /\ late' = late \ {tx}
          /\ IF InSequence(tx) THEN Land(tx) ELSE UNCHANGED chainVars
    /\ UNCHANGED <<databaseVars, flow, gaveUp, faults>>

---------------------------------------------------------------------------
(* The record catches up.                                                  *)

\* The PATCH gives the token's address, and leaves the status alone; when it
\* throws, having been carried out or not, the flow is done all the same.
update(t) ==
    /\ At(t, "finalize")
    /\ Goto(t, "done")
    /\ \/ record' = [record EXCEPT ![flow[t].rwa].token = TRUE] /\ UNCHANGED faults
       \/ Fault /\ UNCHANGED record
    /\ UNCHANGED <<chainVars, stored, indexed, skipped, signVars, late, gaveUp>>

\* Mutant: the poller leaves a record alone that has its token already.
OnChainUnlessLinked(r) ==
    record' = [record EXCEPT ![r] = IF @.token THEN @
                                    ELSE [@ EXCEPT !.status = "ON_CHAIN", !.token = TRUE]]

OnChain(r) ==
    record' = [record EXCEPT ![r].status = "ON_CHAIN", ![r].token = TRUE]

\* The poller comes to the rwa_created event, and promotes the record.  Or it
\* never does: the event is lost to a cut page, to the retention or to a twin of
\* the same transaction, or its one promotion fails (EventsPoller has the details).
markCollateralOnChain ==
    /\ \E r \in Rwas \ indexed :
          /\ offering[r] # None
          /\ indexed' = indexed \union {r}
          /\ \/ OnChain(r) /\ UNCHANGED skipped
             \/ skipped' = skipped \union {r} /\ UNCHANGED record
    /\ UNCHANGED <<chainVars, stored, signVars, flow, late, gaveUp, faults>>

---------------------------------------------------------------------------
Advance(t) ==
    \/ create(t) \/ uploadsSettled(t)
    \/ \E d \in Docs : requestDocumentUpload(t, d) \/ putBytes(t, d)
    \/ prepareApproveFactory(t) \/ prepareCreateRwaToken(t)
    \/ signInit(t) \/ signComplete(t) \/ signAndSubmit(t) \/ outOfSequence(t)
    \/ update(t)

IssueNext ==
    \/ AppliedLate \/ markCollateralOnChain
    \/ \E t \in Tabs :
          \/ issue(t) \/ Advance(t) \/ Fail(t) \/ givesUp(t)

IssueSpec == IssueInit /\ [][IssueNext]_issueVars

\* The poller runs on; the shipper may close any tab.
FairSpec == IssueSpec /\ WF_issueVars(markCollateralOnChain)

---------------------------------------------------------------------------
\* Tabs take each other's sequence numbers and overwrite each other's
\* allowance, and may make each other fail; but when no call failed, no tab was
\* refused its signature, and the terms and the balance would do, not every flow
\* has failed: the flow whose approval was applied last goes through (issueFlow).
\* A signature refused for another tab's session may fail them all: the tab that
\* is refused had landed the approval the other was built before.
SomeoneSucceeds ==
    /\ faults = 0 /\ ~refused /\ gaveUp # {}
    /\ \A t \in Tabs : ~Pending(t)
    /\ \A r \in gaveUp : Acceptable(TermsOf(r))
    /\ \A t \in Tabs : flow[t].affordable
    => \E r \in Rwas : offering[r] # None

\* A retry never reuses the record of a failed attempt: whatever was created
\* on chain though its flow reported an error costs a fault of its own, and
\* the shipper pays at most that many upfronts for offerings it was not told of.
UntoldOnlyByFaults ==
    Cardinality({r \in gaveUp : offering[r] # None}) <= faults

\* The record of an offering whose rwa_created was stored and promoted ends up
\* ON_CHAIN with its token and stays so, whether the flow that created it was
\* done, failed or is gone, and in whichever order the PATCH and the poller write.
RecordsCatchUp ==
    \A r \in Rwas :
        <>[](offering[r] # None =>
                \/ r \in skipped
                \/ record[r] # None /\ record[r].status = "ON_CHAIN" /\ record[r].token)

\* "so the allowance always covers the pull" (prepareApproveFactory): a flow
\* whose approval was confirmed finds it there when it creates its offering.
\* The approval of another tab replaces it, and its creation uses it up.
AllowanceCoversPull ==
    \A t \in Tabs : At(t, "prepare") => allowance >= Pulled(flow[t].terms)
=============================================================================
