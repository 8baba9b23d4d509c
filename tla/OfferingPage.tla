----------------------------- MODULE OfferingPage -----------------------------
(***************************************************************************)
(* The page of one offering, as its shipper and its investors use it:      *)
(* frontend .../collateral/[rwaId], the endpoints of backend/src/rwa behind*)
(* it, and the factory as OfferingLedger promises it.                      *)
(*                                                                         *)
(* A page acts on what it last read: the offering as it was on chain and   *)
(* the events the poller had stored by then; a user may have it in several *)
(* tabs.  A press of a button starts one or two transactions, each simulated*)
(* when it is prepared and applied later, even after the page gave it up;  *)
(* Signing has what happens in between.                                    *)
(***************************************************************************)
EXTENDS OfferingLedger

CONSTANTS
    Tabs,           \* pages that show the offering
    UserOf,         \* the user of each
    Shipper,        \* the shipping company; the other users are investors
    Rwa,            \* the offering on the page
    InitialPurse,
    TypedAmounts,   \* bound: what users type into the amount fields
    Cent,           \* base units in the last digit formatAmount shows
    Thousand,       \* from here on formatAmount puts a comma in
    MaxPresses,     \* bound: buttons each user presses
    MaxFaults       \* bound: reads that fail, transactions that are given up

ASSUME PageConstants ==
    /\ Shipper \in Users /\ IsFiniteSet(Users) /\ Rwa \in Rwas /\ None \notin Nat
    /\ RaiseAmounts \subseteq Nat /\ InterestBps \subseteq Nat
    /\ UserOf \in [Tabs -> Users]
    /\ InitialPurse \in [Users -> Nat]
    /\ TypedAmounts \subseteq Nat \ {0}
    /\ Cent \in Nat \ {0} /\ Thousand \in Nat
    /\ MaxPresses \in [Users -> Nat] /\ MaxFaults \in Nat

VARIABLES
    collected,  \* history: what was paid out to the shipper
    emitted,    \* the factory's events the page looks for ...
    unread,     \* ... those of them the poller has not been past ...
    indexed,    \* ... and those it has stored
    read,       \* what each page last read, or None
    polling,    \* is the page reading every ten seconds
    flow,       \* what each page's button press has come to
    late,       \* transactions given up that the ledger may still take
    presses,    \* bound
    faults,     \* bound
    blind,      \* history: the shipper pressed on a page behind the chain, or
                \* before an earlier press was done with
    raced       \* history: a purchase landed while a settlement was under way

pageVars == <<read, polling>>
eventVars == <<collected, emitted, unread, indexed>>
boundVars == <<presses, faults>>
historyVars == <<blind, raced>>
flowVars == <<flow, late>>
vars == <<ledgerVars, eventVars, pageVars, flowVars, boundVars, historyVars>>

Investors == Users \ {Shipper}
Events == {"FUND_COLLECTED", "DEBT_SETTLED"}
Acts == {"none", "collect", "settle", "buy", "claim"}
NoFlow == [act |-> "none", pc |-> "idle", amount |-> 0]
Recorded ==
    [shipper : Users, rate : Nat, total : Nat, sold : Nat, held : [Users -> Nat],
     principal : Nat, status : {"Open", "Funded", "Settled"}]

\* An absent offering is no record.
ASSUME NoneIsNoBook == None \notin Recorded

TypeOK ==
    /\ offering \in [Rwas -> Recorded \union {None}]
    /\ vault \in Nat /\ purse \in [Users -> Nat]
    /\ collected \in Nat
    /\ indexed \union unread \subseteq emitted /\ emitted \subseteq Events
    /\ read \in [Tabs -> [book : Recorded, events : SUBSET Events] \union {None}]
    /\ polling \in [Tabs -> BOOLEAN]
    /\ flow \in [Tabs -> [act : Acts, pc : {"idle", "prepare", "sign", "stale"},
                          amount : Nat]]
    /\ late \subseteq [user : Users, act : Acts, amount : Nat]
    /\ presses \in [Users -> Nat] /\ \A u \in Users : presses[u] <= MaxPresses[u]
    /\ faults \in 0..MaxFaults
    /\ blind \in BOOLEAN /\ raced \in BOOLEAN

Init ==
    /\ LedgerInit /\ purse = InitialPurse
    /\ collected = 0
    /\ emitted = {} /\ unread = {} /\ indexed = {}
    /\ read = [t \in Tabs |-> None] /\ polling = [t \in Tabs |-> TRUE]
    /\ flow = [t \in Tabs |-> NoFlow] /\ late = {}
    /\ presses = [u \in Users |-> 0] /\ faults = 0
    /\ blind = FALSE /\ raced = FALSE

Book == offering[Rwa]
At(t, pc) == flow[t].pc = pc
Fault == faults < MaxFaults /\ faults' = faults + 1
End(t) == flow' = [flow EXCEPT ![t] = NoFlow]

\* A transaction of the user's is on its way, in some tab or given up.
Waiting(u) ==
    \/ \E t \in Tabs : UserOf[t] = u /\ flow[t].act # "none"
    \/ \E x \in late : x.user = u

---------------------------------------------------------------------------
(* Around the page.                                                        *)

\* The issue flow puts the offering on chain; its page may be open before.
Issued ==
    /\ \E raise \in RaiseAmounts, rate \in InterestBps :
          Issue(Rwa, Shipper, raise, rate, Fee(raise, rate))
    /\ UNCHANGED <<eventVars, pageVars, flowVars, boundVars, historyVars>>

\* The poller gets past an event some seconds after the transaction.  It stores
\* it, or has lost it for ever (EventsPoller: a full page, an outage, another of
\* its type in the transaction).
Index ==
    /\ \E e \in unread :
          /\ unread' = unread \ {e}
          /\ indexed' \in {indexed, indexed \union {e}}
    /\ UNCHANGED <<ledgerVars, collected, emitted, pageVars, flowVars, boundVars,
                   historyVars>>

\* parseRwaStruct with the events of findEventsByRwaId.
Current(events) == [book |-> Book, events |-> events]

\* The query runs every ten seconds ...
getRwa(t) ==
    /\ polling[t] /\ Book # None
    /\ read' = [read EXCEPT ![t] = Current(indexed)]
    /\ UNCHANGED <<ledgerVars, eventVars, polling, flowVars, boundVars,
                   historyVars>>

\* ... until it fails, twice in a row: then it stops, and the page keeps what
\* it has.
getRwaFails(t) ==
    /\ polling[t]
    /\ IF Book = None THEN UNCHANGED faults ELSE Fault
    /\ polling' = [polling EXCEPT ![t] = FALSE]
    /\ UNCHANGED <<ledgerVars, eventVars, read, flowVars, presses, historyVars>>

Reload(t) ==
    /\ At(t, "idle")
    /\ ~polling[t] /\ polling' = [polling EXCEPT ![t] = TRUE]
    /\ UNCHANGED <<ledgerVars, eventVars, read, flowVars, boundVars, historyVars>>

---------------------------------------------------------------------------
(* What the page makes of what it read.                                    *)

sharesAvailable(data) == SharesLeft(data.book)
myHolding(data, u) == data.book.held[u]
isOwner(data, u) == data.book.shipper = u

\* Mutant: the guard dropped.
neverCollected(data) == FALSE

\* Collecting counts as spent once the event is there.
fundsCollected(data) == "FUND_COLLECTED" \in data.events
debtSettled(data) == data.book.status = "Settled" \/ "DEBT_SETTLED" \in data.events

\* The other check, against the balance, is skipped until a balance is loaded.
buyExceedsAvailable(data, amount) == amount > sharesAvailable(data)

\* Two decimals, rounded half up, with a comma that toBaseUnits cannot read.
formatAmount(amount) ==
    LET shown == ((amount + Cent \div 2) \div Cent) * Cent
    IN  IF shown >= Thousand THEN None ELSE shown

\* What the claim field holds: a typed amount, or what Max put there; one that
\* is no number or not positive is refused.
toBaseUnits(typed) == {a \in typed : a # None /\ a # 0}
ClaimField(data, u) == TypedAmounts \union {formatAmount(myHolding(data, u))}

Behind(t) == read[t] # Current(emitted)

\* isPending keeps a page from a second press, not the user's other tabs.
Press(t, act, amount) ==
    /\ At(t, "idle") /\ presses[UserOf[t]] < MaxPresses[UserOf[t]]
    /\ presses' = [presses EXCEPT ![UserOf[t]] = @ + 1]
    /\ flow' = [flow EXCEPT ![t] = [act |-> act, pc |-> "prepare", amount |-> amount]]
    /\ blind' = (blind \/ (UserOf[t] = Shipper /\ (Behind(t) \/ Waiting(Shipper))))
    /\ UNCHANGED <<ledgerVars, eventVars, pageVars, late, faults, raced>>

handleCollectFund(t) ==
    /\ UserOf[t] = Shipper /\ read[t] # None /\ isOwner(read[t], UserOf[t])
    /\ read[t].book.sold > 0 /\ ~fundsCollected(read[t])
    /\ Press(t, "collect", 0)

\* The principal owed is what the page read as sold.
handleSettleDebt(t) ==
    /\ UserOf[t] = Shipper /\ read[t] # None /\ isOwner(read[t], UserOf[t])
    /\ read[t].book.sold > 0 /\ ~debtSettled(read[t])
    /\ Press(t, "settle", read[t].book.sold)

handleBuyShares(t) ==
    /\ UserOf[t] \in Investors /\ read[t] # None
    /\ read[t].book.status = "Open"
    /\ \E amount \in TypedAmounts :
          /\ ~buyExceedsAvailable(read[t], amount)
          /\ Press(t, "buy", amount)

handleClaim(t) ==
    /\ UserOf[t] \in Investors /\ read[t] # None
    /\ read[t].book.status = "Settled" /\ myHolding(read[t], UserOf[t]) > 0
    /\ \E amount \in toBaseUnits(ClaimField(read[t], UserOf[t])) :
          Press(t, "claim", amount)

---------------------------------------------------------------------------
(* The transactions.  A purchase and a settlement come after an approval of*)
(* exactly what they pull, which only takes time here; one that finds its  *)
(* allowance or its sequence number used is refused.                       *)

Emit(event) ==
    /\ emitted' = emitted \union {event} /\ unread' = unread \union {event}
    /\ UNCHANGED indexed

prepareCollectFund ==
    /\ PayOut(Rwa)
    /\ collected' = collected + Book.sold
    /\ Emit("FUND_COLLECTED") /\ UNCHANGED raced

prepareSettleDebt(amount) ==
    /\ Repay(Rwa, amount)
    /\ Emit("DEBT_SETTLED") /\ UNCHANGED <<collected, raced>>

Settling ==
    \/ \E t \in Tabs : flow[t].act = "settle"
    \/ \E x \in late : x.act = "settle"

prepareBuyShares(u, amount) ==
    /\ Sell(Rwa, u, amount)
    /\ raced' = (raced \/ Settling)
    /\ UNCHANGED eventVars

prepareClaim(u, amount) ==
    /\ Redeem(Rwa, u, amount)
    /\ UNCHANGED <<eventVars, raced>>

\* The transaction of a press, on the ledger it meets.
Transaction(u, x) ==
    \/ x.act = "collect" /\ prepareCollectFund
    \/ x.act = "settle" /\ prepareSettleDebt(x.amount)
    \/ x.act = "buy" /\ prepareBuyShares(u, x.amount)
    \/ x.act = "claim" /\ prepareClaim(u, x.amount)

\* It takes the sequence number that the user's other transactions were built on.
UsesUp(u, done) ==
    /\ flow' = [t \in Tabs |->
          IF t \in done THEN NoFlow
          ELSE IF UserOf[t] = u /\ At(t, "sign") THEN [flow[t] EXCEPT !.pc = "stale"]
          ELSE flow[t]]
    /\ late' = {x \in late : x.user # u}

\* The ledger takes it, some time after it was simulated.  Success invalidates
\* the query, which starts it again.
Apply(t) ==
    /\ At(t, "sign")
    /\ Transaction(UserOf[t], flow[t])
    /\ UsesUp(UserOf[t], {t})
    /\ polling' = [polling EXCEPT ![t] = TRUE]
    /\ UNCHANGED <<read, boundVars, blind>>

\* The simulation tells the backend whether the ledger of that moment takes it.
assertSimulationSucceeded(t) ==
    /\ At(t, "prepare")
    /\ ENABLED (Transaction(UserOf[t], flow[t]) /\ UNCHANGED flow)
    /\ flow' = [flow EXCEPT ![t].pc = "sign"]
    /\ UNCHANGED <<ledgerVars, eventVars, pageVars, late, boundVars, historyVars>>

\* A call throws, the user dismisses the passkey, or the simulation or the ledger
\* refuses it, for its state or for what is left out here (identity, permits).
Fail(t) ==
    /\ ~At(t, "idle")
    /\ End(t)
    /\ UNCHANGED <<ledgerVars, eventVars, pageVars, late, boundVars, historyVars>>

\* The answer to the submission is lost, or NOT_FOUND for as long as the backend
\* polls: the page shows an error, and the ledger may take it yet ...
GivesUp(t) ==
    /\ At(t, "sign") /\ Fault
    /\ late' = late \union
          {[user |-> UserOf[t], act |-> flow[t].act, amount |-> flow[t].amount]}
    /\ End(t)
    /\ UNCHANGED <<ledgerVars, eventVars, pageVars, presses, historyVars>>

\* ... and no page hears of it.
AppliedLate ==
    /\ \E x \in late : Transaction(x.user, x) /\ UsesUp(x.user, {})
    /\ UNCHANGED <<pageVars, boundVars, blind>>

\* It is refused, or out of time.
Dropped ==
    /\ \E x \in late : late' = late \ {x}
    /\ UNCHANGED <<ledgerVars, eventVars, pageVars, flow, boundVars, historyVars>>

ShipperActions(t) == handleCollectFund(t) \/ handleSettleDebt(t)
InvestorActions(t) == handleBuyShares(t) \/ handleClaim(t)
Advance(t) == assertSimulationSucceeded(t) \/ Apply(t) \/ Fail(t) \/ GivesUp(t)

Next ==
    \/ Issued \/ Index \/ AppliedLate \/ Dropped
    \/ \E t \in Tabs :
          \/ getRwa(t) \/ getRwaFails(t) \/ Reload(t)
          \/ ShipperActions(t) \/ InvestorActions(t) \/ Advance(t)

Spec == Init /\ [][Next]_vars

\* The pages' timers run on; nobody has to press anything.
FairSpec == Spec /\ \A t \in Tabs : WF_vars(getRwa(t))

---------------------------------------------------------------------------
HeldBy(o) == Total(o.held)

\* collect_fund can be repeated and settle_debt takes any amount: that the
\* escrow still covers every claim is up to the page.  It does, if the shipper
\* never presses on a page that is behind the chain or before an earlier press is
\* done with, in whatever tab, and no purchase lands before a settlement does or
\* is dropped: the raise is paid out at most once, what is settled is what is
\* held, and the vault has principal and interest for all of it.
EscrowWhole ==
    Book # None /\ ~blind /\ ~raced =>
        /\ collected <= Book.sold
        /\ vault >= Book.principal + Fee(Book.total - (Book.sold - HeldBy(Book)), Book.rate)
        /\ Book.status = "Settled" => Book.principal = HeldBy(Book)

\* "Always settle the full principal owed (= shares bought, 1:1 USDC)"
\* (handleSettleDebt): a settled offering owes its holders no more than was
\* settled.  The amount was read before two transactions, and the offering
\* sells on.
SettlesInFull == Book # None /\ Book.status = "Settled" => Book.principal >= HeldBy(Book)

\* "... automatically ... so users never need to refresh manually" (rwaQuery):
\* a page that has shown the offering keeps up with it without a reload.
NeverNeedsRefresh ==
    \A t \in Tabs : <>[](read[t] # None => read[t] = Current(indexed))
=============================================================================
