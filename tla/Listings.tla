------------------------------- MODULE Listings -------------------------------
(***************************************************************************)
(* What the read-only endpoints and pages answer, as functions of what is  *)
(* on chain and in the database: the list of offerings, the investors and  *)
(* the history (backend/src/rwa), a user's collateral records              *)
(* (backend/src/collateral) and the pages that show them.                  *)
(*                                                                         *)
(* An offering here is a record of its id, its shipper, its status, its    *)
(* shares sold and in all, and its investors map; `rwas' is the sequence   *)
(* in which list_rwas returns them, `records' the collateral records and   *)
(* `events' the stored events.  Times are positive; Null stands for what   *)
(* is absent.                                                              *)
(***************************************************************************)
EXTENDS Integers, SequencesExt

CONSTANT Null

\* Array.prototype.sort is stable: newest first by the time of each place,
\* equal times stay in place.
NewestFirst(s, times) ==
    LET before(i, j) == \/ times[i] > times[j]
                        \/ times[i] = times[j] /\ i < j
        order == SetToSortSeq(DOMAIN s, before)
    IN  [k \in DOMAIN s |-> s[order[k]]]

Page(s, page, limit) ==
    LET last == IF page * limit > Len(s) THEN Len(s) ELSE page * limit
    IN  SubSeq(s, (page - 1) * limit + 1, last)

---------------------------------------------------------------------------
(* Offerings.                                                              *)

investorHasEntry(r, address) == address \in DOMAIN r.investors
investorHolding(r, address) ==
    IF investorHasEntry(r, address) THEN r.investors[address] ELSE 0

mapRwaStatus(status) ==
    IF status \in 0..2 THEN <<"Open", "Funded", "Settled">>[status + 1] ELSE "Unknown"

findByRwaId(records, rwa) ==
    LET found == SelectSeq(records, LAMBDA c : c.rwa = rwa)
    IN  IF found = <<>> THEN Null ELSE found[1]

\* Without an address to filter by nothing is left out.
Matching(rwas, shipper, investor) ==
    SelectSeq(rwas, LAMBDA r : /\ shipper # Null => r.shipper = shipper
                               /\ investor # Null => investorHasEntry(r, investor))

listRwas(rwas, records, shipper, investor, page, limit) ==
    LET Enriched(r) ==
            [id |-> r.id, status |-> mapRwaStatus(r.status),
             bought |-> r.bought, total |-> r.total,
             collateral |-> findByRwaId(records, r.id),
             myShares |-> IF investor = Null THEN Null ELSE investorHolding(r, investor)]
        time(item) == IF item.collateral = Null THEN 0 ELSE item.collateral.time
        matching == Matching(rwas, shipper, investor)
        items == [k \in DOMAIN matching |-> Enriched(matching[k])]
        sorted == NewestFirst(items, [k \in DOMAIN items |-> time(items[k])])
    IN  [items |-> Page(sorted, page, limit), total |-> Len(matching)]

\* The controller: whose list it is goes by the role and the wallet in the
\* token, and by `mine' for an investor.
list(rwas, records, user, mine, page, limit) ==
    IF user.role = "SHIPPING_COMPANY"
    THEN listRwas(rwas, records, user.wallet, Null, page, limit)
    ELSE listRwas(rwas, records, Null, IF mine THEN user.wallet ELSE Null, page, limit)

---------------------------------------------------------------------------
(* Events.                                                                 *)

findEventsByRwaId(events, rwa) == SelectSeq(events, LAMBDA e : e.rwa = rwa)
findEventsByInvestor(events, wallet) ==
    SelectSeq(events, LAMBDA e : e.investor = wallet)
findEventsByShipper(events, rwaIds) ==
    SelectSeq(events, LAMBDA e : e.rwa \in rwaIds)

getInvestors(events, rwa) ==
    SelectSeq(findEventsByRwaId(events, rwa), LAMBDA e : e.type = "SHARES_BOUGHT")

shipperRwaIds(rwas, wallet) ==
    {r.id : r \in {r \in ToSet(rwas) : r.shipper = wallet}}

\* The rows that come back are a query's, so no id is met twice.
listEvents(rwas, events, user) ==
    LET found == IF user.wallet = Null THEN <<>>
                 ELSE IF user.role = "SHIPPING_COMPANY"
                 THEN findEventsByShipper(events, shipperRwaIds(rwas, user.wallet))
                 ELSE findEventsByInvestor(events, user.wallet)
    IN  NewestFirst(found, [k \in DOMAIN found |-> found[k].time])

---------------------------------------------------------------------------
(* Collateral records.                                                     *)

findByUserId(records, user, page, limit) ==
    LET own == SelectSeq(records, LAMBDA c : c.user = user)
    IN  [items |-> Page(NewestFirst(own, [k \in DOMAIN own |-> own[k].time]), page, limit),
         total |-> Len(own)]

getTokenNameSymbol(collateral) ==
    IF collateral = Null THEN Null ELSE collateral.name

---------------------------------------------------------------------------
(* The pages.                                                              *)

\* RwaList reads one page of twenty, `mine' or not, whatever there is.
PageLimit == 20
RwaList(rwas, records, user, variant) ==
    list(rwas, records, user, variant = "my-investment", 1, PageLimit).items

\* me is null until it has been read; then its role is used.
AppDashboard(rwas, records, user, me) ==
    LET role == IF me = Null THEN user.role ELSE me.role
    IN  RwaList(rwas, records, user,
                IF role = "SHIPPING_COMPANY" THEN "shipper" ELSE "my-investment")

CollateralPage(rwas, records, user) ==
    RwaList(rwas, records, user,
            IF user.role = "SHIPPING_COMPANY" THEN "shipper" ELSE "investor")

linksFor(role) ==
    {"/app", "/app/profile", "/app/history"}
    \union IF role = "SHIPPING_COMPANY" THEN {} ELSE {"/app/collateral"}

\* Rounded half up, and never above a hundred.
fundedPct(bought, total) ==
    IF total = 0 THEN 0
    ELSE LET pct == (200 * bought + total) \div (2 * total)
         IN  IF pct > 100 THEN 100 ELSE pct

\* What a card shows of an item: its record's name or else its id, the
\* caller's shares when there are any, how far it is funded.
RwaCard(item) ==
    LET name == getTokenNameSymbol(item.collateral)
    IN  [title |-> IF name = Null THEN item.id ELSE name,
         you |-> IF item.myShares = Null \/ item.myShares = 0 THEN Null ELSE item.myShares,
         linked |-> item.collateral # Null,
         funded |-> fundedPct(item.bought, item.total)]

\* A row of the history is named after the user's own collateral record.
tokenMap(records, user) ==
    LET own == ToSet(findByUserId(records, user.id, 1, 100).items)
    IN  [rwa \in {c.rwa : c \in {c \in own : getTokenNameSymbol(c) # Null}} |->
            getTokenNameSymbol(CHOOSE c \in own : c.rwa = rwa)]
Label(records, user, event) ==
    LET names == tokenMap(records, user)
    IN  IF event.rwa \in DOMAIN names THEN names[event.rwa] ELSE event.rwa
HistoryPage(rwas, records, events, user) ==
    LET found == listEvents(rwas, events, user)
    IN  [k \in DOMAIN found |-> [event |-> found[k], label |-> Label(records, user, found[k])]]

---------------------------------------------------------------------------
(* Ledgers and dates, in seconds from now.                                 *)

LedgersPerDay == 17280
LedgerCloseSeconds == 5
prepareDueLedger(latest, dueDays) == latest + dueDays * LedgersPerDay
dueLedgerToDate(dueLedger, latest) ==
    IF dueLedger = 0 THEN Null ELSE (dueLedger - latest) * LedgerCloseSeconds
=============================================================================
