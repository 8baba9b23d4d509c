----------------------------- MODULE ListingFacts -----------------------------
(* What the lists promise, checked over every small chain and database.     *)
EXTENDS Listings, FiniteSets

LOCAL Shippers == {"acme", "brig"}

\* Every sequence of up to three offerings, each with its id, issued by one of
\* two shippers, sold to nobody, to ann, or to ann who has claimed it all since.
LOCAL Issued(id, by, shares) ==
    [id |-> id, shipper |-> by, status |-> 0, investors |-> shares,
     bought |-> 199, total |-> 200]
LOCAL Holdings == {<<>>, [a \in {"ann"} |-> 0], [a \in {"ann"} |-> 5]}
LOCAL Chains ==
    {<<>>} \union
    {[k \in 1..n |-> Issued(<<"r1", "r2", "r3">>[k], by[k], held[k])] :
        n \in 1..3, by \in [1..3 -> Shippers], held \in [1..3 -> Holdings]}

\* Records of some of the offerings, two of them perhaps at one time; r1's
\* record may have no name, and a draft's offering may not be on chain.
LOCAL Record(rwa, time, name) ==
    [rwa |-> rwa, user |-> "u1", time |-> time, name |-> name]
LOCAL Databases ==
    {<<>>} \union {<<Record("r1", t, n), Record("r3", 2, "three")>> :
                      t \in 1..3, n \in {"one", Null}}
LOCAL Acme == [id |-> "u1", role |-> "SHIPPING_COMPANY", wallet |-> "acme"]
LOCAL Ann == [id |-> "u2", role |-> "INVESTOR", wallet |-> "ann"]
LOCAL Unprovisioned(user) == [user EXCEPT !.wallet = Null]

LOCAL Event(id, rwa, type, investor, time) ==
    [id |-> id, rwa |-> rwa, type |-> type, investor |-> investor, time |-> time]
LOCAL Stored ==
    {<<Event(1, a, "RWA_CREATED", Null, s), Event(2, b, "SHARES_BOUGHT", "ann", t),
       Event(3, c, "CLAIMED", "ann", 2)>> :
        a \in {"r1", "r2"}, b \in {"r1", "r3"}, c \in {"r2", "r3"}, s \in 1..3, t \in 1..3}

LOCAL Whole(rwas, records) == listRwas(rwas, records, Null, Null, 1, 9).items

LOCAL Ids(items) == {items[k].id : k \in DOMAIN items}
LOCAL TimeOf(item) == IF item.collateral = Null THEN 0 ELSE item.collateral.time
LOCAL Place(rwas, id) == CHOOSE k \in DOMAIN rwas : rwas[k].id = id

\* Page after page shows each offering once, and the total is what the pages
\* come to (listRwas).
ASSUME PagesPartition ==
    \A rwas \in Chains, records \in Databases, limit \in 1..2 :
        LET whole == Whole(rwas, records)
            page(p) == listRwas(rwas, records, Null, Null, p, limit)
        IN  /\ page(1).items \o page(2).items \o page(3).items = whole
            /\ page(1).total = Len(whole) /\ Len(whole) = Len(rwas)
            /\ Ids(whole) = Ids(rwas)

\* The list is newest first, what has no record comes last, and offerings of
\* one time stay in the chain's order (listRwas' sort).
ASSUME NewestThenUnrecorded ==
    \A rwas \in Chains, records \in Databases :
        LET whole == Whole(rwas, records)
        IN  \A i, j \in DOMAIN whole : i < j =>
                \/ TimeOf(whole[i]) > TimeOf(whole[j])
                \/ /\ TimeOf(whole[i]) = TimeOf(whole[j])
                   /\ Place(rwas, whole[i].id) < Place(rwas, whole[j].id)

\* An investor's dashboard is what they ever bought into, claimed or not; a
\* shipper's is what it issued; the investor's collateral page is everything,
\* open or not (list).
ASSUME EachSeesTheirOwn ==
    \A rwas \in Chains, records \in Databases :
        LET dashboard(user) == Ids(AppDashboard(rwas, records, user, Null))
            collateral(user) == Ids(CollateralPage(rwas, records, user))
            those(P(_)) == {r.id : r \in {r \in ToSet(rwas) : P(r)}}
        IN  /\ dashboard(Ann) = those(LAMBDA r : r.investors # <<>>)
            /\ dashboard(Acme) = those(LAMBDA r : r.shipper = "acme")
            /\ collateral(Acme) = dashboard(Acme)
            /\ collateral(Ann) = Ids(rwas)

\* Before the wallet exists there is nothing to filter by: `my' list is
\* everyone's, while the history is empty (list, listEvents).
ASSUME UnprovisionedSeesEverything ==
    \A rwas \in Chains, events \in Stored : \A user \in {Acme, Ann} :
        /\ Ids(AppDashboard(rwas, <<>>, Unprovisioned(user), Null)) = Ids(rwas)
        /\ listEvents(rwas, events, Unprovisioned(user)) = <<>>

\* A shipper's history is every event of its offerings, an investor's every
\* event of their wallet, each once and newest first; nothing is in a
\* shipper's that is in no offering of its own (listEvents).
ASSUME HistoryIsOwn ==
    \A rwas \in Chains, events \in Stored :
        LET history(user) == listEvents(rwas, events, user)
            own == {r.id : r \in {r \in ToSet(rwas) : r.shipper = "acme"}}
            exactly(h, S) == ToSet(h) = S /\ Len(h) = Cardinality(S)
        IN  /\ exactly(history(Acme), {e \in ToSet(events) : e.rwa \in own})
            /\ exactly(history(Ann), {e \in ToSet(events) : e.investor = "ann"})
            /\ \A user \in {Acme, Ann} : \A i, j \in DOMAIN history(user) :
                   i < j => history(user)[i].time >= history(user)[j].time

\* Only the issuer's history is named: records are looked up among the
\* caller's own, and an investor has none (HistoryPage).
ASSUME InvestorsHistoryIsUnnamed ==
    \A rwas \in Chains, records \in Databases, events \in Stored :
        LET rows == HistoryPage(rwas, records, events, Ann)
        IN  \A k \in DOMAIN rows : rows[k].label = rows[k].event.rwa

\* A card is full before the last share is sold, never above; and a position
\* that was claimed in full is listed with nothing of the caller's (RwaCard).
ASSUME CardRounds ==
    /\ \A total \in 0..300 : \A bought \in 0..total :
           /\ fundedPct(bought, total) \in 0..100
           /\ bought = total /\ total > 0 => fundedPct(bought, total) = 100
    /\ \A rwas \in Chains, records \in Databases :
           LET items == AppDashboard(rwas, records, Ann, Null)
               card(k) == RwaCard(items[k])
           IN  \A k \in DOMAIN items :
                   /\ card(k).funded = 100 /\ items[k].bought < items[k].total
                   /\ card(k).you = Null <=> items[k].myShares = 0
                   /\ ~card(k).linked => card(k).title = items[k].id

\* The date shown for a due ledger is the term asked for, less what has passed
\* since (prepareRwaTokenParams, dueLedgerToDate).
ASSUME DueDateIsTheTerm ==
    \A latest \in 1..3, passed \in 0..3, days \in 1..3 :
        dueLedgerToDate(prepareDueLedger(latest, days), latest + passed)
          = days * 86400 - passed * LedgerCloseSeconds
=============================================================================
