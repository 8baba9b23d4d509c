--------------------------- MODULE OfferingPageProofs ---------------------------
(***************************************************************************)
(* The escrow behind the pages of an offering, for any raise, rate, users, *)
(* tabs, amounts, presses, faults and delays: if the shipper acts on what  *)
(* the chain says, one press at a time, and no purchase lands before a     *)
(* settlement does, it covers every claim.                                 *)
(***************************************************************************)
EXTENDS OfferingPage, AmountsProofs

\* What was redeemed of an offering.
RedeemedOf(o) == o.sold - HeldBy(o)

\* The offering's record in itself.
BookAdds ==
    Book # None =>
        /\ Book.shipper = Shipper
        /\ Book.sold <= Book.total /\ HeldBy(Book) <= Book.sold
        /\ Book.status # "Settled" => Book.principal = 0 /\ HeldBy(Book) = Book.sold

\* The vault pays interest on no more than what is redeemed, and keeps the rest.
VaultAdds ==
    Book # None =>
        vault + collected >=
            Book.principal + Book.sold + Fee(Book.total - RedeemedOf(Book), Book.rate)

\* The transactions under way: those of the pages' presses, and those given up.
Pressed(t) == [user |-> UserOf[t], act |-> flow[t].act, amount |-> flow[t].amount]
Pending == late \union {Pressed(t) : t \in Tabs}

\* Nothing starts before the offering is there, and the shipper's buttons are
\* the shipper's.
PagesWait ==
    /\ Book = None => collected = 0
    /\ \A t \in Tabs : read[t] # None => Book # None
    /\ \A x \in Pending : x.act # "none" =>
          Book # None /\ (x.act \in {"collect", "settle"} => x.user = Shipper)
    /\ "FUND_COLLECTED" \notin emitted => collected = 0

\* A shipper who waits for one press to be done with has one transaction under way.
Busy(t) == UserOf[t] = Shipper /\ flow[t].act # "none"
Owed(x) == x.user = Shipper /\ x.act # "none"
OneWaiting ==
    /\ \A s, t \in Tabs : Busy(s) /\ Busy(t) => s = t
    /\ \A x, y \in late : Owed(x) /\ Owed(y) => x = y
    /\ \A t \in Tabs, x \in late : ~(Busy(t) /\ Owed(x))

\* A shipper who saw the chain collects what nobody collected ...
CollectsOnce ==
    /\ \A x \in Pending : x.act = "collect" => "FUND_COLLECTED" \notin emitted
    /\ Book # None => collected <= Book.sold

\* ... and settles what is sold, as long as no purchase lands meanwhile.
SettlesWhole ==
    /\ \A x \in Pending : x.act = "settle" =>
          Book.status # "Settled" /\ x.amount = Book.sold
    /\ Book # None /\ Book.status = "Settled" => Book.principal = HeldBy(Book)

\* That the escrow covers the claims takes that the raise is collected at most
\* once and settled in full, which takes what the shipper saw when pressing and
\* that nothing else of the shipper's is under way, and that the vault has what
\* was neither collected nor redeemed.
PInv ==
    /\ TypeOK /\ BookAdds /\ VaultAdds /\ PagesWait
    /\ ~blind => OneWaiting /\ CollectsOnce
    /\ ~blind /\ ~raced => SettlesWhole
-----------------------------------------------------------------------------
(* Types. *)

FlowRecord == [act : Acts, pc : {"idle", "prepare", "sign", "stale"}, amount : Nat]
LateRecord == [user : Users, act : Acts, amount : Nat]
Reading == [book : Recorded, events : SUBSET Events]

\* The constants' types.
LEMMA Bounds ==
    /\ Shipper \in Users /\ UserOf \in [Tabs -> Users] /\ Rwa \in Rwas /\ IsFiniteSet(Users)
    /\ RaiseAmounts \subseteq Nat /\ InterestBps \subseteq Nat
    /\ TypedAmounts \subseteq Nat \ {0}
    /\ Cent \in Nat /\ Cent > 0 /\ MaxPresses \in [Users -> Nat] /\ MaxFaults \in Nat
BY PageConstants

\* What the state's types say of the offering and of the flows.
LEMMA StateTypes ==
    ASSUME TypeOK
    PROVE  /\ Book # None => Book \in Recorded
           /\ flow \in [Tabs -> FlowRecord] /\ late \subseteq LateRecord
           /\ read \in [Tabs -> Reading \union {None}]
           /\ vault \in Nat /\ collected \in Nat
BY Bounds DEF TypeOK, Book, FlowRecord, LateRecord, Reading

\* The fields of an offering's record, and what its holdings add up to.
LEMMA BookFields ==
    ASSUME NEW o \in Recorded
    PROVE  /\ o.shipper \in Users /\ o.rate \in Nat /\ o.total \in Nat /\ o.sold \in Nat
           /\ o.held \in [Users -> Nat] /\ o.principal \in Nat
           /\ o.status \in {"Open", "Funded", "Settled"}
           /\ HeldBy(o) \in Nat
<1>1. /\ o.shipper \in Users /\ o.rate \in Nat /\ o.total \in Nat /\ o.sold \in Nat
      /\ o.held \in [Users -> Nat] /\ o.principal \in Nat
      /\ o.status \in {"Open", "Funded", "Settled"}
  BY DEF Recorded
<1>2. HeldBy(o) \in Nat
  BY <1>1, Bounds, TotalType DEF HeldBy
<1> QED BY <1>1, <1>2

\* A step that leaves the ledger and the events alone keeps what is said of them.
LEMMA LedgerStays ==
    ASSUME UNCHANGED <<ledgerVars, collected>>
    PROVE  Book' = Book /\ (BookAdds => BookAdds') /\ (VaultAdds => VaultAdds')
BY DEF ledgerVars, Book, BookAdds, VaultAdds, HeldBy, RedeemedOf
-----------------------------------------------------------------------------
(* Around the ledger. *)

\* The poller and the reads of the page change nothing that the escrow rests on.
LEMMA ReadsKeep ==
    ASSUME PInv, Index \/ \E t \in Tabs : getRwa(t) \/ getRwaFails(t) \/ Reload(t)
    PROVE  PInv'
<1> USE DEF PInv
<1>1. /\ UNCHANGED <<ledgerVars, collected, emitted, flowVars, presses, historyVars>>
      /\ TypeOK'
      /\ \A t \in Tabs : read'[t] # None => Book # None
  <2>1. CASE Index
    <3>1. /\ UNCHANGED <<ledgerVars, collected, emitted, pageVars, flowVars, boundVars,
                         historyVars>>
          /\ indexed' \union unread' \subseteq emitted
      BY <2>1 DEF Index, TypeOK
    <3> QED BY <3>1
            DEF TypeOK, ledgerVars, pageVars, flowVars, boundVars, historyVars, PagesWait
  <2>2. ASSUME NEW t \in Tabs, getRwa(t)
        PROVE  /\ UNCHANGED <<ledgerVars, collected, emitted, flowVars, presses, historyVars>>
               /\ TypeOK'
               /\ \A v \in Tabs : read'[v] # None => Book # None
    <3>1. /\ Book # None /\ read' = [read EXCEPT ![t] = Current(indexed)]
          /\ UNCHANGED <<ledgerVars, collected, emitted, unread, indexed, polling, flowVars,
                         boundVars, historyVars>>
      BY <2>2 DEF getRwa, eventVars
    <3>2. Current(indexed) \in Reading
      BY <3>1, StateTypes DEF Current, Reading, TypeOK
    <3>3. read' \in [Tabs -> Reading \union {None}]
      BY <3>1, <3>2, StateTypes
    <3> QED BY <3>1, <3>3 DEF TypeOK, ledgerVars, flowVars, boundVars, historyVars, Reading
  <2>3. ASSUME NEW t \in Tabs, getRwaFails(t) \/ Reload(t)
        PROVE  /\ UNCHANGED <<ledgerVars, collected, emitted, flowVars, presses, historyVars>>
               /\ TypeOK'
               /\ \A v \in Tabs : read'[v] # None => Book # None
    <3>1. /\ UNCHANGED <<ledgerVars, collected, emitted, unread, indexed, read, flowVars,
                         presses, historyVars>>
          /\ polling' \in [Tabs -> BOOLEAN] /\ faults' \in 0..MaxFaults
      <4>1. CASE getRwaFails(t)
        <5>1. faults' \in {faults, faults + 1} /\ (faults' = faults \/ faults < MaxFaults)
          BY <4>1 DEF getRwaFails, Fault
        <5>2. faults' \in 0..MaxFaults
          BY <5>1, Bounds DEF TypeOK
        <5> QED BY <4>1, <5>2 DEF getRwaFails, eventVars, TypeOK
      <4>2. CASE Reload(t)
        BY <4>2 DEF Reload, eventVars, boundVars, TypeOK
      <4> QED BY <2>3, <4>1, <4>2
    <3> QED BY <3>1 DEF TypeOK, ledgerVars, flowVars, historyVars, PagesWait
  <2> QED BY <2>1, <2>2, <2>3
<1>2. BookAdds' /\ VaultAdds' /\ Book' = Book
  BY <1>1, LedgerStays
<1>3. Pending' = Pending
  BY <1>1 DEF Pending, Pressed, flowVars
<1>4. PagesWait'
  BY <1>1, <1>2, <1>3 DEF PagesWait
<1>5. /\ CollectsOnce => CollectsOnce'
      /\ SettlesWhole => SettlesWhole'
  BY <1>1, <1>2, <1>3 DEF CollectsOnce, SettlesWhole, HeldBy
<1>6. OneWaiting => OneWaiting'
  BY <1>1 DEF OneWaiting, Busy, Owed, flowVars
<1> QED BY <1>1, <1>2, <1>4, <1>5, <1>6 DEF historyVars

\* The state of one page's flow changes.
LEMMA FlowChange ==
    ASSUME TypeOK, NEW t \in Tabs, NEW m \in FlowRecord, flow' = [flow EXCEPT ![t] = m]
    PROVE  /\ flow' \in [Tabs -> FlowRecord] /\ flow'[t] = m
           /\ \A v \in Tabs : v # t => flow'[v] = flow[v]
BY StateTypes

\* Nothing new is under way: what was may end, go on or be given up.
NothingNew == \A x \in Pending' : x.act = "none" \/ x \in Pending

\* Transactions that end or go on promise no more than before.
LEMMA FlowsGoOn ==
    ASSUME PInv, NothingNew, OneWaiting => OneWaiting',
           flow' \in [Tabs -> FlowRecord], late' \subseteq LateRecord,
           UNCHANGED <<ledgerVars, eventVars, pageVars, presses, historyVars>>,
           faults' \in 0..MaxFaults
    PROVE  PInv'
<1> USE DEF PInv
<1>1. TypeOK'
  BY DEF TypeOK, FlowRecord, LateRecord, ledgerVars, eventVars, pageVars, historyVars
<1>2. BookAdds' /\ VaultAdds' /\ Book' = Book
  BY LedgerStays DEF eventVars
<1>3. PagesWait'
  BY <1>2 DEF PagesWait, NothingNew, eventVars, pageVars
<1>4. (CollectsOnce => CollectsOnce') /\ (SettlesWhole => SettlesWhole')
  BY <1>2 DEF CollectsOnce, SettlesWhole, HeldBy, NothingNew, eventVars
<1> QED BY <1>1, <1>2, <1>3, <1>4 DEF historyVars

\* The simulation, a refusal or failure, a transaction given up or dropped.
LEMMA FlowSteps ==
    ASSUME PInv,
           \/ \E t \in Tabs : assertSimulationSucceeded(t) \/ Fail(t) \/ GivesUp(t)
           \/ Dropped
    PROVE  PInv'
<1> USE DEF PInv
<1>1. NoFlow \in FlowRecord /\ NoFlow.act = "none"
  BY DEF NoFlow, FlowRecord, Acts
<1>2. ASSUME NEW t \in Tabs, assertSimulationSucceeded(t)
      PROVE  PInv'
  <2> DEFINE m == [flow[t] EXCEPT !.pc = "sign"]
  <2>1. flow[t] \in FlowRecord
    BY StateTypes
  <2>2. m \in FlowRecord /\ m.act = flow[t].act /\ m.amount = flow[t].amount
    BY <2>1 DEF FlowRecord
  <2>3. /\ flow' = [flow EXCEPT ![t] = m] /\ late' = late
        /\ UNCHANGED <<ledgerVars, eventVars, pageVars, presses, faults, historyVars>>
    BY <1>2, StateTypes DEF assertSimulationSucceeded, boundVars
  <2> HIDE DEF m
  <2>4. /\ flow' \in [Tabs -> FlowRecord]
        /\ \A v \in Tabs : flow'[v].act = flow[v].act /\ flow'[v].amount = flow[v].amount
    BY <2>2, <2>3, FlowChange
  <2>5. Pending' = Pending
    BY <2>3, <2>4 DEF Pending, Pressed
  <2>6. OneWaiting => OneWaiting'
    BY <2>3, <2>4 DEF OneWaiting, Busy, Owed
  <2>7. NothingNew
    BY <2>5 DEF NothingNew
  <2> QED BY <2>3, <2>4, <2>6, <2>7, FlowsGoOn, StateTypes DEF TypeOK
<1>3. ASSUME NEW t \in Tabs, Fail(t)
      PROVE  PInv'
  <2>1. /\ flow' = [flow EXCEPT ![t] = NoFlow] /\ late' = late
        /\ UNCHANGED <<ledgerVars, eventVars, pageVars, presses, faults, historyVars>>
    BY <1>3 DEF Fail, End, boundVars
  <2>2. /\ flow' \in [Tabs -> FlowRecord] /\ flow'[t].act = "none"
        /\ \A v \in Tabs : v # t => flow'[v] = flow[v]
    BY <1>1, <2>1, FlowChange
  <2>3. NothingNew
    BY <2>1, <2>2 DEF NothingNew, Pending, Pressed
  <2>4. OneWaiting => OneWaiting'
    BY <2>1, <2>2 DEF OneWaiting, Busy, Owed
  <2> QED BY <2>1, <2>2, <2>3, <2>4, FlowsGoOn, StateTypes DEF TypeOK
<1>4. ASSUME NEW t \in Tabs, GivesUp(t)
      PROVE  PInv'
  <2> DEFINE x == Pressed(t)
  <2>1. /\ flow' = [flow EXCEPT ![t] = NoFlow] /\ late' = late \union {x}
        /\ UNCHANGED <<ledgerVars, eventVars, pageVars, presses, historyVars>>
        /\ faults < MaxFaults /\ faults' = faults + 1
    BY <1>4 DEF GivesUp, End, Fault, Pressed
  <2>2. /\ flow' \in [Tabs -> FlowRecord] /\ flow'[t].act = "none"
        /\ \A v \in Tabs : v # t => flow'[v] = flow[v]
    BY <1>1, <2>1, FlowChange
  <2>3. x \in LateRecord /\ x \in Pending /\ (Owed(x) => Busy(t))
    <3>1. flow[t] \in FlowRecord /\ UserOf[t] \in Users
      BY StateTypes, Bounds
    <3> QED BY <3>1 DEF FlowRecord, LateRecord, Pressed, Pending, Owed, Busy
  <2> HIDE DEF x
  <2>4. NothingNew
    BY <2>1, <2>2, <2>3 DEF NothingNew, Pending, Pressed
  <2>5. OneWaiting => OneWaiting'
    <3> SUFFICES ASSUME OneWaiting PROVE OneWaiting'
      OBVIOUS
    <3>1. \A v \in Tabs : Busy(v)' => v # t /\ Busy(v)
      BY <2>2 DEF Busy
    <3>2. \A y \in late' : Owed(y) => y = x \/ y \in late
      BY <2>1
    <3>3. /\ \A s, v \in Tabs : Busy(s)' /\ Busy(v)' => s = v
          /\ \A y, z \in late' : Owed(y) /\ Owed(z) => y = z
          /\ \A v \in Tabs, y \in late' : ~(Busy(v)' /\ Owed(y))
      BY <2>3, <3>1, <3>2 DEF OneWaiting
    <3> QED BY <3>3 DEF OneWaiting, Busy, Owed
  <2>6. faults' \in 0..MaxFaults /\ late' \subseteq LateRecord
    BY <2>1, <2>3, StateTypes, Bounds DEF TypeOK
  <2> QED BY <2>1, <2>2, <2>4, <2>5, <2>6, FlowsGoOn
<1>5. CASE Dropped
  <2>1. /\ flow' = flow /\ late' \subseteq late
        /\ UNCHANGED <<ledgerVars, eventVars, pageVars, presses, faults, historyVars>>
    BY <1>5 DEF Dropped, boundVars
  <2>2. NothingNew
    BY <2>1 DEF NothingNew, Pending, Pressed
  <2>3. OneWaiting => OneWaiting'
    BY <2>1 DEF OneWaiting, Busy, Owed
  <2> QED BY <2>1, <2>2, <2>3, FlowsGoOn, StateTypes DEF TypeOK
<1> QED BY <1>2, <1>3, <1>4, <1>5
-----------------------------------------------------------------------------
(* Presses. *)

\* A press by someone whose page has read the offering.  A shipper who is not
\* behind sees what is on chain.
LEMMA PressKeeps ==
    ASSUME PInv, NEW t \in Tabs, NEW act \in Acts, NEW amount \in Nat,
           Press(t, act, amount), read[t] # None,
           act \in {"collect", "settle"} => UserOf[t] = Shipper,
           act = "collect" => ~fundsCollected(read[t]),
           act = "settle" => ~debtSettled(read[t]) /\ amount = read[t].book.sold
    PROVE  PInv'
<1> USE DEF PInv
<1> DEFINE m == [act |-> act, pc |-> "prepare", amount |-> amount]
           u == UserOf[t]
           new == [user |-> u, act |-> act, amount |-> amount]
<1>1. m \in FlowRecord /\ m.act = act /\ m.amount = amount /\ u \in Users
  BY Bounds DEF FlowRecord
<1>2. /\ flow' = [flow EXCEPT ![t] = m]
      /\ UNCHANGED <<ledgerVars, eventVars, pageVars, late, faults, raced>>
      /\ blind' = (blind \/ (u = Shipper /\ (Behind(t) \/ Waiting(Shipper))))
      /\ presses[u] < MaxPresses[u] /\ presses' = [presses EXCEPT ![u] = @ + 1]
  BY DEF Press
<1> HIDE DEF m
<1>3. /\ flow' \in [Tabs -> FlowRecord] /\ flow'[t] = m
      /\ \A v \in Tabs : v # t => flow'[v] = flow[v]
  BY <1>1, <1>2, FlowChange
<1>4. BookAdds' /\ VaultAdds' /\ Book' = Book
  BY <1>2, LedgerStays DEF eventVars
<1>5. presses' \in [Users -> Nat] /\ \A v \in Users : presses'[v] <= MaxPresses[v]
  <2>1. presses \in [Users -> Nat] /\ \A v \in Users : presses[v] <= MaxPresses[v]
    BY DEF TypeOK
  <2>2. presses' \in [Users -> Nat]
    BY <1>1, <1>2, <2>1
  <2>3. \A v \in Users : presses'[v] = IF v = u THEN presses[v] + 1 ELSE presses[v]
    BY <1>2, <2>1
  <2> QED BY <1>1, <1>2, <2>1, <2>2, <2>3, Bounds
<1>6. TypeOK'
  <2>1. blind' \in BOOLEAN
    BY <1>2 DEF TypeOK
  <2> QED BY <1>2, <1>3, <1>5, <2>1 DEF TypeOK, FlowRecord, ledgerVars, eventVars, pageVars
<1>7. \A x \in Pending' : x = new \/ x \in Pending
  BY <1>1, <1>2, <1>3 DEF Pending, Pressed
<1>8. new.act = act /\ new.user = u /\ new.amount = amount
  OBVIOUS
<1> HIDE DEF u, new
<1>9. PagesWait'
  <2>1. Book # None
    BY DEF PagesWait
  <2> QED BY <1>2, <1>4, <1>7, <1>8, <2>1 DEF PagesWait, eventVars, pageVars, u
<1>10. ASSUME ~blind', u = Shipper
       PROVE  read[t] = Current(emitted) /\ ~Waiting(Shipper)
  BY <1>2, <1>10 DEF Behind
<1>11. ASSUME ~blind' PROVE OneWaiting'
  <2>1. OneWaiting
    BY <1>2, <1>11
  <2>2. CASE u # Shipper
    BY <1>2, <1>3, <2>1, <2>2 DEF OneWaiting, Busy, Owed, u
  <2>3. CASE u = Shipper
    BY <1>2, <1>3, <1>10, <1>11, <2>3 DEF OneWaiting, Busy, Owed, Waiting
  <2> QED BY <2>2, <2>3
<1>12. ASSUME ~blind' PROVE CollectsOnce'
  <2>1. CollectsOnce
    BY <1>2, <1>12
  <2>2. act = "collect" => "FUND_COLLECTED" \notin emitted
    BY <1>10, <1>12 DEF Current, fundsCollected, u
  <2> QED BY <1>2, <1>4, <1>7, <1>8, <2>1, <2>2 DEF CollectsOnce, eventVars
<1>13. ASSUME ~blind', ~raced' PROVE SettlesWhole'
  <2>1. SettlesWhole
    BY <1>2, <1>13
  <2>2. act = "settle" => Book.status # "Settled" /\ amount = Book.sold
    BY <1>10, <1>13 DEF Current, debtSettled, u
  <2> QED BY <1>4, <1>7, <1>8, <2>1, <2>2 DEF SettlesWhole, HeldBy
<1> QED BY <1>4, <1>6, <1>9, <1>11, <1>12, <1>13

\* formatAmount rounds to a number, or shows what is none.
LEMMA FormatType ==
    ASSUME NEW amount \in Nat
    PROVE  formatAmount(amount) \in Nat \union {None}
<1>1. \A n \in Nat, c \in Nat \ {0} : n \div c \in Nat
  OBVIOUS
<1>2. Cent \div 2 \in Nat
  BY <1>1, Bounds
<1>3. (amount + Cent \div 2) \div Cent \in Nat
  BY <1>1, <1>2, Bounds
<1>4. \A n, c \in Nat : n * c \in Nat
  OBVIOUS
<1>5. ((amount + Cent \div 2) \div Cent) * Cent \in Nat
  BY <1>3, <1>4, Bounds
<1> QED BY <1>5 DEF formatAmount

\* The buttons.
LEMMA ButtonsKeep ==
    ASSUME PInv, NEW t \in Tabs, ShipperActions(t) \/ InvestorActions(t)
    PROVE  PInv'
<1>0. /\ read[t] # None => read[t] \in Reading /\ read[t].book \in Recorded
      /\ UserOf[t] \in Users
  BY StateTypes, Bounds DEF PInv, Reading
<1>1. CASE handleCollectFund(t)
  BY <1>1, PressKeeps DEF handleCollectFund, Acts
<1>2. CASE handleSettleDebt(t)
  <2>1. read[t] # None /\ read[t].book.sold \in Nat
    BY <1>0, <1>2, BookFields DEF handleSettleDebt
  <2> QED BY <1>2, <2>1, PressKeeps DEF handleSettleDebt, Acts
<1>3. CASE handleBuyShares(t)
  BY <1>3, Bounds, PressKeeps DEF handleBuyShares, Acts
<1>4. CASE handleClaim(t)
  <2>1. read[t] # None /\ read[t].book.held[UserOf[t]] \in Nat
    BY <1>0, <1>4, BookFields DEF handleClaim
  <2>2. toBaseUnits(ClaimField(read[t], UserOf[t])) \subseteq Nat
    BY <2>1, FormatType, Bounds DEF toBaseUnits, ClaimField, myHolding
  <2> QED BY <1>4, <2>1, <2>2, PressKeeps DEF handleClaim, Acts
<1> QED BY <1>1, <1>2, <1>3, <1>4 DEF ShipperActions, InvestorActions
-----------------------------------------------------------------------------
(* What a purchase, a settlement and a claim make of the record. *)

Bought(o, i, amount) ==
    [o EXCEPT !.sold = @ + amount, !.held[i] = @ + amount,
              !.status = IF amount = SharesLeft(o) THEN "Funded" ELSE @]
Repaid(o, amount) == [o EXCEPT !.principal = @ + amount, !.status = "Settled"]
Redeemed(o, i, amount) == [o EXCEPT !.held[i] = @ - amount, !.principal = @ - amount]

\* A sum changes by what one holding changes.
LEMMA HoldingChange ==
    ASSUME NEW held \in [Users -> Nat], NEW i \in Users, NEW d \in Int, held[i] + d \in Nat
    PROVE  /\ [held EXCEPT ![i] = @ + d] \in [Users -> Nat]
           /\ Total([held EXCEPT ![i] = @ + d]) = Total(held) + d
<1>1. Total(held) \in Nat /\ held[i] \in Nat
  BY Bounds, TotalType
<1>2. Total([held EXCEPT ![i] = held[i] + d]) = Total(held) - held[i] + (held[i] + d)
  <2>1. IsFiniteSet(Users)
    BY Bounds
  <2> QED BY <2>1, TotalExcept
<1>3. [held EXCEPT ![i] = held[i] + d] = [held EXCEPT ![i] = @ + d]
  OBVIOUS
<1>4. [held EXCEPT ![i] = held[i] + d] \in [Users -> Nat]
  OBVIOUS
<1> QED BY <1>1, <1>2, <1>3, <1>4

\* A purchase adds as much to what is sold as to what is held.
LEMMA BoughtRecord ==
    ASSUME NEW o \in Recorded, NEW i \in Users, NEW amount \in Nat,
           amount <= SharesLeft(o), o.status = "Open"
    PROVE  /\ Bought(o, i, amount) \in Recorded
           /\ Bought(o, i, amount).sold = o.sold + amount
           /\ HeldBy(Bought(o, i, amount)) = HeldBy(o) + amount
           /\ Bought(o, i, amount).status # "Settled"
           /\ Bought(o, i, amount).shipper = o.shipper
           /\ Bought(o, i, amount).rate = o.rate
           /\ Bought(o, i, amount).total = o.total
           /\ Bought(o, i, amount).principal = o.principal
<1> DEFINE left == SharesLeft(o)
           h == [o.held EXCEPT ![i] = @ + amount]
           st == IF amount = left THEN "Funded" ELSE o.status
           n == [shipper |-> o.shipper, rate |-> o.rate, total |-> o.total,
                 sold |-> o.sold + amount, held |-> h, principal |-> o.principal,
                 status |-> st]
<1>1. o.held \in [Users -> Nat] /\ o.sold + amount \in Nat
  BY BookFields
<1>2. h \in [Users -> Nat] /\ Total(h) = Total(o.held) + amount
  <2>1. o.held[i] + amount \in Nat
    BY <1>1
  <2> QED BY <1>1, <2>1, HoldingChange
<1>3. st \in {"Open", "Funded"}
  OBVIOUS
<1>4. Bought(o, i, amount) = n
  <2>1. Bought(o, i, amount)
          = [o EXCEPT !.sold = o.sold + amount, !.held = h, !.status = st]
    BY DEF Bought, Recorded
  <2> HIDE DEF h, st
  <2> QED BY <2>1 DEF Recorded
<1> HIDE DEF h, st
<1>5. n \in Recorded
  BY <1>1, <1>2, <1>3, BookFields DEF Recorded
<1> QED BY <1>2, <1>3, <1>4, <1>5 DEF HeldBy

\* A settlement adds to what is owed.
LEMMA RepaidRecord ==
    ASSUME NEW o \in Recorded, NEW amount \in Nat
    PROVE  /\ Repaid(o, amount) \in Recorded
           /\ Repaid(o, amount).principal = o.principal + amount
           /\ Repaid(o, amount).status = "Settled"
           /\ HeldBy(Repaid(o, amount)) = HeldBy(o)
           /\ Repaid(o, amount).shipper = o.shipper
           /\ Repaid(o, amount).rate = o.rate
           /\ Repaid(o, amount).total = o.total
           /\ Repaid(o, amount).sold = o.sold
<1> DEFINE n == [shipper |-> o.shipper, rate |-> o.rate, total |-> o.total,
                 sold |-> o.sold, held |-> o.held, principal |-> o.principal + amount,
                 status |-> "Settled"]
<1>1. o.principal + amount \in Nat
  BY BookFields
<1>2. Repaid(o, amount) = n
  <2>1. Repaid(o, amount) = [o EXCEPT !.principal = o.principal + amount, !.status = "Settled"]
    BY DEF Repaid, Recorded
  <2> QED BY <2>1 DEF Recorded
<1>3. n \in Recorded
  BY <1>1, BookFields DEF Recorded
<1> QED BY <1>2, <1>3 DEF HeldBy

\* A claim takes as much from what is owed as from what is held.
LEMMA RedeemedRecord ==
    ASSUME NEW o \in Recorded, NEW i \in Users, NEW amount \in Nat,
           amount <= o.held[i], amount <= o.principal
    PROVE  /\ Redeemed(o, i, amount) \in Recorded
           /\ Redeemed(o, i, amount).principal = o.principal - amount
           /\ HeldBy(Redeemed(o, i, amount)) = HeldBy(o) - amount
           /\ amount <= HeldBy(o)
           /\ Redeemed(o, i, amount).status = o.status
           /\ Redeemed(o, i, amount).shipper = o.shipper
           /\ Redeemed(o, i, amount).rate = o.rate
           /\ Redeemed(o, i, amount).total = o.total
           /\ Redeemed(o, i, amount).sold = o.sold
<1> DEFINE h == [o.held EXCEPT ![i] = @ + (0 - amount)]
           n == [shipper |-> o.shipper, rate |-> o.rate, total |-> o.total,
                 sold |-> o.sold, held |-> h, principal |-> o.principal - amount,
                 status |-> o.status]
<1>1. /\ o.held \in [Users -> Nat] /\ o.held[i] \in Nat /\ o.principal - amount \in Nat
      /\ Total(o.held) \in Nat
  BY BookFields, Bounds, TotalType
<1>2. h \in [Users -> Nat] /\ Total(h) = Total(o.held) - amount
  <2>1. o.held[i] + (0 - amount) \in Nat /\ 0 - amount \in Int
    BY <1>1
  <2>2. Total(h) = Total(o.held) + (0 - amount) /\ h \in [Users -> Nat]
    BY <1>1, <2>1, HoldingChange
  <2> HIDE DEF h
  <2> QED BY <1>1, <2>2
<1>3. amount <= Total(o.held)
  <2>1. o.held[i] <= Total(o.held)
    BY <1>1, Bounds, TotalBoundsMembers
  <2> QED BY <1>1, <2>1
<1>4. Redeemed(o, i, amount) = n
  <2>1. o.held[i] - amount = o.held[i] + (0 - amount)
    BY <1>1
  <2>2. [o.held EXCEPT ![i] = @ - amount] = h
    BY <2>1
  <2>3. Redeemed(o, i, amount)
          = [o EXCEPT !.held = [o.held EXCEPT ![i] = @ - amount],
                      !.principal = o.principal - amount]
    BY DEF Redeemed, Recorded
  <2> HIDE DEF h
  <2> QED BY <2>2, <2>3 DEF Recorded
<1> HIDE DEF h
<1>5. n \in Recorded
  BY <1>1, <1>2, BookFields DEF Recorded
<1> QED BY <1>2, <1>3, <1>4, <1>5 DEF HeldBy
-----------------------------------------------------------------------------
(* The transactions. *)

\* A payment in or out leaves amounts.
LEMMA Payments ==
    ASSUME TypeOK, NEW u \in Users, NEW amount \in Nat
    PROVE  /\ TakeIn(u, amount) =>
                vault' = vault + amount /\ vault' \in Nat /\ purse' \in [Users -> Nat]
           /\ GiveOut(u, amount) =>
                vault' = vault - amount /\ vault' \in Nat /\ purse' \in [Users -> Nat]
<1>1. vault \in Nat /\ purse \in [Users -> Nat] /\ purse[u] \in Nat
  BY DEF TypeOK
<1>2. ASSUME TakeIn(u, amount) PROVE vault' \in Nat /\ purse' \in [Users -> Nat]
  <2>1. purse[u] - amount \in Nat
    BY <1>1, <1>2 DEF TakeIn
  <2> QED BY <1>1, <1>2, <2>1 DEF TakeIn
<1>3. ASSUME GiveOut(u, amount) PROVE vault' \in Nat /\ purse' \in [Users -> Nat]
  <2>1. purse[u] + amount \in Nat
    BY <1>1
  <2> QED BY <1>1, <1>3, <2>1 DEF GiveOut
<1> QED BY <1>2, <1>3 DEF TakeIn, GiveOut

\* The record of the offering on the page changes.
LEMMA BookChange ==
    ASSUME TypeOK, NEW n \in Recorded, offering' = [offering EXCEPT ![Rwa] = n]
    PROVE  offering' \in [Rwas -> Recorded \union {None}] /\ Book' = n /\ Book' # None
<1>1. offering \in [Rwas -> Recorded \union {None}] /\ Rwa \in Rwas
  BY Bounds DEF TypeOK
<1> QED BY <1>1, NoneIsNoBook DEF Book

\* What the ledger's taking of a transaction does besides its own change, from a
\* page or late: the shipper has none left, if it was the only one.
Landed(u, x) ==
    /\ x \in Pending /\ x.user = u /\ x.act # "none"
    /\ NothingNew /\ (OneWaiting => OneWaiting')
    /\ u = Shipper /\ OneWaiting =>
          \A y \in Pending' : y.user = Shipper => y.act = "none"
    /\ flow' \in [Tabs -> FlowRecord] /\ late' \subseteq LateRecord
    /\ polling' \in [Tabs -> BOOLEAN]
    /\ UNCHANGED <<read, boundVars, blind>>

\* The flows of a user whose sequence number is used up are refused, those given
\* up are gone.
LEMMA UsedUp ==
    ASSUME PInv, NEW u \in Users, NEW done \in SUBSET Tabs, UsesUp(u, done)
    PROVE  /\ flow' \in [Tabs -> FlowRecord] /\ late' \subseteq LateRecord
           /\ \A t \in Tabs :
                 /\ flow'[t].act \in {"none", flow[t].act}
                 /\ t \in done => flow'[t].act = "none"
                 /\ flow'[t].act # "none" => flow'[t].amount = flow[t].amount
           /\ late' \subseteq late /\ \A x \in late' : x.user # u
           /\ NothingNew /\ (OneWaiting => OneWaiting')
<1>1. flow \in [Tabs -> FlowRecord] /\ late \subseteq LateRecord
  BY StateTypes DEF PInv
<1> DEFINE F(t) == IF t \in done THEN NoFlow
                   ELSE IF UserOf[t] = u /\ At(t, "sign")
                     THEN [flow[t] EXCEPT !.pc = "stale"]
                   ELSE flow[t]
<1>2. /\ flow' = [t \in Tabs |-> F(t)]
      /\ late' = {x \in late : x.user # u}
  BY DEF UsesUp
<1>3. NoFlow \in FlowRecord /\ NoFlow.act = "none"
  BY DEF NoFlow, FlowRecord, Acts
<1>4. \A t \in Tabs :
         LET m == [flow[t] EXCEPT !.pc = "stale"]
         IN  m \in FlowRecord /\ m.act = flow[t].act /\ m.amount = flow[t].amount
  BY <1>1 DEF FlowRecord
<1>5. \A t \in Tabs :
         /\ F(t) \in FlowRecord
         /\ F(t).act \in {"none", flow[t].act}
         /\ t \in done => F(t).act = "none"
         /\ F(t).act # "none" => F(t).amount = flow[t].amount
  BY <1>1, <1>3, <1>4
<1> HIDE DEF F
<1>6. /\ flow' \in [Tabs -> FlowRecord]
      /\ \A t \in Tabs :
            /\ flow'[t].act \in {"none", flow[t].act}
            /\ t \in done => flow'[t].act = "none"
            /\ flow'[t].act # "none" => flow'[t].amount = flow[t].amount
  BY <1>2, <1>5
<1>7. late' \subseteq late /\ \A x \in late' : x.user # u
  BY <1>2
<1>8. NothingNew
  BY <1>6, <1>7 DEF NothingNew, Pending, Pressed
<1>9. OneWaiting => OneWaiting'
  BY <1>6, <1>7 DEF OneWaiting, Busy, Owed
<1> QED BY <1>1, <1>6, <1>7, <1>8, <1>9

\* A page's transaction lands ...
LEMMA ApplyLands ==
    ASSUME PInv, NEW t \in Tabs, Apply(t)
    PROVE  \E u \in Users, x \in LateRecord : Landed(u, x) /\ Transaction(u, x)
<1> DEFINE u == UserOf[t]
           x == Pressed(t)
<1>1. u \in Users /\ {t} \in SUBSET Tabs /\ flow[t] \in FlowRecord
  BY Bounds, StateTypes DEF PInv
<1>2. /\ x \in LateRecord /\ x \in Pending /\ x.user = u
      /\ x.act = flow[t].act /\ x.amount = flow[t].amount
  BY <1>1 DEF Pressed, LateRecord, FlowRecord, Pending
<1>3. /\ Transaction(u, flow[t]) /\ UsesUp(u, {t})
      /\ polling' = [polling EXCEPT ![t] = TRUE]
      /\ UNCHANGED <<read, boundVars, blind>>
  BY DEF Apply
<1> HIDE DEF x, u
<1>4. Transaction(u, x) /\ x.act # "none"
  BY <1>2, <1>3 DEF Transaction
<1>5. polling' \in [Tabs -> BOOLEAN]
  BY <1>3 DEF PInv, TypeOK
<1>6. /\ flow' \in [Tabs -> FlowRecord] /\ late' \subseteq LateRecord
      /\ \A s \in Tabs : /\ flow'[s].act \in {"none", flow[s].act}
                         /\ s \in {t} => flow'[s].act = "none"
      /\ \A y \in late' : y.user # u
      /\ NothingNew /\ (OneWaiting => OneWaiting')
  BY <1>1, <1>3, UsedUp
<1>7. ASSUME u = Shipper, OneWaiting
      PROVE  \A y \in Pending' : y.user = Shipper => y.act = "none"
  <2>1. Busy(t)
    BY <1>2, <1>4, <1>7 DEF Busy, u
  <2>2. \A s \in Tabs : UserOf[s] = Shipper => flow'[s].act = "none"
    BY <1>6, <1>7, <2>1 DEF OneWaiting, Busy
  <2> QED BY <1>6, <1>7, <2>2 DEF Pending, Pressed
<1> QED BY <1>1, <1>2, <1>3, <1>4, <1>5, <1>6, <1>7 DEF Landed

\* ... or one that was given up.
LEMMA LateLands ==
    ASSUME PInv, AppliedLate
    PROVE  \E u \in Users, x \in LateRecord : Landed(u, x) /\ Transaction(u, x)
<1>1. PICK x \in late : Transaction(x.user, x) /\ UsesUp(x.user, {})
  BY DEF AppliedLate
<1> DEFINE u == x.user
<1>2. x \in LateRecord /\ u \in Users /\ {} \in SUBSET Tabs /\ x \in Pending
  BY <1>1, StateTypes DEF PInv, LateRecord, Pending
<1>3. x.act # "none"
  BY <1>1 DEF Transaction
<1>4. polling' \in [Tabs -> BOOLEAN] /\ UNCHANGED <<read, boundVars, blind>>
  BY DEF AppliedLate, pageVars, PInv, TypeOK
<1>5. /\ flow' \in [Tabs -> FlowRecord] /\ late' \subseteq LateRecord
      /\ \A s \in Tabs : flow'[s].act \in {"none", flow[s].act}
      /\ \A y \in late' : y.user # u
      /\ NothingNew /\ (OneWaiting => OneWaiting')
  BY <1>1, <1>2, UsedUp
<1>6. ASSUME u = Shipper, OneWaiting
      PROVE  \A y \in Pending' : y.user = Shipper => y.act = "none"
  <2>1. Owed(x)
    BY <1>3, <1>6 DEF Owed
  <2>2. \A s \in Tabs : UserOf[s] = Shipper => flow'[s].act = "none"
    BY <1>5, <1>6, <2>1 DEF OneWaiting, Busy
  <2> QED BY <1>5, <1>6, <2>2 DEF Pending, Pressed
<1> QED BY <1>1, <1>2, <1>3, <1>4, <1>5, <1>6 DEF Landed

\* What is known of a transaction that lands.
LEMMA Applied ==
    ASSUME PInv, NEW u \in Users, NEW x \in LateRecord, Landed(u, x)
    PROVE  /\ Book # None /\ Book \in Recorded
           /\ x.amount \in Nat
           /\ x.act \in {"collect", "settle"} => u = Shipper
BY StateTypes DEF Landed, PInv, PagesWait, LateRecord

\* A transaction's types, from those of what it changes.
LEMMA AppliedTypes ==
    ASSUME PInv, NEW u \in Users, NEW x \in LateRecord, Landed(u, x),
           offering' \in [Rwas -> Recorded \union {None}], vault' \in Nat,
           purse' \in [Users -> Nat], collected' \in Nat,
           indexed' \union unread' \subseteq emitted', emitted' \subseteq Events,
           raced' \in BOOLEAN
    PROVE  TypeOK'
BY DEF PInv, TypeOK, Landed, FlowRecord, LateRecord, boundVars

\* A landing promises no more than before.
LEMMA AppliedFlows ==
    ASSUME PInv, NEW u \in Users, NEW x \in LateRecord, Landed(u, x), Book' # None,
           "FUND_COLLECTED" \in emitted' \/ collected' = collected,
           emitted \subseteq emitted'
    PROVE  /\ PagesWait'
           /\ \A y \in Pending' : y.act # "none" => y \in Pending
           /\ u = Shipper /\ OneWaiting =>
                \A y \in Pending' : y.act \notin {"collect", "settle"}
<1>1. \A y \in Pending' : y.act # "none" => y \in Pending
  BY DEF Landed, NothingNew
<1>2. read' = read
  BY DEF Landed
<1>3. PagesWait'
  BY <1>1, <1>2 DEF PagesWait, PInv
<1>4. \A y \in Pending' : y.act \in {"collect", "settle"} => y.user = Shipper
  BY <1>3 DEF PagesWait
<1> QED BY <1>1, <1>3, <1>4 DEF Landed

\* collect_fund: what leaves the vault is counted as collected.
LEMMA CollectKeeps ==
    ASSUME PInv, NEW u \in Users, NEW x \in LateRecord, Landed(u, x),
           x.act = "collect", prepareCollectFund
    PROVE  PInv'
<1> USE DEF PInv
<1>1. Book \in Recorded /\ Book # None /\ u = Shipper
  BY Applied
<1>2. /\ Book.sold \in Nat /\ Book.shipper \in Users /\ collected \in Nat
      /\ emitted \subseteq Events
      /\ indexed \union unread \subseteq emitted
  BY <1>1, BookFields DEF TypeOK
<1>3. /\ GiveOut(Book.shipper, Book.sold) /\ UNCHANGED <<offering, raced>>
      /\ collected' = collected + Book.sold /\ emitted' = emitted \union {"FUND_COLLECTED"}
      /\ unread' = unread \union {"FUND_COLLECTED"} /\ indexed' = indexed
  BY DEF prepareCollectFund, PayOut, Book, Emit
<1>4. vault' = vault - Book.sold /\ vault' \in Nat /\ purse' \in [Users -> Nat]
  BY <1>2, <1>3, Payments
<1>5. Book' = Book
  BY <1>3 DEF Book
<1>6. TypeOK'
  <2>1. offering' \in [Rwas -> Recorded \union {None}] /\ raced' \in BOOLEAN
    BY <1>3 DEF TypeOK
  <2>2. /\ collected' \in Nat /\ emitted' \subseteq Events
        /\ indexed' \union unread' \subseteq emitted'
    BY <1>2, <1>3 DEF Events
  <2> QED BY <1>4, <2>1, <2>2, AppliedTypes
<1>7. BookAdds'
  BY <1>5 DEF BookAdds, HeldBy
<1>8. VaultAdds'
  <2>1. vault' + collected' = vault + collected
    BY <1>2, <1>3, <1>4, StateTypes
  <2> QED BY <1>1, <1>5, <2>1 DEF VaultAdds, HeldBy, RedeemedOf
<1>9. /\ PagesWait'
      /\ \A y \in Pending' : y.act # "none" => y \in Pending
      /\ OneWaiting => \A y \in Pending' : y.act \notin {"collect", "settle"}
  BY <1>1, <1>3, <1>5, AppliedFlows
<1>10. ASSUME CollectsOnce, OneWaiting PROVE CollectsOnce'
  <2>1. x \in Pending /\ "FUND_COLLECTED" \notin emitted
    BY <1>10 DEF CollectsOnce, Landed
  <2>2. collected' <= Book.sold
    BY <1>1, <1>2, <1>3, <2>1 DEF PagesWait
  <2> QED BY <1>5, <1>9, <1>10, <2>2 DEF CollectsOnce
<1>11. SettlesWhole => SettlesWhole'
  BY <1>5, <1>9 DEF SettlesWhole, HeldBy
<1> QED BY <1>3, <1>6, <1>7, <1>8, <1>9, <1>10, <1>11 DEF Landed

\* settle_debt: what enters the vault is owed; with the shipper's page up to
\* date and nothing sold meanwhile, it is all that is held.
LEMMA SettleKeeps ==
    ASSUME PInv, NEW u \in Users, NEW x \in LateRecord, Landed(u, x),
           x.act = "settle", prepareSettleDebt(x.amount)
    PROVE  PInv'
<1> USE DEF PInv
<1> DEFINE amount == x.amount
           n == Repaid(Book, amount)
<1>1. Book \in Recorded /\ Book # None /\ u = Shipper /\ amount \in Nat
  BY Applied
<1>2. /\ Book.sold \in Nat /\ Book.shipper \in Users /\ collected \in Nat /\ vault \in Nat
      /\ emitted \subseteq Events /\ indexed \union unread \subseteq emitted
      /\ Book.principal \in Nat /\ HeldBy(Book) \in Nat
      /\ Book.total \in Nat /\ Book.rate \in Nat
  BY <1>1, BookFields DEF TypeOK
<1>3. /\ TakeIn(Book.shipper, amount) /\ UNCHANGED <<collected, raced>>
      /\ emitted' = emitted \union {"DEBT_SETTLED"}
      /\ unread' = unread \union {"DEBT_SETTLED"} /\ indexed' = indexed
  BY DEF prepareSettleDebt, Repay, Book, Emit
<1>4. vault' = vault + amount /\ vault' \in Nat /\ purse' \in [Users -> Nat]
  BY <1>1, <1>2, <1>3, Payments
<1>5. offering' = [offering EXCEPT ![Rwa] = n]
  <2>1. offering' = [offering EXCEPT ![Rwa].principal = @ + amount, ![Rwa].status = "Settled"]
    BY DEF prepareSettleDebt, Repay
  <2>2. offering \in [Rwas -> Recorded \union {None}] /\ Rwa \in Rwas
    BY Bounds DEF TypeOK
  <2> QED BY <2>1, <2>2 DEF Repaid, Book
<1> HIDE DEF amount
<1>6. /\ n \in Recorded /\ n.principal = Book.principal + amount /\ n.status = "Settled"
      /\ HeldBy(n) = HeldBy(Book) /\ n.shipper = Book.shipper /\ n.rate = Book.rate
      /\ n.total = Book.total /\ n.sold = Book.sold
  BY <1>1, RepaidRecord
<1> HIDE DEF n
<1>7. Book' = n /\ offering' \in [Rwas -> Recorded \union {None}] /\ n # None
  BY <1>5, <1>6, BookChange
<1>8. TypeOK'
  <2>1. raced' \in BOOLEAN /\ collected' \in Nat
    BY <1>2, <1>3 DEF TypeOK
  <2>2. emitted' \subseteq Events /\ indexed' \union unread' \subseteq emitted'
    BY <1>2, <1>3 DEF Events
  <2> QED BY <1>4, <1>7, <2>1, <2>2, AppliedTypes
<1>9. BookAdds'
  BY <1>1, <1>6, <1>7 DEF BookAdds, HeldBy
<1>10. VaultAdds'
  <2>1. Fee(n.total - RedeemedOf(n), n.rate) = Fee(Book.total - RedeemedOf(Book), Book.rate)
    BY <1>6 DEF RedeemedOf
  <2> DEFINE fee == Fee(Book.total - RedeemedOf(Book), Book.rate)
  <2>2. fee \in Nat
    <3>1. Book.sold - HeldBy(Book) \in Nat /\ Book.total - (Book.sold - HeldBy(Book)) \in Nat
      BY <1>1, <1>2 DEF BookAdds
    <3> QED BY <1>2, <3>1, FeeType DEF RedeemedOf
  <2>3. vault + collected >= Book.principal + Book.sold + fee
    BY <1>1 DEF VaultAdds
  <2> HIDE DEF fee
  <2>4. vault' + collected' >= n.principal + n.sold + fee
    BY <1>1, <1>2, <1>3, <1>4, <1>6, <2>2, <2>3
  <2> QED BY <1>7, <2>1, <2>4 DEF VaultAdds, HeldBy, RedeemedOf, fee
<1>11. /\ PagesWait'
       /\ \A y \in Pending' : y.act # "none" => y \in Pending
       /\ OneWaiting => \A y \in Pending' : y.act \notin {"collect", "settle"}
  BY <1>1, <1>3, <1>7, AppliedFlows
<1>12. ASSUME CollectsOnce, OneWaiting PROVE CollectsOnce'
  <2>1. collected' <= n.sold
    BY <1>1, <1>3, <1>6, <1>12 DEF CollectsOnce
  <2> QED BY <1>7, <1>11, <1>12, <2>1 DEF CollectsOnce
<1>13. ASSUME SettlesWhole, OneWaiting PROVE SettlesWhole'
  <2>1. x \in Pending /\ Book.status # "Settled" /\ amount = Book.sold
    BY <1>13 DEF SettlesWhole, amount, Landed
  <2>2. n.principal = HeldBy(n)
    BY <1>1, <1>2, <1>6, <2>1 DEF BookAdds
  <2> QED BY <1>7, <1>11, <1>13, <2>2 DEF SettlesWhole, HeldBy
<1> QED BY <1>3, <1>8, <1>9, <1>10, <1>11, <1>12, <1>13 DEF Landed

\* buy_shares: what is sold is held, and paid for.
LEMMA BuyKeeps ==
    ASSUME PInv, NEW u \in Users, NEW x \in LateRecord, Landed(u, x),
           x.act = "buy", prepareBuyShares(u, x.amount)
    PROVE  PInv'
<1> USE DEF PInv
<1> DEFINE amount == x.amount
           n == Bought(Book, u, amount)
<1>1. Book \in Recorded /\ Book # None /\ amount \in Nat
  BY Applied
<1>2. /\ Book.sold \in Nat /\ collected \in Nat /\ vault \in Nat
      /\ emitted \subseteq Events /\ indexed \union unread \subseteq emitted
      /\ Book.principal \in Nat /\ HeldBy(Book) \in Nat
      /\ Book.total \in Nat /\ Book.rate \in Nat
  BY <1>1, BookFields DEF TypeOK
<1>3. /\ Book.status = "Open" /\ amount <= SharesLeft(Book)
      /\ TakeIn(u, amount) /\ UNCHANGED <<collected, emitted, unread, indexed>>
      /\ raced' = (raced \/ Settling)
  BY DEF prepareBuyShares, Sell, CanSell, Book, eventVars
<1>4. vault' = vault + amount /\ vault' \in Nat /\ purse' \in [Users -> Nat]
  BY <1>1, <1>3, Payments
<1>5. offering' = [offering EXCEPT ![Rwa] = n]
  <2>1. offering' = [offering EXCEPT
          ![Rwa].sold = @ + amount, ![Rwa].held[u] = @ + amount,
          ![Rwa].status = IF amount = SharesLeft(Book) THEN "Funded" ELSE @]
    BY DEF prepareBuyShares, Sell, Book
  <2>2. offering \in [Rwas -> Recorded \union {None}] /\ Rwa \in Rwas
    BY Bounds DEF TypeOK
  <2> QED BY <2>1, <2>2 DEF Bought, Book
<1> HIDE DEF amount
<1>6. /\ n \in Recorded /\ n.sold = Book.sold + amount /\ n.status # "Settled"
      /\ HeldBy(n) = HeldBy(Book) + amount /\ n.shipper = Book.shipper
      /\ n.rate = Book.rate /\ n.total = Book.total /\ n.principal = Book.principal
  BY <1>1, <1>3, BoughtRecord
<1> HIDE DEF n
<1>7. Book' = n /\ offering' \in [Rwas -> Recorded \union {None}] /\ n # None
  BY <1>5, <1>6, BookChange
<1>8. TypeOK'
  <2>1. raced' \in BOOLEAN /\ collected' \in Nat
    BY <1>2, <1>3 DEF TypeOK
  <2>2. emitted' \subseteq Events /\ indexed' \union unread' \subseteq emitted'
    BY <1>2, <1>3
  <2> QED BY <1>4, <1>7, <2>1, <2>2, AppliedTypes
<1>9. BookAdds'
  <2>1. /\ Book.shipper = Shipper /\ HeldBy(Book) = Book.sold /\ Book.principal = 0
        /\ amount <= Book.total - Book.sold
    BY <1>1, <1>3 DEF BookAdds, SharesLeft
  <2>2. n.sold <= n.total /\ HeldBy(n) = n.sold
    BY <1>1, <1>2, <1>6, <2>1
  <2>3. HeldBy(n) <= n.sold
    BY <1>1, <1>2, <1>6, <2>2
  <2>4. n.principal = 0 /\ n.shipper = Shipper
    BY <1>6, <2>1
  <2> QED BY <1>7, <2>2, <2>3, <2>4 DEF BookAdds, HeldBy
<1>10. VaultAdds'
  <2>1. RedeemedOf(n) = RedeemedOf(Book)
    BY <1>1, <1>2, <1>6 DEF RedeemedOf
  <2> DEFINE fee == Fee(Book.total - RedeemedOf(Book), Book.rate)
  <2>2. fee \in Nat
    <3>1. Book.sold - HeldBy(Book) \in Nat /\ Book.total - (Book.sold - HeldBy(Book)) \in Nat
      BY <1>1, <1>2 DEF BookAdds
    <3> QED BY <1>2, <3>1, FeeType DEF RedeemedOf
  <2>3. vault + collected >= Book.principal + Book.sold + fee
    BY <1>1 DEF VaultAdds
  <2>4. Fee(n.total - RedeemedOf(n), n.rate) = fee
    BY <1>6, <2>1
  <2> HIDE DEF fee
  <2>5. vault' + collected' >= n.principal + n.sold + fee
    BY <1>1, <1>2, <1>3, <1>4, <1>6, <2>2, <2>3
  <2> QED BY <1>7, <2>4, <2>5 DEF VaultAdds, HeldBy, RedeemedOf
<1>11. /\ PagesWait'
       /\ \A y \in Pending' : y.act # "none" => y \in Pending
  BY <1>3, <1>7, AppliedFlows
<1>12. ASSUME CollectsOnce PROVE CollectsOnce'
  <2>1. collected' <= n.sold
    BY <1>1, <1>2, <1>3, <1>6, <1>12 DEF CollectsOnce
  <2> QED BY <1>3, <1>7, <1>11, <1>12, <2>1 DEF CollectsOnce
<1>13. ASSUME ~raced' PROVE SettlesWhole'
  <2>1. ~Settling
    BY <1>3, <1>13
  <2>2. \A y \in Pending : y.act # "settle"
    BY <2>1 DEF Settling, Pending, Pressed
  <2> QED BY <1>6, <1>7, <1>11, <2>2 DEF SettlesWhole
<1> QED BY <1>3, <1>8, <1>9, <1>10, <1>11, <1>12, <1>13 DEF Landed

\* claim: what is redeemed is neither held nor owed any more, and the interest
\* on it leaves enough for the rest.
LEMMA ClaimKeeps ==
    ASSUME PInv, NEW u \in Users, NEW x \in LateRecord, Landed(u, x),
           x.act = "claim", prepareClaim(u, x.amount)
    PROVE  PInv'
<1> USE DEF PInv
<1> DEFINE amount == x.amount
           n == Redeemed(Book, u, amount)
<1>1. Book \in Recorded /\ Book # None /\ amount \in Nat
  BY Applied
<1>2. /\ Book.sold \in Nat /\ collected \in Nat /\ vault \in Nat
      /\ emitted \subseteq Events /\ indexed \union unread \subseteq emitted
      /\ Book.principal \in Nat /\ HeldBy(Book) \in Nat
      /\ Book.total \in Nat /\ Book.rate \in Nat
  BY <1>1, BookFields DEF TypeOK
<1>3. /\ Book.status = "Settled" /\ amount <= Book.held[u] /\ amount <= Book.principal
      /\ GiveOut(u, Due(Book, amount))
      /\ UNCHANGED <<collected, emitted, unread, indexed, raced>>
  BY DEF prepareClaim, Redeem, CanRedeem, Book, eventVars
<1>4. Fee(amount, Book.rate) \in Nat /\ Due(Book, amount) = amount + Fee(amount, Book.rate)
  BY <1>1, <1>2, FeeType DEF Due
<1>5. /\ vault' = vault - (amount + Fee(amount, Book.rate)) /\ vault' \in Nat
      /\ purse' \in [Users -> Nat]
  <2>1. Due(Book, amount) \in Nat
    BY <1>1, <1>4
  <2> QED BY <1>3, <1>4, <2>1, Payments
<1>6. offering' = [offering EXCEPT ![Rwa] = n]
  <2>1. offering' = [offering EXCEPT ![Rwa].held[u] = @ - amount,
                                     ![Rwa].principal = @ - amount]
    BY DEF prepareClaim, Redeem
  <2>2. offering \in [Rwas -> Recorded \union {None}] /\ Rwa \in Rwas
    BY Bounds DEF TypeOK
  <2> QED BY <2>1, <2>2 DEF Redeemed, Book
<1> HIDE DEF amount
<1>7. /\ n \in Recorded /\ n.principal = Book.principal - amount /\ n.status = "Settled"
      /\ HeldBy(n) = HeldBy(Book) - amount /\ amount <= HeldBy(Book)
      /\ n.shipper = Book.shipper /\ n.rate = Book.rate
      /\ n.total = Book.total /\ n.sold = Book.sold
  BY <1>1, <1>3, RedeemedRecord
<1> HIDE DEF n
<1>8. Book' = n /\ offering' \in [Rwas -> Recorded \union {None}] /\ n # None
  BY <1>6, <1>7, BookChange
<1>9. TypeOK'
  <2>1. raced' \in BOOLEAN /\ collected' \in Nat
    BY <1>2, <1>3 DEF TypeOK
  <2>2. emitted' \subseteq Events /\ indexed' \union unread' \subseteq emitted'
    BY <1>2, <1>3
  <2> QED BY <1>5, <1>8, <2>1, <2>2, AppliedTypes
<1>10. Book.shipper = Shipper /\ Book.sold <= Book.total /\ HeldBy(Book) <= Book.sold
  BY <1>1 DEF BookAdds
<1>11. BookAdds'
  <2>1. HeldBy(n) <= n.sold
    BY <1>1, <1>2, <1>7, <1>10
  <2> QED BY <1>7, <1>8, <1>10, <2>1 DEF BookAdds, HeldBy
<1>12. VaultAdds'
  <2> DEFINE rest == n.total - (n.sold - HeldBy(n))
             owed == Book.total - (Book.sold - HeldBy(Book))
             f == Fee(amount, Book.rate)
             g == Fee(rest, Book.rate)
             h == Fee(owed, Book.rate)
  <2>1. rest \in Nat /\ owed = rest + amount
    BY <1>1, <1>2, <1>7, <1>10
  <2>2. vault + collected >= Book.principal + Book.sold + h
    BY <1>1 DEF VaultAdds, RedeemedOf
  <2>3. Fee(rest, n.rate) = g
    BY <1>7
  <2> HIDE DEF rest, owed
  <2>4. g + f <= h
    BY <1>1, <1>2, <2>1, FeesOfParts
  <2>5. f \in Nat /\ g \in Nat /\ h \in Nat
    <3>1. owed \in Nat
      BY <1>1, <2>1
    <3> QED BY <1>1, <1>2, <2>1, <3>1, FeeType
  <2> HIDE DEF f, g, h
  <2>6. vault' = vault - (amount + f)
    BY <1>5 DEF f
  <2>7. vault' + collected' >= n.principal + n.sold + g
    BY <1>1, <1>2, <1>3, <1>7, <2>2, <2>4, <2>5, <2>6
  <2> QED BY <1>8, <2>3, <2>7 DEF VaultAdds, HeldBy, RedeemedOf, rest
<1>13. /\ PagesWait'
       /\ \A y \in Pending' : y.act # "none" => y \in Pending
  BY <1>3, <1>8, AppliedFlows
<1>14. CollectsOnce => CollectsOnce'
  BY <1>1, <1>3, <1>7, <1>8, <1>13 DEF CollectsOnce
<1>15. ASSUME SettlesWhole PROVE SettlesWhole'
  <2>1. /\ \A y \in Pending : y.act # "settle"
        /\ Book.principal = HeldBy(Book)
    BY <1>1, <1>3, <1>15 DEF SettlesWhole
  <2>2. n.principal = HeldBy(n)
    BY <1>1, <1>2, <1>7, <2>1
  <2> QED BY <1>8, <1>13, <2>1, <2>2 DEF SettlesWhole, HeldBy
<1> QED BY <1>3, <1>9, <1>11, <1>12, <1>13, <1>14, <1>15 DEF Landed

\* The ledger takes a transaction.
LEMMA ApplyKeeps ==
    ASSUME PInv, AppliedLate \/ \E t \in Tabs : Apply(t)
    PROVE  PInv'
<1>1. PICK u \in Users, x \in LateRecord : Landed(u, x) /\ Transaction(u, x)
  BY ApplyLands, LateLands
<1> QED BY <1>1, CollectKeeps, SettleKeeps, BuyKeeps, ClaimKeeps DEF Transaction

\* The offering goes on chain: nobody has read it or pressed a button, and the
\* shipper has prepaid the interest.
LEMMA IssueKeeps ==
    ASSUME PInv, Issued
    PROVE  PInv'
<1> USE DEF PInv
<1>1. PICK raise \in RaiseAmounts, rate \in InterestBps :
         Issue(Rwa, Shipper, raise, rate, Fee(raise, rate))
  BY DEF Issued
<1> DEFINE zeros == [v \in Users |-> 0]
           n == [shipper |-> Shipper, rate |-> rate, total |-> raise, sold |-> 0,
                 held |-> zeros, principal |-> 0, status |-> "Open"]
           fee == Fee(raise, rate)
<1>2. /\ UNCHANGED <<collected, emitted, unread, indexed, read, polling, flow, late,
                     presses, faults, blind, raced>>
      /\ Book = None /\ TakeIn(Shipper, fee)
      /\ offering' = [offering EXCEPT ![Rwa] = n]
  BY <1>1 DEF Issued, Issue, Book, eventVars, pageVars, flowVars, boundVars,
                historyVars
<1>3. raise \in Nat /\ rate \in Nat /\ fee \in Nat
  BY <1>1, Bounds, FeeType
<1>4. zeros \in [Users -> Nat] /\ Total(zeros) = 0
  BY TotalOfZeros
<1> HIDE DEF zeros
<1>5. n \in Recorded /\ HeldBy(n) = 0
  BY <1>3, <1>4, Bounds DEF Recorded, HeldBy
<1>6. /\ n.shipper = Shipper /\ n.rate = rate /\ n.total = raise /\ n.sold = 0
      /\ n.principal = 0 /\ n.status = "Open"
  OBVIOUS
<1> HIDE DEF n
<1>7. Book' = n /\ offering' \in [Rwas -> Recorded \union {None}] /\ n # None
  BY <1>2, <1>5, BookChange
<1>8. vault' = vault + fee /\ vault' \in Nat /\ purse' \in [Users -> Nat]
  BY <1>2, <1>3, Bounds, Payments
<1>9. TypeOK'
  BY <1>2, <1>7, <1>8 DEF TypeOK
<1>10. collected' = 0 /\ vault \in Nat
  BY <1>2, StateTypes DEF PagesWait
<1>11. BookAdds'
  BY <1>3, <1>5, <1>6, <1>7 DEF BookAdds, HeldBy
<1>12. VaultAdds'
  <2>1. n.total - RedeemedOf(n) = raise
    BY <1>3, <1>5, <1>6 DEF RedeemedOf
  <2>2. Fee(n.total - RedeemedOf(n), n.rate) = fee
    BY <1>6, <2>1
  <2> HIDE DEF fee
  <2>3. vault' + collected' >= n.principal + n.sold + fee
    BY <1>3, <1>6, <1>8, <1>10
  <2> QED BY <1>7, <2>2, <2>3 DEF VaultAdds, HeldBy, RedeemedOf
<1>13. Pending' = Pending /\ \A y \in Pending : y.act = "none"
  BY <1>2 DEF Pending, Pressed, PagesWait
<1>14. PagesWait'
  BY <1>2, <1>7, <1>10, <1>13 DEF PagesWait
<1>15. CollectsOnce'
  <2>1. collected' <= n.sold
    BY <1>6, <1>10
  <2> QED BY <1>7, <1>13, <2>1 DEF CollectsOnce
<1>16. SettlesWhole'
  BY <1>6, <1>7, <1>13 DEF SettlesWhole
<1>17. OneWaiting => OneWaiting'
  BY <1>2 DEF OneWaiting, Busy, Owed
<1> QED BY <1>2, <1>9, <1>11, <1>12, <1>14, <1>15, <1>16, <1>17

\* Every step keeps the invariant.
LEMMA NextPInv == PInv /\ [Next]_vars => PInv'
<1> SUFFICES ASSUME PInv, [Next]_vars PROVE PInv'
  OBVIOUS
<1>1. CASE Issued
  BY <1>1, IssueKeeps
<1>2. CASE Index \/ \E t \in Tabs : getRwa(t) \/ getRwaFails(t) \/ Reload(t)
  BY <1>2, ReadsKeep
<1>3. ASSUME NEW t \in Tabs, ShipperActions(t) \/ InvestorActions(t) PROVE PInv'
  BY <1>3, ButtonsKeep
<1>4. CASE \/ \E t \in Tabs : assertSimulationSucceeded(t) \/ Fail(t) \/ GivesUp(t)
           \/ Dropped
  BY <1>4, FlowSteps
<1>5. CASE AppliedLate \/ \E t \in Tabs : Apply(t)
  BY <1>5, ApplyKeeps
<1>6. CASE UNCHANGED vars
  <2>1. /\ UNCHANGED <<ledgerVars, collected, emitted, unread, indexed, read, polling, flow,
                       late, presses, faults, blind, raced>>
    BY <1>6 DEF vars, eventVars, pageVars, flowVars, boundVars, historyVars
  <2> QED BY <2>1
     DEF PInv, TypeOK, BookAdds, VaultAdds, PagesWait, CollectsOnce, SettlesWhole, Book,
         HeldBy, RedeemedOf, OneWaiting, Busy, Owed, Pending, Pressed, ledgerVars
<1> QED BY <1>1, <1>2, <1>3, <1>4, <1>5, <1>6 DEF Next, Advance

\* Before the offering is issued nothing is owed or collected.
LEMMA InitPInv == Init => PInv
<1> SUFFICES ASSUME Init PROVE PInv
  OBVIOUS
<1>1. NoFlow \in FlowRecord /\ NoFlow.act = "none"
  BY DEF NoFlow, FlowRecord, Acts
<1>2. /\ offering = [r \in Rwas |-> None] /\ vault = 0 /\ purse = InitialPurse
      /\ collected = 0 /\ emitted = {} /\ unread = {} /\ indexed = {}
      /\ read = [t \in Tabs |-> None] /\ polling = [t \in Tabs |-> TRUE]
      /\ flow = [t \in Tabs |-> NoFlow] /\ late = {} /\ presses = [u \in Users |-> 0]
      /\ faults = 0 /\ blind = FALSE /\ raced = FALSE
  BY DEF Init, LedgerInit
<1>3. InitialPurse \in [Users -> Nat] /\ Book = None
  BY <1>2, Bounds, PageConstants DEF Book
<1>4. TypeOK
  <2>1. presses \in [Users -> Nat] /\ \A u \in Users : presses[u] <= MaxPresses[u]
    <3>1. \A u \in Users : presses[u] = 0 /\ MaxPresses[u] \in Nat
      BY <1>2, Bounds
    <3> QED BY <1>2, <3>1
  <2>2. faults \in 0..MaxFaults
    BY <1>2, Bounds
  <2>3. flow \in [Tabs -> FlowRecord] /\ late \subseteq LateRecord
    BY <1>1, <1>2
  <2>4. /\ offering \in [Rwas -> Recorded \union {None}]
        /\ vault \in Nat /\ purse \in [Users -> Nat] /\ collected \in Nat
        /\ indexed \union unread \subseteq emitted /\ emitted \subseteq Events
        /\ polling \in [Tabs -> BOOLEAN] /\ blind \in BOOLEAN /\ raced \in BOOLEAN
    BY <1>2, <1>3
  <2>5. read \in [Tabs -> Reading \union {None}]
    BY <1>2
  <2> QED BY <2>1, <2>2, <2>3, <2>4, <2>5 DEF TypeOK, FlowRecord, LateRecord, Reading
<1>5. \A t \in Tabs : read[t] = None /\ flow[t].act = "none"
  BY <1>1, <1>2
<1>6. \A x \in Pending : x.act = "none"
  BY <1>2, <1>5 DEF Pending, Pressed
<1>7. OneWaiting
  BY <1>2, <1>5 DEF OneWaiting, Busy, Owed
<1> QED BY <1>2, <1>3, <1>4, <1>5, <1>6, <1>7
        DEF PInv, BookAdds, VaultAdds, PagesWait, CollectsOnce, SettlesWhole
-----------------------------------------------------------------------------
(* Theorems. *)

\* In every state of the page and the ledger, types are kept, the vault has with
\* what was collected all that is owed, and the shipper who presses on a page
\* that shows the chain, one press at a time, collects once and settles in full.
THEOREM PageInvariant == Spec => []PInv
<1>1. Init => PInv
  BY InitPInv
<1>2. PInv /\ [Next]_vars => PInv'
  BY NextPInv
<1> QED BY <1>1, <1>2, PTL DEF Spec

\* The escrow covers every claim as long as the shipper presses on what the chain
\* says, one press at a time in whatever tab, and no purchase lands before a
\* settlement does or is dropped: handleCollectFund and handleSettleDebt give
\* collect_fund and settle_debt what the contract does not check.
THEOREM EscrowIsWhole == Spec => []EscrowWhole
<1>1. ASSUME PInv PROVE EscrowWhole
  <2> SUFFICES ASSUME Book # None, ~blind, ~raced
               PROVE  /\ collected <= Book.sold
                      /\ vault >= Book.principal
                           + Fee(Book.total - (Book.sold - HeldBy(Book)), Book.rate)
                      /\ Book.status = "Settled" => Book.principal = HeldBy(Book)
    BY DEF EscrowWhole
  <2> DEFINE fee == Fee(Book.total - (Book.sold - HeldBy(Book)), Book.rate)
  <2>1. /\ collected <= Book.sold
        /\ Book.status = "Settled" => Book.principal = HeldBy(Book)
        /\ vault + collected >= Book.principal + Book.sold + fee
    BY <1>1 DEF PInv, CollectsOnce, SettlesWhole, VaultAdds, RedeemedOf
  <2>2. /\ Book \in Recorded /\ vault \in Nat /\ collected \in Nat
    BY <1>1, StateTypes DEF PInv
  <2>3. /\ Book.sold \in Nat /\ Book.principal \in Nat /\ HeldBy(Book) \in Nat
        /\ Book.total \in Nat /\ Book.rate \in Nat
    BY <2>2, BookFields
  <2>4. fee \in Nat
    <3>1. Book.sold - HeldBy(Book) \in Nat /\ Book.total - (Book.sold - HeldBy(Book)) \in Nat
      BY <1>1, <2>3 DEF PInv, BookAdds
    <3> QED BY <2>3, <3>1, FeeType
  <2> HIDE DEF fee
  <2>5. vault >= Book.principal + fee
    BY <2>1, <2>2, <2>3, <2>4
  <2> QED BY <2>1, <2>5 DEF fee
<1> QED BY <1>1, PageInvariant, PTL
=============================================================================
