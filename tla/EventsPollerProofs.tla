-------------------------- MODULE EventsPollerProofs --------------------------
(***************************************************************************)
(* The poll loop, for any chain, page size, lookback, retention and number *)
(* of faults: what the cursor has passed is in the database or excused,    *)
(* nothing is stored twice, and a stored creation promoted its record      *)
(* unless a fault interrupted that.                                        *)
(***************************************************************************)
EXTENDS EventsPoller, FiniteSetTheorems, SequenceTheorems, TLAPS

\* The chain's log is in ledger order and holds nothing the network has not
\* closed.
Sorted ==
    /\ \A i \in DOMAIN events : events[i].ledger <= latest
    /\ \A i, j \in DOMAIN events : i <= j => events[i].ledger <= events[j].ledger

\* Only events that were emitted have rows.
StoredEvents == \A i \in Indices : rows[i] > 0 => i \in DOMAIN events

\* The first event of a key is the one its row was made of: a page starts where a
\* ledger starts, so a transaction's events are met in order.
FirstRows == \A i \in DOMAIN events : rows[i] > 0 => ~Shadowed(i)

\* A record is never deleted, so one that was filed when the event was emitted
\* is there.
FiledRecords == \A i \in DOMAIN events : events[i].filed => record[events[i].rwa] # None

\* A poll starts after the cursor, and what it starts after is dropped.
Polling ==
    poll.pc # "idle" =>
        /\ cursor < poll.start /\ poll.start <= latest
        /\ cursor + 1 .. poll.start - 1 \subseteq dropped

First == UpTo(poll.start - 1) + 1
NodeEnd == UpTo(poll.node)

\* A fetched page is what getEvents returned for it, however far the chain has
\* grown since; the keys of what the loop has been over have rows; and a ledger
\* of which the page holds only a part is cut.
Paging ==
    poll.pc \in {"handle", "promote"} =>
        /\ poll.start <= poll.node /\ poll.node <= latest
        /\ poll.upto = IF NodeEnd < First + PageLimit THEN NodeEnd
                       ELSE First + PageLimit - 1
        /\ First <= poll.at /\ poll.at <= poll.upto + 1
        /\ \A i \in First .. poll.at - 1 : Mapped(i) => EventExists(i)
        /\ poll.upto < NodeEnd
             /\ events[poll.upto + 1].ledger = events[poll.upto].ledger
           => events[poll.upto].ledger \in cut

\* The creation that is being promoted has its row already.
Promoting ==
    poll.pc = "promote" =>
        poll.at <= poll.upto /\ poll.at \in Indices /\ rows[poll.at] > 0

\* The cursor is right between polls because the page is while there is one.
PInv ==
    /\ TypeOK /\ Sorted /\ StoredEvents /\ FirstRows /\ FiledRecords
    /\ Polling /\ Paging /\ Promoting
    /\ CursorCoversRows /\ NeverStoredTwice
-----------------------------------------------------------------------------
(* Where a ledger ends in the log. *)

\* An event of the log and what it is made of.
LEMMA EventFacts ==
    ASSUME TypeOK, NEW i \in DOMAIN events
    PROVE  /\ i \in 1..Len(events) /\ i \in Indices /\ events[i] \in Event
           /\ events[i].ledger \in 1..MaxLedger /\ events[i].ledger \in Nat
           /\ events[i].rwa \in Rwas
<1>1. /\ events \in Seq(Event) /\ Len(events) \in Nat /\ Len(events) <= MaxEvents
      /\ DOMAIN events = 1..Len(events)
  BY DEF TypeOK
<1>2. i \in 1..Len(events) /\ i \in Indices
  BY <1>1, BoundsType DEF Indices
<1>3. events[i] \in Event
  BY <1>1, <1>2, ElementOfSeq
<1>4. events[i].ledger \in 1..MaxLedger /\ events[i].rwa \in Rwas
  BY <1>3 DEF Event
<1>5. events[i].ledger \in Nat
  BY <1>4, BoundsType
<1> QED BY <1>2, <1>3, <1>4, <1>5

\* The events up to a ledger are a prefix of the log, as long as UpTo says:
\* the set is closed downwards and as large as that prefix.
LEMMA UpToSplits ==
    ASSUME TypeOK, Sorted, NEW l \in Int
    PROVE  /\ UpTo(l) \in 0..Len(events)
           /\ \A i \in DOMAIN events : i <= UpTo(l) <=> events[i].ledger <= l
<1> DEFINE n == Len(events)
           S == {i \in DOMAIN events : events[i].ledger <= l}
           c == Cardinality(S)
<1>1. n \in Nat /\ DOMAIN events = 1..n
  BY DEF TypeOK
<1>2. S \subseteq 1..n /\ IsFiniteSet(1..n) /\ Cardinality(1..n) = n
  <2>1. S \subseteq 1..n
    BY <1>1
  <2>2. IsFiniteSet(1..n) /\ Cardinality(1..n) = n
    <3>1. n \in Nat
      BY <1>1
    <3> HIDE DEF n
    <3> QED BY <3>1, FS_Interval
  <2> QED BY <2>1, <2>2
<1>3. IsFiniteSet(S) /\ c \in Nat /\ c <= n
  BY <1>2, FS_Subset, FS_CardinalityType
<1>4. \A i \in DOMAIN events : events[i].ledger \in Int
  BY EventFacts
<1>5. ASSUME NEW i \in S PROVE i <= c
  <2>1. 1..i \subseteq S
    <3> SUFFICES ASSUME NEW j \in 1..i PROVE j \in S
      OBVIOUS
    <3>1. i \in DOMAIN events /\ j \in DOMAIN events /\ j <= i
      BY <1>1
    <3>2. events[j].ledger <= events[i].ledger
      BY <3>1 DEF Sorted
    <3> QED BY <1>4, <3>1, <3>2
  <2>2. i \in Nat /\ Cardinality(1..i) = i
    <3>1. i \in Nat
      BY <1>1
    <3> QED BY <3>1, FS_Interval
  <2>3. Cardinality(1..i) <= c
    BY <1>3, <2>1, FS_Subset
  <2> QED BY <2>2, <2>3
<1>6. S = 1..c
  <2>1. S \subseteq 1..c
    BY <1>1, <1>3, <1>5
  <2>2. IsFiniteSet(1..c) /\ Cardinality(1..c) = c
    BY <1>3, FS_Interval
  <2> HIDE DEF S
  <2> QED BY <2>1, <2>2, FS_Subset
<1>7. UpTo(l) = c
  BY DEF UpTo
<1>8. \A i \in DOMAIN events : i <= c <=> events[i].ledger <= l
  <2>1. \A i \in DOMAIN events : i \in S <=> events[i].ledger <= l
    OBVIOUS
  <2> HIDE DEF S
  <2> QED BY <1>1, <1>3, <1>6, <2>1
<1> HIDE DEF c
<1> QED BY <1>3, <1>7, <1>8

\* Having the same key is an equivalence.
LEMMA KeysAgree ==
    /\ \A i : SameKey(i, i)
    /\ \A i, j : SameKey(i, j) => SameKey(j, i) /\ Mapped(i) = Mapped(j)
    /\ \A i, j, k : SameKey(i, j) /\ SameKey(j, k) => SameKey(i, k)
BY DEF SameKey, Mapped

\* The row of a key was made of the event that no earlier one shadows.
LEMMA RowOfKey ==
    ASSUME TypeOK, FirstRows, NEW i \in DOMAIN events, EventExists(i), ~Shadowed(i)
    PROVE  rows[i] > 0
<1>1. PICK j \in DOMAIN events : SameKey(i, j) /\ rows[j] > 0
  BY DEF EventExists
<1>2. ~(j < i)
  BY <1>1 DEF Shadowed
<1>3. ~(i < j)
  BY <1>1, KeysAgree DEF Shadowed, FirstRows
<1>4. i \in Nat /\ j \in Nat
  BY DEF TypeOK
<1> QED BY <1>1, <1>2, <1>3, <1>4

\* As long as the log and its rows only grow, keys that have rows keep them.
LEMMA KeysKept ==
    ASSUME \A i \in DOMAIN events : i \in DOMAIN events' /\ events'[i] = events[i],
           \A i \in DOMAIN events : rows[i] > 0 => rows'[i] > 0,
           NEW i \in DOMAIN events, EventExists(i)
    PROVE  EventExists(i)'
<1>1. PICK j \in DOMAIN events : SameKey(i, j) /\ rows[j] > 0
  BY DEF EventExists
<1>2. SameKey(i, j)' /\ rows'[j] > 0 /\ j \in DOMAIN events'
  BY <1>1 DEF SameKey
<1> QED BY <1>2 DEF EventExists

\* Where the window of a poll starts in the log, and where it ends for the
\* endpoint that answered.
LEMMA WindowEnds ==
    ASSUME TypeOK, Sorted
    PROVE  /\ First \in Nat /\ First >= 1 /\ First - 1 <= Len(events)
           /\ UpTo(poll.start - 1) = First - 1
           /\ NodeEnd \in Nat /\ NodeEnd <= Len(events)
           /\ \A i \in DOMAIN events : i <= First - 1 <=> events[i].ledger <= poll.start - 1
           /\ \A i \in DOMAIN events : i <= NodeEnd <=> events[i].ledger <= poll.node
<1>1. poll.start - 1 \in Int /\ poll.node \in Int /\ Len(events) \in Nat
  BY DEF TypeOK
<1>2. /\ UpTo(poll.start - 1) \in 0..Len(events)
      /\ \A i \in DOMAIN events :
            i <= UpTo(poll.start - 1) <=> events[i].ledger <= poll.start - 1
  BY <1>1, UpToSplits
<1>3. /\ UpTo(poll.node) \in 0..Len(events)
      /\ \A i \in DOMAIN events : i <= UpTo(poll.node) <=> events[i].ledger <= poll.node
  BY <1>1, UpToSplits
<1>4. First - 1 = UpTo(poll.start - 1) /\ First \in Nat /\ First >= 1
  BY <1>1, <1>2 DEF First
<1> QED BY <1>1, <1>2, <1>3, <1>4 DEF NodeEnd

\* The bounds of a page in the log.
LEMMA PageFacts ==
    ASSUME TypeOK, Sorted, Paging, poll.pc \in {"handle", "promote"}
    PROVE  /\ Len(events) \in Nat /\ DOMAIN events = 1..Len(events)
           /\ PageLimit \in Nat /\ PageLimit >= 1
           /\ First \in Nat /\ First >= 1 /\ poll.upto \in Nat /\ poll.at \in Nat
           /\ NodeEnd \in Nat /\ poll.upto <= NodeEnd /\ NodeEnd <= Len(events)
           /\ First - 1 <= poll.upto
           /\ \A i \in First..poll.upto : i \in DOMAIN events
<1>1. /\ poll.start \in Int /\ poll.node \in Int /\ poll.upto \in Nat /\ poll.at \in Nat
      /\ Len(events) \in Nat /\ DOMAIN events = 1..Len(events)
  BY BoundsType DEF TypeOK
<1>2. /\ First \in Nat /\ First >= 1 /\ First - 1 <= Len(events)
      /\ NodeEnd \in Nat /\ NodeEnd <= Len(events)
      /\ \A i \in DOMAIN events : i <= First - 1 <=> events[i].ledger <= poll.start - 1
      /\ \A i \in DOMAIN events : i <= NodeEnd <=> events[i].ledger <= poll.node
  BY WindowEnds
<1>3. First - 1 <= NodeEnd
  <2>1. CASE First = 1
    BY <1>2, <2>1
  <2>2. CASE First > 1
    <3>1. First - 1 \in DOMAIN events
      BY <1>1, <1>2, <2>2
    <3>2. events[First - 1].ledger \in Nat
      BY <3>1, EventFacts
    <3>3. events[First - 1].ledger <= poll.start - 1
      BY <1>2, <3>1
    <3>4. events[First - 1].ledger <= poll.node
      BY <1>1, <3>2, <3>3 DEF Paging
    <3> QED BY <1>2, <3>1, <3>4
  <2> QED BY <1>2, <2>1, <2>2
<1>4. PageLimit \in Nat /\ PageLimit >= 1
  BY PageLimitType
<1>5. poll.upto = IF NodeEnd < First + PageLimit THEN NodeEnd ELSE First + PageLimit - 1
  BY DEF Paging
<1>6. poll.upto <= NodeEnd /\ First - 1 <= poll.upto
  <2>1. First \in Nat /\ NodeEnd \in Nat
    BY <1>2
  <2> HIDE DEF First, NodeEnd
  <2> QED BY ONLY <1>3, <1>4, <1>5, <2>1
<1>7. \A i \in First..poll.upto : i \in DOMAIN events
  <2>1. First \in Nat /\ First >= 1 /\ NodeEnd \in Nat /\ NodeEnd <= Len(events)
    BY <1>2
  <2> QED BY ONLY <1>1, <1>6, <2>1
<1>8. First - 1 <= Len(events) /\ First \in Nat /\ First >= 1
      /\ NodeEnd \in Nat /\ NodeEnd <= Len(events)
  BY <1>2
<1> QED BY ONLY <1>1, <1>4, <1>6, <1>7, <1>8
-----------------------------------------------------------------------------
(* The chain and the clients. *)

\* The network closes a ledger: the log grows at its end, by events of that
\* ledger.
LEMMA LogGrows ==
    ASSUME TypeOK, CloseLedger
    PROVE  /\ latest' = latest + 1 /\ latest' \in 1..MaxLedger
           /\ events' \in Seq(Event) /\ Len(events') <= MaxEvents
           /\ \A i \in DOMAIN events : i \in DOMAIN events' /\ events'[i] = events[i]
           /\ \A i \in DOMAIN events' \ DOMAIN events :
                 /\ events'[i].ledger = latest + 1 /\ i > Len(events)
                 /\ events'[i].filed => record[events'[i].rwa] # None
<1>1. /\ latest \in Nat /\ MaxLedger \in Nat /\ latest >= 1
      /\ events \in Seq(Event) /\ Len(events) \in Nat
  BY BoundsType DEF TypeOK
<1>2. latest < MaxLedger /\ latest' = latest + 1
  BY DEF CloseLedger
<1>3. PICK n \in 0..MaxEvents - Len(events) :
        \E batch \in [1..n -> Emissions(n)] : events' = events \o batch
  <2> PICK n \in 0..MaxEvents - Len(events) :
        \E type \in [1..n -> EventTypes], rwa \in [1..n -> Rwas], tx \in [1..n -> 1..n] :
          events' = events \o [i \in 1..n |-> Emitted(tx[i], type[i], rwa[i])]
    BY DEF CloseLedger, Order
  <2>1. PICK type \in [1..n -> EventTypes], rwa \in [1..n -> Rwas], tx \in [1..n -> 1..n] :
          events' = events \o [i \in 1..n |-> Emitted(tx[i], type[i], rwa[i])]
    OBVIOUS
  <2>2. [i \in 1..n |-> Emitted(tx[i], type[i], rwa[i])] \in [1..n -> Emissions(n)]
    BY <2>1 DEF Emissions
  <2> QED BY <2>1, <2>2
<1> DEFINE news == Emissions(n)
<1>4. PICK batch \in [1..n -> news] : events' = events \o batch
  BY <1>3
<1>5. n \in Nat /\ n <= MaxEvents - Len(events)
  BY <1>1, <1>3, BoundsType
<1>6. \A e \in news : /\ e \in Event /\ e.ledger = latest + 1
                      /\ e.filed => record[e.rwa] # None
  <2> SUFFICES ASSUME NEW x \in news
               PROVE  x \in Event /\ x.ledger = latest + 1 /\ (x.filed => record[x.rwa] # None)
    OBVIOUS
  <2> PICK tx \in 1..n, type \in EventTypes, r \in Rwas : x = Emitted(tx, type, r)
    BY DEF Emissions
  <2> DEFINE filed == type = "RWA_CREATED" /\ record[r] # None
             e == [ledger |-> latest + 1, tx |-> tx, type |-> type, rwa |-> r,
                   filed |-> filed]
  <2>1. latest + 1 \in 1..MaxLedger
    BY <1>1, <1>2
  <2>2. filed \in BOOLEAN
    OBVIOUS
  <2>3. e \in Event
    <3>1. tx \in 1..MaxEvents
      BY <1>1, <1>5, BoundsType
    <3> HIDE DEF filed
    <3> QED BY <2>1, <2>2, <3>1 DEF Event
  <2>4. e.ledger = latest + 1 /\ e.rwa = r
    OBVIOUS
  <2>5. e.filed => record[e.rwa] # None
    <3>1. CASE filed
      BY <2>4, <3>1
    <3>2. CASE ~filed
      <4>1. filed = FALSE
        BY <3>2
      <4>2. e.filed = FALSE
        <5> HIDE DEF filed
        <5> QED BY <4>1
      <4> HIDE DEF e
      <4> QED BY <4>2
    <3> QED BY <3>1, <3>2
  <2>6. Emitted(tx, type, r) = e
    BY DEF Emitted
  <2> HIDE DEF e
  <2> QED BY <2>3, <2>4, <2>5, <2>6
<1> HIDE DEF news
<1>7. batch \in Seq(Event) /\ Len(batch) = n
  <2>1. batch \in [1..n -> Event]
    BY <1>4, <1>6
  <2> QED BY <1>5, <2>1, SeqDef, LenProperties
<1>8. /\ events' \in Seq(Event) /\ Len(events') = Len(events) + n
      /\ \A i \in 1..Len(events) + n :
            events'[i] = IF i <= Len(events) THEN events[i] ELSE batch[i - Len(events)]
  BY <1>1, <1>4, <1>7, ConcatProperties
<1>9. DOMAIN events = 1..Len(events) /\ DOMAIN events' = 1..Len(events) + n
  BY <1>1, <1>8, LenProperties
<1>10. Len(events') <= MaxEvents
  BY <1>1, <1>5, <1>8, BoundsType
<1>11. \A i \in DOMAIN events : i \in DOMAIN events' /\ events'[i] = events[i]
  BY <1>1, <1>5, <1>8, <1>9
<1>12. ASSUME NEW i \in DOMAIN events' \ DOMAIN events
       PROVE  /\ events'[i].ledger = latest + 1 /\ i > Len(events)
              /\ events'[i].filed => record[events'[i].rwa] # None
  <2>1. i > Len(events) /\ i - Len(events) \in 1..n /\ i \in 1..Len(events) + n
    BY <1>1, <1>5, <1>9, <1>12
  <2>2. events'[i] = batch[i - Len(events)] /\ events'[i] \in news
    BY <1>1, <1>4, <1>8, <2>1
  <2> QED BY <1>6, <2>1, <2>2
<1>13. latest' \in 1..MaxLedger
  BY <1>1, <1>2
<1> QED BY <1>2, <1>8, <1>10, <1>11, <1>12, <1>13

\* A ledger that was closed already ends where it did.
LEMMA EndsKept ==
    ASSUME TypeOK, Sorted, CloseLedger, NEW l \in Int, l <= latest
    PROVE  {i \in DOMAIN events' : events'[i].ledger <= l}
             = {i \in DOMAIN events : events[i].ledger <= l}
<1>1. latest \in Nat
  BY BoundsType DEF TypeOK
<1>2. \A i \in DOMAIN events' : i \notin DOMAIN events => events'[i].ledger = latest + 1
  BY LogGrows
<1>3. \A i \in DOMAIN events : i \in DOMAIN events' /\ events'[i] = events[i]
  BY LogGrows
<1> QED BY <1>1, <1>2, <1>3

\* Closing a ledger keeps the invariant: what is new is past the cursor and
\* past every page.
LEMMA CloseLedgerKeeps ==
    ASSUME PInv, CloseLedger
    PROVE  PInv'
<1> USE DEF PInv
<1>1. /\ latest' = latest + 1 /\ latest' \in 1..MaxLedger /\ latest \in Nat
      /\ events' \in Seq(Event) /\ Len(events') <= MaxEvents
      /\ \A i \in DOMAIN events : i \in DOMAIN events' /\ events'[i] = events[i]
      /\ \A i \in DOMAIN events' \ DOMAIN events :
            /\ events'[i].ledger = latest + 1 /\ i > Len(events)
            /\ events'[i].filed => record[events'[i].rwa] # None
  BY LogGrows, BoundsType DEF TypeOK
<1>2. UNCHANGED <<record, rows, cursor, poll, faults, cut, dropped, interrupted>>
  BY DEF CloseLedger
<1>3. \A i \in DOMAIN events : events[i].ledger \in Nat /\ i \in 1..Len(events)
  BY EventFacts
<1>4. TypeOK'
  <2>1. cursor' \in 0..latest'
    BY <1>1, <1>2 DEF TypeOK
  <2> QED BY <1>1, <1>2, <2>1 DEF TypeOK
<1>5. Sorted'
  <2>1. \A i \in DOMAIN events' : events'[i].ledger <= latest'
    BY <1>1, <1>3 DEF Sorted
  <2>2. ASSUME NEW i \in DOMAIN events', NEW j \in DOMAIN events', i <= j
        PROVE  events'[i].ledger <= events'[j].ledger
    <3>1. Len(events) \in Nat /\ i \in Nat /\ j \in Nat
      <4>1. Len(events') \in Nat /\ DOMAIN events' = 1..Len(events')
        BY <1>1, LenProperties
      <4> QED BY <4>1 DEF TypeOK
    <3>2. CASE j \notin DOMAIN events
      BY <1>1, <1>3, <2>1, <3>2
    <3>3. CASE j \in DOMAIN events
      <4>1. i \in DOMAIN events
        BY <1>1, <1>3, <2>2, <3>1, <3>3
      <4> QED BY <1>1, <2>2, <3>3, <4>1 DEF Sorted
    <3> QED BY <3>2, <3>3
  <2> QED BY <2>1, <2>2 DEF Sorted
<1>6. StoredEvents'
  BY <1>1, <1>2 DEF StoredEvents, Indices
<1>7. FiledRecords'
  BY <1>1, <1>2 DEF FiledRecords
<1>8. Polling'
  <2>1. Polling
    OBVIOUS
  <2>2. poll.start \in Int
    BY DEF TypeOK
  <2> QED BY <1>1, <1>2, <2>1, <2>2 DEF Polling
<1>9. Paging'
  <2> SUFFICES ASSUME poll.pc \in {"handle", "promote"}
               PROVE  Paging'
    BY <1>2 DEF Paging
  <2>1. /\ poll.start \in Int /\ poll.node \in Int
        /\ poll.start <= poll.node /\ poll.node <= latest
    BY DEF TypeOK, Paging
  <2>2. First' = First /\ NodeEnd' = NodeEnd
    <3>1. poll.start - 1 \in Int /\ poll.start - 1 <= latest
      BY <1>1, <2>1
    <3>2. /\ {i \in DOMAIN events' : events'[i].ledger <= poll.start - 1}
               = {i \in DOMAIN events : events[i].ledger <= poll.start - 1}
          /\ {i \in DOMAIN events' : events'[i].ledger <= poll.node}
               = {i \in DOMAIN events : events[i].ledger <= poll.node}
      BY <2>1, <3>1, EndsKept
    <3> QED BY <1>2, <3>2 DEF First, NodeEnd, UpTo
  <2>3. /\ Len(events) \in Nat /\ DOMAIN events = 1..Len(events) /\ poll.upto \in Nat
        /\ First >= 1 /\ First \in Nat /\ NodeEnd <= Len(events) /\ PageLimit \in Nat
        /\ PageLimit >= 1 /\ poll.upto <= NodeEnd /\ NodeEnd \in Nat /\ poll.at \in Nat
        /\ \A i \in First..poll.upto : i \in DOMAIN events
    BY PageFacts
  <2>4. \A i \in First .. poll.at - 1 : Mapped(i)' => EventExists(i)'
    <3> SUFFICES ASSUME NEW i \in First .. poll.at - 1, Mapped(i)' PROVE EventExists(i)'
      OBVIOUS
    <3>1. i \in DOMAIN events
      BY <2>3 DEF Paging
    <3>2. EventExists(i)
      BY <1>1, <3>1 DEF Paging, Mapped
    <3> QED BY <1>1, <1>2, <3>1, <3>2, KeysKept
  <2>5. ASSUME poll.upto < NodeEnd, events'[poll.upto + 1].ledger = events'[poll.upto].ledger
        PROVE  events'[poll.upto].ledger \in cut'
    <3>1. poll.upto \in DOMAIN events /\ poll.upto + 1 \in DOMAIN events
      BY <2>3, <2>5 DEF Paging
    <3> QED BY <1>1, <1>2, <2>5, <3>1 DEF Paging
  <2> QED BY <1>1, <1>2, <2>1, <2>2, <2>3, <2>4, <2>5 DEF Paging
<1>10. Promoting'
  BY <1>2 DEF Promoting
<1>11. \A i \in DOMAIN events : Shadowed(i)' <=> Shadowed(i)
  <2> SUFFICES ASSUME NEW i \in DOMAIN events PROVE Shadowed(i)' <=> Shadowed(i)
    OBVIOUS
  <2>1. \A j \in DOMAIN events : SameKey(i, j)' <=> SameKey(i, j)
    BY <1>1 DEF SameKey
  <2>2. \A j \in DOMAIN events' : j < i => j \in DOMAIN events
    <3>1. Len(events) \in Nat /\ DOMAIN events = 1..Len(events) /\ i \in 1..Len(events)
      BY <1>3 DEF TypeOK
    <3>2. \A j \in DOMAIN events' : j \in Nat
      BY <1>1
    <3> QED BY <1>1, <3>1, <3>2
  <2> QED BY <1>1, <2>1, <2>2 DEF Shadowed
<1>12. CursorCoversRows'
  <2> SUFFICES ASSUME NEW i \in DOMAIN events', Mapped(i)', events'[i].ledger <= cursor',
                      ~Excused(i)'
               PROVE  rows'[i] > 0
    BY DEF CursorCoversRows
  <2>1. i \in DOMAIN events
    BY <1>1, <1>2 DEF TypeOK
  <2>2. Mapped(i) /\ events[i].ledger <= cursor /\ ~Excused(i)
    BY <1>1, <1>2, <1>11, <2>1 DEF Mapped, Excused
  <2> QED BY <1>2, <2>1, <2>2 DEF CursorCoversRows
<1>13. NeverStoredTwice'
  BY <1>2 DEF NeverStoredTwice
<1>14. FirstRows'
  <2> SUFFICES ASSUME NEW i \in DOMAIN events', rows'[i] > 0 PROVE ~Shadowed(i)'
    BY DEF FirstRows
  <2>1. i \in Indices
    <3>1. Len(events') \in Nat /\ DOMAIN events' = 1..Len(events')
      BY <1>1, LenProperties
    <3> QED BY <1>1, <3>1, BoundsType DEF Indices
  <2>2. i \in DOMAIN events
    BY <1>2, <2>1 DEF StoredEvents
  <2> QED BY <1>2, <1>11, <2>2 DEF FirstRows
<1> QED BY <1>4, <1>5, <1>6, <1>7, <1>8, <1>9, <1>10, <1>12, <1>13, <1>14

\* Steps that leave the chain alone leave the ends of ledgers alone.
LEMMA ChainSame ==
    ASSUME UNCHANGED chainVars
    PROVE  /\ Sorted => Sorted'
           /\ \A i : (Shadowed(i)' <=> Shadowed(i)) /\ (Mapped(i)' <=> Mapped(i))
           /\ poll'.start = poll.start /\ poll'.node = poll.node
                => First' = First /\ NodeEnd' = NodeEnd
<1>1. latest' = latest /\ events' = events
  BY DEF chainVars
<1>2. Sorted => Sorted'
  BY <1>1 DEF Sorted
<1>3. ASSUME poll'.start = poll.start, poll'.node = poll.node
      PROVE  First' = First /\ NodeEnd' = NodeEnd
  BY <1>1, <1>3 DEF First, NodeEnd, UpTo
<1>4. ASSUME NEW i PROVE (Shadowed(i)' <=> Shadowed(i)) /\ (Mapped(i)' <=> Mapped(i))
  BY <1>1 DEF Shadowed, SameKey, Mapped
<1> QED BY <1>2, <1>3, <1>4

\* Steps that leave the log and the rows alone leave the keys alone, and what
\* the cursor covers unless it moves.
LEMMA RowsSame ==
    ASSUME UNCHANGED chainVars, UNCHANGED rows
    PROVE  /\ StoredEvents => StoredEvents'
           /\ FirstRows => FirstRows'
           /\ NeverStoredTwice => NeverStoredTwice'
           /\ \A i : EventExists(i)' <=> EventExists(i)
           /\ CursorCoversRows /\ UNCHANGED cursor /\ cut \subseteq cut'
                /\ dropped \subseteq dropped' => CursorCoversRows'
<1>1. events' = events /\ rows' = rows
  BY DEF chainVars
<1>2. (StoredEvents => StoredEvents') /\ (NeverStoredTwice => NeverStoredTwice')
  BY <1>1 DEF StoredEvents, NeverStoredTwice
<1>3. FirstRows => FirstRows'
  BY <1>1, ChainSame DEF FirstRows
<1>4. ASSUME NEW i PROVE EventExists(i)' <=> EventExists(i)
  BY <1>1 DEF EventExists, SameKey
<1>5. ASSUME CursorCoversRows, cursor' = cursor, cut \subseteq cut', dropped \subseteq dropped'
      PROVE  CursorCoversRows'
  <2> SUFFICES ASSUME NEW i \in DOMAIN events', Mapped(i)', events'[i].ledger <= cursor',
                      ~Excused(i)'
               PROVE  rows'[i] > 0
    BY DEF CursorCoversRows
  <2>1. i \in DOMAIN events /\ Mapped(i) /\ events[i].ledger <= cursor /\ ~Shadowed(i)
    BY <1>1, <1>5, ChainSame DEF Excused
  <2>2. ~Excused(i)
    BY <1>1, <1>5, <2>1 DEF Excused
  <2> QED BY <1>1, <1>5, <2>1, <2>2 DEF CursorCoversRows
<1> QED BY <1>2, <1>3, <1>4, <1>5

\* A filed record that is updated or filed keeps the invariant.
LEMMA RecordChangeKeeps ==
    ASSUME PInv, record' \in [Rwas -> Record \cup {None}],
           \A r \in Rwas : record[r] # None => record'[r] # None,
           UNCHANGED <<chainVars, rows, cursor, poll, faults, cut, dropped, interrupted>>
    PROVE  PInv'
<1> USE DEF PInv
<1>1. TypeOK'
  BY DEF TypeOK, chainVars
<1>2. Sorted' /\ First' = First /\ NodeEnd' = NodeEnd
  BY ChainSame
<1>3. /\ StoredEvents' /\ FirstRows' /\ CursorCoversRows' /\ NeverStoredTwice'
      /\ Promoting' /\ Polling' /\ \A i : EventExists(i)' <=> EventExists(i)
  <2>1. Promoting' /\ Polling'
    BY DEF Promoting, Polling, chainVars
  <2> QED BY <2>1, RowsSame
<1>4. FiledRecords'
  BY EventFacts DEF FiledRecords, chainVars
<1>5. Paging'
  BY <1>2, <1>3 DEF Paging, chainVars, Mapped
<1> QED BY <1>1, <1>2, <1>3, <1>4, <1>5

\* The clients' calls keep the invariant.
LEMMA RecordStepsKeep ==
    ASSUME PInv, NEW r \in Rwas,
           \/ \E token \in BOOLEAN : CreateRecord(r, token)
           \/ \E patch \in Patches : PatchRecord(r, patch)
    PROVE  PInv'
<1>1. record \in [Rwas -> Record \cup {None}]
  BY DEF PInv, TypeOK
<1>2. ASSUME NEW token \in BOOLEAN, CreateRecord(r, token) PROVE PInv'
  <2> DEFINE new == [status |-> "DRAFT", token |-> token]
  <2>1. new \in Record
    BY DEF Record, Statuses
  <2> HIDE DEF new
  <2>2. record' = [record EXCEPT ![r] = new]
    BY <1>2 DEF CreateRecord, new
  <2>3. new # None
    BY <2>1, NoneIsNoRecord
  <2> QED BY <1>1, <1>2, <2>1, <2>2, <2>3, RecordChangeKeeps DEF CreateRecord
<1>3. ASSUME NEW patch \in Patches, PatchRecord(r, patch) PROVE PInv'
  <2> DEFINE st == IF patch.status = None THEN record[r].status ELSE patch.status
             tk == record[r].token \/ patch.token
             new == [status |-> st, token |-> tk]
  <2>1. record[r] \in Record
    BY <1>1, <1>3 DEF PatchRecord
  <2>2. st \in Statuses
    BY <2>1, PatchesType DEF Record
  <2>3. tk \in BOOLEAN
    OBVIOUS
  <2>4. new \in Record
    <3> HIDE DEF st, tk
    <3> QED BY <2>2, <2>3 DEF Record
  <2>5. record' = [record EXCEPT ![r] = new]
    BY <1>3 DEF PatchRecord
  <2> HIDE DEF new
  <2>6. new # None
    BY <2>4, NoneIsNoRecord
  <2> QED BY <1>1, <1>3, <2>4, <2>5, <2>6, RecordChangeKeeps DEF PatchRecord
<1> QED BY <1>2, <1>3
-----------------------------------------------------------------------------
(* The poll loop, step by step. *)

\* A ledger an endpoint answers with is one the network has closed.
LEMMA EndpointAnswers ==
    ASSUME TypeOK, NEW ledger \in Int, Endpoint(ledger)
    PROVE  ledger <= latest /\ faults' \in 0..MaxFaults
BY BoundsType DEF TypeOK, Endpoint, Fault, NoFault

\* A poll starts after the cursor and no earlier than the first ledger.
LEMMA StartFacts ==
    ASSUME TypeOK, NEW ledger \in Int
    PROVE  StartLedger(ledger) \in Int /\ StartLedger(ledger) > cursor
             /\ StartLedger(ledger) >= 1
<1>1. cursor \in Nat /\ InitialLookback \in Nat /\ Retention \in Nat
  BY WindowsType, BoundsType DEF TypeOK
<1> QED BY <1>1 DEF StartLedger, Largest

\* Beginning a poll keeps the invariant: what the window leaves out is dropped.
LEMMA BeginPollKeeps ==
    ASSUME PInv, NEW ledger \in Int, BeginPoll(ledger)
    PROVE  PInv'
<1> USE DEF PInv
<1> DEFINE start == StartLedger(ledger)
<1>1. /\ Endpoint(ledger) /\ start <= ledger
      /\ poll' = [Idle EXCEPT !.pc = "fetch", !.start = start]
      /\ dropped' = dropped \cup (cursor + 1 .. start - 1)
      /\ UNCHANGED <<chainVars, record, rows, cursor, cut, interrupted>>
  BY DEF BeginPoll
<1>2. ledger <= latest /\ faults' \in 0..MaxFaults
  BY <1>1, EndpointAnswers
<1>3. start \in Int /\ start > cursor /\ start >= 1
  BY StartFacts
<1> HIDE DEF start
<1>4. latest \in Nat /\ latest <= MaxLedger /\ MaxLedger \in Nat /\ MaxEvents \in Nat
      /\ cursor \in Nat
  BY BoundsType DEF TypeOK
<1>5. /\ poll' = [pc |-> "fetch", start |-> start, at |-> 1, upto |-> 0, node |-> 0]
      /\ poll'.pc = "fetch" /\ poll'.start = start
  BY <1>1 DEF Idle
<1>6. start \in 1..MaxLedger /\ cursor + 1 .. start - 1 \subseteq 1..MaxLedger
  BY <1>1, <1>2, <1>3, <1>4
<1>7. TypeOK'
  <2>1. poll' \in [pc : Steps, start : 1..MaxLedger, at : 1..MaxEvents + 1,
                   upto : 0..MaxEvents, node : 0..MaxLedger]
    BY <1>4, <1>5, <1>6 DEF Steps
  <2>2. dropped' \subseteq 1..MaxLedger
    BY <1>1, <1>6 DEF TypeOK
  <2> QED BY <1>1, <1>2, <2>1, <2>2 DEF TypeOK, chainVars
<1>8. Sorted'
  BY <1>1, ChainSame
<1>9. FiledRecords'
  BY <1>1 DEF FiledRecords, chainVars
<1>10. StoredEvents' /\ FirstRows' /\ NeverStoredTwice' /\ CursorCoversRows'
  BY <1>1, RowsSame
<1>11. Polling'
  <2>1. cursor < start /\ start <= latest /\ latest' = latest /\ cursor' = cursor
    BY <1>1, <1>2, <1>3, <1>4 DEF chainVars
  <2> QED BY <1>1, <1>5, <2>1 DEF Polling
<1>12. Paging' /\ Promoting'
  BY <1>5 DEF Paging, Promoting
<1> QED BY <1>7, <1>8, <1>9, <1>10, <1>11, <1>12

\* Fetching a page keeps the invariant.
LEMMA FetchKeeps ==
    ASSUME PInv, NEW node \in Int, Fetch(node)
    PROVE  PInv'
<1> USE DEF PInv
<1> DEFINE last == IF UpTo(node) < First + PageLimit THEN UpTo(node)
                   ELSE First + PageLimit - 1
<1>1. /\ poll.pc = "fetch" /\ node >= poll.start /\ Endpoint(node)
      /\ poll' = [poll EXCEPT !.pc = "handle", !.at = First, !.upto = last, !.node = node]
      /\ cut' = IF last < UpTo(node) /\ events[last + 1].ledger = events[last].ledger
                THEN cut \cup {events[last].ledger} ELSE cut
      /\ UNCHANGED <<chainVars, record, rows, cursor, dropped, interrupted>>
  BY DEF Fetch, First
<1>2. node <= latest /\ faults' \in 0..MaxFaults
  BY <1>1, EndpointAnswers
<1>3. /\ latest \in Nat /\ latest <= MaxLedger /\ MaxLedger \in Nat /\ MaxEvents \in Nat
      /\ poll.start \in Int /\ poll.start >= 1 /\ Len(events) \in Nat
      /\ Len(events) <= MaxEvents /\ DOMAIN events = 1..Len(events)
      /\ PageLimit \in Nat /\ PageLimit >= 1
  BY BoundsType, PageLimitType DEF TypeOK
<1>4. /\ UpTo(node) \in 0..Len(events)
      /\ \A i \in DOMAIN events : i <= UpTo(node) <=> events[i].ledger <= node
  BY UpToSplits
<1>5. /\ First \in Nat /\ First >= 1 /\ First - 1 <= Len(events)
      /\ \A i \in DOMAIN events : i <= First - 1 <=> events[i].ledger <= poll.start - 1
  BY WindowEnds
<1>6. First - 1 <= UpTo(node)
  <2>1. CASE First > 1
    <3>1. First - 1 \in DOMAIN events
      BY <1>3, <1>5, <2>1
    <3>2. events[First - 1].ledger \in Nat
      BY <3>1, EventFacts
    <3>3. events[First - 1].ledger <= poll.start - 1
      BY <1>5, <3>1
    <3>4. events[First - 1].ledger <= node
      BY <1>1, <1>3, <3>2, <3>3
    <3> QED BY <1>4, <3>1, <3>4
  <2> QED BY <1>4, <1>5, <2>1
<1>7. /\ last \in Nat /\ First - 1 <= last /\ last <= UpTo(node) /\ last <= Len(events)
      /\ last < UpTo(node) => last \in DOMAIN events
  <2> DEFINE end == UpTo(node)
  <2>1. last = IF end < First + PageLimit THEN end ELSE First + PageLimit - 1
    OBVIOUS
  <2>2. /\ end \in Nat /\ end <= Len(events) /\ First \in Nat /\ First >= 1
        /\ First - 1 <= end
    BY <1>3, <1>4, <1>5, <1>6
  <2> HIDE DEF end, last, First
  <2>3. last \in Nat /\ First - 1 <= last /\ last <= end /\ last <= Len(events)
    BY ONLY <1>3, <2>1, <2>2
  <2>4. last < end => last \in DOMAIN events
    BY ONLY <1>3, <2>1, <2>2
  <2> QED BY <2>3, <2>4 DEF end
<1>8. /\ poll'.pc = "handle" /\ poll'.start = poll.start /\ poll'.at = First
      /\ poll'.upto = last /\ poll'.node = node
  BY <1>1 DEF TypeOK
<1>9. /\ First' = First /\ NodeEnd' = UpTo(node)
      /\ Sorted'
  <2>1. events' = events /\ latest' = latest
    BY <1>1 DEF chainVars
  <2>2. First' = First
    BY <1>8, <2>1 DEF First, UpTo
  <2>3. NodeEnd' = UpTo(node)
    BY <1>8, <2>1 DEF NodeEnd, UpTo
  <2>4. Sorted'
    <3>1. UNCHANGED chainVars
      BY <1>1
    <3>2. Sorted
      OBVIOUS
    <3> QED BY ONLY <3>1, <3>2, ChainSame
  <2> QED BY <2>2, <2>3, <2>4
<1>10. TypeOK'
  <2>1. First \in 1..MaxEvents + 1 /\ last \in 0..MaxEvents /\ node \in 0..MaxLedger
    <3> DEFINE first == First
               start == poll.start
    <3>1. /\ first \in Nat /\ first >= 1 /\ first - 1 <= Len(events)
          /\ last \in Nat /\ last <= Len(events)
          /\ start \in Int /\ start >= 1 /\ node >= start
      BY <1>1, <1>3, <1>5, <1>7
    <3> HIDE DEF first, last, start
    <3>2. first \in 1..MaxEvents + 1 /\ last \in 0..MaxEvents
      BY ONLY <1>3, <3>1
    <3>3. node \in 0..MaxLedger
      BY ONLY <1>2, <1>3, <3>1, node \in Int
    <3> QED BY <3>2, <3>3 DEF first
  <2>2. poll' \in [pc : Steps, start : 1..MaxLedger, at : 1..MaxEvents + 1,
                   upto : 0..MaxEvents, node : 0..MaxLedger]
    <3> HIDE DEF last
    <3> QED BY <1>1, <2>1 DEF TypeOK, Steps
  <2>3. cut' \subseteq 1..MaxLedger
    <3>1. last < UpTo(node) => events[last].ledger \in 1..MaxLedger
      BY <1>7, EventFacts
    <3> HIDE DEF last
    <3> QED BY <1>1, <3>1 DEF TypeOK
  <2> QED BY <1>1, <1>2, <2>2, <2>3 DEF TypeOK, chainVars
<1> HIDE DEF last
<1>11. FiledRecords'
  BY <1>1 DEF FiledRecords, chainVars
<1>12. StoredEvents' /\ FirstRows' /\ NeverStoredTwice' /\ CursorCoversRows'
  <2>1. cut \subseteq cut'
    BY <1>1
  <2> QED BY <1>1, <2>1, RowsSame
<1>13. Polling'
  BY <1>1, <1>8 DEF Polling, chainVars
<1>14. Paging'
  <2>1. poll'.upto = IF NodeEnd' < First' + PageLimit THEN NodeEnd'
                     ELSE First' + PageLimit - 1
    BY <1>8, <1>9 DEF last
  <2>2. /\ poll'.start <= poll'.node /\ poll'.node <= latest'
        /\ First' <= poll'.at /\ poll'.at <= poll'.upto + 1
    BY <1>1, <1>2, <1>3, <1>5, <1>7, <1>8, <1>9 DEF chainVars
  <2>3. \A i \in First' .. poll'.at - 1 : Mapped(i)' => EventExists(i)'
    BY <1>5, <1>8, <1>9
  <2>4. poll'.upto < NodeEnd' /\ events'[poll'.upto + 1].ledger = events'[poll'.upto].ledger
          => events'[poll'.upto].ledger \in cut'
    BY <1>1, <1>8, <1>9 DEF chainVars
  <2> QED BY <2>1, <2>2, <2>3, <2>4 DEF Paging
<1>15. Promoting'
  BY <1>8 DEF Promoting
<1> QED BY <1>9, <1>10, <1>11, <1>12, <1>13, <1>14, <1>15

\* Storing an event, or passing over it, keeps the invariant.
LEMMA HandleEventKeeps ==
    ASSUME PInv, HandleEvent
    PROVE  PInv'
<1> USE DEF PInv
<1>1. /\ poll.pc = "handle" /\ poll.at <= poll.upto
      /\ UNCHANGED <<chainVars, record, cursor, faults, cut, dropped, interrupted>>
      /\ latest' = latest /\ events' = events
  BY DEF HandleEvent, chainVars
<1>2. /\ Len(events) \in Nat /\ DOMAIN events = 1..Len(events)
      /\ First \in Nat /\ First >= 1 /\ poll.upto \in Nat /\ poll.at \in Nat
      /\ NodeEnd <= Len(events) /\ NodeEnd \in Nat /\ poll.upto <= NodeEnd
  BY <1>1, PageFacts
<1>3. First <= poll.at
  BY <1>1 DEF Paging
<1>4. poll.at \in DOMAIN events /\ poll.at \in Indices
  BY <1>1, <1>2, <1>3, EventFacts
<1>5. /\ rows \in [Indices -> Nat] /\ MaxEvents \in Nat /\ poll.at \in 1..MaxEvents
      /\ poll \in [pc : Steps, start : 1..MaxLedger, at : 1..MaxEvents + 1,
                   upto : 0..MaxEvents, node : 0..MaxLedger]
  BY <1>4, BoundsType DEF TypeOK, Indices
<1>6. /\ rows' \in [Indices -> Nat] /\ \A i \in Indices : rows'[i] >= rows[i]
      /\ \A i \in Indices \ {poll.at} : rows'[i] = rows[i]
      /\ \/ rows'[poll.at] = 1 /\ ~EventExists(poll.at) /\ Mapped(poll.at)
         \/ rows' = rows
      /\ \A i : i = poll.at /\ Mapped(i) => EventExists(i)'
  <2>1. CASE Stored(poll.at)
    <3>1. rows' = [rows EXCEPT ![poll.at] = 1] /\ ~EventExists(poll.at) /\ Mapped(poll.at)
      BY <2>1 DEF Stored
    <3>2. ~(rows[poll.at] > 0)
      BY <1>4, <3>1, KeysAgree DEF EventExists
    <3>3. \A i : i = poll.at => EventExists(i)'
      BY <1>1, <1>4, <1>5, <3>1 DEF EventExists, SameKey
    <3> QED BY <1>4, <1>5, <3>1, <3>2, <3>3
  <2>2. CASE (~Mapped(poll.at) \/ EventExists(poll.at)) /\ UNCHANGED rows
    <3>1. \A i : EventExists(i)' <=> EventExists(i)
      BY <1>1, <2>2, RowsSame
    <3> QED BY <1>4, <1>5, <2>2, <3>1
  <2> QED BY <2>1, <2>2 DEF HandleEvent
<1>7. \/ poll' = [poll EXCEPT !.at = @ + 1]
      \/ poll' = [poll EXCEPT !.pc = "promote"] /\ Stored(poll.at)
  BY DEF HandleEvent
<1>8. /\ poll' \in [pc : Steps, start : 1..MaxLedger, at : 1..MaxEvents + 1,
                    upto : 0..MaxEvents, node : 0..MaxLedger]
      /\ poll'.start = poll.start /\ poll'.upto = poll.upto /\ poll'.node = poll.node
      /\ \/ poll'.pc = "handle" /\ poll'.at = poll.at + 1
         \/ poll'.pc = "promote" /\ poll'.at = poll.at /\ Stored(poll.at)
  <2>1. poll.at + 1 \in 1..MaxEvents + 1
    BY <1>5
  <2>2. CASE poll' = [poll EXCEPT !.at = @ + 1]
    BY <1>1, <1>5, <2>1, <2>2
  <2>3. CASE poll' = [poll EXCEPT !.pc = "promote"] /\ Stored(poll.at)
    BY <1>5, <2>3 DEF Steps
  <2> QED BY <1>7, <2>2, <2>3
<1>9. TypeOK'
  BY <1>1, <1>6, <1>8 DEF TypeOK
<1>10. Sorted' /\ First' = First /\ NodeEnd' = NodeEnd
  BY <1>1, <1>8, ChainSame
<1>11. StoredEvents' /\ FiledRecords'
  <2>1. \A i \in Indices : rows'[i] > 0 => i \in DOMAIN events
    BY <1>4, <1>6 DEF StoredEvents
  <2> QED BY <1>1, <2>1 DEF StoredEvents, FiledRecords
<1>12. NeverStoredTwice'
  BY <1>4, <1>6 DEF NeverStoredTwice
<1>13. /\ CursorCoversRows'
       /\ \A i \in DOMAIN events : rows[i] > 0 => rows'[i] > 0
  <2>1. \A i \in DOMAIN events : rows[i] > 0 => rows'[i] > 0
    BY <1>5, <1>6, EventFacts
  <2>2. \A i : (Mapped(i)' <=> Mapped(i)) /\ (Excused(i)' <=> Excused(i))
    BY <1>1, ChainSame DEF Excused
  <2> QED BY <1>1, <2>1, <2>2 DEF CursorCoversRows
<1>14. Polling'
  BY <1>1, <1>8 DEF Polling
<1>15. Paging'
  <2>1. /\ poll'.start <= poll'.node /\ poll'.node <= latest'
        /\ poll'.upto = IF NodeEnd' < First' + PageLimit THEN NodeEnd'
                        ELSE First' + PageLimit - 1
        /\ poll'.upto < NodeEnd' /\ events'[poll'.upto + 1].ledger = events'[poll'.upto].ledger
             => events'[poll'.upto].ledger \in cut'
    BY <1>1, <1>8, <1>10 DEF Paging
  <2>2. First' <= poll'.at /\ poll'.at <= poll'.upto + 1
    BY <1>1, <1>2, <1>3, <1>8, <1>10
  <2>3. ASSUME NEW i \in First' .. poll'.at - 1, Mapped(i)' PROVE EventExists(i)'
    <3>1. Mapped(i) /\ i \in First .. poll.at
      <4>1. i \in First .. poll.at
        <5>1. poll'.at = poll.at + 1 \/ poll'.at = poll.at
          BY <1>8
        <5> QED BY <1>2, <1>10, <2>3, <5>1
      <4> QED BY <1>1, <2>3, <4>1 DEF Mapped
    <3>2. CASE i = poll.at
      BY <1>6, <3>1, <3>2
    <3>3. CASE i # poll.at
      <4>1. i \in First .. poll.at - 1 /\ i \in DOMAIN events
        BY <1>1, <1>2, <3>1, <3>3
      <4>2. EventExists(i)
        BY <1>1, <3>1, <4>1 DEF Paging
      <4> QED BY <1>1, <1>13, <4>1, <4>2, KeysKept
    <3> QED BY <3>2, <3>3
  <2> QED BY <2>1, <2>2, <2>3 DEF Paging
<1>16. Promoting'
  <2>1. poll'.pc = "promote" => rows'[poll.at] > 0 /\ poll'.at = poll.at
    BY <1>4, <1>5, <1>8 DEF Stored
  <2> QED BY <1>1, <1>4, <1>8, <2>1 DEF Promoting
<1>17. FirstRows'
  <2>1. CASE rows' = rows
    BY <1>1, <2>1, RowsSame
  <2>2. CASE rows'[poll.at] = 1 /\ ~EventExists(poll.at) /\ Mapped(poll.at)
    <3> SUFFICES ASSUME NEW i \in DOMAIN events, rows'[i] > 0, Shadowed(i) PROVE FALSE
      BY <1>1, ChainSame DEF FirstRows
    <3>1. i = poll.at
      <4>1. i \in Indices
        BY EventFacts
      <4> QED BY <1>6, <4>1 DEF FirstRows
    <3>2. PICK j \in DOMAIN events : j < poll.at /\ SameKey(poll.at, j)
      BY <3>1 DEF Shadowed
    <3>3. j >= First
      <4>1. ~(events[poll.at].ledger <= poll.start - 1)
        <5>1. ~(poll.at <= First - 1)
          BY <1>2, <1>3
        <5> QED BY <1>4, <5>1, WindowEnds
      <4>2. ~(j <= First - 1)
        BY <3>2, <4>1, WindowEnds DEF SameKey
      <4> QED BY <1>2, <4>2
    <3>4. j \in First .. poll.at - 1 /\ Mapped(j)
      BY <1>2, <2>2, <3>2, <3>3, KeysAgree
    <3>5. EventExists(j)
      BY <1>1, <3>4 DEF Paging
    <3>6. EventExists(poll.at)
      BY <3>2, <3>5, KeysAgree DEF EventExists
    <3> QED BY <2>2, <3>6
  <2> QED BY <1>6, <2>1, <2>2
<1> QED BY <1>9, <1>10, <1>11, <1>12, <1>13, <1>14, <1>15, <1>16, <1>17

\* Promoting a record, or failing to, keeps the invariant.
LEMMA PromoteKeeps ==
    ASSUME PInv, Promote
    PROVE  PInv'
<1> USE DEF PInv
<1>1. /\ poll.pc = "promote" /\ poll' = [poll EXCEPT !.pc = "handle", !.at = @ + 1]
      /\ UNCHANGED <<chainVars, rows, cursor, cut, dropped>>
      /\ latest' = latest /\ events' = events
  BY DEF Promote, chainVars
<1>2. /\ Len(events) \in Nat /\ DOMAIN events = 1..Len(events)
      /\ First \in Nat /\ First >= 1 /\ poll.upto \in Nat /\ poll.at \in Nat
      /\ NodeEnd <= Len(events) /\ NodeEnd \in Nat /\ poll.upto <= NodeEnd
  BY <1>1, PageFacts
<1>3. First <= poll.at /\ poll.at <= poll.upto /\ rows[poll.at] > 0
  BY <1>1 DEF Paging, Promoting
<1>4. poll.at \in DOMAIN events /\ poll.at \in Indices /\ events[poll.at].rwa \in Rwas
  BY <1>2, <1>3, EventFacts
<1>5. /\ MaxEvents \in Nat /\ poll.at \in 1..MaxEvents
      /\ poll \in [pc : Steps, start : 1..MaxLedger, at : 1..MaxEvents + 1,
                   upto : 0..MaxEvents, node : 0..MaxLedger]
  BY <1>4, BoundsType DEF TypeOK, Indices
<1>6. /\ poll' \in [pc : Steps, start : 1..MaxLedger, at : 1..MaxEvents + 1,
                    upto : 0..MaxEvents, node : 0..MaxLedger]
      /\ poll'.start = poll.start /\ poll'.upto = poll.upto /\ poll'.node = poll.node
      /\ poll'.pc = "handle" /\ poll'.at = poll.at + 1
  <2>1. poll.at + 1 \in 1..MaxEvents + 1
    BY <1>5
  <2> QED BY <1>1, <1>5, <2>1 DEF Steps
<1>7. /\ record' \in [Rwas -> Record \cup {None}]
      /\ \A r \in Rwas : record[r] # None => record'[r] # None
      /\ faults' \in 0..MaxFaults /\ interrupted' \subseteq Indices
  <2> DEFINE done == [status |-> "ON_CHAIN", token |-> TRUE]
  <2>1. done \in Record
    BY DEF Record, Statuses
  <2> HIDE DEF done
  <2>2. done # None
    BY <2>1, NoneIsNoRecord
  <2>3. CASE record' = Promoted(events[poll.at].rwa) /\ NoFault /\ UNCHANGED interrupted
    <3>1. record' = record \/ record' = [record EXCEPT ![events[poll.at].rwa] = done]
      BY <2>3 DEF Promoted, done
    <3> QED BY <1>4, <2>1, <2>2, <2>3, <3>1 DEF TypeOK, NoFault
  <2>4. CASE UNCHANGED record /\ Fault /\ interrupted' = interrupted \cup {poll.at}
    BY <1>4, <2>4, BoundsType DEF TypeOK, Fault
  <2> QED BY <2>3, <2>4 DEF Promote
<1>8. TypeOK'
  BY <1>1, <1>6, <1>7 DEF TypeOK
<1>9. Sorted' /\ First' = First /\ NodeEnd' = NodeEnd
  BY <1>1, <1>6, ChainSame
<1>10. StoredEvents' /\ FirstRows' /\ NeverStoredTwice' /\ CursorCoversRows'
  BY <1>1, RowsSame
<1>11. FiledRecords'
  BY <1>1, <1>7, EventFacts DEF FiledRecords
<1>12. Polling' /\ Promoting'
  BY <1>1, <1>6 DEF Polling, Promoting
<1>13. Paging'
  <2>1. /\ poll'.start <= poll'.node /\ poll'.node <= latest'
        /\ poll'.upto = IF NodeEnd' < First' + PageLimit THEN NodeEnd'
                        ELSE First' + PageLimit - 1
        /\ poll'.upto < NodeEnd' /\ events'[poll'.upto + 1].ledger = events'[poll'.upto].ledger
             => events'[poll'.upto].ledger \in cut'
    BY <1>1, <1>6, <1>9 DEF Paging
  <2>2. First' <= poll'.at /\ poll'.at <= poll'.upto + 1
    BY <1>2, <1>3, <1>6, <1>9
  <2>3. ASSUME NEW i \in First' .. poll'.at - 1, Mapped(i)' PROVE EventExists(i)'
    <3>1. Mapped(i) /\ i \in First .. poll.at
      BY <1>1, <1>2, <1>6, <1>9, <2>3 DEF Mapped
    <3>2. CASE i = poll.at
      <4>1. EventExists(i)
        BY <1>3, <1>4, <3>2, KeysAgree DEF EventExists
      <4> QED BY <1>1, <4>1, RowsSame
    <3>3. CASE i # poll.at
      <4>1. i \in First .. poll.at - 1
        BY <1>2, <3>1, <3>3
      <4>2. EventExists(i)
        BY <1>1, <3>1, <4>1 DEF Paging
      <4> QED BY <1>1, <4>2, RowsSame
    <3> QED BY <3>2, <3>3
  <2> QED BY <2>1, <2>2, <2>3 DEF Paging
<1> QED BY <1>8, <1>9, <1>10, <1>11, <1>12, <1>13

\* What the cursor moves over is in the page, and so stored, or excused: a drained
\* page held every event up to the answering endpoint's ledger; a full one
\* moves the cursor to the ledger it ended in, which is cut when the page holds
\* only a part of it.
LEMMA PassedIsCovered ==
    ASSUME PInv, poll.pc = "handle", poll.at > poll.upto,
           NEW i \in DOMAIN events, Mapped(i), ~Excused(i),
           events[i].ledger > cursor, events[i].ledger <= NextLedger
    PROVE  rows[i] > 0
<1> USE DEF PInv
<1>1. /\ Len(events) \in Nat /\ DOMAIN events = 1..Len(events)
      /\ PageLimit \in Nat /\ PageLimit >= 1
      /\ First \in Nat /\ First >= 1 /\ poll.upto \in Nat /\ poll.at \in Nat
      /\ NodeEnd \in Nat /\ poll.upto <= NodeEnd /\ NodeEnd <= Len(events)
      /\ First - 1 <= poll.upto
  BY PageFacts
<1>2. /\ i \in 1..Len(events) /\ events[i].ledger \in Nat
      /\ poll.start \in Nat /\ poll.node \in Nat /\ cursor \in Nat
  <2>1. poll.start \in Nat /\ poll.node \in Nat /\ cursor \in Nat
    BY BoundsType DEF TypeOK
  <2> QED BY <2>1, EventFacts
<1>3. /\ UpTo(poll.start - 1) = First - 1
      /\ \A j \in DOMAIN events : j <= First - 1 <=> events[j].ledger <= poll.start - 1
      /\ \A j \in DOMAIN events : j <= NodeEnd <=> events[j].ledger <= poll.node
  BY WindowEnds
<1>4. events[i].ledger >= poll.start
  <2>1. SUFFICES ASSUME events[i].ledger <= poll.start - 1 PROVE FALSE
    BY <1>2
  <2>2. events[i].ledger \in cursor + 1 .. poll.start - 1
    BY <1>2, <2>1
  <2>3. events[i].ledger \in dropped
    BY <2>2 DEF Polling
  <2> QED BY <2>3 DEF Excused
<1>5. i >= First
  BY <1>1, <1>2, <1>3, <1>4
<1>6. i <= poll.upto
  <2>1. CASE Drained
    <3>1. NextLedger = poll.node
      BY <2>1 DEF NextLedger
    <3>2. poll.upto < First - 1 + PageLimit
      BY <1>3, <2>1 DEF Drained
    <3>3. poll.upto = NodeEnd
      BY <1>1, <3>2 DEF Paging
    <3> QED BY <1>3, <3>1, <3>3
  <2>2. CASE ~Drained
    <3>1. poll.upto >= First - 1 + PageLimit
      BY <1>1, <1>3, <2>2 DEF Drained
    <3>2. poll.upto \in DOMAIN events /\ poll.upto >= First
      BY <1>1, <3>1
    <3>3. events[poll.upto].ledger \in Nat /\ events[poll.upto].ledger >= poll.start
      <4>1. events[poll.upto].ledger \in Nat
        BY <3>2, EventFacts
      <4>2. ~(poll.upto <= First - 1)
        BY <1>1, <3>2
      <4>3. ~(events[poll.upto].ledger <= poll.start - 1)
        BY <1>3, <3>2, <4>2
      <4> QED BY <1>2, <4>1, <4>3
    <3>4. NextLedger = events[poll.upto].ledger
      <4>1. MaxLedgerSeen = events[poll.upto].ledger
        <5>1. UpTo(poll.start - 1) = First - 1 /\ ~(poll.upto = First - 1)
          BY <1>1, <1>3, <3>2
        <5> QED BY <5>1 DEF MaxLedgerSeen
      <4>2. NextLedger = Largest(events[poll.upto].ledger, poll.start)
        BY <2>2, <4>1 DEF NextLedger
      <4>3. poll.start \in Nat
        BY <1>2
      <4> DEFINE ledger == events[poll.upto].ledger
                 start == poll.start
      <4>4. ledger \in Nat /\ start \in Nat /\ ledger >= start
        BY <3>3, <4>3
      <4>5. NextLedger = Largest(ledger, start)
        BY <4>2
      <4> HIDE DEF ledger, start
      <4>6. NextLedger = ledger
        BY ONLY <4>4, <4>5 DEF Largest
      <4> QED BY <4>6 DEF ledger
    <3>5. SUFFICES ASSUME i > poll.upto PROVE FALSE
      BY <1>1, <1>2
    <3>6. poll.upto + 1 \in DOMAIN events /\ poll.upto + 1 <= i
      <4> DEFINE upto == poll.upto
                 n == Len(events)
      <4>1. upto \in Nat /\ n \in Nat /\ i \in 1..n /\ i > upto /\ DOMAIN events = 1..n
        BY <1>1, <1>2, <3>5
      <4> HIDE DEF upto, n
      <4>2. upto + 1 \in DOMAIN events /\ upto + 1 <= i
        BY ONLY <4>1
      <4> QED BY <4>2 DEF upto
    <3>7. /\ events[poll.upto].ledger <= events[poll.upto + 1].ledger
          /\ events[poll.upto + 1].ledger <= events[i].ledger
          /\ events[poll.upto + 1].ledger \in Nat
      <4>1. events[poll.upto + 1].ledger \in Nat
        BY <3>6, EventFacts
      <4>2. poll.upto <= poll.upto + 1
        BY <1>1
      <4> QED BY <3>2, <3>6, <4>1, <4>2 DEF Sorted
    <3>8. /\ events[i].ledger = events[poll.upto].ledger
          /\ events[poll.upto + 1].ledger = events[poll.upto].ledger
      BY <1>2, <3>3, <3>4, <3>7
    <3>9. i <= NodeEnd
      BY <1>1, <1>3, <3>2, <3>8
    <3>10. events[poll.upto].ledger \in cut
      BY <1>1, <1>2, <3>5, <3>8, <3>9 DEF Paging
    <3> QED BY <3>8, <3>10 DEF Excused
  <2> QED BY <2>1, <2>2
<1>7. i \in First .. poll.at - 1
  BY <1>1, <1>2, <1>5, <1>6
<1>8. EventExists(i) /\ ~Shadowed(i)
  BY <1>7 DEF Paging, Excused
<1> QED BY <1>8, RowOfKey

\* Moving the cursor keeps the invariant.
LEMMA AdvanceCursorKeeps ==
    ASSUME PInv, AdvanceCursor
    PROVE  PInv'
<1> USE DEF PInv
<1>1. /\ poll.pc = "handle" /\ poll.at > poll.upto
      /\ cursor' = Largest(NextLedger, cursor) /\ poll' = Idle
      /\ UNCHANGED <<chainVars, record, rows, faults, cut, dropped, interrupted>>
      /\ latest' = latest /\ events' = events
  BY DEF AdvanceCursor, chainVars
<1>2. latest \in Nat /\ cursor \in 0..latest /\ MaxLedger \in Nat \ {0} /\ MaxEvents \in Nat
  BY BoundsType DEF TypeOK
<1>3. NextLedger \in Int /\ NextLedger <= latest
  <2>1. /\ poll.start \in Int /\ poll.node \in Int
        /\ poll.start <= poll.node /\ poll.node <= latest
    BY <1>1 DEF TypeOK, Paging
  <2>2. poll.upto \in DOMAIN events => events[poll.upto].ledger \in Int
                                         /\ events[poll.upto].ledger <= latest
    BY EventFacts DEF Sorted
  <2>3. UpTo(poll.start - 1) = First - 1
    BY WindowEnds
  <2>4. poll.upto = First - 1 \/ poll.upto \in DOMAIN events
    BY <1>1, PageFacts
  <2>5. MaxLedgerSeen \in Int /\ MaxLedgerSeen <= latest
    BY <1>2, <2>1, <2>2, <2>3, <2>4 DEF MaxLedgerSeen
  <2> QED BY <1>2, <2>1, <2>5 DEF NextLedger, Largest
<1>4. cursor' \in 0..latest' /\ cursor' >= cursor /\ cursor' \in {NextLedger, cursor}
  BY <1>1, <1>2, <1>3 DEF Largest
<1>5. poll'.pc = "idle"
  BY <1>1 DEF Idle
<1>6. TypeOK'
  <2>1. Idle \in [pc : Steps, start : 1..MaxLedger, at : 1..MaxEvents + 1,
                  upto : 0..MaxEvents, node : 0..MaxLedger]
    BY <1>2 DEF Idle, Steps
  <2> QED BY <1>1, <1>4, <2>1 DEF TypeOK
<1>7. Sorted'
  BY <1>1, ChainSame
<1>8. StoredEvents' /\ FirstRows' /\ FiledRecords' /\ NeverStoredTwice'
  <2>1. FiledRecords'
    BY <1>1 DEF FiledRecords
  <2> QED BY <1>1, <2>1, RowsSame
<1>9. Polling' /\ Paging' /\ Promoting'
  BY <1>5 DEF Polling, Paging, Promoting
<1>10. CursorCoversRows'
  <2> SUFFICES ASSUME NEW i \in DOMAIN events, Mapped(i), events[i].ledger <= cursor',
                      ~Excused(i)
               PROVE  rows[i] > 0
    <3>1. \A i : (Mapped(i)' <=> Mapped(i)) /\ (Excused(i)' <=> Excused(i))
      BY <1>1, ChainSame DEF Excused
    <3> QED BY <1>1, <3>1 DEF CursorCoversRows
  <2>1. CASE events[i].ledger <= cursor
    BY <2>1 DEF CursorCoversRows
  <2>2. CASE ~(events[i].ledger <= cursor)
    <3>1. events[i].ledger > cursor /\ events[i].ledger <= NextLedger
      BY <1>2, <1>4, <2>2, EventFacts
    <3> QED BY <1>1, <3>1, PassedIsCovered
  <2> QED BY <2>1, <2>2
<1> QED BY <1>6, <1>7, <1>8, <1>9, <1>10

\* A crash, or a call that throws, keeps the invariant: the cursor stays.
LEMMA AbortKeeps ==
    ASSUME PInv, Abort
    PROVE  PInv'
<1> USE DEF PInv
<1>1. /\ poll.pc # "idle" /\ Fault /\ poll' = Idle
      /\ interrupted' = IF poll.pc = "promote" THEN interrupted \cup {poll.at}
                        ELSE interrupted
      /\ UNCHANGED <<chainVars, record, rows, cursor, cut, dropped>>
      /\ latest' = latest /\ events' = events
  BY DEF Abort, chainVars
<1>2. poll'.pc = "idle"
  BY <1>1 DEF Idle
<1>3. TypeOK'
  <2>1. Idle \in [pc : Steps, start : 1..MaxLedger, at : 1..MaxEvents + 1,
                  upto : 0..MaxEvents, node : 0..MaxLedger]
    BY BoundsType DEF Idle, Steps
  <2>2. faults' \in 0..MaxFaults
    BY <1>1, BoundsType DEF TypeOK, Fault
  <2>3. interrupted' \subseteq Indices
    BY <1>1 DEF TypeOK, Promoting
  <2> QED BY <1>1, <2>1, <2>2, <2>3 DEF TypeOK
<1>4. Sorted'
  BY <1>1, ChainSame
<1>5. StoredEvents' /\ FirstRows' /\ FiledRecords' /\ NeverStoredTwice' /\ CursorCoversRows'
  <2>1. FiledRecords'
    BY <1>1 DEF FiledRecords
  <2> QED BY <1>1, <2>1, RowsSame
<1>6. Polling' /\ Paging' /\ Promoting'
  BY <1>2 DEF Polling, Paging, Promoting
<1> QED BY <1>3, <1>4, <1>5, <1>6
-----------------------------------------------------------------------------
(* The invariant, and what follows from it. *)

\* The invariant holds before the first ledger after the deployment.
LEMMA InitPInv == Init => PInv
<1> SUFFICES ASSUME Init PROVE PInv
  OBVIOUS
<1>1. MaxLedger \in Nat \ {0} /\ MaxEvents \in Nat /\ MaxFaults \in Nat
  BY BoundsType
<1>2. DOMAIN events = {} /\ events \in Seq(Event) /\ Len(events) = 0
  BY EmptySeq DEF Init
<1>3. TypeOK
  <2>1. poll \in [pc : Steps, start : 1..MaxLedger, at : 1..MaxEvents + 1,
                  upto : 0..MaxEvents, node : 0..MaxLedger]
    BY <1>1 DEF Init, Idle, Steps
  <2> QED BY <1>1, <1>2, <2>1 DEF Init, TypeOK
<1>4. poll.pc = "idle"
  BY DEF Init, Idle
<1>5. /\ Sorted /\ StoredEvents /\ FirstRows /\ FiledRecords
      /\ CursorCoversRows /\ NeverStoredTwice
  BY <1>2 DEF Init, Sorted, StoredEvents, FirstRows, FiledRecords, CursorCoversRows,
     NeverStoredTwice
<1>6. Polling /\ Paging /\ Promoting
  BY <1>4 DEF Polling, Paging, Promoting
<1> QED BY <1>3, <1>5, <1>6 DEF PInv

\* Every step of the chain, the clients and the loop keeps the invariant.
LEMMA NextPInv == PInv /\ [Next]_vars => PInv'
<1> SUFFICES ASSUME PInv, [Next]_vars PROVE PInv'
  OBVIOUS
<1>1. latest \in Int /\ \A ledger \in 1..latest - 1 : ledger \in Int
  BY BoundsType DEF PInv, TypeOK
<1>2. CASE CloseLedger
  BY <1>2, CloseLedgerKeeps
<1>3. CASE \/ \E r \in Rwas, token \in BOOLEAN : CreateRecord(r, token)
           \/ \E r \in Rwas, patch \in Patches : PatchRecord(r, patch)
  BY <1>3, RecordStepsKeep
<1>4. CASE PollStep
  BY <1>1, <1>4, BeginPollKeeps, FetchKeeps, HandleEventKeeps, PromoteKeeps,
     AdvanceCursorKeeps DEF PollStep
<1>5. CASE \E ledger \in 1..latest - 1 : BeginPoll(ledger) \/ Fetch(ledger)
  BY <1>1, <1>5, BeginPollKeeps, FetchKeeps
<1>6. CASE Abort
  BY <1>6, AbortKeeps
<1>7. CASE UNCHANGED vars
  <2>1. UNCHANGED <<chainVars, record, rows, cursor, poll, faults, cut, dropped,
                    interrupted>>
    BY <1>7 DEF vars
  <2>2. record' \in [Rwas -> Record \cup {None}]
    BY <2>1 DEF PInv, TypeOK
  <2> QED BY <2>1, <2>2, RecordChangeKeeps
<1> QED BY <1>2, <1>3, <1>4, <1>5, <1>6, <1>7 DEF Next

\* Every reachable state of the poller satisfies the inductive invariant.
THEOREM PollerInvariant == Spec => []PInv
<1> QED BY InitPInv, NextPInv, PTL DEF Spec

\* Every state has the types TypeOK gives it: the cursor never passes the
\* network, and the loop's indices never leave the log.
THEOREM PollerTypes == Spec => []TypeOK
<1>1. PInv => TypeOK
  BY DEF PInv
<1> QED BY <1>1, PollerInvariant, PTL

\* eventExists before createEvent: no crash, failed call or endpoint that lags
\* makes the loop write a second row for an event.
THEOREM NoSecondRow == Spec => []NeverStoredTwice
<1>1. PInv => NeverStoredTwice
  BY DEF PInv
<1> QED BY <1>1, PollerInvariant, PTL

\* Whatever the page size, the windows and the faults, pollOnce never moves the
\* cursor past a mapped event that is neither stored nor excused: by a cut page,
\* a dropped window, or an earlier event of its key.
THEOREM CursorIsHonest == Spec => []CursorCoversRows
<1>1. PInv => CursorCoversRows
  BY DEF PInv
<1> QED BY <1>1, PollerInvariant, PTL
-----------------------------------------------------------------------------
(* Promotion. *)

\* The frontend's one PATCH after the filing, the finalize step of
\* use-issue-collateral.ts, sets the token and no status.
NoStatusPatched == \A patch \in Patches : patch.status = None

\* A record that is on chain stays so, whatever the clients send.
LEMMA OnChainStays ==
    ASSUME PInv, NoStatusPatched, NEW s \in Rwas,
           record[s] = [status |-> "ON_CHAIN", token |-> TRUE],
           NEW r \in Rwas,
           \/ \E token \in BOOLEAN : CreateRecord(r, token)
           \/ \E patch \in Patches : PatchRecord(r, patch)
           \/ record' = Promoted(r)
    PROVE  record'[s] = [status |-> "ON_CHAIN", token |-> TRUE]
<1> DEFINE done == [status |-> "ON_CHAIN", token |-> TRUE]
<1>1. record \in [Rwas -> Record \cup {None}]
  BY DEF PInv, TypeOK
<1>2. done \in Record /\ done.status = "ON_CHAIN" /\ done.token = TRUE
  BY DEF Record, Statuses
<1>3. done # None
  BY <1>2, NoneIsNoRecord
<1>4. record[s] = done
  OBVIOUS
<1> SUFFICES record'[s] = done
  OBVIOUS
<1> HIDE DEF done
<1>5. ASSUME NEW token \in BOOLEAN, CreateRecord(r, token) PROVE record'[s] = done
  BY <1>1, <1>3, <1>4, <1>5 DEF CreateRecord
<1>6. ASSUME NEW patch \in Patches, PatchRecord(r, patch) PROVE record'[s] = done
  <2>1. patch.status = None
    BY DEF NoStatusPatched
  <2>2. CASE r = s
    <3>1. record' = [record EXCEPT ![s] = [status |-> done.status,
                                           token |-> done.token \/ patch.token]]
      BY <1>1, <1>4, <1>6, <2>1, <2>2 DEF PatchRecord
    <3>2. (done.token \/ patch.token) = TRUE
      BY <1>2
    <3>3. record'[s] = [status |-> "ON_CHAIN", token |-> TRUE]
      BY <1>1, <1>2, <3>1, <3>2
    <3> QED BY <3>3 DEF done
  <2>3. CASE r # s
    BY <1>1, <1>4, <1>6, <2>3 DEF PatchRecord
  <2> QED BY <2>2, <2>3
<1>7. CASE record' = Promoted(r)
  BY <1>1, <1>4, <1>7 DEF Promoted, done
<1> QED BY <1>5, <1>6, <1>7

\* PromotedUnlessInterrupted, with the record as a whole.
Reconciled ==
    \A i \in DOMAIN events :
        /\ rows[i] > 0 /\ events[i].type = "RWA_CREATED" /\ events[i].filed
        /\ i \notin interrupted /\ ~(poll.pc = "promote" /\ poll.at = i)
        => record[events[i].rwa] = [status |-> "ON_CHAIN", token |-> TRUE]

\* A step that stores nothing new and ends no promotion keeps the promoted
\* records.
LEMMA ReconciledKept ==
    ASSUME PInv, Reconciled, NoStatusPatched, UNCHANGED chainVars,
           UNCHANGED rows,
           \A i \in DOMAIN events :
              i \notin interrupted' /\ ~(poll'.pc = "promote" /\ poll'.at = i)
              => i \notin interrupted /\ ~(poll.pc = "promote" /\ poll.at = i),
           \/ UNCHANGED record
           \/ \E r \in Rwas, token \in BOOLEAN : CreateRecord(r, token)
           \/ \E r \in Rwas, patch \in Patches : PatchRecord(r, patch)
    PROVE  Reconciled'
<1> SUFFICES ASSUME NEW i \in DOMAIN events,
                    rows[i] > 0, events[i].type = "RWA_CREATED", events[i].filed,
                    i \notin interrupted', ~(poll'.pc = "promote" /\ poll'.at = i)
             PROVE  record'[events[i].rwa] = [status |-> "ON_CHAIN", token |-> TRUE]
  BY DEF Reconciled, chainVars
<1>1. record[events[i].rwa] = [status |-> "ON_CHAIN", token |-> TRUE]
  BY DEF Reconciled
<1>2. events[i].rwa \in Rwas
  BY EventFacts DEF PInv
<1>3. CASE UNCHANGED record
  BY <1>1, <1>3
<1>4. ASSUME NEW r \in Rwas,
             \/ \E token \in BOOLEAN : CreateRecord(r, token)
             \/ \E patch \in Patches : PatchRecord(r, patch)
      PROVE  record'[events[i].rwa] = [status |-> "ON_CHAIN", token |-> TRUE]
  BY <1>1, <1>2, <1>4, OnChainStays
<1> QED BY <1>3, <1>4

\* The promotion itself: the record is there if it was filed.
LEMMA PromoteReconciles ==
    ASSUME PInv, Reconciled, NoStatusPatched, Promote
    PROVE  Reconciled'
<1>1. /\ poll.pc = "promote" /\ UNCHANGED <<chainVars, rows>> /\ events' = events
  BY DEF Promote, chainVars
<1> SUFFICES ASSUME NEW i \in DOMAIN events,
                    rows[i] > 0, events[i].type = "RWA_CREATED", events[i].filed,
                    i \notin interrupted'
             PROVE  record'[events[i].rwa] = [status |-> "ON_CHAIN", token |-> TRUE]
  BY <1>1 DEF Reconciled
<1>2. events[i].rwa \in Rwas /\ record[events[i].rwa] # None
  BY EventFacts DEF PInv, FiledRecords
<1>3. record \in [Rwas -> Record \cup {None}]
  BY DEF PInv, TypeOK
<1>4. CASE poll.at = i
  <2>1. record' = Promoted(events[i].rwa)
    BY <1>4 DEF Promote
  <2> QED BY <1>2, <1>3, <2>1 DEF Promoted
<1>5. CASE poll.at # i
  <2>1. i \notin interrupted
    BY DEF Promote
  <2>2. record[events[i].rwa] = [status |-> "ON_CHAIN", token |-> TRUE]
    BY <1>1, <1>5, <2>1 DEF Reconciled
  <2>3. events[poll.at].rwa \in Rwas
    <3>1. poll.at \in DOMAIN events
      BY <1>1 DEF PInv, Promoting, StoredEvents
    <3> QED BY <3>1, EventFacts DEF PInv
  <2>4. record' = Promoted(events[poll.at].rwa) \/ record' = record
    BY DEF Promote
  <2> QED BY <1>2, <2>2, <2>3, <2>4, OnChainStays
<1> QED BY <1>4, <1>5

\* Every step keeps the promoted records.
LEMMA NextReconciled ==
    NoStatusPatched => (PInv /\ Reconciled /\ [Next]_vars => Reconciled')
<1> SUFFICES ASSUME NoStatusPatched, PInv, Reconciled, [Next]_vars PROVE Reconciled'
  OBVIOUS
<1>1. CASE CloseLedger
  <2>1. /\ UNCHANGED <<record, rows, poll, interrupted>>
        /\ \A i \in DOMAIN events : i \in DOMAIN events' /\ events'[i] = events[i]
        /\ events' \in Seq(Event) /\ Len(events') <= MaxEvents
    <3>1. UNCHANGED <<record, rows, poll, interrupted>>
      BY <1>1 DEF CloseLedger
    <3>2. /\ \A i \in DOMAIN events : i \in DOMAIN events' /\ events'[i] = events[i]
          /\ events' \in Seq(Event) /\ Len(events') <= MaxEvents
      BY <1>1, LogGrows DEF PInv
    <3> QED BY <3>1, <3>2
  <2>2. DOMAIN events' \subseteq Indices
    <3>1. Len(events') \in Nat /\ DOMAIN events' = 1..Len(events')
      BY <2>1, LenProperties
    <3> QED BY <2>1, <3>1, BoundsType DEF Indices
  <2>3. \A i \in DOMAIN events' : rows[i] > 0 => i \in DOMAIN events
    BY <2>2 DEF PInv, StoredEvents
  <2> QED BY <2>1, <2>3 DEF Reconciled
<1>2. CASE \/ \E r \in Rwas, token \in BOOLEAN : CreateRecord(r, token)
           \/ \E r \in Rwas, patch \in Patches : PatchRecord(r, patch)
  <2>1. UNCHANGED <<chainVars, rows, poll, interrupted>>
    BY <1>2 DEF CreateRecord, PatchRecord
  <2> QED BY <1>2, <2>1, ReconciledKept
<1>3. ASSUME NEW ledger, BeginPoll(ledger) \/ Fetch(ledger) PROVE Reconciled'
  BY <1>3, ReconciledKept DEF BeginPoll, Fetch
<1>4. CASE HandleEvent
  <2>1. /\ poll.pc = "handle" /\ UNCHANGED <<chainVars, record, interrupted>>
        /\ events' = events
    BY <1>4 DEF HandleEvent, chainVars
  <2>2. poll.at <= poll.upto /\ rows \in [Indices -> Nat]
    BY <1>4 DEF HandleEvent, PInv, TypeOK
  <2>3. CASE UNCHANGED rows
    BY <2>1, <2>3, ReconciledKept
  <2>4. CASE Stored(poll.at) /\ poll' = IF events[poll.at].type = "RWA_CREATED"
                                        THEN [poll EXCEPT !.pc = "promote"]
                                        ELSE [poll EXCEPT !.at = @ + 1]
    <3>1. \A i \in DOMAIN events : i # poll.at => rows'[i] = rows[i]
      BY <2>2, <2>4, EventFacts DEF Stored, PInv
    <3>2. events[poll.at].type = "RWA_CREATED" => poll'.pc = "promote" /\ poll'.at = poll.at
      BY <2>4 DEF PInv, TypeOK
    <3> QED BY <2>1, <3>1, <3>2 DEF Reconciled
  <2> QED BY <1>4, <2>3, <2>4 DEF HandleEvent
<1>5. CASE Promote
  BY <1>5, PromoteReconciles
<1>6. CASE AdvanceCursor
  BY <1>6, ReconciledKept DEF AdvanceCursor
<1>7. CASE Abort
  BY <1>7, ReconciledKept DEF Abort
<1>8. CASE UNCHANGED vars
  BY <1>8, ReconciledKept DEF vars
<1> QED BY <1>1, <1>2, <1>3, <1>4, <1>5, <1>6, <1>7, <1>8 DEF Next, PollStep

\* Whatever the issue flow patches, and in whatever order with the loop, a
\* stored creation has promoted the record its issuer had filed, unless a
\* fault interrupted that very promotion.  A client that patches a status can
\* undo it.
THEOREM StoredIsPromoted ==
    NoStatusPatched => (Spec => []PromotedUnlessInterrupted)
<1>1. Init => Reconciled
  <2>1. Init => DOMAIN events = {}
    BY EmptySeq DEF Init
  <2> QED BY <2>1 DEF Reconciled
<1>2. PInv /\ Reconciled => PromotedUnlessInterrupted
  <2> SUFFICES ASSUME PInv, Reconciled PROVE PromotedUnlessInterrupted
    OBVIOUS
  <2> DEFINE done == [status |-> "ON_CHAIN", token |-> TRUE]
  <2>1. done # None /\ done.token /\ done.status = "ON_CHAIN"
    <3>1. done \in Record /\ done.token /\ done.status = "ON_CHAIN"
      BY DEF Record, Statuses
    <3> QED BY <3>1, NoneIsNoRecord
  <2>2. \A i \in DOMAIN events :
          /\ rows[i] > 0 /\ events[i].type = "RWA_CREATED" /\ events[i].filed
          /\ i \notin interrupted /\ ~(poll.pc = "promote" /\ poll.at = i)
          => record[events[i].rwa] = done
    BY DEF Reconciled
  <2> HIDE DEF done
  <2> QED BY <2>1, <2>2 DEF PromotedUnlessInterrupted
<1>3. SUFFICES ASSUME NoStatusPatched PROVE Spec => []PromotedUnlessInterrupted
  OBVIOUS
<1>4. PInv /\ Reconciled /\ [Next]_vars => Reconciled'
  BY <1>3, NextReconciled
<1> QED BY <1>1, <1>2, <1>4, PollerInvariant, PTL DEF Spec
=============================================================================
