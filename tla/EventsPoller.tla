----------------------------- MODULE EventsPoller -----------------------------
(***************************************************************************)
(* backend/src/events: the loop that copies the factory's events into the  *)
(* database and promotes collateral records, with the records themselves   *)
(* (backend/src/collateral) and the cursor (backend/src/rwa).              *)
(*                                                                         *)
(* events is the chain's log in ledger order; an event is its index.  Each *)
(* step of a poll is what happens up to the next await, and the process    *)
(* may crash, or the call throw, between any two of them.  RPC calls go    *)
(* to whichever endpoint the failover picked, which may lag the network.   *)
(***************************************************************************)
EXTENDS Integers, Sequences, FiniteSets

CONSTANTS
    Rwas,             \* rwa ids
    None,             \* a field a PATCH leaves out, a record that is not there
    Patches,          \* bound: the PATCH bodies clients send
    PageLimit,        \* EVENT_PAGE_LIMIT
    InitialLookback,  \* INITIAL_LOOKBACK
    Retention,        \* MAX_RETENTION_LOOKBACK
    MaxLedger,        \* bound: ledgers the network closes
    MaxEvents,        \* bound: events the factory emits
    MaxFaults         \* bound: crashes, failed calls and lagging answers

ASSUME PageLimitType == PageLimit \in Nat \ {0}
ASSUME WindowsType == InitialLookback \in Nat /\ Retention \in Nat
ASSUME BoundsType == MaxLedger \in Nat \ {0} /\ MaxEvents \in Nat /\ MaxFaults \in Nat

\* rwa_created, shares_bought for the other mapped names, and the events
\* EVENT_TYPE_MAP has no entry for.
EventTypes == {"RWA_CREATED", "SHARES_BOUGHT", "UNMAPPED"}
\* tx: the position of its transaction in the ledger, which stands for its hash;
\* filed: whether the issuer had a collateral record when it created the offering.
Event == [ledger : 1..MaxLedger, tx : 1..MaxEvents, type : EventTypes, rwa : Rwas,
          filed : BOOLEAN]

Statuses == {"DRAFT", "SUBMITTED", "VERIFIED", "ON_CHAIN"}
Record == [status : Statuses, token : BOOLEAN]
ASSUME PatchesType == Patches \subseteq [status : Statuses \cup {None}, token : BOOLEAN]
ASSUME NoneIsNoRecord == None \notin Record /\ None \notin Statuses

VARIABLES
    latest,       \* the last ledger the network closed
    events,       \* the factory's events
    record,       \* Collateral rows by rwaId
    rows,         \* TransactionEvent rows made of each event
    cursor,       \* EventListenerCursor.lastLedger, 0 when there is none
    poll,         \* the locals of pollOnce and where it is
    faults,       \* bound: faults so far
    cut,          \* history: ledgers of which a full page held only a part
    dropped,      \* history: ledgers skipped by the lookback or the retention
    interrupted   \* history: events whose promotion a fault interrupted

chainVars == <<latest, events>>
vars == <<chainVars, record, rows, cursor, poll, faults, cut, dropped, interrupted>>

Indices == 1..MaxEvents
Idle == [pc |-> "idle", start |-> 1, at |-> 1, upto |-> 0, node |-> 0]
Steps == {"idle", "fetch", "handle", "promote", "advance"}

TypeOK ==
    /\ latest \in 1..MaxLedger
    /\ events \in Seq(Event) /\ Len(events) <= MaxEvents
    /\ record \in [Rwas -> Record \cup {None}]
    /\ rows \in [Indices -> Nat]
    /\ cursor \in 0..latest
    /\ poll \in [pc : Steps, start : 1..MaxLedger, at : 1..MaxEvents + 1,
                 upto : 0..MaxEvents, node : 0..MaxLedger]
    /\ faults \in 0..MaxFaults
    /\ cut \subseteq 1..MaxLedger /\ dropped \subseteq 1..MaxLedger
    /\ interrupted \subseteq Indices

Init ==
    /\ latest = 1
    /\ events = <<>>
    /\ record = [r \in Rwas |-> None]
    /\ rows = [i \in Indices |-> 0]
    /\ cursor = 0
    /\ poll = Idle
    /\ faults = 0
    /\ cut = {} /\ dropped = {} /\ interrupted = {}

Fault == faults < MaxFaults /\ faults' = faults + 1
NoFault == UNCHANGED faults
-----------------------------------------------------------------------------
(* The chain and the clients. *)

Created(r) ==
    \E i \in DOMAIN events : events[i].type = "RWA_CREATED" /\ events[i].rwa = r

Emitted(tx, type, r) ==
    [ledger |-> latest + 1, tx |-> tx, type |-> type, rwa |-> r,
     filed |-> type = "RWA_CREATED" /\ record[r] # None]

Emissions(n) == {Emitted(tx, type, r) : tx \in 1..n, type \in EventTypes, r \in Rwas}

\* The transactions of n events: one after the other, and one that calls the
\* factory several times emits several.
Order(n) ==
    {tx \in [1..n -> 1..n] :
        \A i \in 1..n : tx[i] \in IF i = 1 THEN {1} ELSE {tx[i-1], tx[i-1] + 1}}

\* The factory creates an rwa id once.
CreatesOnce(type, rwa) ==
    \A i, j \in DOMAIN type :
        type[i] = "RWA_CREATED" =>
            /\ ~Created(rwa[i])
            /\ type[j] = "RWA_CREATED" /\ rwa[j] = rwa[i] => i = j

\* A ledger closes with some events in it.
CloseLedger ==
    /\ latest < MaxLedger
    /\ latest' = latest + 1
    /\ \E n \in 0..MaxEvents - Len(events) :
          \E type \in [1..n -> EventTypes], rwa \in [1..n -> Rwas], tx \in Order(n) :
              /\ CreatesOnce(type, rwa)
              /\ events' = events \o [i \in 1..n |-> Emitted(tx[i], type[i], rwa[i])]
    /\ UNCHANGED <<record, rows, cursor, poll, faults, cut, dropped, interrupted>>

\* CollateralService.create; a taken rwaId is a conflict.
CreateRecord(r, token) ==
    /\ record[r] = None
    /\ record' = [record EXCEPT ![r] = [status |-> "DRAFT", token |-> token]]
    /\ UNCHANGED <<chainVars, rows, cursor, poll, faults, cut, dropped, interrupted>>

\* CollateralService.update writes the fields the body has.
PatchRecord(r, patch) ==
    /\ record[r] # None
    /\ record' = [record EXCEPT ![r] =
          [status |-> IF patch.status = None THEN @.status ELSE patch.status,
           token |-> @.token \/ patch.token]]
    /\ UNCHANGED <<chainVars, rows, cursor, poll, faults, cut, dropped, interrupted>>
-----------------------------------------------------------------------------
(* The poll loop. *)

\* The ledger an endpoint answers with: the network's, or a fault's older one.
Endpoint(ledger) ==
    \/ ledger = latest /\ NoFault
    \/ ledger < latest /\ Fault

Largest(x, y) == IF x > y THEN x ELSE y

\* Mutant: windows that reach before the first ledger.
StartLedgerUnclamped(ledger) ==
    Largest(IF cursor # 0 THEN cursor + 1 ELSE ledger - InitialLookback,
            ledger - Retention)

\* Where a poll that saw ledger starts.
StartLedger(ledger) ==
    Largest(IF cursor # 0 THEN cursor + 1 ELSE Largest(1, ledger - InitialLookback),
            Largest(1, ledger - Retention))

BeginPoll(ledger) ==
    /\ poll.pc = "idle"
    /\ Endpoint(ledger)
    /\ StartLedger(ledger) <= ledger
    /\ poll' = [Idle EXCEPT !.pc = "fetch", !.start = StartLedger(ledger)]
    /\ dropped' = dropped \cup (cursor + 1 .. StartLedger(ledger) - 1)
    /\ UNCHANGED <<chainVars, record, rows, cursor, cut, interrupted>>

\* Events up to and including a ledger.
UpTo(ledger) == Cardinality({i \in DOMAIN events : events[i].ledger <= ledger})

\* getEvents: the first PageLimit events from the start ledger on.
Fetch(node) ==
    LET first == UpTo(poll.start - 1) + 1
        last  == IF UpTo(node) < first + PageLimit THEN UpTo(node)
                 ELSE first + PageLimit - 1
    IN  /\ poll.pc = "fetch"
        /\ node >= poll.start
        /\ Endpoint(node)
        /\ poll' = [poll EXCEPT !.pc = "handle", !.at = first, !.upto = last,
                                !.node = node]
        /\ cut' = IF last < UpTo(node) /\ events[last + 1].ledger = events[last].ledger
                  THEN cut \cup {events[last].ledger} ELSE cut
        /\ UNCHANGED <<chainVars, record, rows, cursor, dropped, interrupted>>

Mapped(i) == events[i].type # "UNMAPPED"

\* The key rows are found by: txHash, rwaId and eventType, which two calls that
\* one transaction makes can share.
SameKey(i, j) ==
    /\ events[i].ledger = events[j].ledger /\ events[i].tx = events[j].tx
    /\ events[i].type = events[j].type /\ events[i].rwa = events[j].rwa

\* eventExists
EventExists(i) == \E j \in DOMAIN events : SameKey(i, j) /\ rows[j] > 0

\* Mutant: an event is a second one of its key from its ledger on.
EventExistsInLedger(i) ==
    \E j \in DOMAIN events :
        /\ events[i].ledger = events[j].ledger /\ events[i].type = events[j].type
        /\ events[i].rwa = events[j].rwa /\ rows[j] > 0

\* Mutant: the row is written whether or not it exists.
StoredAgain(i) ==
    /\ Mapped(i)
    /\ rows' = [rows EXCEPT ![i] = @ + 1]

\* createEvent, unless the key has a row.
Stored(i) ==
    /\ Mapped(i) /\ ~EventExists(i)
    /\ rows' = [rows EXCEPT ![i] = 1]

HandleEvent ==
    /\ poll.pc = "handle" /\ poll.at <= poll.upto
    /\ \/ /\ Stored(poll.at)
          /\ poll' = IF events[poll.at].type = "RWA_CREATED"
                     THEN [poll EXCEPT !.pc = "promote"]
                     ELSE [poll EXCEPT !.at = @ + 1]
       \/ /\ ~Mapped(poll.at) \/ EventExists(poll.at)
          /\ poll' = [poll EXCEPT !.at = @ + 1]
          /\ UNCHANGED rows
    /\ UNCHANGED <<chainVars, record, cursor, faults, cut, dropped, interrupted>>

\* Mutant: a record the issue flow has put the token in counts as promoted.
PromotedUnlessTokened(r) ==
    IF record[r] = None \/ record[r].token THEN record
    ELSE [record EXCEPT ![r] = [status |-> "ON_CHAIN", token |-> TRUE]]

\* markCollateralOnChain; a record that is ON_CHAIN already is left as the
\* update would leave it, and an error is logged and swallowed.
Promoted(r) ==
    IF record[r] = None THEN record
    ELSE [record EXCEPT ![r] = [status |-> "ON_CHAIN", token |-> TRUE]]

Promote ==
    /\ poll.pc = "promote"
    /\ poll' = [poll EXCEPT !.pc = "handle", !.at = @ + 1]
    /\ \/ record' = Promoted(events[poll.at].rwa) /\ NoFault /\ UNCHANGED interrupted
       \/ UNCHANGED record /\ Fault /\ interrupted' = interrupted \cup {poll.at}
    /\ UNCHANGED <<chainVars, rows, cursor, cut, dropped>>

\* How many events a page held is not kept: it was full when it holds
\* PageLimit events.
Drained == poll.upto < UpTo(poll.start - 1) + PageLimit
MaxLedgerSeen ==
    IF poll.upto = UpTo(poll.start - 1) THEN poll.start - 1 ELSE events[poll.upto].ledger

\* Mutants: the network's ledger instead of the one the answering endpoint had
\* seen; a full page taken for the last one.
NextLedgerOfNetwork ==
    IF Drained THEN latest ELSE Largest(MaxLedgerSeen, poll.start)
NextLedgerStays == IF Drained THEN poll.node ELSE poll.start - 1

NextLedger == IF Drained THEN poll.node ELSE Largest(MaxLedgerSeen, poll.start)

AdvanceCursor ==
    /\ poll.pc = "handle" /\ poll.at > poll.upto
    /\ cursor' = Largest(NextLedger, cursor)
    /\ poll' = Idle
    /\ UNCHANGED <<chainVars, record, rows, faults, cut, dropped, interrupted>>

\* A crash, or an exception pollLoop catches.
Abort ==
    /\ poll.pc # "idle"
    /\ Fault
    /\ poll' = Idle
    /\ interrupted' = IF poll.pc = "promote" THEN interrupted \cup {poll.at}
                      ELSE interrupted
    /\ UNCHANGED <<chainVars, record, rows, cursor, cut, dropped>>
-----------------------------------------------------------------------------
PollStep ==
    \/ BeginPoll(latest)
    \/ Fetch(latest)
    \/ HandleEvent
    \/ Promote
    \/ AdvanceCursor

Next ==
    \/ CloseLedger
    \/ \E r \in Rwas, token \in BOOLEAN : CreateRecord(r, token)
    \/ \E r \in Rwas, patch \in Patches : PatchRecord(r, patch)
    \/ PollStep
    \/ \E ledger \in 1..latest - 1 : BeginPoll(ledger) \/ Fetch(ledger)
    \/ Abort

Spec == Init /\ [][Next]_vars

\* pollLoop polls for as long as the process runs, and every call it waits for
\* answers or throws; faults are finite, so they stop.
FairSpec == Spec /\ WF_vars(PollStep)
-----------------------------------------------------------------------------
(* Properties *)

\* An event whose key an earlier one has already.
Shadowed(i) == \E j \in DOMAIN events : j < i /\ SameKey(i, j)

\* An event the poller may miss: it fell outside the window, it shares a
\* ledger with the end of a full page, or its transaction had another event of
\* its type for the same offering.
Excused(i) == events[i].ledger \in cut \cup dropped \/ Shadowed(i)

\* Between polls, every mapped event the cursor has passed is in the database,
\* unless it is excused: crashes, failed calls and endpoints that lag never
\* make the poller skip an event.
CursorCoversRows ==
    \A i \in DOMAIN events :
        Mapped(i) /\ events[i].ledger <= cursor /\ ~Excused(i) => rows[i] > 0

\* An event that is fetched again after a crash or a failed call, when the
\* cursor was not yet written, makes no second row.
NeverStoredTwice == \A i \in Indices : rows[i] <= 1

\* A stored creation has promoted the record the issuer had filed, whatever the
\* issue flow patched meanwhile, unless a fault interrupted that promotion.
PromotedUnlessInterrupted ==
    \A i \in DOMAIN events :
        /\ rows[i] > 0 /\ events[i].type = "RWA_CREATED" /\ events[i].filed
        /\ i \notin interrupted /\ ~(poll.pc = "promote" /\ poll.at = i)
        => record[events[i].rwa] # None /\ record[events[i].rwa].token
             /\ record[events[i].rwa].status = "ON_CHAIN"

\* Every mapped event is stored in the end, or excused: a full page, a lagging
\* answer or a crash in any place never stalls the loop for good.  The bounds end
\* the log, so one time comes at which this is true of all its events, and stays.
EveryEventLands ==
    <>[](\A i \in DOMAIN events : Mapped(i) => rows[i] > 0 \/ Excused(i))

\* schema.prisma:216 "Cursor for the event listener ... so the polling loop can
\* resume after restart without missing events": every mapped event of a
\* ledger between the first one scanned and the cursor is stored.  A full page
\* that ends inside a ledger moves the cursor to that ledger, and the next
\* poll starts at the one after it.  (Windows that were dropped and events that
\* share a key are left aside.)
ResumesWithoutMissing ==
    \A i \in DOMAIN events :
        /\ Mapped(i) /\ events[i].ledger <= cursor
        /\ events[i].ledger \notin dropped /\ ~Shadowed(i)
        => rows[i] > 0

\* use-issue-collateral.ts:288 "the events poller will still reconcile the
\* record via the rwa_created event": between polls, a creation the poller is
\* done with has promoted the record.  The row is written first, and a row
\* that exists is skipped, so a fault in between leaves the record behind.
RecordsReconciled ==
    \A i \in DOMAIN events :
        /\ poll.pc = "idle" /\ rows[i] > 0
        /\ events[i].type = "RWA_CREATED" /\ events[i].filed
        => record[events[i].rwa] # None /\ record[events[i].rwa].status = "ON_CHAIN"
=============================================================================
