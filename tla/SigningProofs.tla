----------------------------- MODULE SigningProofs -----------------------------
(***************************************************************************)
(* Signing and submitting, for any number of flows, endpoints and faults:  *)
(* what a flow reports is what the ledger made of its transaction, and a   *)
(* flow with the account to itself fails only by a fault or on the ledger. *)
(***************************************************************************)
EXTENDS Signing, SequenceTheorems, TLAPS

Session == [flow : Flows, status : {"initiated", "completed"}]
FlowRecord(n) == [pc : Steps, kind : Kinds, seq : Nat, session : 0..n,
                  signedIn : DfnsFields \union {""}, attempts : 0..Attempts,
                  resent : BOOLEAN, status : Statuses]

UnderWay(pc) == pc \notin {"idle", "done", "failed"}

\* The network can know nothing of the transaction of a flow that is here.
Unsent(m) ==
    \/ m.pc \in {"idle", "init", "passkey", "complete", "broadcast"}
    \/ m.pc = "mark" /\ m.kind = "action"
    \/ m.pc = "send" /\ ~m.resent

\* What holds of a flow m whose transaction is f, with the queue q, the
\* transaction's result on the ledger and the account's sequence number.
Consistent(f, m, q, result, seq) ==
    /\ m.seq <= seq + 1
    /\ f \in q => m.seq = seq + 1
    /\ result # "no" => f \notin q /\ m.seq <= seq
    /\ Unsent(m) => f \notin q /\ result = "no"
    /\ m.pc \in {"send", "poll"} => m.kind = "action"
    /\ m.pc = "broadcast" => m.kind = "transfer"
    /\ m.pc # "failed" => m.attempts < Attempts /\ m.status # "FAILED"
    /\ m.pc = "done" /\ m.kind = "action" => result = "SUCCESS"
    /\ m.status = "FAILED" /\ ~m.resent
         => result # "SUCCESS" /\ f \notin q /\ m.seq <= seq

FlowsConsistent ==
    \A f \in Flows : Consistent(f, flow[f], queue, applied[f], sequence)

\* The ledger holds one transaction of an account in its queue.
OneQueued == \A f, g \in queue : f = g

\* A flow that is alone has the queue, the next sequence number and the latest
\* session.
AloneHasTheAccount ==
    \A f \in Flows : alone[f] /\ UnderWay(flow[f].pc) =>
        /\ \A g \in Flows \ {f} : ~UnderWay(flow[g].pc)
        /\ queue \subseteq {f}
        /\ applied[f] = "no" => flow[f].seq = sequence + 1
        /\ flow[f].pc \in {"passkey", "complete"} =>
              /\ flow[f].session = Len(sessions) /\ flow[f].session > 0
              /\ sessions[flow[f].session].status = "initiated"
        /\ faults = 0 /\ flow[f].pc = "poll" => f \in queue \/ applied[f] # "no"

NoResend == faults = 0 => \A f \in Flows : ~flow[f].resent

SInv ==
    /\ TypeOK /\ OneQueued /\ FlowsConsistent
    /\ AloneHasTheAccount /\ NoResend /\ AloneSucceeds
-----------------------------------------------------------------------------
(* Steps of one flow. *)

\* The constants' types.
LEMMA Bounds == Attempts \in Nat /\ Attempts >= 4 /\ MaxFaults \in Nat /\ Endpoints \in Nat
BY EndpointsConfigured DEF Attempts

\* The flows' records.
LEMMA FlowTypes ==
    ASSUME TypeOK
    PROVE  /\ Len(sessions) \in Nat /\ sessions \in Seq(Session)
           /\ flow \in [Flows -> FlowRecord(Len(sessions))]
           /\ sequence \in Nat /\ queue \subseteq Flows
           /\ applied \in [Flows -> {"no", "SUCCESS", "FAILED"}]
           /\ alone \in [Flows -> BOOLEAN]
           /\ faults \in 0..MaxFaults /\ faults \in Nat
<1>1. sessions \in Seq(Session) /\ Len(sessions) \in Nat
  BY LenProperties DEF TypeOK, Session
<1>2. faults \in 0..MaxFaults
  BY DEF TypeOK
<1>3. faults \in Nat
  BY <1>2, Bounds
<1> QED BY <1>1, <1>2, <1>3 DEF TypeOK, FlowRecord

\* A flow's record stays one when sessions are added.
LEMMA RecordsWiden ==
    ASSUME NEW n \in Nat, NEW k \in Nat, n <= k
    PROVE  FlowRecord(n) \subseteq FlowRecord(k)
<1>1. 0..n \subseteq 0..k
  OBVIOUS
<1> DEFINE few == 0..n
           more == 0..k
<1> HIDE DEF few, more
<1>2. few \subseteq more
  BY <1>1 DEF few, more
<1>3. ASSUME NEW x \in [pc : Steps, kind : Kinds, seq : Nat, session : few,
                       signedIn : DfnsFields \union {""}, attempts : 0..Attempts,
                       resent : BOOLEAN, status : Statuses]
      PROVE  x \in [pc : Steps, kind : Kinds, seq : Nat, session : more,
                    signedIn : DfnsFields \union {""}, attempts : 0..Attempts,
                    resent : BOOLEAN, status : Statuses]
  BY <1>2
<1> QED BY <1>3 DEF FlowRecord, few, more

\* A step that moves one flow, and leaves the ledger alone but for queueing
\* that flow's transaction, keeps the invariant if it keeps that flow's part.
LEMMA FlowMoves ==
    ASSUME SInv, NEW f \in Flows, UnderWay(flow[f].pc),
           NEW m, m \in FlowRecord(Len(sessions')), flow' = [flow EXCEPT ![f] = m],
           m.seq = flow[f].seq,
           sessions' \in Seq(Session), Len(sessions) <= Len(sessions'),
           queue' = queue \/ (queue = {} /\ queue' = {f}),
           UNCHANGED <<sequence, applied, alone>>, activeRpc' \in Endpoint,
           faults' \in 0..MaxFaults, faults' >= faults,
           Consistent(f, m, queue', applied[f], sequence),
           faults' = 0 => ~m.resent,
           alone[f] =>
              /\ m.pc \in {"passkey", "complete"} =>
                    /\ m.session = Len(sessions') /\ m.session > 0
                    /\ sessions'[m.session].status = "initiated"
              /\ faults' = 0 /\ m.pc = "poll" => f \in queue' \/ applied[f] # "no"
              /\ faults' = 0 /\ m.pc = "failed" => applied[f] = "FAILED"
    PROVE  SInv'
<1> USE DEF SInv
<1>1. /\ Len(sessions) \in Nat /\ sessions \in Seq(Session) /\ Len(sessions') \in Nat
      /\ flow \in [Flows -> FlowRecord(Len(sessions))]
      /\ sequence \in Nat /\ queue \subseteq Flows /\ faults \in Nat
  <2>1. Len(sessions') \in Nat
    BY LenProperties
  <2> QED BY <2>1, FlowTypes
<1>2. flow'[f] = m /\ \A g \in Flows \ {f} : flow'[g] = flow[g]
  BY <1>1
<1>3. TypeOK'
  <2>1. FlowRecord(Len(sessions)) \subseteq FlowRecord(Len(sessions'))
    BY <1>1, RecordsWiden
  <2>2. flow' \in [Flows -> FlowRecord(Len(sessions'))]
    BY <1>1, <2>1
  <2>3. queue' \subseteq Flows
    BY <1>1
  <2> QED BY <2>2, <2>3 DEF TypeOK, FlowRecord, Session
<1>4. OneQueued'
  BY DEF OneQueued
<1>5. FlowsConsistent'
  <2> SUFFICES ASSUME NEW g \in Flows
               PROVE  Consistent(g, flow'[g], queue', applied[g], sequence)
    BY DEF FlowsConsistent, Consistent, Unsent
  <2>1. CASE g = f
    BY <1>2, <2>1
  <2>2. CASE g # f
    <3>1. Consistent(g, flow[g], queue, applied[g], sequence)
      BY DEF FlowsConsistent
    <3>2. flow'[g] = flow[g] /\ (g \in queue' => g \in queue)
      BY <1>2, <2>2
    <3> QED BY <3>1, <3>2 DEF Consistent
  <2> QED BY <2>1, <2>2
<1>6. AloneHasTheAccount'
  <2> SUFFICES ASSUME NEW g \in Flows, alone[g], UnderWay(flow'[g].pc)
               PROVE  /\ \A h \in Flows \ {g} : ~UnderWay(flow'[h].pc)
                      /\ queue' \subseteq {g}
                      /\ applied[g] = "no" => flow'[g].seq = sequence + 1
                      /\ flow'[g].pc \in {"passkey", "complete"} =>
                            /\ flow'[g].session = Len(sessions') /\ flow'[g].session > 0
                            /\ sessions'[flow'[g].session].status = "initiated"
                      /\ faults' = 0 /\ flow'[g].pc = "poll"
                           => g \in queue' \/ applied[g] # "no"
    BY DEF AloneHasTheAccount, UnderWay
  <2>1. CASE g = f
    <3>1. /\ \A h \in Flows \ {f} : ~UnderWay(flow[h].pc)
          /\ queue \subseteq {f}
          /\ applied[f] = "no" => flow[f].seq = sequence + 1
      BY <2>1 DEF AloneHasTheAccount
    <3> QED BY <1>2, <2>1, <3>1
  <2>2. CASE g # f
    <3>1. UnderWay(flow[g].pc)
      BY <1>2, <2>2
    <3>2. ~UnderWay(flow[f].pc)
      BY <2>2, <3>1 DEF AloneHasTheAccount
    <3> QED BY <3>2
  <2> QED BY <2>1, <2>2
<1>7. NoResend'
  <2> SUFFICES ASSUME faults' = 0, NEW g \in Flows PROVE ~flow'[g].resent
    BY DEF NoResend
  <2>1. faults = 0
    BY <1>1
  <2> QED BY <1>2, <2>1 DEF NoResend
<1>8. AloneSucceeds'
  <2> SUFFICES ASSUME NEW g \in Flows, flow'[g].pc = "failed", alone[g], faults' = 0
               PROVE  applied[g] = "FAILED"
    BY DEF AloneSucceeds, At
  <2>1. faults = 0
    BY <1>1
  <2> QED BY <1>2, <2>1 DEF AloneSucceeds, At
<1> QED BY <1>3, <1>4, <1>5, <1>6, <1>7, <1>8

\* What is known of a flow and its transaction.
LEMMA FlowFacts ==
    ASSUME SInv, NEW f \in Flows
    PROVE  /\ flow[f] \in FlowRecord(Len(sessions)) /\ Len(sessions) \in Nat
           /\ Consistent(f, flow[f], queue, applied[f], sequence)
           /\ flow[f].pc \in Steps /\ flow[f].kind \in Kinds /\ flow[f].seq \in Nat
           /\ flow[f].attempts \in 0..Attempts /\ flow[f].status \in Statuses
           /\ flow[f].session \in 0..Len(sessions) /\ flow[f].resent \in BOOLEAN
           /\ sequence \in Nat /\ queue \subseteq Flows /\ faults \in 0..MaxFaults
           /\ faults \in Nat
           /\ applied[f] \in {"no", "SUCCESS", "FAILED"}
<1>1. /\ flow[f] \in FlowRecord(Len(sessions)) /\ Len(sessions) \in Nat
      /\ sequence \in Nat /\ queue \subseteq Flows /\ faults \in 0..MaxFaults
      /\ faults \in Nat
      /\ applied[f] \in {"no", "SUCCESS", "FAILED"}
  BY FlowTypes DEF SInv
<1>2. Consistent(f, flow[f], queue, applied[f], sequence)
  BY DEF SInv, FlowsConsistent
<1>3. /\ flow[f].pc \in Steps /\ flow[f].kind \in Kinds /\ flow[f].seq \in Nat
      /\ flow[f].attempts \in 0..Attempts /\ flow[f].status \in Statuses
      /\ flow[f].session \in 0..Len(sessions) /\ flow[f].resent \in BOOLEAN
  BY <1>1 DEF FlowRecord
<1> QED BY <1>1, <1>2, <1>3

\* What a submission is answered.
LEMMA SendAnswers ==
    ASSUME SInv, NEW f \in Flows
    PROVE  /\ SendStatus(f) = "PENDING"
                => queue = {} /\ f \notin queue /\ flow[f].seq = sequence + 1
           /\ SendStatus(f) = "ERROR" => f \notin queue /\ flow[f].seq <= sequence
           /\ queue \subseteq {f} /\ flow[f].seq = sequence + 1
                => SendStatus(f) \in {"PENDING", "DUPLICATE"}
           /\ SendStatus(f) = "DUPLICATE" => f \in queue
<1>1. flow[f].seq \in Nat /\ sequence \in Nat /\ flow[f].seq <= sequence + 1
  BY FlowFacts DEF Consistent
<1> QED BY <1>1 DEF SendStatus
-----------------------------------------------------------------------------
(* Signing, step by step. *)

\* A session that is opened is the latest.
LEMMA signInitKeeps ==
    ASSUME SInv, NEW f \in Flows, signInit(f)
    PROVE  SInv'
<1> DEFINE o == flow[f]
           n == Len(sessions)
           new == [flow |-> f, status |-> "initiated"]
           m == [o EXCEPT !.pc = "passkey", !.session = n + 1]
<1>1. /\ o.pc = "init" /\ flow' = [flow EXCEPT ![f] = m]
      /\ sessions' = Append(sessions, new)
      /\ UNCHANGED <<ledgerVars, activeRpc, faults, alone>>
  BY DEF signInit, At, createSignSession
<1>2. /\ o \in FlowRecord(n) /\ n \in Nat /\ Consistent(f, o, queue, applied[f], sequence)
      /\ faults \in 0..MaxFaults /\ faults \in Nat
  BY FlowFacts
<1>3. sessions \in Seq(Session) /\ new \in Session
  BY FlowTypes DEF SInv, Session
<1>4. /\ sessions' \in Seq(Session) /\ Len(sessions') = n + 1
      /\ sessions'[n + 1] = new
  <2> HIDE DEF new
  <2> QED BY <1>1, <1>3, AppendProperties
<1>5. /\ m \in FlowRecord(n + 1) /\ m.pc = "passkey" /\ m.status = o.status
      /\ m.kind = o.kind /\ m.seq = o.seq /\ m.session = n + 1
      /\ m.attempts = o.attempts /\ m.resent = o.resent
  <2>1. o \in FlowRecord(n + 1) /\ "passkey" \in Steps /\ n + 1 \in 0..n + 1 /\ n + 1 \in Nat
    BY <1>2, RecordsWiden DEF Steps
  <2>2. m = [o EXCEPT !.pc = "passkey", !.session = n + 1]
    OBVIOUS
  <2> HIDE DEF m, o, n
  <2> QED BY <2>1, <2>2 DEF FlowRecord
<1> HIDE DEF m
<1>6. Consistent(f, m, queue', applied[f], sequence)
  BY <1>1, <1>2, <1>5 DEF Consistent, Unsent, ledgerVars
<1>7. faults' = 0 => ~m.resent
  BY <1>1, <1>5 DEF SInv, NoResend
<1>8. UnderWay(flow[f].pc) /\ activeRpc' \in Endpoint
  BY <1>1 DEF UnderWay, SInv, TypeOK
<1>9. sessions'[m.session].status = "initiated"
  BY <1>4, <1>5
<1>10. alone[f] =>
          /\ m.pc \in {"passkey", "complete"} =>
                /\ m.session = Len(sessions') /\ m.session > 0
                /\ sessions'[m.session].status = "initiated"
          /\ faults' = 0 /\ m.pc = "poll" => f \in queue' \/ applied[f] # "no"
          /\ faults' = 0 /\ m.pc = "failed" => applied[f] = "FAILED"
  BY <1>2, <1>4, <1>5, <1>9
<1>11. /\ UNCHANGED <<sequence, applied, alone>> /\ queue' = queue
       /\ faults' \in 0..MaxFaults /\ faults' >= faults
       /\ m \in FlowRecord(Len(sessions')) /\ Len(sessions) <= Len(sessions')
       /\ m.seq = flow[f].seq /\ flow' = [flow EXCEPT ![f] = m]
  BY <1>1, <1>2, <1>4, <1>5 DEF ledgerVars
<1> QED BY <1>4, <1>6, <1>7, <1>8, <1>10, <1>11, FlowMoves

\* A step of a flow that changes nothing but where it is, what it reports and
\* what DFNS answered.
StepsTo(f, pc, status) ==
    \/ End(f, pc, status)
    \/ Goto(f, pc) /\ status = flow[f].status
    \/ /\ status = flow[f].status
       /\ \E field \in DfnsFields :
             flow' = [flow EXCEPT ![f].pc = pc, ![f].signedIn = field]

StaysConsistent(f, pc, status) ==
    \A m : /\ m.pc = pc /\ m.status = status /\ m.kind = flow[f].kind
           /\ m.seq = flow[f].seq /\ m.attempts = flow[f].attempts
           /\ m.resent = flow[f].resent
           => Consistent(f, m, queue', applied[f], sequence)

AloneKeepsTheAccount(f, pc) ==
    alone[f] =>
        /\ pc \in {"passkey", "complete"} =>
              flow[f].pc \in {"passkey", "complete"} /\ sessions' = sessions
        /\ faults' = 0 /\ pc = "poll" => f \in queue' \/ applied[f] # "no"
        /\ faults' = 0 /\ pc = "failed" => applied[f] = "FAILED"

\* What a flow's step leaves alone, but for queueing its transaction, marking
\* a session and counting a fault.
RestStays(f) ==
    /\ sessions' \in Seq(Session) /\ Len(sessions') = Len(sessions)
    /\ queue' = queue \/ (queue = {} /\ queue' = {f})
    /\ UNCHANGED <<sequence, applied, activeRpc, alone>>
    /\ faults' \in 0..MaxFaults /\ faults' >= faults

\* Such a step keeps the invariant.
LEMMA EndMoves ==
    ASSUME SInv, NEW f \in Flows, NEW pc \in Steps, NEW status \in Statuses,
           UnderWay(flow[f].pc), StepsTo(f, pc, status), StaysConsistent(f, pc, status),
           AloneKeepsTheAccount(f, pc), RestStays(f)
    PROVE  SInv'
<1>1. /\ flow[f] \in FlowRecord(Len(sessions)) /\ Len(sessions) \in Nat
      /\ faults \in 0..MaxFaults /\ faults \in Nat
  BY FlowFacts
<1>2. PICK m \in FlowRecord(Len(sessions)) :
        /\ flow' = [flow EXCEPT ![f] = m]
        /\ m.pc = pc /\ m.status = status /\ m.kind = flow[f].kind
        /\ m.seq = flow[f].seq /\ m.session = flow[f].session
        /\ m.attempts = flow[f].attempts /\ m.resent = flow[f].resent
  <2> DEFINE k == Len(sessions)
             o == flow[f]
  <2>1. o \in FlowRecord(k) /\ k \in Nat
    BY <1>1
  <2>2. CASE End(f, pc, status)
    <3> DEFINE m == [o EXCEPT !.pc = pc, !.status = status]
    <3>1. flow' = [flow EXCEPT ![f] = m]
      BY <2>2 DEF End
    <3>2. /\ m \in FlowRecord(k) /\ m.pc = pc /\ m.status = status /\ m.kind = o.kind
          /\ m.seq = o.seq /\ m.session = o.session
          /\ m.attempts = o.attempts /\ m.resent = o.resent
      <4>1. m = [o EXCEPT !.pc = pc, !.status = status]
        OBVIOUS
      <4> HIDE DEF m, o, k
      <4> QED BY <2>1, <4>1 DEF FlowRecord
    <3> HIDE DEF m
    <3> QED BY <3>1, <3>2
  <2>3. CASE Goto(f, pc) /\ status = flow[f].status
    <3> DEFINE m == [o EXCEPT !.pc = pc]
    <3>1. flow' = [flow EXCEPT ![f] = m]
      BY <2>3 DEF Goto
    <3>2. /\ m \in FlowRecord(k) /\ m.pc = pc /\ m.status = o.status /\ m.kind = o.kind
          /\ m.seq = o.seq /\ m.session = o.session
          /\ m.attempts = o.attempts /\ m.resent = o.resent
      <4>1. m = [o EXCEPT !.pc = pc]
        OBVIOUS
      <4> HIDE DEF m, o, k
      <4> QED BY <2>1, <4>1 DEF FlowRecord
    <3> HIDE DEF m
    <3> QED BY <2>3, <3>1, <3>2
  <2>4. ASSUME NEW field \in DfnsFields, status = flow[f].status,
               flow' = [flow EXCEPT ![f].pc = pc, ![f].signedIn = field]
        PROVE  \E m \in FlowRecord(k) :
                  /\ flow' = [flow EXCEPT ![f] = m]
                  /\ m.pc = pc /\ m.status = status /\ m.kind = flow[f].kind
                  /\ m.seq = flow[f].seq /\ m.session = flow[f].session
                  /\ m.attempts = flow[f].attempts /\ m.resent = flow[f].resent
    <3> DEFINE m == [o EXCEPT !.pc = pc, !.signedIn = field]
    <3>1. flow' = [flow EXCEPT ![f] = m]
      BY <2>4
    <3>2. /\ m \in FlowRecord(k) /\ m.pc = pc /\ m.status = o.status /\ m.kind = o.kind
          /\ m.seq = o.seq /\ m.session = o.session
          /\ m.attempts = o.attempts /\ m.resent = o.resent
      <4>1. m = [o EXCEPT !.pc = pc, !.signedIn = field]
        OBVIOUS
      <4> HIDE DEF m, o, k
      <4> QED BY <2>1, <4>1 DEF FlowRecord
    <3> HIDE DEF m
    <3> QED BY <2>4, <3>1, <3>2
  <2> QED BY <2>2, <2>3, <2>4 DEF StepsTo
<1>3. Consistent(f, m, queue', applied[f], sequence)
  BY <1>2 DEF StaysConsistent
<1>4. faults' = 0 => ~m.resent
  BY <1>1, <1>2 DEF SInv, NoResend, RestStays
<1>5. alone[f] /\ pc \in {"passkey", "complete"} =>
        /\ m.session = Len(sessions') /\ m.session > 0
        /\ sessions'[m.session].status = "initiated"
  BY <1>2 DEF SInv, AloneHasTheAccount, AloneKeepsTheAccount, RestStays
<1>6. activeRpc' \in Endpoint
  BY DEF SInv, TypeOK, RestStays
<1>7. m \in FlowRecord(Len(sessions')) /\ Len(sessions) <= Len(sessions')
  BY <1>1 DEF RestStays
<1>8. alone[f] =>
         /\ m.pc \in {"passkey", "complete"} =>
               /\ m.session = Len(sessions') /\ m.session > 0
               /\ sessions'[m.session].status = "initiated"
         /\ faults' = 0 /\ m.pc = "poll" => f \in queue' \/ applied[f] # "no"
         /\ faults' = 0 /\ m.pc = "failed" => applied[f] = "FAILED"
  BY <1>2, <1>5 DEF AloneKeepsTheAccount
<1>9. /\ UNCHANGED <<sequence, applied, alone>>
      /\ sessions' \in Seq(Session)
      /\ queue' = queue \/ (queue = {} /\ queue' = {f})
      /\ faults' \in 0..MaxFaults /\ faults' >= faults
  BY DEF RestStays
<1> QED BY <1>2, <1>3, <1>4, <1>6, <1>7, <1>8, <1>9, FlowMoves

\* A fault is counted.
LEMMA FaultCounts ==
    ASSUME SInv, Fault
    PROVE  faults' \in 0..MaxFaults /\ faults' # 0 /\ faults' >= faults
<1>1. faults \in Nat /\ MaxFaults \in Nat
  BY FlowTypes, Bounds DEF SInv
<1> QED BY <1>1 DEF Fault

\* A step that touches nothing but the flow, or counts a fault besides.
LEMMA RestUnchanged ==
    ASSUME SInv, NEW f \in Flows, queue' = queue \/ (queue = {} /\ queue' = {f}),
           UNCHANGED <<sequence, applied, sessions, activeRpc, alone>>,
           UNCHANGED faults \/ Fault
    PROVE  RestStays(f)
<1>1. sessions \in Seq(Session) /\ faults \in 0..MaxFaults /\ faults \in Nat
  BY FlowTypes DEF SInv
<1>2. faults' \in 0..MaxFaults /\ faults' >= faults
  BY <1>1, FaultCounts
<1> QED BY <1>1, <1>2 DEF RestStays

\* The passkey is answered or dismissed, the latter a fault.
LEMMA PasskeyKeeps ==
    ASSUME SInv, NEW f \in Flows, Passkey(f)
    PROVE  SInv'
<1>1. /\ flow[f].pc = "passkey"
      /\ UNCHANGED <<sequence, queue, applied, sessions, activeRpc, alone>>
  BY DEF Passkey, At, ledgerVars
<1>2. Consistent(f, flow[f], queue, applied[f], sequence)
  BY FlowFacts
<1>3. UnderWay(flow[f].pc) /\ {"complete", "failed"} \subseteq Steps /\ "" \in Statuses
      /\ flow[f].status \in Statuses
  BY <1>1, FlowFacts DEF UnderWay, Steps, Statuses
<1>4. /\ StaysConsistent(f, "complete", flow[f].status)
      /\ StaysConsistent(f, "failed", "")
  BY <1>1, <1>2 DEF StaysConsistent, Consistent, Unsent
<1>5. CASE Goto(f, "complete") /\ UNCHANGED faults
  <2>1. RestStays(f)
    BY <1>1, <1>5, RestUnchanged
  <2>2. AloneKeepsTheAccount(f, "complete")
    BY <1>1 DEF AloneKeepsTheAccount
  <2>3. StepsTo(f, "complete", flow[f].status)
    BY <1>5 DEF StepsTo
  <2> QED BY <1>3, <1>4, <2>1, <2>2, <2>3, EndMoves
<1>6. CASE Fault /\ End(f, "failed", "")
  <2>1. RestStays(f)
    BY <1>1, <1>6, RestUnchanged
  <2>2. AloneKeepsTheAccount(f, "failed")
    BY <1>6, FaultCounts DEF AloneKeepsTheAccount
  <2>3. StepsTo(f, "failed", "")
    BY <1>6 DEF StepsTo
  <2> QED BY <1>3, <1>4, <2>1, <2>2, <2>3, EndMoves
<1> QED BY <1>5, <1>6 DEF Passkey

\* The latest session a flow finds is its own if it is alone.
LEMMA OwnSession ==
    ASSUME SInv, NEW f \in Flows, flow[f].pc = "complete", alone[f]
    PROVE  getActiveSignSession = flow[f].session
<1> DEFINE open == {i \in DOMAIN sessions : sessions[i].status = "initiated"}
           n == Len(sessions)
<1>1. n \in Nat /\ DOMAIN sessions = 1..n
  BY FlowTypes, LenProperties DEF SInv
<1>2. flow[f].session = n /\ n > 0 /\ sessions[n].status = "initiated"
  BY DEF SInv, AloneHasTheAccount, UnderWay
<1>3. n \in open /\ \A j \in open : j \in 1..n
  BY <1>1, <1>2
<1>4. getActiveSignSession = CHOOSE i \in open \union {0} : \A j \in open : j <= i
  BY DEF getActiveSignSession
<1> HIDE DEF open, n
<1>5. \A i \in open \union {0} : (\A j \in open : j <= i) <=> i = n
  <2> SUFFICES ASSUME NEW i \in open \union {0} PROVE (\A j \in open : j <= i) <=> i = n
    OBVIOUS
  <2>1. i \in 0..n
    BY <1>1, <1>3
  <2>2. \A j \in open : j <= n
    BY <1>1, <1>3
  <2> QED BY <1>1, <1>3, <2>1, <2>2
<1> QED BY <1>2, <1>3, <1>4, <1>5

\* DFNS signs, or refuses a session that is not this flow's.
LEMMA SignKeeps ==
    ASSUME SInv, NEW f \in Flows, NEW next \in Steps, Sign(f, next),
           \/ flow[f].kind = "action" /\ next = "mark"
           \/ flow[f].kind = "transfer" /\ next = "broadcast",
           UNCHANGED <<sequence, queue, applied, sessions, activeRpc, faults, alone>>
    PROVE  SInv'
<1>1. flow[f].pc = "complete"
  BY DEF Sign, At
<1>2. Consistent(f, flow[f], queue, applied[f], sequence)
  BY FlowFacts
<1>3. UnderWay(flow[f].pc) /\ "failed" \in Steps /\ "" \in Statuses
      /\ flow[f].status \in Statuses
  BY <1>1, FlowFacts DEF UnderWay, Steps, Statuses
<1>4. StaysConsistent(f, next, flow[f].status) /\ StaysConsistent(f, "failed", "")
  BY <1>1, <1>2 DEF StaysConsistent, Consistent, Unsent
<1>5. RestStays(f)
  BY RestUnchanged
<1>6. CASE getActiveSignSession = flow[f].session
  <2>1. \E field \in DfnsFields :
          flow' = [flow EXCEPT ![f].pc = next, ![f].signedIn = field]
    BY <1>6 DEF Sign
  <2>2. StepsTo(f, next, flow[f].status)
    BY <2>1 DEF StepsTo
  <2>3. AloneKeepsTheAccount(f, next)
    BY DEF AloneKeepsTheAccount
  <2> QED BY <1>3, <1>4, <1>5, <2>2, <2>3, EndMoves
<1>7. CASE getActiveSignSession # flow[f].session
  <2>1. ~alone[f]
    BY <1>1, <1>7, OwnSession
  <2>2. StepsTo(f, "failed", "")
    BY <1>7 DEF Sign, StepsTo
  <2>3. AloneKeepsTheAccount(f, "failed")
    BY <2>1 DEF AloneKeepsTheAccount
  <2> QED BY <1>3, <1>4, <1>5, <2>2, <2>3, EndMoves
<1> QED BY <1>6, <1>7

\* Both kinds of flow sign alike.
LEMMA CompleteKeeps ==
    ASSUME SInv, NEW f \in Flows, signComplete(f) \/ transferComplete(f)
    PROVE  SInv'
<1>1. "mark" \in Steps /\ "broadcast" \in Steps
  BY DEF Steps
<1> QED BY <1>1, SignKeeps DEF signComplete, transferComplete, ledgerVars

\* An alone flow's transaction is taken when it was not sent before.
LEMMA AloneIsTaken ==
    ASSUME SInv, NEW f \in Flows, alone[f], UnderWay(flow[f].pc), applied[f] = "no"
    PROVE  SendStatus(f) \in {"PENDING", "DUPLICATE"}
<1>1. queue \subseteq {f} /\ flow[f].seq = sequence + 1
  BY DEF SInv, AloneHasTheAccount
<1> QED BY <1>1, SendAnswers

\* A submission leaves the queue as it was, or with this transaction alone.
LEMMA Accepts ==
    ASSUME SInv, NEW f \in Flows, Accept(f)
    PROVE  /\ queue' = queue \/ (queue = {} /\ queue' = {f})
           /\ SendStatus(f) \in {"PENDING", "DUPLICATE"} => f \in queue'
           /\ f \in queue' => f \in queue \/ flow[f].seq = sequence + 1
BY SendAnswers DEF Accept

\* A transfer is broadcast, refused by the network, or never was signed in the
\* field that is broadcast.
LEMMA BroadcastKeeps ==
    ASSUME SInv, NEW f \in Flows, Broadcast(f)
    PROVE  SInv'
<1>1. /\ flow[f].pc = "broadcast"
      /\ UNCHANGED <<sequence, applied, sessions, activeRpc, faults, alone>>
  BY DEF Broadcast, At
<1>2. /\ Consistent(f, flow[f], queue, applied[f], sequence)
      /\ flow[f].seq \in Nat /\ sequence \in Nat
  BY FlowFacts
<1>3. UnderWay(flow[f].pc) /\ {"mark", "failed"} \subseteq Steps /\ "" \in Statuses
      /\ flow[f].status \in Statuses
  BY <1>1, FlowFacts DEF UnderWay, Steps, Statuses
<1>4. flow[f].kind = "transfer" /\ f \notin queue /\ applied[f] = "no"
  BY <1>1, <1>2 DEF Consistent, Unsent
<1>5. /\ queue' = queue \/ (queue = {} /\ queue' = {f})
      /\ f \in queue' => flow[f].seq = sequence + 1
  <2>1. queue' = queue \/ Accept(f)
    BY DEF Broadcast
  <2> QED BY <1>4, <2>1, Accepts
<1>6. StaysConsistent(f, "mark", flow[f].status) /\ StaysConsistent(f, "failed", "")
  BY <1>1, <1>2, <1>4, <1>5 DEF StaysConsistent, Consistent, Unsent
<1>7. RestStays(f)
  BY <1>1, <1>5, RestUnchanged
<1>8. CASE Goto(f, "mark")
  <2>1. StepsTo(f, "mark", flow[f].status) /\ AloneKeepsTheAccount(f, "mark")
    BY <1>8 DEF StepsTo, AloneKeepsTheAccount
  <2> QED BY <1>3, <1>6, <1>7, <2>1, EndMoves
<1>9. CASE End(f, "failed", "") /\ SendStatus(f) \notin {"PENDING", "DUPLICATE"}
  <2>1. ~alone[f]
    BY <1>3, <1>4, <1>9, AloneIsTaken
  <2>2. StepsTo(f, "failed", "") /\ AloneKeepsTheAccount(f, "failed")
    BY <1>9, <2>1 DEF StepsTo, AloneKeepsTheAccount
  <2> QED BY <1>3, <1>6, <1>7, <2>2, EndMoves
<1> QED BY <1>8, <1>9 DEF Broadcast

\* The session is marked, and a transfer is answered.
LEMMA updateSignSessionKeeps ==
    ASSUME SInv, NEW f \in Flows, updateSignSession(f)
    PROVE  SInv'
<1>1. /\ flow[f].pc = "mark"
      /\ sessions' = [sessions EXCEPT ![flow[f].session].status = "completed"]
      /\ UNCHANGED <<sequence, queue, applied, activeRpc, faults, alone>>
  BY DEF updateSignSession, At, ledgerVars
<1>2. /\ Consistent(f, flow[f], queue, applied[f], sequence)
      /\ faults \in 0..MaxFaults /\ faults \in Nat /\ sessions \in Seq(Session)
      /\ flow[f].session \in Nat /\ Len(sessions) \in Nat /\ flow[f].kind \in Kinds
  <2>1. sessions \in Seq(Session)
    BY FlowTypes DEF SInv
  <2>2. flow[f].session \in Nat
    BY FlowFacts
  <2> QED BY <2>1, <2>2, FlowFacts
<1>3. /\ UnderWay(flow[f].pc) /\ {"send", "done"} \subseteq Steps
      /\ "BROADCAST" \in Statuses /\ flow[f].status \in Statuses
  BY <1>1, FlowFacts DEF UnderWay, Steps, Statuses
<1>4. sessions' \in Seq(Session) /\ Len(sessions') = Len(sessions)
  <2> DEFINE i == flow[f].session
             row == [sessions[i] EXCEPT !.status = "completed"]
  <2>1. CASE i \in 1..Len(sessions)
    <3>1. sessions[i] \in Session
      BY <1>2, <2>1, ElementOfSeq
    <3>2. row \in Session
      BY <3>1 DEF Session
    <3>3. sessions' = [sessions EXCEPT ![i] = row]
      BY <1>1
    <3> HIDE DEF row, i
    <3> QED BY <1>2, <2>1, <3>2, <3>3, ExceptSeq
  <2>2. CASE i \notin 1..Len(sessions)
    <3>1. sessions' = sessions
      BY <1>1, <1>2, <2>2
    <3> QED BY <1>2, <3>1
  <2> QED BY <2>1, <2>2
<1>5. RestStays(f)
  BY <1>1, <1>2, <1>4 DEF RestStays
<1>6. CASE flow[f].kind = "action"
  <2>1. StaysConsistent(f, "send", flow[f].status)
    BY <1>1, <1>2, <1>6 DEF StaysConsistent, Consistent, Unsent
  <2>2. StepsTo(f, "send", flow[f].status) /\ AloneKeepsTheAccount(f, "send")
    BY <1>6 DEF updateSignSession, StepsTo, AloneKeepsTheAccount
  <2> QED BY <1>3, <1>5, <2>1, <2>2, EndMoves
<1>7. CASE flow[f].kind # "action"
  <2>1. StaysConsistent(f, "done", "BROADCAST")
    BY <1>1, <1>2, <1>7 DEF StaysConsistent, Consistent, Unsent
  <2>2. StepsTo(f, "done", "BROADCAST") /\ AloneKeepsTheAccount(f, "done")
    BY <1>7 DEF updateSignSession, StepsTo, AloneKeepsTheAccount
  <2> QED BY <1>3, <1>5, <2>1, <2>2, EndMoves
<1> QED BY <1>6, <1>7

\* A request throws.
LEMMA FailKeeps ==
    ASSUME SInv, NEW f \in Flows, Fail(f)
    PROVE  SInv'
<1>1. /\ flow[f].pc \in {"init", "complete", "broadcast", "mark"}
      /\ Fault /\ End(f, "failed", "")
      /\ UNCHANGED <<sequence, queue, applied, sessions, activeRpc, alone>>
  BY DEF Fail, ledgerVars
<1>2. Consistent(f, flow[f], queue, applied[f], sequence)
  BY FlowFacts
<1>3. UnderWay(flow[f].pc) /\ "failed" \in Steps /\ "" \in Statuses
  BY <1>1 DEF UnderWay, Steps, Statuses
<1>4. StaysConsistent(f, "failed", "")
  BY <1>1, <1>2 DEF StaysConsistent, Consistent, Unsent
<1>5. RestStays(f)
  BY <1>1, RestUnchanged
<1>6. StepsTo(f, "failed", "") /\ AloneKeepsTheAccount(f, "failed")
  BY <1>1, FaultCounts DEF StepsTo, AloneKeepsTheAccount
<1> QED BY <1>3, <1>4, <1>5, <1>6, EndMoves
-----------------------------------------------------------------------------
(* Submitting and polling. *)

\* A poll is answered with what the ledger made of the transaction, or gives up.
LEMMA pollTransactionKeeps ==
    ASSUME SInv, NEW f \in Flows, pollTransaction(f)
    PROVE  SInv'
<1>1. /\ flow[f].pc = "poll"
      /\ UNCHANGED <<sequence, queue, applied, sessions, activeRpc, alone>>
  BY DEF pollTransaction, At, ledgerVars
<1>2. /\ Consistent(f, flow[f], queue, applied[f], sequence)
      /\ applied[f] \in {"no", "SUCCESS", "FAILED"}
  BY FlowFacts
<1>3. /\ UnderWay(flow[f].pc) /\ {"done", "failed"} \subseteq Steps
      /\ {"SUCCESS", "FAILED", "NOT_FOUND"} \subseteq Statuses
  BY <1>1 DEF UnderWay, Steps, Statuses
<1>4. UNCHANGED faults \/ Fault
  BY DEF pollTransaction
<1>5. RestStays(f)
  BY <1>1, <1>4, RestUnchanged
<1>6. CASE applied[f] = "SUCCESS"
  <2>1. End(f, "done", "SUCCESS") \/ (f \in queue /\ Fault /\ End(f, "failed", "NOT_FOUND"))
    BY <1>6 DEF pollTransaction, Report
  <2>2. f \notin queue
    BY <1>2, <1>6 DEF Consistent
  <2>3. StaysConsistent(f, "done", "SUCCESS")
    BY <1>1, <1>2, <1>6 DEF StaysConsistent, Consistent, Unsent
  <2>4. StepsTo(f, "done", "SUCCESS") /\ AloneKeepsTheAccount(f, "done")
    BY <2>1, <2>2 DEF StepsTo, AloneKeepsTheAccount
  <2> QED BY <1>3, <1>5, <2>3, <2>4, EndMoves
<1>7. CASE applied[f] = "FAILED"
  <2>1. End(f, "failed", "FAILED") \/ (f \in queue /\ Fault /\ End(f, "failed", "NOT_FOUND"))
    BY <1>7 DEF pollTransaction, Report
  <2>2. f \notin queue
    BY <1>2, <1>7 DEF Consistent
  <2>3. StaysConsistent(f, "failed", "FAILED")
    BY <1>1, <1>2, <1>7 DEF StaysConsistent, Consistent, Unsent
  <2>4. StepsTo(f, "failed", "FAILED") /\ AloneKeepsTheAccount(f, "failed")
    BY <1>7, <2>1, <2>2 DEF StepsTo, AloneKeepsTheAccount
  <2> QED BY <1>3, <1>5, <2>3, <2>4, EndMoves
<1>8. CASE applied[f] = "no"
  <2>1. End(f, "failed", "NOT_FOUND") /\ (f \notin queue \/ Fault)
    BY <1>8 DEF pollTransaction, Report
  <2>2. StaysConsistent(f, "failed", "NOT_FOUND")
    BY <1>1, <1>2, <1>8 DEF StaysConsistent, Consistent, Unsent
  <2>3. faults' = 0 => ~alone[f]
    <3>1. SUFFICES ASSUME faults' = 0, alone[f] PROVE FALSE
      OBVIOUS
    <3>2. f \notin queue /\ faults = 0
      BY <1>4, <2>1, <3>1, FaultCounts
    <3> QED BY <1>1, <1>3, <1>8, <3>1, <3>2 DEF SInv, AloneHasTheAccount
  <2>4. StepsTo(f, "failed", "NOT_FOUND") /\ AloneKeepsTheAccount(f, "failed")
    BY <2>1, <2>3 DEF StepsTo, AloneKeepsTheAccount
  <2> QED BY <1>3, <1>5, <2>2, <2>4, EndMoves
<1> QED BY <1>2, <1>6, <1>7, <1>8

\* An endpoint answers a submission: the flow polls, unless it is told ERROR.
LEMMA sendTransactionKeeps ==
    ASSUME SInv, NEW f \in Flows, sendTransaction(f)
    PROVE  SInv'
<1>1. /\ flow[f].pc = "send" /\ Accept(f)
      /\ UNCHANGED <<sequence, applied, sessions, activeRpc, faults, alone>>
  BY DEF sendTransaction, At
<1>2. /\ Consistent(f, flow[f], queue, applied[f], sequence)
      /\ flow[f] \in FlowRecord(Len(sessions)) /\ Len(sessions) \in Nat
      /\ flow[f].seq \in Nat /\ sequence \in Nat
      /\ applied[f] \in {"no", "SUCCESS", "FAILED"}
      /\ faults \in 0..MaxFaults /\ faults \in Nat
  BY FlowFacts
<1>3. UnderWay(flow[f].pc) /\ {"poll", "failed"} \subseteq Steps /\ "FAILED" \in Statuses
  BY <1>1 DEF UnderWay, Steps, Statuses
<1>4. /\ queue' = queue \/ (queue = {} /\ queue' = {f})
      /\ SendStatus(f) \in {"PENDING", "DUPLICATE"} => f \in queue'
      /\ f \in queue' => f \in queue \/ flow[f].seq = sequence + 1
  BY <1>1, Accepts
<1>5. CASE SendStatus(f) = "ERROR"
  <2>1. End(f, "failed", "FAILED") /\ queue' = queue
    BY <1>1, <1>5 DEF sendTransaction, Accept
  <2>2. f \notin queue /\ flow[f].seq <= sequence
    BY <1>5, SendAnswers
  <2>3. StaysConsistent(f, "failed", "FAILED")
    BY <1>1, <1>2, <2>1, <2>2 DEF StaysConsistent, Consistent, Unsent
  <2>4. faults' = 0 => ~alone[f]
    <3>1. SUFFICES ASSUME faults' = 0, alone[f] PROVE FALSE
      OBVIOUS
    <3>2. ~flow[f].resent
      BY <1>1, <3>1 DEF SInv, NoResend
    <3>3. applied[f] = "no"
      BY <1>1, <1>2, <3>2 DEF Consistent, Unsent
    <3> QED BY <1>3, <1>5, <3>1, <3>3, AloneIsTaken
  <2>5. StepsTo(f, "failed", "FAILED") /\ AloneKeepsTheAccount(f, "failed")
    BY <2>1, <2>4 DEF StepsTo, AloneKeepsTheAccount
  <2>6. RestStays(f)
    BY <1>1, <1>4, RestUnchanged
  <2> QED BY <1>3, <2>3, <2>5, <2>6, EndMoves
<1>6. CASE SendStatus(f) # "ERROR"
  <2> DEFINE o == flow[f]
             k == Len(sessions)
             m == [o EXCEPT !.pc = "poll", !.attempts = 0]
  <2>1. flow' = [flow EXCEPT ![f] = m]
    BY <1>6 DEF sendTransaction
  <2>2. /\ m \in FlowRecord(k) /\ m.pc = "poll" /\ m.status = o.status /\ m.kind = o.kind
        /\ m.seq = o.seq /\ m.attempts = 0 /\ m.resent = o.resent
    <3>1. m = [o EXCEPT !.pc = "poll", !.attempts = 0]
      OBVIOUS
    <3>2. o \in FlowRecord(k) /\ "poll" \in Steps /\ 0 \in 0..Attempts
      BY <1>2, <1>3, Bounds
    <3> HIDE DEF m, o, k
    <3> QED BY <3>1, <3>2 DEF FlowRecord
  <2> HIDE DEF m
  <2>3. Consistent(f, m, queue', applied[f], sequence)
    <3>1. f \in queue' => applied[f] = "no" /\ o.seq = sequence + 1
      <4>1. CASE f \in queue
        BY <1>2, <4>1 DEF Consistent
      <4>2. CASE f \notin queue /\ f \in queue'
        <5>1. o.seq = sequence + 1
          BY <1>4, <4>2
        <5> QED BY <1>2, <5>1 DEF Consistent
      <4> QED BY <4>1, <4>2
    <3> QED BY <1>1, <1>2, <1>4, <2>2, <3>1, Bounds DEF Consistent, Unsent
  <2>4. faults' = 0 => ~m.resent
    BY <1>1, <2>2 DEF SInv, NoResend
  <2>5. alone[f] /\ applied[f] = "no" => f \in queue'
    BY <1>3, <1>4, AloneIsTaken
  <2>6. activeRpc' \in Endpoint /\ sessions' \in Seq(Session)
    BY <1>1, FlowTypes DEF SInv, TypeOK
  <2>7. alone[f] =>
           /\ m.pc \in {"passkey", "complete"} =>
                 /\ m.session = Len(sessions') /\ m.session > 0
                 /\ sessions'[m.session].status = "initiated"
           /\ faults' = 0 /\ m.pc = "poll" => f \in queue' \/ applied[f] # "no"
           /\ faults' = 0 /\ m.pc = "failed" => applied[f] = "FAILED"
    BY <2>2, <2>5
  <2>8. /\ m \in FlowRecord(Len(sessions')) /\ m.seq = flow[f].seq
        /\ flow' = [flow EXCEPT ![f] = m] /\ Len(sessions) <= Len(sessions')
        /\ faults' \in 0..MaxFaults /\ faults' >= faults
        /\ UNCHANGED <<sequence, applied, alone>>
    BY <1>1, <1>2, <2>1, <2>2
  <2> QED BY <1>3, <1>4, <2>3, <2>4, <2>6, <2>7, <2>8, FlowMoves
<1> QED BY <1>5, <1>6

\* A call of the RPC endpoint fails: it is repeated at the next endpoint, up to
\* the attempts it has.
LEMMA RetriedKeeps ==
    ASSUME SInv, NEW f \in Flows, flow[f].pc \in {"send", "poll"}, Fault,
           NEW resend \in BOOLEAN, Retried(f, resend), flow[f].pc = "send" => resend,
           queue' = queue \/ (queue = {} /\ queue' = {f}),
           f \in queue' => f \in queue \/ flow[f].seq = sequence + 1,
           UNCHANGED <<sequence, applied, sessions, alone>>
    PROVE  SInv'
<1> DEFINE o == flow[f]
           k == Len(sessions)
           spent == o.attempts + 1 = Attempts
           pc == IF spent THEN "failed" ELSE o.pc
           m == [o EXCEPT !.attempts = o.attempts + 1, !.resent = o.resent \/ resend, !.pc = pc]
<1>1. /\ Consistent(f, o, queue, applied[f], sequence)
      /\ o \in FlowRecord(k) /\ k \in Nat /\ o.seq \in Nat /\ sequence \in Nat
      /\ o.attempts \in 0..Attempts /\ o.pc \in Steps
      /\ applied[f] \in {"no", "SUCCESS", "FAILED"}
  BY FlowFacts
<1>2. faults' \in 0..MaxFaults /\ faults' # 0 /\ faults' >= faults
  BY FaultCounts
<1>3. o.attempts + 1 \in 0..Attempts /\ (~spent => o.attempts + 1 < Attempts)
  <2> DEFINE a == o.attempts
  <2>1. a \in 0..Attempts /\ a < Attempts /\ Attempts \in Nat
    BY <1>1, Bounds DEF Consistent
  <2> HIDE DEF a
  <2>2. a + 1 \in 0..Attempts /\ (a + 1 # Attempts => a + 1 < Attempts)
    BY <2>1
  <2> QED BY <2>2 DEF a
<1>4. flow' = [flow EXCEPT ![f] = m]
  BY DEF Retried
<1>5. pc \in Steps
  BY <1>1 DEF Steps
<1>6. /\ m \in FlowRecord(k) /\ m.pc = pc /\ m.status = o.status /\ m.kind = o.kind
      /\ m.seq = o.seq /\ m.attempts = o.attempts + 1 /\ m.resent = (o.resent \/ resend)
  <2> DEFINE a == o.attempts + 1
             again == o.resent \/ resend
  <2>1. m = [o EXCEPT !.attempts = a, !.resent = again, !.pc = pc]
    OBVIOUS
  <2>2. o \in FlowRecord(k) /\ pc \in Steps /\ a \in 0..Attempts /\ again \in BOOLEAN
    BY <1>1, <1>3, <1>5
  <2>3. /\ m \in FlowRecord(k) /\ m.pc = pc /\ m.status = o.status /\ m.kind = o.kind
        /\ m.seq = o.seq /\ m.attempts = a /\ m.resent = again
    <3> HIDE DEF m, o, k, a, pc, again
    <3> QED BY <2>1, <2>2 DEF FlowRecord
  <2> QED BY <2>3
<1> HIDE DEF m
<1>7. Consistent(f, m, queue', applied[f], sequence)
  <2>1. f \in queue' => applied[f] = "no" /\ o.seq = sequence + 1
    <3>1. CASE f \in queue
      BY <1>1, <3>1 DEF Consistent
    <3>2. CASE f \notin queue /\ f \in queue'
      <4>1. o.seq = sequence + 1
        BY <3>2
      <4> QED BY <1>1, <4>1 DEF Consistent
    <3> QED BY <3>1, <3>2
  <2>2. CASE spent
    <3>1. m.pc = "failed"
      BY <1>6, <2>2
    <3> QED BY <1>1, <1>6, <2>1, <3>1 DEF Consistent, Unsent
  <2>3. CASE ~spent
    <3>1. m.pc = o.pc /\ m.attempts < Attempts
      BY <1>3, <1>6, <2>3
    <3> QED BY <1>1, <1>6, <2>1, <3>1 DEF Consistent, Unsent
  <2> QED BY <2>2, <2>3
<1>8. activeRpc' \in Endpoint
  <2>1. activeRpc \in 0..Endpoints - 1 /\ Endpoints \in Nat \ {0}
    BY EndpointsConfigured DEF SInv, TypeOK, Endpoint
  <2>2. (activeRpc + 1) % Endpoints \in 0..Endpoints - 1
    BY <2>1
  <2> QED BY <2>1, <2>2 DEF Retried, Endpoint
<1>9. alone[f] =>
         /\ m.pc \in {"passkey", "complete"} =>
               /\ m.session = Len(sessions') /\ m.session > 0
               /\ sessions'[m.session].status = "initiated"
         /\ faults' = 0 /\ m.pc = "poll" => f \in queue' \/ applied[f] # "no"
         /\ faults' = 0 /\ m.pc = "failed" => applied[f] = "FAILED"
  BY <1>2, <1>6
<1>10. /\ UnderWay(flow[f].pc) /\ m \in FlowRecord(Len(sessions')) /\ m.seq = flow[f].seq
       /\ Len(sessions) <= Len(sessions') /\ sessions' \in Seq(Session)
  BY <1>1, <1>6, FlowTypes DEF SInv, UnderWay
<1> QED BY <1>2, <1>4, <1>7, <1>8, <1>9, <1>10, FlowMoves

\* A submission fails before or after the endpoint took the transaction.
LEMMA sendTransactionFailsKeeps ==
    ASSUME SInv, NEW f \in Flows, sendTransactionFails(f)
    PROVE  SInv'
<1>1. /\ flow[f].pc = "send" /\ Fault /\ Retried(f, TRUE) /\ TRUE \in BOOLEAN
      /\ Accept(f) \/ UNCHANGED queue
      /\ UNCHANGED <<sequence, applied, sessions, alone>>
  BY DEF sendTransactionFails, At
<1>2. /\ queue' = queue \/ (queue = {} /\ queue' = {f})
      /\ f \in queue' => f \in queue \/ flow[f].seq = sequence + 1
  BY <1>1, Accepts
<1> QED BY <1>1, <1>2, RetriedKeeps

\* A poll fails.
LEMMA pollTransactionFailsKeeps ==
    ASSUME SInv, NEW f \in Flows, pollTransactionFails(f)
    PROVE  SInv'
<1>1. /\ flow[f].pc = "poll" /\ Fault /\ Retried(f, FALSE) /\ FALSE \in BOOLEAN
      /\ UNCHANGED <<ledgerVars, sessions, alone>>
  BY DEF pollTransactionFails, At
<1> QED BY <1>1, RetriedKeeps DEF ledgerVars
-----------------------------------------------------------------------------
(* Starting a flow, and the ledger. *)

\* A new flow takes the account from the flows under way.
LEMMA BeginKeeps ==
    ASSUME SInv, NEW f \in Flows, NEW kind \in Kinds, NEW pc \in {"init", "passkey"},
           NEW n \in Nat, Begin(f, kind, pc, n),
           sessions' \in Seq(Session), Len(sessions) <= Len(sessions'), n <= Len(sessions'),
           pc = "passkey" =>
              n = Len(sessions') /\ n > 0 /\ sessions'[n].status = "initiated",
           UNCHANGED <<sequence, queue, applied, activeRpc, faults>>
    PROVE  SInv'
<1> USE DEF SInv
<1> DEFINE m == [New EXCEPT !.pc = pc, !.kind = kind, !.seq = sequence + 1, !.session = n]
           open == {g \in Flows : g # f /\ ~At(g, "idle") /\ ~Over(g)}
<1>1. /\ flow[f].pc = "idle" /\ flow' = [flow EXCEPT ![f] = m]
      /\ alone' = [g \in Flows |->
                      IF g = f THEN open = {} /\ queue = {} ELSE alone[g] /\ g \notin open]
  BY DEF Begin, At
<1>2. /\ Len(sessions) \in Nat /\ flow \in [Flows -> FlowRecord(Len(sessions))]
      /\ sequence \in Nat /\ queue \subseteq Flows /\ Len(sessions') \in Nat
      /\ alone \in [Flows -> BOOLEAN]
  <2>1. Len(sessions') \in Nat
    BY LenProperties
  <2> QED BY <2>1, FlowTypes
<1>3. /\ m \in FlowRecord(Len(sessions')) /\ m.pc = pc /\ m.kind = kind
      /\ m.seq = sequence + 1 /\ m.session = n /\ m.attempts = 0 /\ m.resent = FALSE
      /\ m.status = ""
  <2> DEFINE k == Len(sessions')
             s == sequence + 1
  <2>1. m = [New EXCEPT !.pc = pc, !.kind = kind, !.seq = s, !.session = n]
    OBVIOUS
  <2>2. s \in Nat /\ n \in 0..k /\ pc \in Steps /\ 0 \in 0..Attempts /\ "" \in Statuses
    BY <1>2, Bounds DEF Steps, Statuses
  <2>3. /\ m \in FlowRecord(k) /\ m.pc = pc /\ m.kind = kind
        /\ m.seq = s /\ m.session = n /\ m.attempts = 0 /\ m.resent = FALSE
        /\ m.status = ""
    <3> HIDE DEF m, k, s
    <3> QED BY <2>1, <2>2 DEF FlowRecord, New
  <2> QED BY <2>3
<1> HIDE DEF m
<1>4. flow'[f] = m /\ \A g \in Flows \ {f} : flow'[g] = flow[g]
  BY <1>1, <1>2
<1>5. TypeOK'
  <2>1. FlowRecord(Len(sessions)) \subseteq FlowRecord(Len(sessions'))
    BY <1>2, RecordsWiden
  <2>2. flow' \in [Flows -> FlowRecord(Len(sessions'))]
    BY <1>1, <1>2, <1>3, <2>1
  <2>3. alone' \in [Flows -> BOOLEAN]
    <3> HIDE DEF open
    <3>1. \A g \in Flows : alone'[g] \in BOOLEAN
      BY <1>1, <1>2
    <3> QED BY <1>1, <3>1
  <2> QED BY <2>2, <2>3 DEF TypeOK, FlowRecord, Session
<1>6. FlowsConsistent'
  <2> SUFFICES ASSUME NEW g \in Flows
               PROVE  Consistent(g, flow'[g], queue, applied[g], sequence)
    BY DEF FlowsConsistent, Consistent, Unsent
  <2>1. Consistent(g, flow[g], queue, applied[g], sequence)
    BY DEF FlowsConsistent
  <2>2. CASE g = f
    <3>1. f \notin queue /\ applied[f] = "no"
      BY <1>1, <2>1, <2>2 DEF Consistent, Unsent
    <3>2. m.seq <= sequence + 1 /\ m.attempts < Attempts
      <4>1. 0 < Attempts
        BY Bounds
      <4>2. sequence + 1 <= sequence + 1
        BY <1>2
      <4> QED BY <1>3, <4>1, <4>2
    <3>3. Consistent(f, m, queue, applied[f], sequence)
      BY <1>3, <3>1, <3>2 DEF Consistent
    <3> QED BY <1>4, <2>2, <3>3
  <2>3. CASE g # f
    BY <1>4, <2>1, <2>3
  <2> QED BY <2>2, <2>3
<1>7. AloneHasTheAccount'
  <2> SUFFICES ASSUME NEW g \in Flows, alone'[g], UnderWay(flow'[g].pc)
               PROVE  /\ \A h \in Flows \ {g} : ~UnderWay(flow'[h].pc)
                      /\ queue \subseteq {g}
                      /\ applied[g] = "no" => flow'[g].seq = sequence + 1
                      /\ flow'[g].pc \in {"passkey", "complete"} =>
                            /\ flow'[g].session = Len(sessions') /\ flow'[g].session > 0
                            /\ sessions'[flow'[g].session].status = "initiated"
                      /\ faults = 0 /\ flow'[g].pc = "poll"
                           => g \in queue \/ applied[g] # "no"
    BY DEF AloneHasTheAccount, UnderWay
  <2>1. CASE g = f
    <3>1. open = {} /\ queue = {}
      BY <1>1, <2>1
    <3>2. \A h \in Flows \ {f} : ~UnderWay(flow'[h].pc)
      BY <1>4, <3>1 DEF UnderWay, At, Over
    <3> QED BY <1>3, <1>4, <2>1, <3>1, <3>2
  <2>2. CASE g # f
    <3>1. g \in open
      BY <1>4, <2>2 DEF UnderWay, At, Over
    <3> QED BY <1>1, <2>2, <3>1
  <2> QED BY <2>1, <2>2
<1>8. NoResend'
  BY <1>3, <1>4 DEF NoResend
<1>9. AloneSucceeds'
  <2> SUFFICES ASSUME NEW g \in Flows, flow'[g].pc = "failed", alone'[g], faults = 0
               PROVE  applied[g] = "FAILED"
    BY DEF AloneSucceeds, At
  <2>1. g # f
    BY <1>3, <1>4
  <2>2. alone[g] /\ flow[g].pc = "failed"
    BY <1>1, <1>4, <2>1
  <2> QED BY <2>2 DEF AloneSucceeds, At
<1> QED BY <1>5, <1>6, <1>7, <1>8, <1>9 DEF OneQueued

\* An action's transaction is prepared, or a transfer's with its session.
LEMMA StartKeeps ==
    ASSUME SInv, NEW f \in Flows, Start(f)
    PROVE  SInv'
<1>1. sessions \in Seq(Session) /\ Len(sessions) \in Nat
  BY FlowTypes DEF SInv
<1>2. {"action", "transfer"} \subseteq Kinds
  BY DEF Kinds
<1>3. CASE prepare(f)
  <2>1. Begin(f, "action", "init", 0) /\ sessions' = sessions
        /\ UNCHANGED <<sequence, queue, applied, activeRpc, faults>>
    BY <1>3 DEF prepare, ledgerVars
  <2> QED BY <1>1, <1>2, <2>1, BeginKeeps
<1>4. CASE transferInit(f)
  <2> DEFINE n == Len(sessions) + 1
             row == [flow |-> f, status |-> "initiated"]
  <2>1. Begin(f, "transfer", "passkey", n) /\ sessions' = Append(sessions, row)
        /\ UNCHANGED <<sequence, queue, applied, activeRpc, faults>>
    BY <1>4 DEF transferInit, createSignSession, ledgerVars
  <2>2. row \in Session
    BY DEF Session
  <2>3. sessions' \in Seq(Session) /\ Len(sessions') = n /\ sessions'[n] = row
    <3> HIDE DEF row
    <3> QED BY <1>1, <2>1, <2>2, AppendProperties
  <2>4. sessions'[n].status = "initiated"
    BY <2>3
  <2>5. n \in Nat /\ n > 0 /\ Len(sessions) <= n
    BY <1>1
  <2> HIDE DEF n, row
  <2> QED BY <1>2, <2>1, <2>3, <2>4, <2>5, BeginKeeps
<1> QED BY <1>3, <1>4 DEF Start

\* The ledger applies the transaction in its queue.
LEMMA LedgerClosesKeeps ==
    ASSUME SInv, LedgerCloses
    PROVE  SInv'
<1> USE DEF SInv
<1>1. PICK f \in queue, outcome \in {"SUCCESS", "FAILED"} :
        /\ flow[f].seq = sequence + 1 /\ sequence' = sequence + 1
        /\ queue' = queue \ {f} /\ applied' = [applied EXCEPT ![f] = outcome]
        /\ UNCHANGED <<sessions, flow, activeRpc, faults, alone>>
  BY DEF LedgerCloses
<1>2. /\ sequence \in Nat /\ queue \subseteq Flows
      /\ applied \in [Flows -> {"no", "SUCCESS", "FAILED"}]
  BY FlowTypes
<1>3. queue' = {} /\ \A g \in Flows \ {f} : g \notin queue
  BY <1>1 DEF OneQueued
<1>4. applied'[f] = outcome /\ \A g \in Flows \ {f} : applied'[g] = applied[g]
  BY <1>1, <1>2
<1>5. Consistent(f, flow[f], queue, applied[f], sequence)
  BY <1>1, <1>2, FlowFacts
<1>6. TypeOK'
  <2>1. sequence' \in Nat /\ queue' \subseteq Flows
        /\ applied' \in [Flows -> {"no", "SUCCESS", "FAILED"}]
    BY <1>1, <1>2, <1>3
  <2> QED BY <1>1, <2>1 DEF TypeOK
<1>7. OneQueued'
  BY <1>3 DEF OneQueued
<1>8. FlowsConsistent'
  <2> SUFFICES ASSUME NEW g \in Flows
               PROVE  Consistent(g, flow[g], queue', applied'[g], sequence')
    BY <1>1 DEF FlowsConsistent, Consistent, Unsent
  <2>1. Consistent(g, flow[g], queue, applied[g], sequence) /\ flow[g].seq \in Nat
    BY FlowFacts
  <2>2. CASE g = f
    BY <1>1, <1>2, <1>3, <1>4, <1>5, <2>2 DEF Consistent
  <2>3. CASE g # f
    <3>1. g \notin queue' /\ g \notin queue /\ applied'[g] = applied[g]
      BY <1>3, <1>4, <2>3
    <3> QED BY <1>1, <1>2, <2>1, <3>1 DEF Consistent
  <2> QED BY <2>2, <2>3
<1>9. AloneHasTheAccount'
  <2> SUFFICES ASSUME NEW g \in Flows, alone[g], UnderWay(flow[g].pc)
               PROVE  /\ \A h \in Flows \ {g} : ~UnderWay(flow[h].pc)
                      /\ queue' \subseteq {g}
                      /\ applied'[g] = "no" => flow[g].seq = sequence' + 1
                      /\ flow[g].pc \in {"passkey", "complete"} =>
                            /\ flow[g].session = Len(sessions) /\ flow[g].session > 0
                            /\ sessions[flow[g].session].status = "initiated"
                      /\ faults = 0 /\ flow[g].pc = "poll"
                           => g \in queue' \/ applied'[g] # "no"
    BY <1>1 DEF AloneHasTheAccount, UnderWay
  <2>1. g = f
    BY <1>1 DEF AloneHasTheAccount
  <2>2. applied'[g] # "no"
    BY <1>4, <2>1
  <2> QED BY <1>3, <2>2 DEF AloneHasTheAccount
<1>10. NoResend'
  BY <1>1 DEF NoResend
<1>11. AloneSucceeds'
  <2> SUFFICES ASSUME NEW g \in Flows, flow[g].pc = "failed", alone[g], faults = 0
               PROVE  applied'[g] = "FAILED"
    BY <1>1 DEF AloneSucceeds, At
  <2>1. applied[g] = "FAILED"
    BY DEF AloneSucceeds, At
  <2>2. g # f
    BY <1>1, <1>5, <2>1 DEF Consistent
  <2> QED BY <1>4, <2>1, <2>2
<1> QED BY <1>6, <1>7, <1>8, <1>9, <1>10, <1>11

\* The initial state.
LEMMA InitSInv == Init => SInv
<1> SUFFICES ASSUME Init PROVE SInv
  OBVIOUS
<1> USE DEF Init
<1>1. TypeOK
  <2>1. 0 \in 0..Attempts /\ 0 \in Endpoint /\ 0 \in 0..MaxFaults
    BY Bounds, EndpointsConfigured DEF Endpoint
  <2>2. Len(sessions) = 0 /\ sessions \in Seq(Session)
    BY EmptySeq
  <2>3. New \in FlowRecord(0)
    <3>1. /\ "idle" \in Steps /\ "action" \in Kinds /\ "" \in Statuses
          /\ 0 \in Nat /\ 0 \in 0..0 /\ "" \in DfnsFields \union {""}
      BY DEF Steps, Kinds, Statuses
    <3> QED BY <2>1, <3>1 DEF FlowRecord, New
  <2>4. flow \in [Flows -> FlowRecord(Len(sessions))]
    BY <2>2, <2>3
  <2>5. sessions \in Seq([flow : Flows, status : {"initiated", "completed"}])
    BY <2>2 DEF Session
  <2> QED BY <2>1, <2>4, <2>5 DEF TypeOK, FlowRecord
<1>2. FlowsConsistent
  <2> SUFFICES ASSUME NEW f \in Flows PROVE Consistent(f, New, {}, "no", 0)
    BY DEF FlowsConsistent
  <2>1. New.pc = "idle" /\ New.seq = 0 /\ New.attempts = 0 /\ New.status = ""
    BY DEF New
  <2>2. New.seq <= 0 + 1 /\ New.attempts < Attempts
    <3>1. 0 < Attempts /\ 0 <= 0 + 1
      BY Bounds
    <3> QED BY <2>1, <3>1
  <2> QED BY <2>1, <2>2 DEF Consistent
<1> QED BY <1>1, <1>2 DEF SInv, OneQueued, AloneHasTheAccount, UnderWay, NoResend,
          AloneSucceeds, At, New

\* Every step keeps the invariant.
LEMMA NextSInv == SInv /\ [Next]_vars => SInv'
<1> SUFFICES ASSUME SInv, [Next]_vars PROVE SInv'
  OBVIOUS
<1>1. CASE LedgerCloses
  BY <1>1, LedgerClosesKeeps
<1>2. ASSUME NEW f \in Flows, Start(f) PROVE SInv'
  BY <1>2, StartKeeps
<1>3. ASSUME NEW f \in Flows, Advance(f) PROVE SInv'
  BY <1>3, signInitKeeps, PasskeyKeeps, CompleteKeeps, BroadcastKeeps,
     updateSignSessionKeeps, sendTransactionKeeps, pollTransactionKeeps DEF Advance
<1>4. ASSUME NEW f \in Flows, Trouble(f) PROVE SInv'
  BY <1>4, FailKeeps, sendTransactionFailsKeeps, pollTransactionFailsKeeps DEF Trouble
<1>5. CASE UNCHANGED vars
  <2> USE <1>5 DEF vars, ledgerVars, SInv
  <2>1. TypeOK' /\ OneQueued' /\ NoResend' /\ AloneSucceeds'
    BY DEF TypeOK, OneQueued, NoResend, AloneSucceeds, At
  <2>2. FlowsConsistent'
    BY DEF FlowsConsistent, Consistent, Unsent
  <2>3. AloneHasTheAccount'
    BY DEF AloneHasTheAccount, UnderWay
  <2> QED BY <2>1, <2>2, <2>3
<1> QED BY <1>1, <1>2, <1>3, <1>4, <1>5 DEF Next
-----------------------------------------------------------------------------
\* What a flow reports, what the network holds and what the ledger did with
\* each transaction stay consistent in every run of the backend
\* (submitTransaction, useTxAction).
THEOREM SigningInvariant == Spec => []SInv
<1>1. Init => SInv
  BY InitSInv
<1>2. SInv /\ [Next]_vars => SInv'
  BY NextSInv
<1> QED BY <1>1, <1>2, PTL DEF Spec

\* An action that is reported as done was applied successfully: acceptance or
\* inclusion is never taken for success (submitTransaction, useTxAction).
THEOREM DoneIsApplied == Spec => []DoneMeansApplied
<1>1. SInv => DoneMeansApplied
  BY DEF SInv, FlowsConsistent, Consistent, DoneMeansApplied, At
<1> QED BY <1>1, SigningInvariant, PTL

\* An action reported FAILED that was sent once neither went through nor can
\* (submitTransaction).
THEOREM FailureIsFinal == Spec => []FailedIsFinal
<1>1. SInv => FailedIsFinal
  BY DEF SInv, FlowsConsistent, Consistent, FailedIsFinal
<1> QED BY <1>1, SigningInvariant, PTL

\* Without faults, a flow that has the account to itself is never refused: not
\* by its session, not by its sequence number (signComplete, submitTransaction).
THEOREM AloneIsNotRefused == Spec => []AloneSucceeds
<1>1. SInv => AloneSucceeds
  BY DEF SInv
<1> QED BY <1>1, SigningInvariant, PTL
===============================================================================
