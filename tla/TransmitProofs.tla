---------------------------- MODULE TransmitProofs ----------------------------
(***************************************************************************)
(* Proofs about Transmit and the transaction manager under it, for any     *)
(* oracles, aggregators, reports, deviations and number of faults.         *)
(***************************************************************************)
EXTENDS Transmit, SequenceTheorems, TLAPS

USE ReportsAssumption, MaxFaultsAssumption, DeviatingAssumption

(***************************************************************************)
(* Sequences                                                               *)
(***************************************************************************)

\* Inserting an element into a sequence leaves the others, in their order.
LEMMA InsertAtFacts ==
  ASSUME NEW S, NEW s \in Seq(S), NEW k \in 1..Len(s) + 1, NEW e \in S
  PROVE  /\ InsertAt(s, k, e) \in Seq(S)
         /\ Len(InsertAt(s, k, e)) = Len(s) + 1
         /\ \A n \in 1..Len(s) + 1 :
              InsertAt(s, k, e)[n] = IF n < k THEN s[n] ELSE IF n = k THEN e ELSE s[n - 1]
<1> DEFINE before == SubSeq(s, 1, k - 1)
           after == SubSeq(s, k, Len(s))
<1>1. Len(s) \in Nat /\ \A n \in 1..Len(s) : s[n] \in S
  BY LenProperties, ElementOfSeq
<1>2. /\ before \in Seq(S)
      /\ Len(before) = k - 1
      /\ \A n \in 1..k - 1 : before[n] = s[n]
  <2>1. \A n \in 1..k - 1 : s[n] \in S
    BY <1>1
  <2> QED
    BY <1>1, <2>1, SubSeqProperties
<1>3. /\ after \in Seq(S)
      /\ Len(after) = Len(s) - k + 1
      /\ \A n \in 1..Len(s) - k + 1 : after[n] = s[k + n - 1]
  <2>1. \A n \in k..Len(s) : s[n] \in S
    BY <1>1
  <2> QED
    BY <1>1, <2>1, SubSeqProperties
<1>4. <<e>> \in Seq(S) /\ Len(<<e>>) = 1 /\ <<e>>[1] = e
  OBVIOUS
<1> DEFINE left == before \o <<e>>
<1>5. /\ left \in Seq(S)
      /\ Len(left) = k
      /\ \A n \in 1..k : left[n] = IF n < k THEN s[n] ELSE e
  <2>1. /\ left \in Seq(S)
        /\ Len(left) = k - 1 + 1
        /\ \A n \in 1..k - 1 + 1 : left[n] = IF n <= k - 1 THEN before[n] ELSE <<e>>[n - (k - 1)]
    BY <1>2, <1>4, ConcatProperties
  <2> HIDE DEF left, before
  <2> QED
    BY <2>1, <1>2, <1>4
<1>6. InsertAt(s, k, e) = left \o after
  BY DEF InsertAt
<1> HIDE DEF left, after
<1>7. /\ left \o after \in Seq(S)
      /\ Len(left \o after) = k + Len(after)
      /\ \A n \in 1..k + Len(after) :
           (left \o after)[n] = IF n <= k THEN left[n] ELSE after[n - k]
  BY <1>3, <1>5, ConcatProperties
<1> QED
  BY <1>1, <1>3, <1>5, <1>6, <1>7

\* What is in a sequence.
LEMMA TailFacts ==
  ASSUME NEW S, NEW s \in Seq(S), s # <<>>
  PROVE  /\ Head(s) = s[1] /\ Head(s) \in S /\ Tail(s) \in Seq(S)
         /\ Len(s) \in Nat /\ Len(s) > 0 /\ Len(Tail(s)) = Len(s) - 1
         /\ \A n \in 1..Len(s) - 1 : Tail(s)[n] = s[n + 1]
  BY HeadTailProperties, LenProperties, EmptySeq

(***************************************************************************)
(* Types                                                                   *)
(***************************************************************************)

LEMMA InitType == Init => TypeOK
<1> SUFFICES ASSUME Init PROVE TypeOK
  OBVIOUS
<1>1. TxTypeOK
  BY DEF Init, TxInit, TxTypeOK, AtMostOne, Genesis, Stamp
<1> QED
  BY <1>1 DEF Init, TypeOK, AtMostOne

\* An answer leaves the callers what they are.
LEMMA AnswerType ==
  ASSUME TxTypeOK, NEW i \in Oracles, NEW r \in Reports, NEW a \in {"success", "error"},
         Answer(i, r, a)
  PROVE  callers' \in [Oracles -> SUBSET Caller]
<1> DEFINE waiting == [report |-> r, answer |-> "none"]
           answered == [waiting EXCEPT !.answer = a]
           rest == (callers[i] \ {waiting}) \cup {answered}
<1>1. callers[i] \in SUBSET Caller
  BY DEF TxTypeOK
<1>2. answered \in Caller
  BY DEF Caller
<1> HIDE DEF answered, waiting
<1>3. rest \in SUBSET Caller
  BY <1>1, <1>2
<1>4. callers' = [callers EXCEPT ![i] = IF waiting \in callers[i] THEN rest ELSE callers[i]]
  BY DEF Answer, answered, waiting
<1> HIDE DEF rest
<1> QED
  BY <1>1, <1>3, <1>4 DEF TxTypeOK

LEMMA ExecuteBatchType ==
  ASSUME TxTypeOK, NEW i \in Oracles, ExecuteBatch(i)
  PROVE  TxTypeOK'
<1>1. pool[i] \in Seq(Reports) /\ pool[i] # <<>>
  BY DEF TxTypeOK, ExecuteBatch
<1>2. Head(pool[i]) \in Reports /\ Tail(pool[i]) \in Seq(Reports)
  BY <1>1, TailFacts
<1>3. [report |-> Head(pool[i]), stage |-> "estimate"] \in Batch
  BY <1>2 DEF Batch
<1> QED
  BY <1>2, <1>3 DEF TxTypeOK, ExecuteBatch, AtMostOne

\* A batch moves to its next stage, or is finished.
LEMMA StageType ==
  ASSUME TxTypeOK, NEW i \in Oracles, NEW b \in Batch,
         \/ \E stage \in {"send", "confirm"} : GoOn(i, b, stage)
         \/ Finish(i)
  PROVE  /\ executing' \in [Oracles -> SUBSET Batch]
         /\ \A j \in Oracles : AtMostOne(executing'[j])
<1>1. CASE Finish(i)
  BY <1>1 DEF TxTypeOK, Finish, AtMostOne
<1>2. CASE \E stage \in {"send", "confirm"} : GoOn(i, b, stage)
  <2>1. PICK stage \in {"send", "confirm"} : GoOn(i, b, stage)
    BY <1>2
  <2> DEFINE c == [b EXCEPT !.stage = stage]
  <2>2. c \in Batch
    BY DEF Batch
  <2>3. executing' = [executing EXCEPT ![i] = {c}]
    BY <2>1 DEF GoOn
  <2> HIDE DEF c
  <2> QED
    BY <2>2, <2>3 DEF TxTypeOK, AtMostOne
<1> QED
  BY <1>1, <1>2

LEMMA FaultType ==
  ASSUME TxTypeOK, Fault \/ UNCHANGED faults
  PROVE  faults' \in 0..MaxFaults
  BY DEF TxTypeOK, Fault

\* The steps of the transaction manager on one batch.
LEMMA BatchType ==
  ASSUME TxTypeOK, NEW i \in Oracles, NEW b \in executing[i],
         \/ Estimate(i, b) \/ EstimateFails(i, b)
         \/ Send(i, b) \/ SendFails(i, b)
         \/ Confirm(i, b) \/ ConfirmTimesOut(i, b)
  PROVE  TxTypeOK'
<1>1. b \in Batch /\ b.report \in Reports
  BY DEF TxTypeOK, Batch
<1>2. [oracle |-> i, report |-> b.report] \in Operation
  BY <1>1 DEF Operation
<1>3. UNCHANGED <<pool, chain>>
  BY DEF Estimate, EstimateFails, Send, SendFails, Confirm, ConfirmTimesOut
<1>4. mempool' \in SUBSET Operation
  BY <1>2 DEF TxTypeOK, Estimate, EstimateFails, Send, SendFails, Confirm, ConfirmTimesOut
<1>5. faults' \in 0..MaxFaults
  <2>1. Fault \/ UNCHANGED faults
    BY DEF Estimate, EstimateFails, Send, SendFails, Confirm, ConfirmTimesOut, Refused
  <2> QED
    BY <2>1, FaultType
<1>6. callers' \in [Oracles -> SUBSET Caller]
  <2>1. UNCHANGED callers \/ \E a \in {"success", "error"} : Answer(i, b.report, a)
    BY DEF Estimate, EstimateFails, Send, SendFails, Confirm, ConfirmTimesOut
  <2> QED
    BY <1>1, <2>1, AnswerType DEF TxTypeOK
<1>7. /\ executing' \in [Oracles -> SUBSET Batch]
      /\ \A j \in Oracles : AtMostOne(executing'[j])
  <2>1. \/ \E stage \in {"send", "confirm"} : GoOn(i, b, stage)
        \/ Finish(i)
    BY DEF Estimate, EstimateFails, Send, SendFails, Confirm, ConfirmTimesOut
  <2> QED
    BY <1>1, <2>1, StageType
<1> QED
  BY <1>3, <1>4, <1>5, <1>6, <1>7 DEF TxTypeOK

LEMMA IncludeType ==
  ASSUME TxTypeOK, NEW op \in mempool, Include(op)
  PROVE  TxTypeOK'
<1>1. op.report \in Reports
  BY DEF TxTypeOK, Operation
<1>2. /\ op.report.aggregator \in Aggregators
      /\ [epoch |-> op.report.epoch, round |-> op.report.round] \in Stamp
  BY <1>1 DEF Stamp
<1>3. chain' \in [Aggregators -> Stamp]
  BY <1>2 DEF TxTypeOK, Include
<1>4. faults' \in 0..MaxFaults
  BY FaultType DEF Include
<1> QED
  BY <1>3, <1>4 DEF TxTypeOK, Include

\* Every step of the transaction managers and of the chain.
LEMMA TxNextType == TxTypeOK /\ TxNext => TxTypeOK'
  BY ExecuteBatchType, BatchType, IncludeType DEF TxNext, ExecuteStep

LEMMA TxRestartType ==
  ASSUME TxTypeOK, NEW i \in Oracles, TxRestart(i)
  PROVE  TxTypeOK'
<1>1. faults' \in 0..MaxFaults
  BY FaultType DEF TxRestart
<1> QED
  BY <1>1 DEF TxTypeOK, TxRestart, AtMostOne

\* What is read from the variables of the service.
LEMMA ServiceFacts ==
  ASSUME TypeOK, NEW i \in Oracles
  PROVE  /\ queue[i] \in Seq(Reports)
         /\ \A c \in calls[i] : c.report \in Reports /\ c.seen \in Stamp
         /\ \A h \in handlers[i] : h \in Handler /\ h.report \in Reports /\ h.seen \in Stamp
         /\ \A r \in Reports : /\ r.aggregator \in Aggregators
                               /\ r.epoch \in Nat /\ r.round \in Nat
                               /\ chain[r.aggregator] \in Stamp
                               /\ lastTransmitted[i][r.aggregator] \in SUBSET Reports
  BY DEF TypeOK, TxTypeOK, Call, Handler

\* The queue after a report was put into it, wherever it is due.
LEMMA QueuedType ==
  ASSUME TypeOK, NEW i \in Oracles, NEW r \in Reports, DoTransmit(i, r)
  PROVE  /\ queue' \in [Oracles -> Seq(Reports)]
         /\ queue'[i] # <<>> /\ Head(queue'[i]) \in Reports
         /\ \A j \in Oracles \ {i} : queue'[j] = queue[j]
<1>1. queue[i] \in Seq(Reports)
  BY DEF TypeOK
<1>2. PICK k \in 1..Len(queue[i]) + 1 : queue' = [queue EXCEPT ![i] = InsertAt(queue[i], k, r)]
  BY DEF DoTransmit
<1> DEFINE q == InsertAt(queue[i], k, r)
<1>3. q \in Seq(Reports) /\ Len(q) = Len(queue[i]) + 1 /\ Len(queue[i]) \in Nat
  BY <1>1, InsertAtFacts, LenProperties
<1>4. q # <<>>
  BY <1>3, EmptySeq
<1>5. queue' = [queue EXCEPT ![i] = q]
  BY <1>2
<1> HIDE DEF q
<1>6. Head(q) \in Reports
  BY <1>3, <1>4, TailFacts
<1> QED
  BY <1>3, <1>4, <1>5, <1>6 DEF TypeOK

LEMMA AcceptsType ==
  ASSUME TypeOK, NEW i \in Oracles, NEW c \in calls[i], OnTransmitAccepts(i, c)
  PROVE  TypeOK'
<1>1. c.report \in Reports /\ c.report.aggregator \in Aggregators /\ DoTransmit(i, c.report)
  BY ServiceFacts DEF OnTransmitAccepts
<1>2. queue' \in [Oracles -> Seq(Reports)] /\ Head(queue'[i]) \in Reports
  BY <1>1, QueuedType
<1>3. /\ timer' \in [Oracles -> SUBSET Reports]
      /\ \A j \in Oracles : AtMostOne(timer'[j])
  BY <1>1, <1>2 DEF TypeOK, DoTransmit, RestartTimer, AtMostOne
<1>4. /\ lastTransmitted' \in [Oracles -> [Aggregators -> SUBSET Reports]]
      /\ \A j \in Oracles : \A a \in Aggregators : AtMostOne(lastTransmitted'[j][a])
  <2>1. lastTransmitted' = [lastTransmitted EXCEPT ![i][c.report.aggregator] = {c.report}]
    BY <1>1 DEF DoTransmit
  <2> QED
    BY <1>1, <2>1 DEF TypeOK, AtMostOne
<1>5. accepted' \in [Oracles -> SUBSET Reports]
  BY <1>1 DEF TypeOK, DoTransmit
<1>6. calls' \in [Oracles -> SUBSET Call] /\ UNCHANGED <<txVars, handlers, handed>>
  BY DEF TypeOK, OnTransmitAccepts
<1>7. TxTypeOK'
  BY <1>6 DEF TypeOK, TxTypeOK, txVars
<1> QED
  BY <1>2, <1>3, <1>4, <1>5, <1>6, <1>7 DEF TypeOK

LEMMA OnTransmitType ==
  ASSUME TypeOK, NEW i \in Oracles, NEW r \in Reports, OnTransmit(i, r)
  PROVE  TypeOK'
<1> DEFINE c == [report |-> r, seen |-> chain[r.aggregator]]
<1>1. c \in Call
  BY ServiceFacts DEF Call
<1>2. calls' = [calls EXCEPT ![i] = @ \cup {c}]
  BY DEF OnTransmit
<1> HIDE DEF c
<1>3. calls' \in [Oracles -> SUBSET Call]
  BY <1>1, <1>2 DEF TypeOK
<1>4. TxTypeOK'
  BY DEF TypeOK, OnTransmit, TxTypeOK, txVars
<1> QED
  BY <1>3, <1>4 DEF TypeOK, OnTransmit

LEMMA TimeoutType ==
  ASSUME TypeOK, NEW i \in Oracles, OnTransmitTimerTimeout(i)
  PROVE  TypeOK'
<1> DEFINE h == [report |-> Head(queue[i]), step |-> "read", seen |-> Genesis]
<1>1. Head(queue[i]) \in Reports /\ Tail(queue[i]) \in Seq(Reports)
  BY ServiceFacts, TailFacts DEF OnTransmitTimerTimeout
<1>2. h \in Handler
  BY <1>1 DEF Handler, Genesis, Stamp
<1>3. handlers' = [handlers EXCEPT ![i] = @ \cup {h}]
  BY DEF OnTransmitTimerTimeout
<1> HIDE DEF h
<1>4. handlers' \in [Oracles -> SUBSET Handler]
  BY <1>2, <1>3 DEF TypeOK
<1>5. TxTypeOK'
  BY DEF TypeOK, OnTransmitTimerTimeout, TxTypeOK, txVars
<1> QED
  BY <1>1, <1>4, <1>5 DEF TypeOK, OnTransmitTimerTimeout, AtMostOne

LEMMA EndHandlerType ==
  ASSUME TypeOK, NEW i \in Oracles, NEW h \in handlers[i], EndHandler(i, h), TxTypeOK'
  PROVE  TypeOK'
<1>1. queue[i] # <<>> => Head(queue[i]) \in Reports
  BY ServiceFacts, TailFacts
<1>2. /\ timer' \in [Oracles -> SUBSET Reports]
      /\ \A j \in Oracles : AtMostOne(timer'[j])
  <2>1. CASE queue[i] = <<>>
    BY <2>1 DEF TypeOK, EndHandler
  <2>2. CASE queue[i] # <<>>
    <3>1. timer' = [timer EXCEPT ![i] = {Head(queue[i])}]
      BY <2>2 DEF EndHandler, RestartTimer
    <3> QED
      BY <1>1, <2>2, <3>1 DEF TypeOK, AtMostOne
  <2> QED
    BY <2>1, <2>2
<1> QED
  BY <1>2 DEF TypeOK, EndHandler

LEMMA HandlerType ==
  ASSUME TypeOK, NEW i \in Oracles, NEW h \in handlers[i], HandlerStep(i, h)
  PROVE  TypeOK'
<1>1. CASE GetLastBlockchainReport(i, h)
  <2> DEFINE g == [h EXCEPT !.step = "decide", !.seen = chain[h.report.aggregator]]
  <2>1. g \in Handler
    BY ServiceFacts DEF Handler
  <2>2. handlers' = [handlers EXCEPT ![i] = (@ \ {h}) \cup {g}]
    BY <1>1 DEF GetLastBlockchainReport
  <2> HIDE DEF g
  <2>3. handlers' \in [Oracles -> SUBSET Handler]
    BY <2>1, <2>2 DEF TypeOK
  <2>4. TxTypeOK'
    BY <1>1 DEF TypeOK, GetLastBlockchainReport, TxTypeOK, txVars
  <2> QED
    BY <1>1, <2>3, <2>4 DEF TypeOK, GetLastBlockchainReport
<1>2. CASE SendReportBlockchain(i, h)
  <2> DEFINE g == [h EXCEPT !.step = "answer", !.seen = Genesis]
             c == [report |-> h.report, answer |-> "none"]
  <2>1. g \in Handler /\ c \in Caller /\ h.report \in Reports
    <3>1. h \in Handler /\ h.report \in Reports
      BY ServiceFacts
    <3>2. Genesis \in Stamp
      BY DEF Genesis, Stamp
    <3> QED
      BY <3>1, <3>2 DEF Handler, Caller
  <2>2. /\ handlers' = [handlers EXCEPT ![i] = (@ \ {h}) \cup {g}]
        /\ pool' = [pool EXCEPT ![i] = Append(@, h.report)]
        /\ callers' = [callers EXCEPT ![i] = @ \cup {c}]
    BY <1>2 DEF SendReportBlockchain, AddBatch
  <2> HIDE DEF g, c
  <2>3. handlers' \in [Oracles -> SUBSET Handler]
    BY <2>1, <2>2 DEF TypeOK
  <2>4. pool' \in [Oracles -> Seq(Reports)] /\ callers' \in [Oracles -> SUBSET Caller]
    BY <2>1, <2>2, AppendProperties DEF TypeOK, TxTypeOK
  <2>5. TxTypeOK'
    BY <1>2, <2>4 DEF TypeOK, SendReportBlockchain, TxTypeOK
  <2> QED
    BY <1>2, <2>3, <2>5 DEF TypeOK, SendReportBlockchain
<1>3. CASE DropObsolete(i, h)
  <2>1. TxTypeOK'
    BY <1>3 DEF TypeOK, DropObsolete, TxTypeOK, txVars
  <2> QED
    BY <1>3, <2>1, EndHandlerType DEF DropObsolete
<1>4. CASE BatchAnswered(i, h)
  <2>1. callers' \in [Oracles -> SUBSET Caller]
    BY <1>4 DEF BatchAnswered, TypeOK, TxTypeOK
  <2>2. TxTypeOK'
    BY <1>4, <2>1 DEF TypeOK, BatchAnswered, TxTypeOK
  <2> QED
    BY <1>4, <2>2, EndHandlerType DEF BatchAnswered
<1> QED
  BY <1>1, <1>2, <1>3, <1>4 DEF HandlerStep

LEMMA StepType == TypeOK /\ [Next]_vars => TypeOK'
<1> SUFFICES ASSUME TypeOK, [Next]_vars PROVE TypeOK'
  OBVIOUS
<1>1. ASSUME NEW i \in Oracles, NEW r \in Reports, OnTransmit(i, r) PROVE TypeOK'
  BY <1>1, OnTransmitType
<1>2. ASSUME NEW i \in Oracles, CallStep(i) PROVE TypeOK'
  <2>1. PICK c \in calls[i] : OnTransmitAccepts(i, c) \/ OnTransmitDiscards(i, c)
    BY <1>2 DEF CallStep
  <2>2. CASE OnTransmitDiscards(i, c)
    <3>1. TxTypeOK'
      BY <2>2 DEF TypeOK, OnTransmitDiscards, TxTypeOK, txVars
    <3> QED
      BY <2>2, <3>1 DEF TypeOK, OnTransmitDiscards
  <2> QED
    BY <2>1, <2>2, AcceptsType
<1>3. ASSUME NEW i \in Oracles, OnTransmitTimerTimeout(i) PROVE TypeOK'
  BY <1>3, TimeoutType
<1>4. ASSUME NEW i \in Oracles, NEW h \in handlers[i], HandlerStep(i, h) PROVE TypeOK'
  BY <1>4, HandlerType
<1>5. ASSUME NEW i \in Oracles, Restart(i) PROVE TypeOK'
  <2>1. TxTypeOK'
    BY <1>5, TxRestartType DEF Restart, TypeOK
  <2> QED
    BY <1>5, <2>1 DEF TypeOK, Restart, AtMostOne
<1>6. CASE TxNext /\ UNCHANGED serviceVars
  <2>1. TxTypeOK'
    BY <1>6, TxNextType DEF TypeOK
  <2> QED
    BY <1>6, <2>1 DEF TypeOK, serviceVars
<1>7. CASE UNCHANGED vars
  BY <1>7 DEF TypeOK, TxTypeOK, vars, txVars, serviceVars
<1> QED
  BY <1>1, <1>2, <1>3, <1>4, <1>5, <1>6, <1>7 DEF Next

\* The variables of the transmit service and of the transaction manager keep
\* their types: one timer, one batch under way, one cached report of each
\* aggregator, whatever fails.
THEOREM TypeCorrect == Spec => []TypeOK
<1> QED
  BY InitType, StepType, PTL DEF Spec

(***************************************************************************)
(* The queue and its timer                                                 *)
(***************************************************************************)

\* A handler of j goes on with the report it has, or no handler of j moves.
GoesOn(j) ==
  \/ handlers'[j] = handlers[j]
  \/ \E h \in handlers[j], g \in Handler :
       g.report = h.report /\ handlers'[j] = (handlers[j] \ {h}) \cup {g}

\* The steps that touch the queue, its timer or the cache.
LEMMA NextCases ==
  ASSUME TypeOK, [Next]_vars
  PROVE  \/ UNCHANGED <<queue, timer, lastTransmitted>> /\ \A j \in Oracles : GoesOn(j)
         \/ \E i \in Oracles : \E c \in calls[i] : OnTransmitAccepts(i, c)
         \/ \E i \in Oracles : OnTransmitTimerTimeout(i)
         \/ \E i \in Oracles : \E h \in handlers[i] : EndHandler(i, h)
         \/ \E i \in Oracles : Restart(i)
<1> DEFINE Quiet == UNCHANGED <<queue, timer, lastTransmitted>> /\ \A j \in Oracles : GoesOn(j)
<1>1. UNCHANGED <<queue, timer, lastTransmitted, handlers>> => Quiet
  BY DEF GoesOn
<1>2. ASSUME NEW i \in Oracles, NEW h \in handlers[i], NEW g \in Handler, g.report = h.report,
             handlers' = [handlers EXCEPT ![i] = (@ \ {h}) \cup {g}],
             UNCHANGED <<queue, timer, lastTransmitted>>
      PROVE  Quiet
  <2>1. ASSUME NEW j \in Oracles PROVE GoesOn(j)
    BY <1>2, <2>1 DEF GoesOn, TypeOK
  <2> QED
    BY <1>2, <2>1
<1>3. ASSUME NEW i \in Oracles, NEW h \in handlers[i], GetLastBlockchainReport(i, h)
      PROVE  Quiet
  <2> DEFINE g == [h EXCEPT !.step = "decide", !.seen = chain[h.report.aggregator]]
  <2>1. g \in Handler /\ g.report = h.report
    BY ServiceFacts DEF Handler
  <2>2. /\ handlers' = [handlers EXCEPT ![i] = (@ \ {h}) \cup {g}]
        /\ UNCHANGED <<queue, timer, lastTransmitted>>
    BY <1>3 DEF GetLastBlockchainReport
  <2> HIDE DEF g, Quiet
  <2> QED
    BY <1>2, <2>1, <2>2
<1>4. ASSUME NEW i \in Oracles, NEW h \in handlers[i], SendReportBlockchain(i, h)
      PROVE  Quiet
  <2> DEFINE g == [h EXCEPT !.step = "answer", !.seen = Genesis]
  <2>1. g \in Handler /\ g.report = h.report
    <3>1. h \in Handler /\ Genesis \in Stamp
      BY ServiceFacts DEF Genesis, Stamp
    <3> QED
      BY <3>1 DEF Handler
  <2>2. /\ handlers' = [handlers EXCEPT ![i] = (@ \ {h}) \cup {g}]
        /\ UNCHANGED <<queue, timer, lastTransmitted>>
    BY <1>4 DEF SendReportBlockchain
  <2> HIDE DEF g, Quiet
  <2> QED
    BY <1>2, <2>1, <2>2
<1>5. CASE UNCHANGED vars
  BY <1>1, <1>5 DEF vars, serviceVars
<1>6. CASE Next
  <2>1. ASSUME NEW i \in Oracles, NEW r \in Reports, OnTransmit(i, r) PROVE Quiet
    BY <1>1, <2>1 DEF OnTransmit
  <2>2. ASSUME NEW i \in Oracles, NEW c \in calls[i], OnTransmitDiscards(i, c) PROVE Quiet
    BY <1>1, <2>2 DEF OnTransmitDiscards
  <2>3. ASSUME TxNext /\ UNCHANGED serviceVars PROVE Quiet
    BY <1>1, <2>3 DEF serviceVars
  <2> HIDE DEF Quiet
  <2>4. ASSUME NEW i \in Oracles, CallStep(i)
        PROVE  Quiet \/ \E c \in calls[i] : OnTransmitAccepts(i, c)
    BY <2>2, <2>4 DEF CallStep
  <2>5. ASSUME NEW i \in Oracles, NEW h \in handlers[i], HandlerStep(i, h)
        PROVE  Quiet \/ EndHandler(i, h)
    BY <1>3, <1>4, <2>5 DEF HandlerStep, DropObsolete, BatchAnswered
  <2>6. \/ \E i \in Oracles : \E r \in Reports : OnTransmit(i, r)
        \/ \E i \in Oracles : CallStep(i)
        \/ \E i \in Oracles : OnTransmitTimerTimeout(i)
        \/ \E i \in Oracles : \E h \in handlers[i] : HandlerStep(i, h)
        \/ \E i \in Oracles : Restart(i)
        \/ TxNext /\ UNCHANGED serviceVars
    BY <1>6 DEF Next
  <2>7. \/ Quiet
        \/ \E i \in Oracles : \E c \in calls[i] : OnTransmitAccepts(i, c)
        \/ \E i \in Oracles : OnTransmitTimerTimeout(i)
        \/ \E i \in Oracles : \E h \in handlers[i] : EndHandler(i, h)
        \/ \E i \in Oracles : Restart(i)
    <3>1. CASE \E i \in Oracles : \E r \in Reports : OnTransmit(i, r)
      BY <2>1, <3>1
    <3>2. CASE \E i \in Oracles : CallStep(i)
      BY <2>4, <3>2
    <3>3. CASE \E i \in Oracles : \E h \in handlers[i] : HandlerStep(i, h)
      BY <2>5, <3>3
    <3>4. CASE TxNext /\ UNCHANGED serviceVars
      BY <2>3, <3>4
    <3> QED
      BY <2>6, <3>1, <3>2, <3>3, <3>4
  <2> QED
    BY <2>7 DEF Quiet
<1> QED
  BY <1>5, <1>6

LEMMA InitTimer == Init => TimerIsForHead /\ QueueIsServed
  BY DEF Init, TimerIsForHead, QueueIsServed

\* Whoever restarts the timer restarts it for the head of the queue, and the
\* head only changes together with the timer.
LEMMA StepTimer == TypeOK /\ TimerIsForHead /\ [Next]_vars => TimerIsForHead'
<1> SUFFICES ASSUME TypeOK, TimerIsForHead, [Next]_vars, NEW j \in Oracles, timer'[j] # {}
             PROVE  queue'[j] # <<>> /\ timer'[j] = {Head(queue'[j])}
  BY DEF TimerIsForHead
<1>1. CASE UNCHANGED <<queue, timer, lastTransmitted>>
  BY <1>1 DEF TimerIsForHead
<1>2. ASSUME NEW i \in Oracles, NEW c \in calls[i], OnTransmitAccepts(i, c)
      PROVE  queue'[j] # <<>> /\ timer'[j] = {Head(queue'[j])}
  <2>1. c.report \in Reports /\ DoTransmit(i, c.report)
    BY <1>2, ServiceFacts DEF OnTransmitAccepts
  <2>2. queue'[i] # <<>> /\ \A k \in Oracles \ {i} : queue'[k] = queue[k]
    BY <2>1, QueuedType
  <2> QED
    BY <2>1, <2>2 DEF DoTransmit, RestartTimer, TimerIsForHead, TypeOK
<1>3. ASSUME NEW i \in Oracles, OnTransmitTimerTimeout(i)
      PROVE  queue'[j] # <<>> /\ timer'[j] = {Head(queue'[j])}
  BY <1>3 DEF OnTransmitTimerTimeout, TimerIsForHead, TypeOK
<1>4. ASSUME NEW i \in Oracles, NEW h \in handlers[i], EndHandler(i, h)
      PROVE  queue'[j] # <<>> /\ timer'[j] = {Head(queue'[j])}
  BY <1>4 DEF EndHandler, RestartTimer, TimerIsForHead, TypeOK
<1>5. ASSUME NEW i \in Oracles, Restart(i)
      PROVE  queue'[j] # <<>> /\ timer'[j] = {Head(queue'[j])}
  BY <1>5 DEF Restart, TimerIsForHead, TypeOK
<1> QED
  BY <1>1, <1>2, <1>3, <1>4, <1>5, NextCases

\* A handler that ends leaves the timer armed if there is a queue.
LEMMA StepServed == TypeOK /\ QueueIsServed /\ [Next]_vars => QueueIsServed'
<1> SUFFICES ASSUME TypeOK, QueueIsServed, [Next]_vars, NEW j \in Oracles, queue'[j] # <<>>
             PROVE  timer'[j] # {} \/ handlers'[j] # {}
  BY DEF QueueIsServed
<1>1. CASE UNCHANGED <<queue, timer, lastTransmitted>> /\ \A k \in Oracles : GoesOn(k)
  BY <1>1 DEF QueueIsServed, GoesOn
<1>2. ASSUME NEW i \in Oracles, NEW c \in calls[i], OnTransmitAccepts(i, c)
      PROVE  timer'[j] # {} \/ handlers'[j] # {}
  <2>1. c.report \in Reports /\ DoTransmit(i, c.report) /\ UNCHANGED handlers
    BY <1>2, ServiceFacts DEF OnTransmitAccepts
  <2>2. \A k \in Oracles \ {i} : queue'[k] = queue[k]
    BY <2>1, QueuedType
  <2>3. timer' = [timer EXCEPT ![i] = {Head(queue'[i])}]
    BY <2>1 DEF DoTransmit, RestartTimer
  <2>4. CASE i = j
    BY <2>3, <2>4 DEF TypeOK
  <2>5. CASE i # j
    BY <2>1, <2>2, <2>3, <2>5 DEF QueueIsServed, TypeOK
  <2> QED
    BY <2>4, <2>5
<1>3. ASSUME NEW i \in Oracles, OnTransmitTimerTimeout(i)
      PROVE  timer'[j] # {} \/ handlers'[j] # {}
  BY <1>3 DEF OnTransmitTimerTimeout, QueueIsServed, TypeOK
<1>4. ASSUME NEW i \in Oracles, NEW h \in handlers[i], EndHandler(i, h)
      PROVE  timer'[j] # {} \/ handlers'[j] # {}
  BY <1>4 DEF EndHandler, RestartTimer, QueueIsServed, TypeOK
<1>5. ASSUME NEW i \in Oracles, Restart(i)
      PROVE  timer'[j] # {} \/ handlers'[j] # {}
  BY <1>5 DEF Restart, QueueIsServed, TypeOK
<1> QED
  BY <1>1, <1>2, <1>3, <1>4, <1>5, NextCases

\* An armed timer is armed for the report that is due first, and the branch of
\* _onTransmitTimerTimeout for an empty queue is never taken.
THEOREM TimerRunsForHead == Spec => []TimerIsForHead
<1> QED
  BY InitType, StepType, InitTimer, StepTimer, PTL DEF Spec

\* While reports are queued, the timer is armed or a handler will arm it: no
\* interleaving of onTransmit with the handlers leaves the queue unattended.
THEOREM QueueServed == Spec => []QueueIsServed
<1> QED
  BY InitType, StepType, InitTimer, StepServed, PTL DEF Spec

(***************************************************************************)
(* The cache and what is pending                                           *)
(***************************************************************************)

\* Inserting a new element into a sequence without repetitions.
LEMMA InsertNew ==
  ASSUME NEW S, NEW s \in Seq(S), NEW k \in 1..Len(s) + 1, NEW e \in S
  PROVE  /\ ToSet(InsertAt(s, k, e)) = ToSet(s) \cup {e}
         /\ IsInjective(s) /\ e \notin ToSet(s) => IsInjective(InsertAt(s, k, e))
<1> DEFINE t == InsertAt(s, k, e)
<1>1. /\ Len(s) \in Nat /\ DOMAIN s = 1..Len(s)
      /\ DOMAIN t = 1..Len(s) + 1
      /\ \A n \in 1..Len(s) + 1 : t[n] = IF n < k THEN s[n] ELSE IF n = k THEN e ELSE s[n - 1]
  BY InsertAtFacts, LenProperties
<1> HIDE DEF t
<1>2. ASSUME NEW x \in ToSet(s) PROVE x \in ToSet(t)
  <2>1. PICK n \in 1..Len(s) : x = s[n]
    BY <1>1 DEF ToSet
  <2>2. CASE n < k
    <3>1. n \in 1..Len(s) + 1 /\ t[n] = s[n]
      BY <1>1, <2>2
    <3> QED
      BY <1>1, <2>1, <3>1 DEF ToSet
  <2>3. CASE n >= k
    <3>1. n + 1 \in 1..Len(s) + 1 /\ ~(n + 1 < k) /\ n + 1 # k /\ n + 1 - 1 = n
      BY <1>1, <2>3
    <3>2. t[n + 1] = s[n]
      BY <1>1, <3>1
    <3> QED
      BY <1>1, <2>1, <3>1, <3>2 DEF ToSet
  <2> QED
    BY <1>1, <2>2, <2>3
<1>3. e \in ToSet(t)
  BY <1>1 DEF ToSet
<1>4. ToSet(t) \subseteq ToSet(s) \cup {e}
  BY <1>1 DEF ToSet
<1>5. ASSUME IsInjective(s), e \notin ToSet(s) PROVE IsInjective(t)
  <2>1. SUFFICES ASSUME NEW m \in 1..Len(s) + 1, NEW n \in 1..Len(s) + 1, t[m] = t[n], m < n
                 PROVE  FALSE
    BY <1>1 DEF IsInjective
  <2>2. \A l \in 1..Len(s) : s[l] # e
    BY <1>1, <1>5 DEF ToSet
  <2>3. \A l, p \in 1..Len(s) : s[l] = s[p] => l = p
    BY <1>1, <1>5 DEF IsInjective
  <2> QED
    BY <1>1, <2>1, <2>2, <2>3
<1> QED
  BY <1>2, <1>3, <1>4, <1>5 DEF t

\* Taking the head off a sequence without repetitions.
LEMMA TailOfInjective ==
  ASSUME NEW S, NEW s \in Seq(S), s # <<>>, IsInjective(s)
  PROVE  /\ ToSet(s) = ToSet(Tail(s)) \cup {Head(s)}
         /\ Head(s) \notin ToSet(Tail(s))
         /\ IsInjective(Tail(s))
<1> DEFINE t == Tail(s)
<1>1. /\ Len(s) \in Nat /\ Len(s) > 0 /\ DOMAIN s = 1..Len(s)
      /\ DOMAIN t = 1..Len(s) - 1
      /\ Head(s) = s[1]
      /\ \A n \in 1..Len(s) - 1 : t[n] = s[n + 1]
  BY TailFacts, LenProperties
<1> HIDE DEF t
<1>2. \A l, p \in 1..Len(s) : s[l] = s[p] => l = p
  BY <1>1 DEF IsInjective
<1>3. ASSUME NEW x \in ToSet(s), x # s[1] PROVE x \in ToSet(t)
  <2>1. PICK n \in 1..Len(s) : x = s[n] /\ n # 1
    BY <1>1, <1>3 DEF ToSet
  <2>2. n - 1 \in 1..Len(s) - 1 /\ n - 1 + 1 = n
    BY <1>1, <2>1
  <2> QED
    BY <1>1, <2>1, <2>2 DEF ToSet
<1>4. ToSet(t) \cup {s[1]} \subseteq ToSet(s)
  BY <1>1 DEF ToSet
<1>5. s[1] \notin ToSet(t)
  BY <1>1, <1>2 DEF ToSet
<1>6. IsInjective(t)
  BY <1>1, <1>2 DEF IsInjective
<1> QED
  BY <1>1, <1>3, <1>4, <1>5, <1>6 DEF t

\* What CacheCoversPending says of one oracle.
Covers(i) ==
  /\ IsInjective(queue[i])
  /\ ToSet(queue[i]) \cap InFlight(i) = {}
  /\ \A g, h \in handlers[i] : g.report = h.report => g = h
  /\ \A r \in ToSet(queue[i]) \cup InFlight(i) :
       \E l \in lastTransmitted[i][r.aggregator] : IsNewerOrEqual(r, l)

\* A handler that goes on keeps its report, and no other has it.
LEMMA GoesOnCovers ==
  ASSUME TypeOK, NEW j \in Oracles, Covers(j), GoesOn(j),
         UNCHANGED <<queue, lastTransmitted>>
  PROVE  Covers(j)'
<1>1. CASE handlers'[j] = handlers[j]
  BY <1>1 DEF Covers, InFlight
<1>2. CASE \E h \in handlers[j], g \in Handler :
             g.report = h.report /\ handlers'[j] = (handlers[j] \ {h}) \cup {g}
  <2>1. PICK h \in handlers[j], g \in Handler :
             g.report = h.report /\ handlers'[j] = (handlers[j] \ {h}) \cup {g}
    BY <1>2
  <2>2. InFlight(j)' = InFlight(j)
    <3>1. InFlight(j)' = {x.report : x \in handlers'[j]}
      BY DEF InFlight
    <3> QED
      BY <2>1, <3>1 DEF InFlight
  <2>3. \A x, y \in handlers'[j] : x.report = y.report => x = y
    BY <2>1 DEF Covers
  <2> QED
    BY <2>2, <2>3 DEF Covers
<1> QED
  BY <1>1, <1>2 DEF GoesOn

\* What is accepted is newer than the cache, so it is not pending already.
LEMMA AcceptsCovers ==
  ASSUME TypeOK, NEW i \in Oracles, NEW c \in calls[i], OnTransmitAccepts(i, c),
         NEW j \in Oracles, Covers(j)
  PROVE  Covers(j)'
<1> DEFINE r == c.report
           last == lastTransmitted[i][r.aggregator]
<1>1. /\ r \in Reports /\ r.aggregator \in Aggregators
      /\ DoTransmit(i, r) /\ UNCHANGED handlers
      /\ \A l \in last : ~IsNewerOrEqual(r, l)
  BY ServiceFacts DEF OnTransmitAccepts, Accepts
<1>2. InFlight(j)' = InFlight(j)
  BY <1>1 DEF InFlight
<1>3. CASE j # i
  <2>1. queue'[j] = queue[j] /\ lastTransmitted'[j] = lastTransmitted[j]
    BY <1>1, <1>3, QueuedType DEF DoTransmit, TypeOK
  <2> QED
    BY <1>1, <1>2, <2>1 DEF Covers
<1>4. CASE j = i
  <2> DEFINE pending == ToSet(queue[i]) \cup InFlight(i)
  <2>1. pending \subseteq Reports
    <3>1. ToSet(queue[i]) \subseteq Reports
      BY ServiceFacts, LenProperties DEF ToSet
    <3>2. InFlight(i) \subseteq Reports
      BY ServiceFacts DEF InFlight
    <3> QED
      BY <3>1, <3>2
  <2>2. r \notin pending
    BY <1>1, <1>4 DEF Covers
  <2>3. PICK k \in 1..Len(queue[i]) + 1 : queue' = [queue EXCEPT ![i] = InsertAt(queue[i], k, r)]
    BY <1>1 DEF DoTransmit
  <2>4. queue'[i] = InsertAt(queue[i], k, r) /\ queue[i] \in Seq(Reports)
    BY <2>3 DEF TypeOK
  <2>5. ToSet(queue'[i]) = ToSet(queue[i]) \cup {r} /\ IsInjective(queue'[i])
    <3>1. IsInjective(queue[i]) /\ r \notin ToSet(queue[i]) /\ r \in Reports
      BY <1>1, <1>4, <2>2 DEF Covers
    <3> HIDE DEF r
    <3> QED
      BY <2>4, <3>1, InsertNew
  <2>6. ASSUME NEW p \in pending \cup {r}
        PROVE  \E l \in lastTransmitted'[i][p.aggregator] : IsNewerOrEqual(p, l)
    <3>1. p \in Reports /\ p.epoch \in Nat /\ p.round \in Nat /\ p.aggregator \in Aggregators
      BY <1>1, <2>1
    <3>2. r.epoch \in Nat /\ r.round \in Nat
      BY <1>1
    <3>3. lastTransmitted'[i] = [lastTransmitted[i] EXCEPT ![r.aggregator] = {r}]
      BY <1>1 DEF DoTransmit, TypeOK
    <3>4. CASE p.aggregator # r.aggregator
      <4>1. lastTransmitted'[i][p.aggregator] = lastTransmitted[i][p.aggregator] /\ p \in pending
        BY <3>1, <3>3, <3>4 DEF TypeOK
      <4> QED
        BY <1>4, <4>1 DEF Covers
    <3>5. CASE p.aggregator = r.aggregator
      <4>1. lastTransmitted'[i][p.aggregator] = {r}
        BY <1>1, <3>1, <3>3, <3>5 DEF TypeOK
      <4>2. IsNewerOrEqual(p, r)
        <5>1. CASE p = r
          BY <3>2, <5>1 DEF IsNewerOrEqual
        <5>2. CASE p # r
          <6>1. PICK l \in last : IsNewerOrEqual(p, l)
            BY <1>4, <3>5, <5>2 DEF Covers
          <6>2. l.epoch \in Nat /\ l.round \in Nat
            BY <1>1, ServiceFacts
          <6> QED
            BY <1>1, <3>1, <3>2, <6>1, <6>2 DEF IsNewerOrEqual
        <5> QED
          BY <5>1, <5>2
      <4> QED
        BY <4>1, <4>2
    <3> QED
      BY <3>4, <3>5
  <2> QED
    BY <1>1, <1>2, <1>4, <2>2, <2>5, <2>6 DEF Covers
<1> QED
  BY <1>3, <1>4

\* The head of the queue goes to a handler.
LEMMA TimeoutCovers ==
  ASSUME TypeOK, NEW i \in Oracles, OnTransmitTimerTimeout(i), NEW j \in Oracles, Covers(j)
  PROVE  Covers(j)'
<1>1. CASE j # i
  <2>1. /\ queue'[j] = queue[j] /\ handlers'[j] = handlers[j]
        /\ lastTransmitted'[j] = lastTransmitted[j]
    BY <1>1 DEF OnTransmitTimerTimeout, TypeOK
  <2> QED
    BY <2>1 DEF Covers, InFlight
<1>2. CASE j = i
  <2> DEFINE h == [report |-> Head(queue[i]), step |-> "read", seen |-> Genesis]
  <2>1. /\ queue[i] \in Seq(Reports) /\ queue[i] # <<>>
        /\ queue'[i] = Tail(queue[i]) /\ lastTransmitted' = lastTransmitted
        /\ handlers'[i] = handlers[i] \cup {h}
    BY DEF OnTransmitTimerTimeout, TypeOK
  <2>2. /\ ToSet(queue[i]) = ToSet(queue'[i]) \cup {h.report}
        /\ h.report \notin ToSet(queue'[i])
        /\ IsInjective(queue'[i])
    <3>1. h.report = Head(queue[i]) /\ IsInjective(queue[i])
      BY <1>2 DEF Covers
    <3> QED
      BY <2>1, <3>1, TailOfInjective
  <2> HIDE DEF h
  <2>3. h.report \notin InFlight(i)
    BY <1>2, <2>2 DEF Covers
  <2>4. InFlight(i)' = InFlight(i) \cup {h.report}
    <3>1. InFlight(i)' = {x.report : x \in handlers'[i]}
      BY DEF InFlight
    <3> QED
      BY <2>1, <3>1 DEF InFlight
  <2>5. \A x, y \in handlers'[i] : x.report = y.report => x = y
    BY <1>2, <2>1, <2>3 DEF Covers, InFlight
  <2>6. ToSet(queue'[i]) \cap InFlight(i)' = {}
    BY <1>2, <2>2, <2>4 DEF Covers
  <2>7. ToSet(queue'[i]) \cup InFlight(i)' = ToSet(queue[i]) \cup InFlight(i)
    BY <2>2, <2>4
  <2> QED
    BY <1>2, <2>1, <2>2, <2>5, <2>6, <2>7 DEF Covers
<1> QED
  BY <1>1, <1>2

LEMMA EndHandlerCovers ==
  ASSUME TypeOK, NEW i \in Oracles, NEW h \in handlers[i], EndHandler(i, h),
         NEW j \in Oracles, Covers(j)
  PROVE  Covers(j)'
<1>1. UNCHANGED <<queue, lastTransmitted>> /\ handlers'[j] \subseteq handlers[j]
  BY DEF EndHandler, TypeOK
<1>2. InFlight(j)' \subseteq InFlight(j)
  BY <1>1 DEF InFlight
<1> QED
  BY <1>1, <1>2 DEF Covers

LEMMA RestartCovers ==
  ASSUME TypeOK, NEW i \in Oracles, Restart(i), NEW j \in Oracles, Covers(j)
  PROVE  Covers(j)'
<1>1. CASE j # i
  <2>1. /\ queue'[j] = queue[j] /\ handlers'[j] = handlers[j]
        /\ lastTransmitted'[j] = lastTransmitted[j]
    BY <1>1 DEF Restart, TypeOK
  <2> QED
    BY <2>1 DEF Covers, InFlight
<1>2. CASE j = i
  <2>1. queue'[j] = <<>> /\ handlers'[j] = {}
    BY <1>2 DEF Restart, TypeOK
  <2>2. InFlight(j)' = {} /\ ToSet(queue'[j]) = {}
    BY <2>1 DEF InFlight, ToSet
  <2> QED
    BY <2>1, <2>2 DEF Covers, IsInjective
<1> QED
  BY <1>1, <1>2

\* However the awaits of onTransmit and of the handlers interleave, no report
\* is queued or under way twice, and none that is is newer than the cache.
THEOREM NothingPendingTwice == Spec => []CacheCoversPending
<1>1. CacheCoversPending <=> \A j \in Oracles : Covers(j)
  BY DEF CacheCoversPending, Covers
<1>2. Init => CacheCoversPending
  BY DEF Init, CacheCoversPending, InFlight, ToSet, IsInjective
<1>3. TypeOK /\ CacheCoversPending /\ [Next]_vars => CacheCoversPending'
  <2> SUFFICES ASSUME TypeOK, CacheCoversPending, [Next]_vars, NEW j \in Oracles
               PROVE  Covers(j)'
    BY DEF CacheCoversPending, Covers
  <2>1. Covers(j)
    BY <1>1
  <2> QED
    BY <2>1, NextCases, GoesOnCovers, AcceptsCovers, TimeoutCovers, EndHandlerCovers,
       RestartCovers
<1> QED
  BY <1>2, <1>3, InitType, StepType, PTL DEF Spec

(***************************************************************************)
(* The callers of the transaction manager                                  *)
(***************************************************************************)

HasABatch(i, r) ==
  \/ \E k \in DOMAIN pool[i] : pool[i][k] = r
  \/ \E b \in executing[i] : b.report = r

\* Of those that wait, an answer wakes the one that waits for this report.
LEMMA AnswerWakes ==
  ASSUME TxTypeOK, NEW i \in Oracles, NEW r \in Reports, NEW a \in {"success", "error"},
         Answer(i, r, a), NEW j \in Oracles, NEW c \in callers'[j], c.answer = "none"
  PROVE  c \in callers[j] /\ (j = i => c.report # r)
<1> DEFINE waiting == [report |-> r, answer |-> "none"]
           answered == [waiting EXCEPT !.answer = a]
<1>1. callers' = [callers EXCEPT ![i] =
        IF waiting \in @ THEN (@ \ {waiting}) \cup {answered} ELSE @]
  BY DEF Answer
<1>2. answered.answer # "none"
  OBVIOUS
<1>3. c \in Caller /\ (c.report = r => c = waiting)
  BY AnswerType DEF Caller
<1> HIDE DEF waiting, answered
<1> QED
  BY <1>1, <1>2, <1>3 DEF TxTypeOK

\* A batch that leaves the pool is worked on.
LEMMA ExecuteBatchKeeps ==
  ASSUME TxTypeOK, NEW i \in Oracles, ExecuteBatch(i), NEW j \in Oracles, NEW r \in Reports,
         HasABatch(j, r)
  PROVE  HasABatch(j, r)'
<1>1. CASE j # i
  <2>1. pool'[j] = pool[j] /\ executing'[j] = executing[j]
    BY <1>1 DEF ExecuteBatch, TxTypeOK
  <2> QED
    BY <2>1 DEF HasABatch
<1>2. CASE j = i
  <2> DEFINE b == [report |-> Head(pool[i]), stage |-> "estimate"]
  <2>1. /\ pool[i] \in Seq(Reports) /\ pool[i] # <<>> /\ executing[i] = {}
        /\ pool'[i] = Tail(pool[i]) /\ executing'[i] = {b}
    BY DEF ExecuteBatch, TxTypeOK
  <2>2. PICK k \in DOMAIN pool[i] : pool[i][k] = r
    BY <1>2, <2>1 DEF HasABatch
  <2>3. /\ Head(pool[i]) = pool[i][1] /\ Len(pool[i]) \in Nat
        /\ DOMAIN pool[i] = 1..Len(pool[i])
        /\ DOMAIN pool'[i] = 1..Len(pool[i]) - 1
        /\ \A n \in 1..Len(pool[i]) - 1 : pool'[i][n] = pool[i][n + 1]
    BY <2>1, TailFacts, LenProperties
  <2>4. CASE k = 1
    BY <1>2, <2>1, <2>2, <2>3, <2>4 DEF HasABatch
  <2>5. CASE k # 1
    <3>1. k - 1 \in 1..Len(pool[i]) - 1 /\ k - 1 + 1 = k
      BY <2>2, <2>3, <2>5
    <3>2. pool'[i][k - 1] = r
      BY <2>2, <2>3, <3>1
    <3> QED
      BY <1>2, <2>3, <3>1, <3>2 DEF HasABatch
  <2> QED
    BY <2>4, <2>5
<1> QED
  BY <1>1, <1>2

\* A step of _executeBatch either goes on with the batch or answers its caller.
LEMMA BatchStepKeeps ==
  ASSUME TxTypeOK, EveryCallerHasABatch, NEW i \in Oracles, NEW b \in executing[i],
         \/ Estimate(i, b) \/ EstimateFails(i, b)
         \/ Send(i, b) \/ SendFails(i, b)
         \/ Confirm(i, b) \/ ConfirmTimesOut(i, b),
         NEW j \in Oracles, NEW c \in callers'[j], c.answer = "none"
  PROVE  HasABatch(j, c.report)'
<1>1. UNCHANGED pool /\ b.report \in Reports /\ b \in Batch /\ executing[i] = {b}
  BY DEF TxTypeOK, Batch, AtMostOne,
         Estimate, EstimateFails, Send, SendFails, Confirm, ConfirmTimesOut
<1>2. CASE \E stage \in {"send", "confirm"} : GoOn(i, b, stage)
  <2>1. PICK stage \in {"send", "confirm"} : GoOn(i, b, stage)
    BY <1>2
  <2> DEFINE d == [b EXCEPT !.stage = stage]
  <2>2. d.report = b.report
    BY <1>1 DEF Batch
  <2>3. executing' = [executing EXCEPT ![i] = {d}]
    BY <2>1 DEF GoOn
  <2> HIDE DEF d
  <2>4. c \in callers[j]
    <3>1. UNCHANGED callers \/ \E a \in {"success", "error"} : Answer(i, b.report, a)
      BY DEF Estimate, EstimateFails, Send, SendFails, Confirm, ConfirmTimesOut
    <3> QED
      BY <1>1, <3>1, AnswerWakes
  <2>5. HasABatch(j, c.report)
    BY <2>4 DEF EveryCallerHasABatch, HasABatch
  <2> QED
    BY <1>1, <2>2, <2>3, <2>5 DEF HasABatch, TxTypeOK
<1>3. CASE Finish(i) /\ \E a \in {"success", "error"} : Answer(i, b.report, a)
  <2>1. c \in callers[j] /\ (j = i => c.report # b.report)
    BY <1>1, <1>3, AnswerWakes
  <2>2. HasABatch(j, c.report)
    BY <2>1 DEF EveryCallerHasABatch, HasABatch
  <2>3. executing' = [executing EXCEPT ![i] = {}]
    BY <1>3 DEF Finish
  <2> QED
    BY <1>1, <2>1, <2>2, <2>3 DEF HasABatch, TxTypeOK
<1> QED
  BY <1>2, <1>3 DEF Estimate, EstimateFails, Send, SendFails, Confirm, ConfirmTimesOut

\* A batch that is added has a caller that waits, and the others keep theirs.
LEMMA AddBatchKeeps ==
  ASSUME TxTypeOK, EveryCallerHasABatch, NEW i \in Oracles, NEW r \in Reports, AddBatch(i, r),
         UNCHANGED executing, NEW j \in Oracles, NEW c \in callers'[j], c.answer = "none"
  PROVE  HasABatch(j, c.report)'
<1>1. /\ pool'[i] = Append(pool[i], r) /\ pool[i] \in Seq(Reports)
      /\ callers'[i] = callers[i] \cup {[report |-> r, answer |-> "none"]}
      /\ \A k \in Oracles \ {i} : pool'[k] = pool[k] /\ callers'[k] = callers[k]
  BY DEF AddBatch, TxTypeOK
<1>2. /\ DOMAIN pool[i] = 1..Len(pool[i]) /\ Len(pool[i]) \in Nat
      /\ DOMAIN pool'[i] = 1..Len(pool[i]) + 1
      /\ \A n \in 1..Len(pool[i]) : pool'[i][n] = pool[i][n]
      /\ pool'[i][Len(pool[i]) + 1] = r
  BY <1>1, AppendProperties, LenProperties
<1>3. CASE c \in callers[j]
  <2>1. HasABatch(j, c.report)
    BY <1>3 DEF EveryCallerHasABatch, HasABatch
  <2>2. CASE j = i
    BY <1>2, <2>1, <2>2 DEF HasABatch
  <2>3. CASE j # i
    BY <1>1, <2>1, <2>3 DEF HasABatch
  <2> QED
    BY <2>2, <2>3
<1>4. CASE c \notin callers[j]
  <2>1. j = i /\ c.report = r
    BY <1>1, <1>4
  <2>2. Len(pool[i]) + 1 \in DOMAIN pool'[i]
    BY <1>2
  <2> QED
    BY <1>2, <2>1, <2>2 DEF HasABatch
<1> QED
  BY <1>3, <1>4

\* The steps that touch the pool, the batch under way or the callers.
LEMMA TxCases ==
  ASSUME [Next]_vars
  PROVE  \/ UNCHANGED <<pool, executing, callers>>
         \/ \E i \in Oracles : ExecuteBatch(i)
         \/ \E i \in Oracles : \E b \in executing[i] :
              \/ Estimate(i, b) \/ EstimateFails(i, b)
              \/ Send(i, b) \/ SendFails(i, b)
              \/ Confirm(i, b) \/ ConfirmTimesOut(i, b)
         \/ \E i \in Oracles : \E h \in handlers[i] :
              AddBatch(i, h.report) /\ UNCHANGED executing
         \/ \E i \in Oracles : \E h \in handlers[i] : BatchAnswered(i, h)
         \/ \E i \in Oracles : TxRestart(i)
<1>1. CASE UNCHANGED vars
  BY <1>1 DEF vars, txVars
<1>2. CASE Next
  <2>1. ASSUME NEW i \in Oracles, NEW r \in Reports, OnTransmit(i, r)
        PROVE  UNCHANGED <<pool, executing, callers>>
    BY <2>1 DEF OnTransmit, txVars
  <2>2. ASSUME NEW i \in Oracles, CallStep(i)
        PROVE  UNCHANGED <<pool, executing, callers>>
    BY <2>2 DEF CallStep, OnTransmitAccepts, OnTransmitDiscards, txVars
  <2>3. ASSUME NEW i \in Oracles, OnTransmitTimerTimeout(i)
        PROVE  UNCHANGED <<pool, executing, callers>>
    BY <2>3 DEF OnTransmitTimerTimeout, txVars
  <2>4. ASSUME NEW i \in Oracles, NEW h \in handlers[i], HandlerStep(i, h)
        PROVE  \/ UNCHANGED <<pool, executing, callers>>
               \/ AddBatch(i, h.report) /\ UNCHANGED executing
               \/ BatchAnswered(i, h)
    BY <2>4 DEF HandlerStep, GetLastBlockchainReport, SendReportBlockchain, DropObsolete, txVars
  <2>5. ASSUME NEW i \in Oracles, Restart(i) PROVE TxRestart(i)
    BY <2>5 DEF Restart
  <2>6. ASSUME NEW op \in mempool, Include(op) PROVE UNCHANGED <<pool, executing, callers>>
    BY <2>6 DEF Include
  <2>7. \/ \E i \in Oracles : \E r \in Reports : OnTransmit(i, r)
        \/ \E i \in Oracles : CallStep(i)
        \/ \E i \in Oracles : OnTransmitTimerTimeout(i)
        \/ \E i \in Oracles : \E h \in handlers[i] : HandlerStep(i, h)
        \/ \E i \in Oracles : Restart(i)
        \/ \E i \in Oracles : ExecuteStep(i)
        \/ \E op \in mempool : Include(op)
    BY <1>2 DEF Next, TxNext
  <2> QED
    BY <2>1, <2>2, <2>3, <2>4, <2>5, <2>6, <2>7 DEF ExecuteStep
<1> QED
  BY <1>1, <1>2

\* Whatever fails between the pool and the confirmation, and whoever else uses
\* the pool, a caller that still waits has a batch whose end will answer it.
THEOREM CallersAreServed == Spec => []EveryCallerHasABatch
<1>1. Init => EveryCallerHasABatch
  BY DEF Init, TxInit, EveryCallerHasABatch
<1>2. TypeOK /\ EveryCallerHasABatch /\ [Next]_vars => EveryCallerHasABatch'
  <2> SUFFICES ASSUME TypeOK, EveryCallerHasABatch, [Next]_vars,
                      NEW j \in Oracles, NEW c \in callers'[j], c.answer = "none"
               PROVE  HasABatch(j, c.report)'
    BY DEF EveryCallerHasABatch, HasABatch
  <2>1. TxTypeOK
    BY DEF TypeOK
  <2>2. c \in callers[j] => c.report \in Reports /\ HasABatch(j, c.report)
    BY <2>1 DEF TxTypeOK, Caller, EveryCallerHasABatch, HasABatch
  <2>3. CASE UNCHANGED <<pool, executing, callers>>
    BY <2>2, <2>3 DEF HasABatch
  <2>4. ASSUME NEW i \in Oracles, ExecuteBatch(i) PROVE HasABatch(j, c.report)'
    BY <2>1, <2>2, <2>4, ExecuteBatchKeeps DEF ExecuteBatch
  <2>5. ASSUME NEW i \in Oracles, NEW b \in executing[i],
               \/ Estimate(i, b) \/ EstimateFails(i, b)
               \/ Send(i, b) \/ SendFails(i, b)
               \/ Confirm(i, b) \/ ConfirmTimesOut(i, b)
        PROVE  HasABatch(j, c.report)'
    BY <2>1, <2>5, BatchStepKeeps
  <2>6. ASSUME NEW i \in Oracles, NEW h \in handlers[i],
               AddBatch(i, h.report) /\ UNCHANGED executing
        PROVE  HasABatch(j, c.report)'
    BY <2>1, <2>6, ServiceFacts, AddBatchKeeps
  <2>7. ASSUME NEW i \in Oracles, NEW h \in handlers[i], BatchAnswered(i, h)
        PROVE  HasABatch(j, c.report)'
    <3>1. c \in callers[j] /\ UNCHANGED <<pool, executing>>
      BY <2>1, <2>7 DEF BatchAnswered, TxTypeOK
    <3> QED
      BY <2>2, <3>1 DEF HasABatch
  <2>8. ASSUME NEW i \in Oracles, TxRestart(i) PROVE HasABatch(j, c.report)'
    <3>1. j # i /\ c \in callers[j] /\ pool'[j] = pool[j] /\ executing'[j] = executing[j]
      BY <2>1, <2>8 DEF TxRestart, TxTypeOK
    <3> QED
      BY <2>2, <3>1 DEF HasABatch
  <2> QED
    BY <2>3, <2>4, <2>5, <2>6, <2>7, <2>8, TxCases
<1> QED
  BY <1>1, <1>2, InitType, StepType, PTL DEF Spec
=============================================================================
