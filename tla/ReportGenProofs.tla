--------------------------- MODULE ReportGenProofs ---------------------------
(***************************************************************************)
(* Proofs about ReportGen, for any number of oracles, rounds and crashes.  *)
(***************************************************************************)
EXTENDS ReportGen, SequenceTheorems, FiniteSetTheorems, TLAPS

USE OraclesAssumption, BoundsAssumption

(***************************************************************************)
(* Type correctness                                                        *)
(***************************************************************************)

\* There is a leader, so there is an oracle, and F is a number.
LEMMA FType == F \in Nat /\ 3 * F + 1 <= Cardinality(Oracles)
<1>1. Cardinality(Oracles) \in Nat
  BY FS_CardinalityType
<1>2. Oracles # {}
  OBVIOUS
<1>3. Cardinality(Oracles) # 0
  BY <1>2, FS_EmptySet
<1>4. Cardinality(Oracles) - 1 \in Nat
  BY <1>1, <1>3
<1>5. \A n \in Nat : n \div 3 \in Nat /\ 3 * (n \div 3) <= n
  BY SMT
<1> QED
  BY <1>4, <1>5, <1>1 DEF F

\* Every new instance of an oracle was paid for with a crash.
CrashesCounted ==
  \A i \in Oracles : IF running[i] \/ i \in Absent THEN inc[i] <= crashes ELSE inc[i] + 1 <= crashes

\* A leader that is in a phase is in a round.
PhaseInRound == phase # "none" => leaderRound > 0

TypeInv == TypeOK /\ CrashesCounted /\ PhaseInRound

\* What crash and rejoin do to the counters.
LEMMA CrashTypes ==
  ASSUME TypeInv, NEW i \in Oracles, Crash(i)
  PROVE  TypeInv'
<1>1. /\ crashes \in Nat /\ crashes' = crashes + 1 /\ crashes' \in 0..MaxCrashes
      /\ running' = [running EXCEPT ![i] = FALSE] /\ inc' = inc
      /\ running \in [Oracles -> BOOLEAN] /\ inc \in [Oracles -> Incarnations]
      /\ \A j \in Oracles : inc[j] <= crashes
  <2>1. crashes \in 0..MaxCrashes /\ crashes < MaxCrashes /\ crashes' = crashes + 1
    BY DEF TypeInv, TypeOK, Crash
  <2>2. inc \in [Oracles -> Incarnations]
    BY DEF TypeInv, TypeOK
  <2>3. \A j \in Oracles : inc[j] \in Nat
    BY <2>2 DEF Incarnations
  <2>4. \A j \in Oracles : inc[j] <= crashes
    BY <2>1, <2>3 DEF TypeInv, CrashesCounted
  <2> QED
    BY <2>1, <2>2, <2>4 DEF TypeInv, TypeOK, Crash
<1>2. UNCHANGED <<leaderVars, followerVars, requestVars, answerVars>>
  BY DEF Crash
<1>3. TypeOK'
  BY <1>1, <1>2 DEF TypeInv, TypeOK, leaderVars, followerVars, requestVars, answerVars
<1>5. PhaseInRound'
  BY <1>2 DEF TypeInv, PhaseInRound, leaderVars
<1>4. CrashesCounted'
  <2> SUFFICES ASSUME NEW j \in Oracles
               PROVE  inc'[j] + 1 <= crashes'
    <3>1. \A j \in Oracles : inc'[j] \in Nat
      BY <1>1 DEF Incarnations
    <3>2. crashes' \in Nat
      BY <1>1
    <3> QED
      BY <3>1, <3>2 DEF CrashesCounted
  <2>1. inc[j] \in Nat
    BY <1>1 DEF Incarnations
  <2> QED
    BY <1>1, <2>1
<1> QED
  BY <1>3, <1>4, <1>5 DEF TypeInv

\* A new instance is one more, and starts afresh.
LEMMA RejoinTypes ==
  ASSUME TypeInv, NEW i \in Oracles, Rejoin(i)
  PROVE  TypeInv'
<1>1. /\ ~running[i] /\ i \notin Absent /\ crashes' = crashes
      /\ running' = [running EXCEPT ![i] = TRUE] /\ inc' = [inc EXCEPT ![i] = inc[i] + 1]
      /\ running \in [Oracles -> BOOLEAN] /\ inc \in [Oracles -> Incarnations]
      /\ crashes \in 0..MaxCrashes
  BY DEF TypeInv, TypeOK, Rejoin
<1>2. inc[i] + 1 <= crashes /\ inc[i] \in Nat
  BY <1>1 DEF TypeInv, CrashesCounted, Incarnations
<1>3. inc' \in [Oracles -> Incarnations] /\ running' \in [Oracles -> BOOLEAN]
  <2>1. inc[i] + 1 \in Incarnations
    BY <1>1, <1>2 DEF Incarnations
  <2> QED
    BY <1>1, <2>1
<1>4. /\ leaderRound' \in 0..MaxRound /\ observe' \in SUBSET Observation
      /\ report' \in SUBSET Signature /\ phase' \in Phases
  BY DEF TypeInv, TypeOK, Rejoin, leaderVars, Phases
<1>5. /\ round' \in [Oracles -> 0..MaxRound] /\ sentEcho' \in [Oracles -> SUBSET Attested]
      /\ completedRound' \in [Oracles -> BOOLEAN] /\ receivedEcho' \in [Oracles -> SUBSET Oracles]
  BY DEF TypeInv, TypeOK, Rejoin
<1>6. UNCHANGED <<transmitted, requestVars, answerVars>>
  BY DEF Rejoin
<1>7. TypeOK'
  BY <1>1, <1>3, <1>4, <1>5, <1>6 DEF TypeInv, TypeOK, requestVars, answerVars
<1>8. CrashesCounted'
  <2> SUFFICES ASSUME NEW j \in Oracles
               PROVE  IF running'[j] \/ j \in Absent THEN inc'[j] <= crashes ELSE inc'[j] + 1 <= crashes
    BY <1>1 DEF CrashesCounted
  <2>1. CASE j = i
    BY <1>1, <1>2, <2>1
  <2>2. CASE j # i
    BY <1>1, <2>2 DEF TypeInv, CrashesCounted
  <2> QED
    BY <2>1, <2>2
<1>9. PhaseInRound'
  BY DEF TypeInv, PhaseInRound, Rejoin, leaderVars
<1> QED
  BY <1>7, <1>8, <1>9 DEF TypeInv

\* The leader's steps.
LEMMA StartRoundTypes ==
  ASSUME TypeInv, StartRound
  PROVE  TypeInv'
<1>1. leaderRound' \in Rounds /\ observeReqs' \in SUBSET Rounds
  <2>1. leaderRound \in 0..MaxRound /\ leaderRound < MaxRound /\ observeReqs \in SUBSET Rounds
    BY DEF TypeInv, TypeOK, StartRound
  <2>2. leaderRound + 1 \in Rounds
    BY <2>1 DEF Rounds
  <2> QED
    BY <2>1, <2>2 DEF StartRound, BroadcastObserveReq
<1>2. observe' = {} /\ report' = {} /\ phase' \in Phases
  BY DEF StartRound, Phases
<1>3. UNCHANGED <<followerVars, processVars, reportReqs, finals, answerVars>>
  BY DEF StartRound
<1>4. leaderRound' \in 0..MaxRound /\ leaderRound' > 0
  BY <1>1 DEF Rounds
<1>5. TypeOK'
  BY <1>1, <1>2, <1>3, <1>4 DEF TypeInv, TypeOK, followerVars, processVars, answerVars
<1>6. PhaseInRound' /\ CrashesCounted'
  BY <1>3, <1>4 DEF TypeInv, CrashesCounted, PhaseInRound, processVars
<1> QED
  BY <1>5, <1>6 DEF TypeInv

\* The observation that comes in has its type.
LEMMA OnObserveTypes ==
  ASSUME TypeInv, NEW m \in observes, OnObserve(m)
  PROVE  TypeInv'
<1>1. m.observation \in Observation
  BY DEF TypeInv, TypeOK
<1>2. observe' \in SUBSET Observation /\ phase' \in Phases
  BY <1>1 DEF TypeInv, TypeOK, OnObserve, Phases
<1>3. UNCHANGED <<leaderRound, report, followerVars, processVars, requestVars, answerVars>>
  BY DEF OnObserve
<1>4. TypeOK'
  BY <1>2, <1>3 DEF TypeInv, TypeOK, followerVars, processVars, requestVars, answerVars
<1>5. PhaseInRound' /\ CrashesCounted'
  BY <1>3 DEF TypeInv, CrashesCounted, PhaseInRound, processVars, OnObserve
<1> QED
  BY <1>4, <1>5 DEF TypeInv

\* The leader that assembles is in a round.
LEMMA OnGraceTimerTimeoutTypes ==
  ASSUME TypeInv, OnGraceTimerTimeout
  PROVE  TypeInv'
<1>1. leaderRound \in Rounds /\ observe \in SUBSET Observation
  BY DEF TypeInv, TypeOK, PhaseInRound, OnGraceTimerTimeout, Rounds
<1>2. reportReqs' \in SUBSET Report /\ phase' \in Phases
  BY <1>1 DEF TypeInv, TypeOK, OnGraceTimerTimeout, BroadcastReportReq, Report, Phases
<1>3. UNCHANGED <<leaderRound, observe, report, followerVars, processVars,
                  observeReqs, finals, answerVars>>
  BY DEF OnGraceTimerTimeout
<1>4. TypeOK'
  BY <1>2, <1>3 DEF TypeInv, TypeOK, followerVars, processVars, answerVars
<1>5. PhaseInRound' /\ CrashesCounted'
  BY <1>3 DEF TypeInv, CrashesCounted, PhaseInRound, processVars, OnGraceTimerTimeout
<1> QED
  BY <1>4, <1>5 DEF TypeInv

\* The attested report is made of what came in.
LEMMA OnReportTypes ==
  ASSUME TypeInv, NEW m \in reports, OnReport(m)
  PROVE  TypeInv'
<1> DEFINE s == m.signature
<1>1. s \in Signature /\ s.report \in Report /\ report \in SUBSET Signature
  BY DEF TypeInv, TypeOK, Signature
<1>2. report' = report \cup {s}
  BY DEF OnReport
<1>3. report' \in SUBSET Signature /\ [report |-> s.report, signatures |-> report'] \in Attested
  BY <1>1, <1>2 DEF Attested
<1>4. finals' \in SUBSET Attested /\ phase' \in Phases
  BY <1>3 DEF TypeInv, TypeOK, OnReport, BroadcastFinal, Phases
<1>5. UNCHANGED <<leaderRound, observe, followerVars, processVars,
                  observeReqs, reportReqs, answerVars>> /\ phase = "report"
  BY DEF OnReport
<1>6. TypeOK'
  BY <1>3, <1>4, <1>5 DEF TypeInv, TypeOK, followerVars, processVars, answerVars
<1>7. PhaseInRound' /\ CrashesCounted'
  BY <1>5 DEF TypeInv, CrashesCounted, PhaseInRound, processVars
<1> QED
  BY <1>6, <1>7 DEF TypeInv

\* The followers' steps.
LEMMA OnObserveReqReceivedTypes ==
  ASSUME TypeInv, NEW i \in Oracles, NEW r \in observeReqs,
         OnObserveReqReceived(i, r) \/ OnObserveReqOverMax(i, r)
  PROVE  TypeInv'
<1>1. r \in Rounds /\ r \in 0..MaxRound
  BY DEF TypeInv, TypeOK, Rounds
<1>2. round' \in [Oracles -> 0..MaxRound]
  <2>1. round \in [Oracles -> 0..MaxRound] /\ round' = [round EXCEPT ![i] = r]
    BY DEF TypeInv, TypeOK, OnObserveReqReceived, OnObserveReqOverMax
  <2> QED
    BY <1>1, <2>1
<1>3. /\ sentEcho' \in [Oracles -> SUBSET Attested] /\ completedRound' \in [Oracles -> BOOLEAN]
      /\ receivedEcho' \in [Oracles -> SUBSET Oracles]
  BY DEF TypeInv, TypeOK, OnObserveReqReceived, OnObserveReqOverMax
<1>4. observes' \in SUBSET [observation : Observation, to : Incarnations]
  <2>1. inc[i] \in Incarnations /\ inc[Leader] \in Incarnations
    BY DEF TypeInv, TypeOK
  <2>2. [observation |-> [oracle |-> i, round |-> r, inc |-> inc[i]], to |-> inc[Leader]]
          \in [observation : Observation, to : Incarnations]
    BY <1>1, <2>1 DEF Observation
  <2> QED
    BY <2>2 DEF TypeInv, TypeOK, OnObserveReqReceived, OnObserveReqOverMax, SendObserve, answerVars
<1>5. UNCHANGED <<leaderVars, transmitted, processVars, requestVars, reports, finalEchoes>>
  BY DEF OnObserveReqReceived, OnObserveReqOverMax, answerVars
<1>6. TypeOK'
  BY <1>2, <1>3, <1>4, <1>5 DEF TypeInv, TypeOK, leaderVars, processVars, requestVars
<1>7. PhaseInRound' /\ CrashesCounted'
  BY <1>5 DEF TypeInv, CrashesCounted, PhaseInRound, processVars, leaderVars
<1> QED
  BY <1>6, <1>7 DEF TypeInv

\* The signature has its type.
LEMMA OnReportReqReceivedTypes ==
  ASSUME TypeInv, NEW i \in Oracles, NEW p \in reportReqs, NEW should \in Due,
         OnReportReqReceived(i, p, should)
  PROVE  TypeInv'
<1>1. completedRound' \in [Oracles -> BOOLEAN]
  BY DEF TypeInv, TypeOK, OnReportReqReceived
<1>2. reports' \in SUBSET [signature : Signature, to : Incarnations]
  <2>1. inc[Leader] \in Incarnations /\ p \in Report
    BY DEF TypeInv, TypeOK
  <2>2. [signature |-> [oracle |-> i, report |-> p], to |-> inc[Leader]]
          \in [signature : Signature, to : Incarnations]
    BY <2>1 DEF Signature
  <2> QED
    BY <2>2 DEF TypeInv, TypeOK, OnReportReqReceived, SendReport
<1>3. UNCHANGED <<leaderVars, round, sentEcho, receivedEcho, transmitted,
                  processVars, requestVars, observes, finalEchoes>>
  BY DEF OnReportReqReceived
<1>4. TypeOK'
  BY <1>1, <1>2, <1>3 DEF TypeInv, TypeOK, leaderVars, processVars, requestVars
<1>5. PhaseInRound' /\ CrashesCounted'
  BY <1>3 DEF TypeInv, CrashesCounted, PhaseInRound, processVars, leaderVars
<1> QED
  BY <1>4, <1>5 DEF TypeInv

\* An echo is sent or was sent before.
LEMMA EchoTypes ==
  ASSUME TypeInv, NEW i \in Oracles, NEW a \in Attested,
         \/ /\ sentEcho' = [sentEcho EXCEPT ![i] = {a}]
            /\ BroadcastFinalEcho(i, a)
         \/ UNCHANGED <<sentEcho, finalEchoes>>
  PROVE  /\ sentEcho' \in [Oracles -> SUBSET Attested]
         /\ finalEchoes' \in SUBSET [from : Oracles, attested : Attested]
<1>1. /\ sentEcho \in [Oracles -> SUBSET Attested]
      /\ finalEchoes \in SUBSET [from : Oracles, attested : Attested]
  BY DEF TypeInv, TypeOK
<1>2. CASE UNCHANGED <<sentEcho, finalEchoes>>
  BY <1>1, <1>2
<1>3. CASE sentEcho' = [sentEcho EXCEPT ![i] = {a}] /\ BroadcastFinalEcho(i, a)
  <2>1. sentEcho' \in [Oracles -> SUBSET Attested]
    BY <1>1, <1>3
  <2>2. [from |-> i, attested |-> a] \in [from : Oracles, attested : Attested]
    OBVIOUS
  <2>3. finalEchoes' = finalEchoes \cup {[from |-> i, attested |-> a]}
    BY <1>3 DEF BroadcastFinalEcho
  <2> QED
    BY <1>1, <2>1, <2>2, <2>3
<1> QED
  BY <1>2, <1>3

\* The echo of a final message has its type.
LEMMA OnFinalReceivedTypes ==
  ASSUME TypeInv, NEW i \in Oracles, NEW a \in finals, OnFinalReceived(i, a)
  PROVE  TypeInv'
<1>1. a \in Attested
  BY DEF TypeInv, TypeOK
<1>2. /\ sentEcho' \in [Oracles -> SUBSET Attested]
      /\ finalEchoes' \in SUBSET [from : Oracles, attested : Attested]
  BY <1>1, EchoTypes DEF OnFinalReceived
<1>3. UNCHANGED <<leaderVars, round, completedRound, receivedEcho, transmitted,
                  processVars, requestVars, observes, reports>>
  BY DEF OnFinalReceived
<1>4. TypeOK'
  BY <1>2, <1>3 DEF TypeInv, TypeOK, leaderVars, processVars, requestVars
<1>5. PhaseInRound' /\ CrashesCounted'
  BY <1>3 DEF TypeInv, CrashesCounted, PhaseInRound, processVars, leaderVars
<1> QED
  BY <1>4, <1>5 DEF TypeInv

\* What an echo does to the follower that receives it.
LEMMA OnFinalEchoReceivedEffect ==
  ASSUME TypeInv, NEW i \in Oracles, NEW m \in finalEchoes, OnFinalEchoReceived(i, m)
  PROVE  /\ m.attested \in Attested /\ m.from \in Oracles
         /\ receivedEcho' = [receivedEcho EXCEPT ![i] = receivedEcho[i] \cup {m.from}]
         /\ receivedEcho'[i] = receivedEcho[i] \cup {m.from}
         /\ receivedEcho' \in [Oracles -> SUBSET Oracles]
         /\ sentEcho' \in [Oracles -> SUBSET Attested]
         /\ finalEchoes' \in SUBSET [from : Oracles, attested : Attested]
         /\ \/ UNCHANGED <<transmitted, completedRound>>
            \/ /\ EnoughEchoes(receivedEcho'[i])
               /\ transmitted' = [transmitted EXCEPT ![i] =
                    Append(transmitted[i], [attested |-> m.attested, inc |-> inc[i]])]
               /\ completedRound' = [completedRound EXCEPT ![i] = TRUE]
         /\ UNCHANGED <<leaderVars, round, processVars, requestVars, observes, reports>>
<1>1. m.attested \in Attested /\ m.from \in Oracles
  BY DEF TypeInv, TypeOK
<1>2. receivedEcho' = [receivedEcho EXCEPT ![i] = receivedEcho[i] \cup {m.from}]
  BY DEF OnFinalEchoReceived
<1>3. receivedEcho \in [Oracles -> SUBSET Oracles]
  BY DEF TypeInv, TypeOK
<1>4. receivedEcho' \in [Oracles -> SUBSET Oracles] /\ receivedEcho'[i] = receivedEcho[i] \cup {m.from}
  BY <1>1, <1>2, <1>3
<1>5. /\ sentEcho' \in [Oracles -> SUBSET Attested]
      /\ finalEchoes' \in SUBSET [from : Oracles, attested : Attested]
  BY <1>1, EchoTypes DEF OnFinalEchoReceived, EchoOnce
<1>6. \/ UNCHANGED <<transmitted, completedRound>>
      \/ /\ EnoughEchoes(receivedEcho'[i])
         /\ transmitted' = [transmitted EXCEPT ![i] =
              Append(transmitted[i], [attested |-> m.attested, inc |-> inc[i]])]
         /\ completedRound' = [completedRound EXCEPT ![i] = TRUE]
  BY DEF OnFinalEchoReceived, TransmitAndComplete
<1>7. UNCHANGED <<leaderVars, round, processVars, requestVars, observes, reports>>
  BY DEF OnFinalEchoReceived
<1> QED
  BY <1>1, <1>2, <1>4, <1>5, <1>6, <1>7

\* What is handed to the transmit service has its type.
LEMMA OnFinalEchoReceivedTypes ==
  ASSUME TypeInv, NEW i \in Oracles, NEW m \in finalEchoes, OnFinalEchoReceived(i, m)
  PROVE  TypeInv'
<1> DEFINE S == [attested : Attested, inc : Incarnations]
           t == [attested |-> m.attested, inc |-> inc[i]]
<1>1. /\ transmitted \in [Oracles -> Seq(S)] /\ completedRound \in [Oracles -> BOOLEAN]
      /\ inc[i] \in Incarnations
  BY DEF TypeInv, TypeOK
<1>2. t \in S
  BY <1>1, OnFinalEchoReceivedEffect
<1>3. transmitted' \in [Oracles -> Seq(S)] /\ completedRound' \in [Oracles -> BOOLEAN]
  <2>1. CASE UNCHANGED <<transmitted, completedRound>>
    BY <1>1, <2>1
  <2>2. CASE /\ transmitted' = [transmitted EXCEPT ![i] = Append(transmitted[i], t)]
             /\ completedRound' = [completedRound EXCEPT ![i] = TRUE]
    <3> HIDE DEF S, t
    <3>1. transmitted[i] \in Seq(S)
      BY <1>1
    <3>2. Append(transmitted[i], t) \in Seq(S)
      BY <1>2, <3>1
    <3> QED
      BY <1>1, <2>2, <3>2
  <2> QED
    BY <2>1, <2>2, OnFinalEchoReceivedEffect
<1> HIDE DEF t
<1>4. TypeOK'
  BY <1>3, OnFinalEchoReceivedEffect DEF TypeInv, TypeOK, leaderVars, processVars, requestVars
<1>5. PhaseInRound' /\ CrashesCounted'
  <2>1. UNCHANGED <<leaderVars, processVars>>
    BY DEF OnFinalEchoReceived
  <2> QED
    BY <2>1 DEF TypeInv, CrashesCounted, PhaseInRound, processVars, leaderVars
<1> QED
  BY <1>4, <1>5 DEF TypeInv

\* The variables start with their types.
LEMMA InitTypes == Init => TypeInv
<1> SUFFICES ASSUME Init
             PROVE  TypeInv
  OBVIOUS
<1>1. /\ leaderRound \in 0..MaxRound /\ crashes \in 0..MaxCrashes /\ phase \in Phases
      /\ round \in [Oracles -> 0..MaxRound]
  BY DEF Init, Phases
<1>2. inc \in [Oracles -> Incarnations] /\ running \in [Oracles -> BOOLEAN]
  BY DEF Init, Incarnations
<1>3. transmitted \in [Oracles -> Seq([attested : Attested, inc : Incarnations])]
  BY DEF Init
<1>4. TypeOK
  BY <1>1, <1>2, <1>3 DEF Init, TypeOK
<1>5. CrashesCounted /\ PhaseInRound
  <2>1. \A i \in Oracles : inc[i] = 0 /\ running[i] = (i \notin Absent)
    BY DEF Init
  <2>2. crashes = 0 /\ phase = "none"
    BY DEF Init
  <2>3. ASSUME NEW i \in Oracles
        PROVE  IF running[i] \/ i \in Absent THEN inc[i] <= crashes ELSE inc[i] + 1 <= crashes
    <3>1. running[i] \/ i \in Absent
      BY <2>1, Zenon
    <3>2. inc[i] <= crashes
      BY <2>1, <2>2
    <3> QED
      BY <3>1, <3>2
  <2> QED
    BY <2>2, <2>3 DEF CrashesCounted, PhaseInRound
<1> QED
  BY <1>4, <1>5 DEF TypeInv

\* Every step keeps the types.
LEMMA NextTypes == TypeInv /\ [Next]_vars => TypeInv'
<1> SUFFICES ASSUME TypeInv, [Next]_vars
             PROVE  TypeInv'
  OBVIOUS
<1>1. CASE OnStartEpoch \/ OnTimerRoundTimeout
  BY <1>1, StartRoundTypes DEF OnStartEpoch, OnTimerRoundTimeout
<1>2. CASE \E m \in observes : OnObserve(m)
  BY <1>2, OnObserveTypes
<1>3. CASE OnGraceTimerTimeout
  BY <1>3, OnGraceTimerTimeoutTypes
<1>4. CASE \E m \in reports : OnReport(m)
  BY <1>4, OnReportTypes
<1>5. CASE \E i \in Oracles, r \in observeReqs :
             OnObserveReqReceived(i, r) \/ OnObserveReqOverMax(i, r)
  BY <1>5, OnObserveReqReceivedTypes
<1>6. CASE \E i \in Oracles, p \in reportReqs, should \in Due : OnReportReqReceived(i, p, should)
  BY <1>6, OnReportReqReceivedTypes
<1>7. CASE \E i \in Oracles, a \in finals : OnFinalReceived(i, a)
  BY <1>7, OnFinalReceivedTypes
<1>8. CASE \E i \in Oracles, m \in finalEchoes : OnFinalEchoReceived(i, m)
  BY <1>8, OnFinalEchoReceivedTypes
<1>9. CASE \E i \in Oracles : Crash(i)
  BY <1>9, CrashTypes
<1>10. CASE \E i \in Oracles : Rejoin(i)
  BY <1>10, RejoinTypes
<1>11. CASE UNCHANGED vars
  BY <1>11 DEF vars, leaderVars, followerVars, processVars, requestVars, answerVars,
               TypeInv, TypeOK, CrashesCounted, PhaseInRound
<1> QED
  BY <1>1, <1>2, <1>3, <1>4, <1>5, <1>6, <1>7, <1>8, <1>9, <1>10, <1>11 DEF Next

\* Every variable has its type, however many instances come and go: an instance
\* number never exceeds the number of crashes.
THEOREM TypeCorrect == Spec => []TypeOK
<1>1. Spec => []TypeInv
  BY InitTypes, NextTypes, PTL DEF Spec
<1>2. TypeInv => TypeOK
  BY DEF TypeInv
<1> QED
  BY <1>1, <1>2, PTL

(***************************************************************************)
(* The order of what an instance hands to the transmit service. What the   *)
(* running instance handed over belongs to a round it completed, or to an  *)
(* earlier one than it is in now.                                          *)
(***************************************************************************)

\* Where the oracle stands with something that it transmitted.
Behind(i, t) ==
  /\ t.inc <= inc[i]
  /\ t.inc = inc[i] =>
       /\ t.attested.report.round <= round[i]
       /\ t.attested.report.round = round[i] => completedRound[i]

CompletedBehind == \A i \in Oracles : \A k \in DOMAIN transmitted[i] : Behind(i, transmitted[i][k])

TransmitInv == TransmitsInOrder /\ CompletedBehind

\* The types of what the proofs below look at.
LEMMA HandedTypes ==
  ASSUME TypeInv, NEW i \in Oracles
  PROVE  /\ round[i] \in Nat /\ inc[i] \in Nat /\ completedRound[i] \in BOOLEAN
         /\ transmitted[i] \in Seq([attested : Attested, inc : Incarnations])
         /\ \A k \in DOMAIN transmitted[i] :
              /\ transmitted[i][k] \in [attested : Attested, inc : Incarnations]
              /\ transmitted[i][k].inc \in Nat
              /\ transmitted[i][k].attested.report.round \in Nat
<1>1. /\ round[i] \in 0..MaxRound /\ inc[i] \in Incarnations /\ completedRound[i] \in BOOLEAN
      /\ transmitted[i] \in Seq([attested : Attested, inc : Incarnations])
  BY DEF TypeInv, TypeOK
<1>2. round[i] \in Nat /\ inc[i] \in Nat
  BY <1>1 DEF Incarnations
<1>3. ASSUME NEW k \in DOMAIN transmitted[i]
      PROVE  /\ transmitted[i][k] \in [attested : Attested, inc : Incarnations]
             /\ transmitted[i][k].inc \in Nat
             /\ transmitted[i][k].attested.report.round \in Nat
  <2>1. transmitted[i][k] \in [attested : Attested, inc : Incarnations]
    <3> DEFINE S == [attested : Attested, inc : Incarnations]
    <3>1. transmitted[i] \in Seq(S) /\ k \in DOMAIN transmitted[i]
      BY <1>1
    <3> HIDE DEF S
    <3>2. transmitted[i][k] \in S
      BY <3>1
    <3> QED
      BY <3>2 DEF S
  <2>2. transmitted[i][k].attested \in Attested /\ transmitted[i][k].inc \in Nat
    BY <2>1 DEF Incarnations
  <2>3. transmitted[i][k].attested.report.round \in Rounds
    BY <2>2 DEF Attested, Report
  <2> QED
    BY <2>1, <2>2, <2>3 DEF Rounds
<1> QED
  BY <1>1, <1>2, <1>3

\* A step in which every oracle only moves on, and nobody transmits.
LEMMA MovingOnKeepsOrder ==
  ASSUME TypeInv, TypeInv', TransmitInv, transmitted' = transmitted,
         \A i \in Oracles :
           \/ inc'[i] > inc[i]
           \/ inc'[i] = inc[i] /\ round'[i] > round[i]
           \/ inc'[i] = inc[i] /\ round'[i] = round[i] /\ (completedRound[i] => completedRound'[i])
  PROVE  TransmitInv'
<1>1. TransmitsInOrder'
  BY DEF TransmitInv, TransmitsInOrder
<1>2. ASSUME NEW i \in Oracles, NEW k \in DOMAIN transmitted[i]
      PROVE  /\ transmitted[i][k].inc <= inc'[i]
             /\ transmitted[i][k].inc = inc'[i] =>
                  /\ transmitted[i][k].attested.report.round <= round'[i]
                  /\ transmitted[i][k].attested.report.round = round'[i] => completedRound'[i]
  <2>1. Behind(i, transmitted[i][k])
    BY DEF TransmitInv, CompletedBehind
  <2>2. /\ transmitted[i][k].inc \in Nat /\ transmitted[i][k].attested.report.round \in Nat
        /\ inc[i] \in Nat /\ round[i] \in Nat
    BY HandedTypes
  <2>3. inc'[i] \in Nat /\ round'[i] \in Nat
    <3>1. inc' \in [Oracles -> Incarnations] /\ round' \in [Oracles -> 0..MaxRound]
      BY DEF TypeInv, TypeOK
    <3> QED
      BY <3>1 DEF Incarnations
  <2> QED
    BY <2>1, <2>2, <2>3 DEF Behind
<1>3. CompletedBehind'
  BY <1>2 DEF CompletedBehind, Behind
<1> QED
  BY <1>1, <1>3 DEF TransmitInv

\* A report is handed over for a round that the instance has not completed.
LEMMA TransmittingKeepsOrder ==
  ASSUME TypeInv, TypeInv', TransmitInv, NEW i \in Oracles, NEW a,
         a.report.round = round[i], ~completedRound[i],
         TransmitAndComplete(i, a), UNCHANGED <<round, inc>>
  PROVE  TransmitInv'
<1> DEFINE t == [attested |-> a, inc |-> inc[i]]
<1>1. /\ transmitted' = [transmitted EXCEPT ![i] = Append(transmitted[i], t)]
      /\ completedRound' = [completedRound EXCEPT ![i] = TRUE]
  BY DEF TransmitAndComplete
<1>2. t.attested.report.round = round[i] /\ t.inc = inc[i]
  OBVIOUS
<1>3. transmitted \in [Oracles -> Seq([attested : Attested, inc : Incarnations])]
      /\ completedRound \in [Oracles -> BOOLEAN]
  BY DEF TypeInv, TypeOK
<1> HIDE DEF t
<1>4. transmitted'[i] = Append(transmitted[i], t)
      /\ completedRound'[i] = TRUE
      /\ \A j \in Oracles : j # i => transmitted'[j] = transmitted[j]
                                     /\ completedRound'[j] = completedRound[j]
  BY <1>1, <1>3
<1>5. /\ DOMAIN transmitted'[i] = DOMAIN transmitted[i] \cup {Len(transmitted[i]) + 1}
      /\ DOMAIN transmitted[i] = 1..Len(transmitted[i]) /\ Len(transmitted[i]) \in Nat
      /\ \A k \in DOMAIN transmitted[i] : transmitted'[i][k] = transmitted[i][k]
      /\ transmitted'[i][Len(transmitted[i]) + 1] = t
  <2>1. transmitted[i] \in Seq([attested : Attested, inc : Incarnations])
    BY <1>3
  <2> QED
    BY <1>4, <2>1
<1>6. \A k \in DOMAIN transmitted[i] :
         transmitted[i][k].inc = inc[i] => transmitted[i][k].attested.report.round < round[i]
  <2> SUFFICES ASSUME NEW k \in DOMAIN transmitted[i], transmitted[i][k].inc = inc[i]
               PROVE  transmitted[i][k].attested.report.round < round[i]
    OBVIOUS
  <2>1. Behind(i, transmitted[i][k])
    BY DEF TransmitInv, CompletedBehind
  <2>2. transmitted[i][k].attested.report.round \in Nat /\ round[i] \in Nat
    BY HandedTypes
  <2> QED
    BY <2>1, <2>2 DEF Behind
<1>7. TransmitsInOrder'
  <2> SUFFICES ASSUME NEW j \in Oracles, NEW k \in DOMAIN transmitted'[j],
                      NEW l \in DOMAIN transmitted'[j],
                      k < l, transmitted'[j][k].inc = transmitted'[j][l].inc
               PROVE  transmitted'[j][k].attested.report.round
                        < transmitted'[j][l].attested.report.round
    BY DEF TransmitsInOrder
  <2>1. CASE j # i
    BY <1>4, <2>1 DEF TransmitInv, TransmitsInOrder
  <2>2. CASE j = i /\ l \in DOMAIN transmitted[i]
    <3>1. k \in DOMAIN transmitted[i]
      BY <1>5, <2>2
    <3> QED
      BY <1>5, <2>2, <3>1 DEF TransmitInv, TransmitsInOrder
  <2>3. CASE j = i /\ l = Len(transmitted[i]) + 1
    <3>1. k \in DOMAIN transmitted[i]
      BY <1>5, <2>3
    <3> QED
      BY <1>2, <1>5, <1>6, <2>3, <3>1
  <2> QED
    BY <1>5, <2>1, <2>2, <2>3
<1>8. CompletedBehind'
  <2> SUFFICES ASSUME NEW j \in Oracles, NEW k \in DOMAIN transmitted'[j]
               PROVE  Behind(j, transmitted[j][k])'
    BY DEF CompletedBehind
  <2>1. CASE j # i
    <3>1. Behind(j, transmitted[j][k])
      BY <1>4, <2>1 DEF TransmitInv, CompletedBehind
    <3> QED
      BY <1>4, <2>1, <3>1 DEF Behind
  <2>2. CASE j = i /\ k \in DOMAIN transmitted[i]
    <3>1. Behind(i, transmitted[i][k])
      BY <2>2 DEF TransmitInv, CompletedBehind
    <3> QED
      BY <1>4, <1>5, <2>2, <3>1 DEF Behind
  <2>3. CASE j = i /\ k = Len(transmitted[i]) + 1
    <3>1. inc[i] \in Nat /\ round[i] \in Nat
      BY HandedTypes
    <3> QED
      BY <1>2, <1>4, <1>5, <2>3, <3>1 DEF Behind
  <2> QED
    BY <1>5, <2>1, <2>2, <2>3
<1> QED
  BY <1>7, <1>8 DEF TransmitInv

\* Rounds only grow, except in a new instance.
LEMMA NextKeepsOrder ==
  ASSUME TypeInv, TypeInv', TransmitInv, [Next]_vars
  PROVE  TransmitInv'
<1>1. ASSUME NEW i \in Oracles, NEW r \in observeReqs,
             OnObserveReqReceived(i, r) \/ OnObserveReqOverMax(i, r)
      PROVE  TransmitInv'
  <2>1. /\ round' = [round EXCEPT ![i] = r] /\ r > round[i]
        /\ UNCHANGED <<inc, transmitted>>
        /\ \A j \in Oracles \ {i} : completedRound'[j] = completedRound[j]
    <3>1. round \in [Oracles -> 0..MaxRound] /\ r \in Rounds /\ completedRound \in [Oracles -> BOOLEAN]
      BY DEF TypeInv, TypeOK
    <3>2. round[i] \in Nat /\ r \in Nat
      BY <3>1 DEF Rounds
    <3>3. round[i] < r
      BY <1>1 DEF OnObserveReqReceived, OnObserveReqOverMax
    <3>4. round' = [round EXCEPT ![i] = r] /\ UNCHANGED <<inc, transmitted>>
          /\ (completedRound' = [completedRound EXCEPT ![i] = FALSE] \/ UNCHANGED completedRound)
      BY <1>1 DEF OnObserveReqReceived, OnObserveReqOverMax, processVars
    <3> QED
      BY <3>1, <3>2, <3>3, <3>4
  <2>2. round \in [Oracles -> 0..MaxRound]
    BY DEF TypeInv, TypeOK
  <2> QED
    BY <2>1, <2>2, MovingOnKeepsOrder
<1>2. ASSUME NEW i \in Oracles, NEW p \in reportReqs, NEW should \in Due,
             OnReportReqReceived(i, p, should)
      PROVE  TransmitInv'
  <2>1. completedRound \in [Oracles -> BOOLEAN]
    BY DEF TypeInv, TypeOK
  <2>2. /\ UNCHANGED <<inc, transmitted, round>>
        /\ (completedRound' = [completedRound EXCEPT ![i] = TRUE] \/ UNCHANGED completedRound)
    BY <1>2 DEF OnReportReqReceived, processVars
  <2>3. \A j \in Oracles : completedRound[j] => completedRound'[j]
    BY <2>1, <2>2
  <2> QED
    BY <2>2, <2>3, MovingOnKeepsOrder
<1>3. ASSUME NEW i \in Oracles, NEW m \in finalEchoes, OnFinalEchoReceived(i, m)
      PROVE  TransmitInv'
  <2>1. UNCHANGED <<round, inc>> /\ ~completedRound[i] /\ m.attested.report.round = round[i]
    BY <1>3 DEF OnFinalEchoReceived, processVars
  <2>2. TransmitAndComplete(i, m.attested) \/ UNCHANGED <<transmitted, completedRound>>
    BY <1>3 DEF OnFinalEchoReceived
  <2>3. CASE UNCHANGED <<transmitted, completedRound>>
    BY <2>1, <2>3, MovingOnKeepsOrder
  <2> QED
    BY <2>1, <2>2, <2>3, TransmittingKeepsOrder
<1>4. ASSUME NEW i \in Oracles, Rejoin(i)
      PROVE  TransmitInv'
  <2>1. /\ inc \in [Oracles -> Incarnations] /\ round \in [Oracles -> 0..MaxRound]
        /\ completedRound \in [Oracles -> BOOLEAN]
    BY DEF TypeInv, TypeOK
  <2>2. /\ inc' = [inc EXCEPT ![i] = inc[i] + 1] /\ round' = [round EXCEPT ![i] = 0]
        /\ completedRound' = [completedRound EXCEPT ![i] = FALSE] /\ transmitted' = transmitted
    BY <1>4 DEF Rejoin
  <2>3. inc[i] \in Nat
    BY <2>1 DEF Incarnations
  <2> QED
    BY <2>1, <2>2, <2>3, MovingOnKeepsOrder
<1>5. CASE UNCHANGED <<inc, round, completedRound, transmitted>>
  BY <1>5, MovingOnKeepsOrder
<1>6. ASSUME OnStartEpoch \/ OnTimerRoundTimeout \/ (\E m \in observes : OnObserve(m))
             \/ OnGraceTimerTimeout \/ (\E m \in reports : OnReport(m))
             \/ (\E i \in Oracles, a \in finals : OnFinalReceived(i, a))
             \/ (\E i \in Oracles : Crash(i)) \/ UNCHANGED vars
      PROVE  UNCHANGED <<inc, round, completedRound, transmitted>>
  BY <1>6 DEF OnStartEpoch, OnTimerRoundTimeout, StartRound, OnObserve, OnGraceTimerTimeout,
              OnReport, OnFinalReceived, Crash, vars, followerVars, processVars
<1> QED
  BY <1>1, <1>2, <1>3, <1>4, <1>5, <1>6 DEF Next

\* An instance hands at most one report of a round to the transmit service, and
\* its rounds only grow: the reset of the round state and the completed flag are
\* enough, whatever order the messages come in.
THEOREM InOrder == Spec => []TransmitsInOrder
<1>1. Init => TransmitInv
  BY DEF Init, TransmitInv, TransmitsInOrder, CompletedBehind
<1>2. TypeInv /\ TypeInv' /\ TransmitInv /\ [Next]_vars => TransmitInv'
  BY NextKeepsOrder
<1>3. Spec => []TypeInv
  BY InitTypes, NextTypes, PTL DEF Spec
<1>4. Spec => []TransmitInv
  BY <1>1, <1>2, <1>3, PTL DEF Spec
<1>5. TransmitInv => TransmitsInOrder
  BY DEF TransmitInv
<1> QED
  BY <1>4, <1>5, PTL

(***************************************************************************)
(* What is transmitted was observed and signed. The signatures of a final  *)
(* message and of an echo were sent to the leader, each of its round's     *)
(* report, and only reports that the leader asked for are signed.          *)
(***************************************************************************)

\* More than 2f oracles observed what is in report p.
ObservedByMost(p) == Cardinality({o.oracle : o \in p.observations}) >= 2 * F + 1

\* Each signature of S was sent to the leader.
Sent(S) == \A s \in S : \E m \in reports : m.signature = s

ObservedInRound == \A o \in observe : o.round = leaderRound

RequestedInRound == \A p \in reportReqs : \A o \in p.observations : o.round = p.round

SignedWasRequested ==
  \A m \in reports : m.signature.report \in reportReqs /\ ObservedByMost(m.signature.report)

SignaturesSent ==
  /\ Sent(report)
  /\ \A a \in finals : Sent(a.signatures)
  /\ \A e \in finalEchoes : Sent(e.attested.signatures)

HandedVerified ==
  \A i \in Oracles : \A k \in DOMAIN transmitted[i] :
    VerifyAttestedReport(transmitted[i][k].attested) /\ Sent(transmitted[i][k].attested.signatures)

AttestInv ==
  /\ ObservedInRound
  /\ RequestedInRound
  /\ SignedWasRequested
  /\ SignaturesSent
  /\ HandedVerified

\* A set whose members are told apart by their oracle is no larger than the set
\* of these oracles.
LEMMA DistinctOracles ==
  ASSUME NEW S, NEW T \in SUBSET Oracles,
         \A s \in S : s.oracle \in T,
         \A s, u \in S : s.oracle = u.oracle => s = u
  PROVE  IsFiniteSet(S) /\ IsFiniteSet(T) /\ Cardinality(S) <= Cardinality(T)
<1> DEFINE f == [s \in S |-> s.oracle]
<1>1. f \in Injection(S, T)
  BY DEF Injection, IsInjective
<1>2. IsFiniteSet(T)
  BY FS_Subset
<1> HIDE DEF f
<1> QED
  BY <1>1, <1>2, FS_Injection

\* What was sent stays sent.
LEMMA SentStays ==
  ASSUME NEW S, Sent(S), reports \subseteq reports'
  PROVE  Sent(S)'
BY DEF Sent

\* A report that passed the verification and whose signatures were sent to the
\* leader is one that the leader asked for.
LEMMA VerifiedWasRequested ==
  ASSUME SignedWasRequested, NEW a, VerifyAttestedReport(a), Sent(a.signatures)
  PROVE  a.report \in reportReqs /\ ObservedByMost(a.report)
<1>1. PICK s \in a.signatures : TRUE
  <2>1. Cardinality(a.signatures) > F
    BY DEF VerifyAttestedReport
  <2>2. a.signatures # {}
    BY <2>1, FType, FS_EmptySet
  <2> QED
    BY <2>2
<1>2. PICK m \in reports : m.signature = s
  BY DEF Sent
<1> QED
  BY <1>2 DEF SignedWasRequested, VerifyAttestedReport

\* The signatures of a report that passed the verification were sent to the
\* leader by more than f oracles.
LEMMA VerifiedWasSigned ==
  ASSUME TypeInv, NEW a \in Attested, VerifyAttestedReport(a), Sent(a.signatures)
  PROVE  Cardinality({m.signature.oracle : m \in {n \in reports : n.signature.report = a.report}}) > F
<1> DEFINE T == {m.signature.oracle : m \in {n \in reports : n.signature.report = a.report}}
<1>1. \A s \in a.signatures : s \in Signature
  BY DEF Attested
<1>2. T \in SUBSET Oracles
  <2>1. \A m \in reports : m.signature \in Signature
    BY DEF TypeInv, TypeOK
  <2> QED
    BY <2>1 DEF Signature
<1>3. \A s \in a.signatures : s.oracle \in T
  BY DEF Sent, VerifyAttestedReport
<1>4. \A s, u \in a.signatures : s.oracle = u.oracle => s = u
  BY <1>1 DEF Signature, VerifyAttestedReport
<1> HIDE DEF T
<1>5. IsFiniteSet(a.signatures) /\ IsFiniteSet(T) /\ Cardinality(a.signatures) <= Cardinality(T)
  BY <1>2, <1>3, <1>4, DistinctOracles
<1>6. Cardinality(a.signatures) \in Nat /\ Cardinality(T) \in Nat
  BY <1>5, FS_CardinalityType
<1>7. Cardinality(a.signatures) > F
  BY DEF VerifyAttestedReport
<1> QED
  BY <1>5, <1>6, <1>7, FType DEF T

\* The property follows.
LEMMA AttestInvGivesAttested ==
  ASSUME TypeInv, AttestInv
  PROVE  TransmittedIsAttested
<1> SUFFICES ASSUME NEW i \in Oracles, NEW t \in Handed(i)
             PROVE  LET r == t.attested.report
                    IN  /\ Cardinality({o.oracle : o \in r.observations}) > 2 * F
                        /\ \A o \in r.observations : o.round = r.round
                        /\ Cardinality({m.signature.oracle :
                                          m \in {n \in reports : n.signature.report = r}}) > F
  BY Zenon DEF TransmittedIsAttested
<1>0. PICK k \in DOMAIN transmitted[i] : transmitted[i][k] = t
  BY DEF Handed
<1> DEFINE a == t.attested
<1>1. VerifyAttestedReport(a) /\ Sent(a.signatures)
  BY <1>0 DEF AttestInv, HandedVerified
<1>2. a \in Attested
  BY <1>0, HandedTypes
<1> HIDE DEF a
<1>6. a.report \in reportReqs /\ ObservedByMost(a.report)
  BY <1>1, VerifiedWasRequested DEF AttestInv
<1>7. {o.oracle : o \in a.report.observations} \in SUBSET Oracles
  <2>1. a.report \in Report
    BY <1>6 DEF TypeInv, TypeOK
  <2> QED
    BY <2>1 DEF Report, Observation
<1>8. Cardinality({o.oracle : o \in a.report.observations}) > 2 * F
  <2>1. Cardinality({o.oracle : o \in a.report.observations}) \in Nat
    BY <1>7, FS_Subset, FS_CardinalityType
  <2> QED
    BY <1>6, <2>1, FType DEF ObservedByMost
<1>9. \A o \in a.report.observations : o.round = a.report.round
  BY <1>6 DEF AttestInv, RequestedInRound
<1>10. Cardinality({m.signature.oracle : m \in {n \in reports : n.signature.report = a.report}}) > F
  BY <1>1, <1>2, VerifiedWasSigned
<1> QED
  BY <1>8, <1>9, <1>10 DEF a

\* The followers' part of the invariant when none of it moves.
LEMMA FollowersKeepAttested ==
  ASSUME AttestInv, UNCHANGED <<finalEchoes, transmitted>>, reports \subseteq reports'
  PROVE  HandedVerified' /\ \A e \in finalEchoes' : Sent(e.attested.signatures)'
<1>1. HandedVerified'
  <2> SUFFICES ASSUME NEW i \in Oracles, NEW k \in DOMAIN transmitted[i]
               PROVE  /\ VerifyAttestedReport(transmitted[i][k].attested)
                      /\ Sent(transmitted[i][k].attested.signatures)'
    BY DEF HandedVerified, VerifyAttestedReport
  <2>1. /\ VerifyAttestedReport(transmitted[i][k].attested)
        /\ Sent(transmitted[i][k].attested.signatures)
    BY DEF AttestInv, HandedVerified
  <2> QED
    BY <2>1, SentStays DEF Sent
<1>2. \A e \in finalEchoes' : Sent(e.attested.signatures)'
  BY DEF AttestInv, SignaturesSent, Sent
<1> QED
  BY <1>1, <1>2

\* The steps of the leader.
LEMMA LeaderKeepsAttested ==
  ASSUME TypeInv, AttestInv,
         OnStartEpoch \/ OnTimerRoundTimeout \/ (\E m \in observes : OnObserve(m))
           \/ OnGraceTimerTimeout \/ (\E m \in reports : OnReport(m))
  PROVE  AttestInv'
<1>1. UNCHANGED <<finalEchoes, transmitted, reports>>
  BY DEF OnStartEpoch, OnTimerRoundTimeout, StartRound, OnObserve, OnGraceTimerTimeout, OnReport,
         followerVars, answerVars
<1>2. HandedVerified' /\ \A e \in finalEchoes' : Sent(e.attested.signatures)'
  BY <1>1, FollowersKeepAttested
<1>3. CASE OnStartEpoch \/ OnTimerRoundTimeout
  <2>1. observe' = {} /\ report' = {} /\ UNCHANGED <<reportReqs, finals>>
    BY <1>3 DEF OnStartEpoch, OnTimerRoundTimeout, StartRound
  <2> QED
    BY <1>1, <1>2, <2>1 DEF AttestInv, ObservedInRound, RequestedInRound, SignedWasRequested,
                            ObservedByMost, SignaturesSent, Sent
<1>4. CASE \E m \in observes : OnObserve(m)
  <2>1. PICK m \in observes : OnObserve(m)
    BY <1>4
  <2>2. /\ observe' = observe \cup {m.observation} /\ m.observation.round = leaderRound
        /\ UNCHANGED <<leaderRound, report, reportReqs, finals>>
    BY <2>1 DEF OnObserve, requestVars
  <2> QED
    BY <1>1, <1>2, <2>2 DEF AttestInv, ObservedInRound, RequestedInRound, SignedWasRequested,
                            ObservedByMost, SignaturesSent, Sent
<1>5. CASE OnGraceTimerTimeout
  <2>1. /\ reportReqs' = reportReqs \cup {[round |-> leaderRound, observations |-> observe]}
        /\ UNCHANGED <<leaderRound, observe, report, finals>>
    BY <1>5 DEF OnGraceTimerTimeout, BroadcastReportReq
  <2>2. RequestedInRound'
    BY <2>1 DEF AttestInv, ObservedInRound, RequestedInRound
  <2> QED
    BY <1>1, <1>2, <2>1, <2>2 DEF AttestInv, ObservedInRound, SignedWasRequested,
                                  ObservedByMost, SignaturesSent, Sent
<1>6. CASE \E m \in reports : OnReport(m)
  <2>1. PICK m \in reports : OnReport(m)
    BY <1>6
  <2>2. /\ report' = report \cup {m.signature}
        /\ UNCHANGED <<leaderRound, observe, reportReqs>>
        /\ \/ finals' = finals
           \/ finals' = finals \cup {[report |-> m.signature.report, signatures |-> report']}
    BY <2>1 DEF OnReport, BroadcastFinal
  <2>3. Sent(report)'
    BY <1>1, <2>2 DEF AttestInv, SignaturesSent, Sent
  <2>4. \A a \in finals' : Sent(a.signatures)'
    BY <1>1, <2>2, <2>3 DEF AttestInv, SignaturesSent, Sent
  <2>5. ObservedInRound' /\ RequestedInRound' /\ SignedWasRequested'
    BY <1>1, <2>2 DEF AttestInv, ObservedInRound, RequestedInRound, SignedWasRequested, ObservedByMost
  <2> QED
    BY <1>2, <2>3, <2>4, <2>5 DEF AttestInv, SignaturesSent
<1> QED
  BY <1>3, <1>4, <1>5, <1>6

\* A follower signs what it was asked to sign, if most oracles observed it.
LEMMA OnReportReqKeepsAttested ==
  ASSUME TypeInv, AttestInv, NEW i \in Oracles, NEW p \in reportReqs, NEW should \in Due,
         OnReportReqReceived(i, p, should)
  PROVE  AttestInv'
<1>1. /\ ObservedByMost(p)
      /\ UNCHANGED <<leaderRound, observe, report, reportReqs, finals, finalEchoes, transmitted>>
      /\ \/ reports' = reports
         \/ reports' = reports \cup {[signature |-> [oracle |-> i, report |-> p], to |-> inc[Leader]]}
  BY DEF OnReportReqReceived, SendReport, ObservedByMost, leaderVars, requestVars
<1>2. reports \subseteq reports'
  BY <1>1
<1>3. HandedVerified' /\ \A e \in finalEchoes' : Sent(e.attested.signatures)'
  BY <1>1, <1>2, FollowersKeepAttested
<1>4. SignedWasRequested'
  <2> SUFFICES ASSUME NEW m \in reports'
               PROVE  m.signature.report \in reportReqs /\ ObservedByMost(m.signature.report)
    BY <1>1 DEF SignedWasRequested, ObservedByMost
  <2>1. CASE m \in reports
    BY <2>1 DEF AttestInv, SignedWasRequested
  <2>2. CASE m = [signature |-> [oracle |-> i, report |-> p], to |-> inc[Leader]]
    <3>1. m.signature.report = p
      BY <2>2
    <3> QED
      BY <1>1, <3>1
  <2> QED
    BY <1>1, <2>1, <2>2
<1>5. Sent(report)' /\ \A a \in finals' : Sent(a.signatures)'
  BY <1>1, <1>2 DEF AttestInv, SignaturesSent, Sent
<1>6. ObservedInRound' /\ RequestedInRound'
  BY <1>1 DEF AttestInv, ObservedInRound, RequestedInRound
<1> QED
  BY <1>3, <1>4, <1>5, <1>6 DEF AttestInv, SignaturesSent

\* An echo is of something verified.
LEMMA EchoKeepsAttested ==
  ASSUME TypeInv, AttestInv, NEW i \in Oracles, NEW a,
         VerifyAttestedReport(a), Sent(a.signatures),
         UNCHANGED <<leaderRound, observe, report, reportReqs, finals, reports>>,
         BroadcastFinalEcho(i, a) \/ finalEchoes' = finalEchoes,
         TransmitAndComplete(i, a) \/ transmitted' = transmitted
  PROVE  AttestInv'
<1>1. \A e \in finalEchoes' : Sent(e.attested.signatures)'
  BY DEF AttestInv, SignaturesSent, Sent, BroadcastFinalEcho
<1>2. Sent(report)' /\ \A b \in finals' : Sent(b.signatures)'
  BY DEF AttestInv, SignaturesSent, Sent
<1>3. ObservedInRound' /\ RequestedInRound' /\ SignedWasRequested'
  BY DEF AttestInv, ObservedInRound, RequestedInRound, SignedWasRequested, ObservedByMost
<1>4. HandedVerified'
  <2>1. CASE transmitted' = transmitted
    BY <2>1 DEF AttestInv, HandedVerified, VerifyAttestedReport, Sent
  <2>2. CASE TransmitAndComplete(i, a)
    <3> DEFINE t == [attested |-> a, inc |-> inc[i]]
    <3>1. transmitted' = [transmitted EXCEPT ![i] = Append(transmitted[i], t)]
      BY <2>2 DEF TransmitAndComplete
    <3>2. transmitted \in [Oracles -> Seq([attested : Attested, inc : Incarnations])]
      BY DEF TypeInv, TypeOK
    <3>3. t.attested = a
      OBVIOUS
    <3> HIDE DEF t
    <3> SUFFICES ASSUME NEW j \in Oracles, NEW k \in DOMAIN transmitted'[j]
                 PROVE  /\ VerifyAttestedReport(transmitted'[j][k].attested)
                        /\ Sent(transmitted'[j][k].attested.signatures)
      BY DEF HandedVerified, VerifyAttestedReport, Sent
    <3>4. transmitted'[j][k] = t \/ (k \in DOMAIN transmitted[j] /\ transmitted'[j][k] = transmitted[j][k])
      <4>1. CASE j # i
        BY <3>1, <3>2, <4>1
      <4>2. CASE j = i
        <5>1. transmitted'[i] = Append(transmitted[i], t)
          BY <3>1, <3>2
        <5>2. transmitted[i] \in Seq([attested : Attested, inc : Incarnations])
          BY <3>2
        <5> QED
          BY <4>2, <5>1, <5>2
      <4> QED
        BY <4>1, <4>2
    <3> QED
      BY <3>3, <3>4 DEF AttestInv, HandedVerified
  <2> QED
    BY <2>1, <2>2
<1> QED
  BY <1>1, <1>2, <1>3, <1>4 DEF AttestInv, SignaturesSent

\* Every step keeps the invariant.
LEMMA NextKeepsAttested ==
  ASSUME TypeInv, AttestInv, [Next]_vars
  PROVE  AttestInv'
<1>1. ASSUME NEW i \in Oracles, NEW a \in finals, OnFinalReceived(i, a)
      PROVE  AttestInv'
  <2>1. /\ VerifyAttestedReport(a) /\ BroadcastFinalEcho(i, a) /\ transmitted' = transmitted
        /\ UNCHANGED <<leaderRound, observe, report, reportReqs, finals, reports>>
    BY <1>1 DEF OnFinalReceived, leaderVars, requestVars
  <2>2. Sent(a.signatures)
    BY DEF AttestInv, SignaturesSent
  <2> QED
    BY <2>1, <2>2, EchoKeepsAttested
<1>2. ASSUME NEW i \in Oracles, NEW m \in finalEchoes, OnFinalEchoReceived(i, m)
      PROVE  AttestInv'
  <2>1. /\ VerifyAttestedReport(m.attested)
        /\ BroadcastFinalEcho(i, m.attested) \/ finalEchoes' = finalEchoes
        /\ TransmitAndComplete(i, m.attested) \/ transmitted' = transmitted
        /\ UNCHANGED <<leaderRound, observe, report, reportReqs, finals, reports>>
    BY <1>2 DEF OnFinalEchoReceived, EchoOnce, leaderVars, requestVars
  <2>2. Sent(m.attested.signatures)
    BY DEF AttestInv, SignaturesSent
  <2> QED
    BY <2>1, <2>2, EchoKeepsAttested
<1>3. CASE UNCHANGED <<reportReqs, finals, finalEchoes, reports, transmitted>>
           /\ (UNCHANGED <<leaderRound, observe, report>> \/ (observe' = {} /\ report' = {}))
  <2>1. HandedVerified' /\ \A e \in finalEchoes' : Sent(e.attested.signatures)'
    BY <1>3, FollowersKeepAttested
  <2>2. ObservedInRound' /\ Sent(report)'
    BY <1>3 DEF AttestInv, ObservedInRound, SignaturesSent, Sent
  <2>3. RequestedInRound' /\ SignedWasRequested' /\ \A a \in finals' : Sent(a.signatures)'
    BY <1>3 DEF AttestInv, RequestedInRound, SignedWasRequested, ObservedByMost, SignaturesSent, Sent
  <2> QED
    BY <2>1, <2>2, <2>3 DEF AttestInv, SignaturesSent
<1>4. ASSUME (\E i \in Oracles, r \in observeReqs :
                OnObserveReqReceived(i, r) \/ OnObserveReqOverMax(i, r))
             \/ (\E i \in Oracles : Crash(i)) \/ (\E i \in Oracles : Rejoin(i)) \/ UNCHANGED vars
      PROVE  UNCHANGED <<reportReqs, finals, finalEchoes, reports, transmitted>>
             /\ (UNCHANGED <<leaderRound, observe, report>> \/ (observe' = {} /\ report' = {}))
  BY <1>4 DEF OnObserveReqReceived, OnObserveReqOverMax, Crash, Rejoin, vars,
              leaderVars, followerVars, requestVars, answerVars
<1> QED
  BY <1>1, <1>2, <1>3, <1>4, LeaderKeepsAttested, OnReportReqKeepsAttested DEF Next

\* The invariant, in the form the theorems below use it.
LEMMA AttestInvariant == Spec => [](TypeInv /\ AttestInv)
<1>1. Init => AttestInv
  BY DEF Init, AttestInv, ObservedInRound, RequestedInRound, SignedWasRequested,
         SignaturesSent, HandedVerified, Sent
<1>2. TypeInv /\ AttestInv /\ [Next]_vars => AttestInv'
  BY NextKeepsAttested
<1> QED
  BY InitTypes, NextTypes, <1>1, <1>2, PTL DEF Spec

\* Whatever an oracle transmits was observed in its round by more than 2f
\* oracles, and more than f oracles signed exactly that, whatever the network
\* does with the messages and whoever crashes.
THEOREM Attested2F == Spec => []TransmittedIsAttested
BY AttestInvariant, AttestInvGivesAttested, PTL

(***************************************************************************)
(* One report per round, for n = 3f + 1 oracles of which at most f crash.  *)
(* Two reports of a round come from different instances of the leader. An  *)
(* instance of a follower answers a round once, to one instance of the     *)
(* leader, so the oracles that are in both reports, more than f, have all  *)
(* been restarted.                                                         *)
(***************************************************************************)

FewCrash == Cardinality(Oracles) <= 3 * F + 1 /\ MaxCrashes <= F

\* Every answer was given by the instance that runs or by an earlier one, for
\* the round that it is in or for an earlier one.
AnsweredBefore ==
  \A m \in observes :
    /\ m.observation.inc <= inc[m.observation.oracle]
    /\ m.observation.inc = inc[m.observation.oracle] =>
         m.observation.round <= round[m.observation.oracle]

\* An instance answers a round once, to one instance of the leader.
AnsweredOnce == \A m, n \in observes : m.observation = n.observation => m = n

AnsweredInMax == \A m \in observes : m.observation.round <= RoundMax

AnswerInv == AnsweredBefore /\ AnsweredOnce /\ AnsweredInMax

\* The oracles that crashed: a new instance runs, or none.
Restarted == {i \in Oracles : inc[i] > 0 \/ (~running[i] /\ i \notin Absent)}

RestartsCounted == Cardinality(Restarted) <= crashes

ObserveSent ==
  /\ \A o \in observe : [observation |-> o, to |-> inc[Leader]] \in observes
  /\ \A o, u \in observe : o.oracle = u.oracle => o = u

GraceHasMost == phase = "grace" => Cardinality(observe) >= 2 * F + 1

\* Instance t of the leader assembled p; if it is the one that runs, it is past
\* the assembly of p's round.
AssembledBy(p, t) ==
  /\ t <= inc[Leader]
  /\ \A o \in p.observations : [observation |-> o, to |-> t] \in observes
  /\ t = inc[Leader] => /\ p.round <= leaderRound
                        /\ p.round = leaderRound => phase \in {"report", "final"}

Assembled == \A p \in reportReqs : ObservedByMost(p) /\ \E t \in Incarnations : AssembledBy(p, t)

LeaderInv == ObserveSent /\ GraceHasMost /\ Assembled /\ OneReportAssembled

\* The types of an answer.
LEMMA AnswerTypes ==
  ASSUME TypeInv, NEW m \in observes
  PROVE  /\ m \in [observation : Observation, to : Incarnations]
         /\ m.observation.oracle \in Oracles
         /\ m.observation.round \in Nat /\ m.observation.inc \in Nat
         /\ inc[m.observation.oracle] \in Nat /\ round[m.observation.oracle] \in Nat
<1>1. m \in [observation : Observation, to : Incarnations]
  BY DEF TypeInv, TypeOK
<1>2. m.observation \in Observation
  BY <1>1
<1>3. m.observation.oracle \in Oracles /\ m.observation.round \in Rounds
      /\ m.observation.inc \in Incarnations
  BY <1>2 DEF Observation
<1> QED
  BY <1>1, <1>3, HandedTypes DEF Rounds, Incarnations

\* Oracles only move on, and nobody answers.
LEMMA MovingOnKeepsAnswers ==
  ASSUME TypeInv, TypeInv', AnswerInv, observes' = observes,
         \A i \in Oracles : inc'[i] > inc[i] \/ (inc'[i] = inc[i] /\ round'[i] >= round[i])
  PROVE  AnswerInv'
<1>1. AnsweredOnce' /\ AnsweredInMax'
  BY DEF AnswerInv, AnsweredOnce, AnsweredInMax
<1>2. ASSUME NEW m \in observes
      PROVE  /\ m.observation.inc <= inc'[m.observation.oracle]
             /\ m.observation.inc = inc'[m.observation.oracle] =>
                  m.observation.round <= round'[m.observation.oracle]
  <2>1. /\ m.observation.oracle \in Oracles
        /\ m.observation.round \in Nat /\ m.observation.inc \in Nat
        /\ inc[m.observation.oracle] \in Nat /\ round[m.observation.oracle] \in Nat
    BY AnswerTypes
  <2>2. inc'[m.observation.oracle] \in Nat /\ round'[m.observation.oracle] \in Nat
    <3>1. inc' \in [Oracles -> Incarnations] /\ round' \in [Oracles -> 0..MaxRound]
      BY DEF TypeInv, TypeOK
    <3> QED
      BY <2>1, <3>1 DEF Incarnations
  <2>3. /\ m.observation.inc <= inc[m.observation.oracle]
        /\ m.observation.inc = inc[m.observation.oracle] =>
             m.observation.round <= round[m.observation.oracle]
    BY DEF AnswerInv, AnsweredBefore
  <2> QED
    BY <2>1, <2>2, <2>3
<1> QED
  BY <1>1, <1>2 DEF AnswerInv, AnsweredBefore

\* An answer is for a later round than any that the instance gave.
LEMMA AnsweringKeepsAnswers ==
  ASSUME TypeInv, AnswerInv, NEW i \in Oracles, NEW r \in observeReqs, OnObserveReqReceived(i, r)
  PROVE  AnswerInv'
<1> DEFINE n == [observation |-> [oracle |-> i, round |-> r, inc |-> inc[i]], to |-> inc[Leader]]
<1>1. /\ round[i] < r /\ r <= RoundMax /\ inc' = inc
      /\ round' = [round EXCEPT ![i] = r] /\ observes' = observes \cup {n}
  BY DEF OnObserveReqReceived, SendObserve, processVars
<1>2. /\ n.observation.oracle = i /\ n.observation.round = r /\ n.observation.inc = inc[i]
  OBVIOUS
<1> HIDE DEF n
<1>3. r \in Nat /\ round[i] \in Nat /\ inc[i] \in Nat /\ round \in [Oracles -> 0..MaxRound]
  <2>1. r \in Rounds /\ round \in [Oracles -> 0..MaxRound]
    BY DEF TypeInv, TypeOK
  <2> QED
    BY <2>1, HandedTypes DEF Rounds
<1>4. round'[i] = r /\ \A j \in Oracles : j # i => round'[j] = round[j]
  BY <1>1, <1>3
<1>5. ASSUME NEW m \in observes
      PROVE  /\ m.observation.inc <= inc[m.observation.oracle]
             /\ m.observation.inc = inc[m.observation.oracle] =>
                  m.observation.round <= round'[m.observation.oracle]
             /\ m.observation # n.observation
  <2>1. /\ m.observation.oracle \in Oracles /\ m.observation.round \in Nat
        /\ m.observation.inc <= inc[m.observation.oracle]
        /\ m.observation.inc = inc[m.observation.oracle] =>
             m.observation.round <= round[m.observation.oracle]
    BY AnswerTypes DEF AnswerInv, AnsweredBefore
  <2>2. CASE m.observation.oracle = i
    BY <1>1, <1>2, <1>3, <1>4, <2>1, <2>2
  <2>3. CASE m.observation.oracle # i
    BY <1>2, <1>4, <2>1, <2>3
  <2> QED
    BY <2>2, <2>3
<1>6. AnsweredBefore'
  <2> SUFFICES ASSUME NEW m \in observes'
               PROVE  /\ m.observation.inc <= inc'[m.observation.oracle]
                      /\ m.observation.inc = inc'[m.observation.oracle] =>
                           m.observation.round <= round'[m.observation.oracle]
    BY DEF AnsweredBefore
  <2>1. CASE m \in observes
    BY <1>1, <1>5, <2>1
  <2>2. CASE m = n
    BY <1>1, <1>2, <1>3, <1>4, <2>2
  <2> QED
    BY <1>1, <2>1, <2>2
<1>7. AnsweredOnce'
  BY <1>1, <1>5 DEF AnswerInv, AnsweredOnce
<1>8. AnsweredInMax'
  BY <1>1, <1>2 DEF AnswerInv, AnsweredInMax
<1> QED
  BY <1>6, <1>7, <1>8 DEF AnswerInv

\* Every step keeps what is known of the answers.
LEMMA NextKeepsAnswers ==
  ASSUME TypeInv, TypeInv', AnswerInv, [Next]_vars
  PROVE  AnswerInv'
<1>0. /\ inc \in [Oracles -> Incarnations] /\ round \in [Oracles -> 0..MaxRound]
      /\ \A i \in Oracles : inc[i] \in Nat /\ round[i] \in Nat
  BY HandedTypes DEF TypeInv, TypeOK
<1>1. ASSUME NEW i \in Oracles, NEW r \in observeReqs, OnObserveReqOverMax(i, r)
      PROVE  AnswerInv'
  <2>1. round[i] < r /\ round' = [round EXCEPT ![i] = r] /\ UNCHANGED <<inc, observes>>
    BY <1>1 DEF OnObserveReqOverMax, processVars, answerVars
  <2>2. r \in Nat
    BY DEF TypeInv, TypeOK, Rounds
  <2>3. \A j \in Oracles : inc'[j] = inc[j] /\ round'[j] >= round[j]
    BY <1>0, <2>1, <2>2
  <2> QED
    BY <2>1, <2>3, MovingOnKeepsAnswers
<1>2. ASSUME NEW i \in Oracles, Rejoin(i)
      PROVE  AnswerInv'
  <2>1. /\ inc' = [inc EXCEPT ![i] = inc[i] + 1] /\ round' = [round EXCEPT ![i] = 0]
        /\ observes' = observes
    BY <1>2 DEF Rejoin, answerVars
  <2>2. \A j \in Oracles : inc'[j] > inc[j] \/ (inc'[j] = inc[j] /\ round'[j] >= round[j])
    BY <1>0, <2>1
  <2> QED
    BY <2>1, <2>2, MovingOnKeepsAnswers
<1>3. CASE UNCHANGED <<inc, round, observes>>
  BY <1>0, <1>3, MovingOnKeepsAnswers
<1>4. ASSUME OnStartEpoch \/ OnTimerRoundTimeout \/ (\E m \in observes : OnObserve(m))
             \/ OnGraceTimerTimeout \/ (\E m \in reports : OnReport(m))
             \/ (\E i \in Oracles, p \in reportReqs, should \in Due : OnReportReqReceived(i, p, should))
             \/ (\E i \in Oracles, a \in finals : OnFinalReceived(i, a))
             \/ (\E i \in Oracles, m \in finalEchoes : OnFinalEchoReceived(i, m))
             \/ (\E i \in Oracles : Crash(i)) \/ UNCHANGED vars
      PROVE  UNCHANGED <<inc, round, observes>>
  BY <1>4 DEF OnStartEpoch, OnTimerRoundTimeout, StartRound, OnObserve, OnGraceTimerTimeout,
              OnReport, OnReportReqReceived, OnFinalReceived, OnFinalEchoReceived, Crash,
              vars, followerVars, processVars, answerVars
<1> QED
  BY <1>1, <1>2, <1>3, <1>4, AnsweringKeepsAnswers DEF Next

\* Every oracle that restarted was paid for with a crash of its own.
LEMMA NextKeepsRestarts ==
  ASSUME TypeInv, RestartsCounted, [Next]_vars
  PROVE  RestartsCounted'
<1>0. /\ inc \in [Oracles -> Incarnations] /\ running \in [Oracles -> BOOLEAN]
      /\ crashes \in Nat /\ \A i \in Oracles : inc[i] \in Nat
  <2>1. /\ inc \in [Oracles -> Incarnations] /\ running \in [Oracles -> BOOLEAN]
        /\ crashes \in 0..MaxCrashes
    BY DEF TypeInv, TypeOK
  <2> QED
    BY <2>1 DEF Incarnations
<1>1. IsFiniteSet(Restarted) /\ Cardinality(Restarted) \in Nat
  <2>1. Restarted \in SUBSET Oracles
    BY DEF Restarted
  <2> HIDE DEF Restarted
  <2> QED
    BY <2>1, FS_Subset, FS_CardinalityType
<1>2. ASSUME NEW i \in Oracles, Crash(i)
      PROVE  RestartsCounted'
  <2>1. crashes' = crashes + 1 /\ inc' = inc /\ running' = [running EXCEPT ![i] = FALSE]
    BY <1>2 DEF Crash
  <2>2. Restarted' \in SUBSET (Restarted \cup {i})
    BY <1>0, <2>1 DEF Restarted
  <2>3. /\ IsFiniteSet(Restarted \cup {i})
        /\ Cardinality(Restarted \cup {i}) \in Nat
        /\ Cardinality(Restarted \cup {i}) <= Cardinality(Restarted) + 1
    <3> HIDE DEF Restarted
    <3>1. IsFiniteSet(Restarted \cup {i})
          /\ Cardinality(Restarted \cup {i})
               = IF i \in Restarted THEN Cardinality(Restarted) ELSE Cardinality(Restarted) + 1
      BY <1>1, FS_AddElement
    <3> QED
      BY <1>1, <3>1
  <2>4. /\ Cardinality(Restarted') <= Cardinality(Restarted \cup {i})
        /\ Cardinality(Restarted') \in Nat
    BY <2>2, <2>3, FS_Subset, FS_CardinalityType
  <2> QED
    BY <1>0, <1>1, <2>1, <2>3, <2>4 DEF RestartsCounted
<1>3. ASSUME NEW i \in Oracles, Rejoin(i)
      PROVE  RestartsCounted'
  <2>1. /\ ~running[i] /\ i \notin Absent /\ crashes' = crashes
        /\ inc' = [inc EXCEPT ![i] = inc[i] + 1] /\ running' = [running EXCEPT ![i] = TRUE]
    BY <1>3 DEF Rejoin
  <2>2. \A j \in Oracles : /\ j = i => inc'[j] > 0 /\ i \in Restarted
                           /\ j # i => inc'[j] = inc[j] /\ running'[j] = running[j]
    <3>1. inc'[i] > 0 /\ i \in Restarted
      BY <1>0, <2>1 DEF Restarted
    <3>2. \A j \in Oracles : j # i => inc'[j] = inc[j] /\ running'[j] = running[j]
      BY <1>0, <2>1
    <3> QED
      BY <3>1, <3>2
  <2>3. Restarted' = Restarted
    <3>1. ASSUME NEW j \in Oracles
          PROVE  j \in Restarted' <=> j \in Restarted
      BY <2>2, Zenon DEF Restarted
    <3>2. Restarted' \in SUBSET Oracles /\ Restarted \in SUBSET Oracles
      BY DEF Restarted
    <3> QED
      BY <3>1, <3>2
  <2> QED
    BY <2>1, <2>3 DEF RestartsCounted
<1>4. ASSUME OnStartEpoch \/ OnTimerRoundTimeout \/ (\E m \in observes : OnObserve(m))
             \/ OnGraceTimerTimeout \/ (\E m \in reports : OnReport(m))
             \/ (\E i \in Oracles, r \in observeReqs :
                   OnObserveReqReceived(i, r) \/ OnObserveReqOverMax(i, r))
             \/ (\E i \in Oracles, p \in reportReqs, should \in Due : OnReportReqReceived(i, p, should))
             \/ (\E i \in Oracles, a \in finals : OnFinalReceived(i, a))
             \/ (\E i \in Oracles, m \in finalEchoes : OnFinalEchoReceived(i, m))
             \/ UNCHANGED vars
      PROVE  UNCHANGED processVars
  BY <1>4 DEF OnStartEpoch, OnTimerRoundTimeout, StartRound, OnObserve, OnGraceTimerTimeout,
              OnReport, OnObserveReqReceived, OnObserveReqOverMax, OnReportReqReceived,
              OnFinalReceived, OnFinalEchoReceived, vars
<1>5. CASE UNCHANGED processVars
  BY <1>5 DEF RestartsCounted, Restarted, processVars
<1> QED
  BY <1>2, <1>3, <1>4, <1>5 DEF Next

\* Two sets of most oracles share more than f of them.
LEMMA MostShare ==
  ASSUME FewCrash, NEW S \in SUBSET Oracles, NEW T \in SUBSET Oracles,
         Cardinality(S) >= 2 * F + 1, Cardinality(T) >= 2 * F + 1
  PROVE  Cardinality(S \cap T) > F
<1>1. IsFiniteSet(S) /\ IsFiniteSet(T) /\ IsFiniteSet(S \cap T) /\ IsFiniteSet(S \cup T)
  BY FS_Subset
<1>2. /\ Cardinality(S) \in Nat /\ Cardinality(T) \in Nat /\ Cardinality(S \cap T) \in Nat
      /\ Cardinality(S \cup T) \in Nat /\ Cardinality(Oracles) \in Nat
  BY <1>1, FS_CardinalityType
<1>3. Cardinality(S \cup T) <= Cardinality(Oracles)
  <2>1. S \cup T \in SUBSET Oracles
    OBVIOUS
  <2> QED
    BY <2>1, FS_Subset
<1>4. Cardinality(S \cup T) = Cardinality(S) + Cardinality(T) - Cardinality(S \cap T)
  BY <1>1, FS_Union
<1> QED
  BY <1>2, <1>3, <1>4, FType DEF FewCrash

\* Two instances of the leader do not collect observations of most oracles for
\* the same round.
LEMMA OneCollector ==
  ASSUME FewCrash, TypeInv, AnswerInv, RestartsCounted,
         NEW P \in SUBSET Observation, NEW Q \in SUBSET Observation, NEW r, NEW t, NEW u,
         \A o \in P : o.round = r /\ [observation |-> o, to |-> t] \in observes,
         \A o \in Q : o.round = r /\ [observation |-> o, to |-> u] \in observes,
         Cardinality({o.oracle : o \in P}) >= 2 * F + 1,
         Cardinality({o.oracle : o \in Q}) >= 2 * F + 1
  PROVE  t = u
<1> SUFFICES ASSUME t # u
             PROVE  FALSE
  OBVIOUS
<1> DEFINE S == {o.oracle : o \in P}
           T == {o.oracle : o \in Q}
<1>1. S \in SUBSET Oracles /\ T \in SUBSET Oracles
  BY DEF Observation
<1>2. S \cap T \in SUBSET Restarted
  <2> SUFFICES ASSUME NEW i \in S \cap T
               PROVE  i \in Restarted
    OBVIOUS
  <2>1. PICK o \in P : o.oracle = i
    OBVIOUS
  <2>2. PICK w \in Q : w.oracle = i
    OBVIOUS
  <2>3. o \in Observation /\ w \in Observation /\ o.round = r /\ w.round = r
    OBVIOUS
  <2>4. PICK m \in observes : m = [observation |-> o, to |-> t]
    OBVIOUS
  <2>5. PICK n \in observes : n = [observation |-> w, to |-> u]
    OBVIOUS
  <2>6. m.observation = o /\ m.to = t /\ n.observation = w /\ n.to = u
    BY <2>4, <2>5
  <2>7. o # w
    BY <2>6 DEF AnswerInv, AnsweredOnce
  <2>8. o.inc # w.inc
    BY <2>1, <2>2, <2>3, <2>7 DEF Observation
  <2>9. /\ o.inc \in Nat /\ o.inc <= inc[i] /\ w.inc \in Nat /\ w.inc <= inc[i]
        /\ inc[i] \in Nat /\ i \in Oracles
    BY <2>1, <2>2, <2>6, AnswerTypes DEF AnswerInv, AnsweredBefore
  <2>10. inc[i] > 0
    BY <2>8, <2>9
  <2> QED
    BY <2>9, <2>10 DEF Restarted
<1>3. Restarted \in SUBSET Oracles
  BY DEF Restarted
<1> HIDE DEF S, T, Restarted
<1>4. Cardinality(S \cap T) > F
  BY <1>1, MostShare DEF S, T
<1>5. /\ Cardinality(S \cap T) <= Cardinality(Restarted) /\ Cardinality(S \cap T) \in Nat
      /\ Cardinality(Restarted) \in Nat
  BY <1>2, <1>3, FS_Subset, FS_CardinalityType
<1>6. Cardinality(Restarted) <= crashes /\ crashes \in 0..MaxCrashes
  BY DEF RestartsCounted, TypeInv, TypeOK
<1> QED
  BY <1>4, <1>5, <1>6, FType DEF FewCrash

\* The leader moves on, and nothing is assembled.
LEMMA MovingOnKeepsAssembled ==
  ASSUME TypeInv, TypeInv', Assembled, reportReqs' = reportReqs, observes \subseteq observes',
         \/ inc'[Leader] > inc[Leader]
         \/ inc'[Leader] = inc[Leader] /\ leaderRound' > leaderRound
         \/ /\ inc'[Leader] = inc[Leader] /\ leaderRound' = leaderRound
            /\ phase \in {"report", "final"} => phase' \in {"report", "final"}
  PROVE  Assembled'
<1> SUFFICES ASSUME NEW p \in reportReqs
             PROVE  ObservedByMost(p) /\ \E t \in Incarnations : AssembledBy(p, t)'
  BY DEF Assembled, ObservedByMost
<1>1. ObservedByMost(p)
  BY DEF Assembled
<1>2. PICK t \in Incarnations : AssembledBy(p, t)
  BY DEF Assembled
<1>3. p.round \in Nat /\ leaderRound \in Nat /\ leaderRound' \in Nat
  <2>1. p \in Report /\ leaderRound \in 0..MaxRound /\ leaderRound' \in 0..MaxRound
    BY DEF TypeInv, TypeOK
  <2> QED
    BY <2>1 DEF Report, Rounds
<1>4. t \in Nat /\ inc[Leader] \in Nat /\ inc'[Leader] \in Nat
  <2>1. inc \in [Oracles -> Incarnations] /\ inc' \in [Oracles -> Incarnations]
    BY DEF TypeInv, TypeOK
  <2> QED
    BY <2>1 DEF Incarnations
<1>5. AssembledBy(p, t)'
  BY <1>2, <1>3, <1>4 DEF AssembledBy
<1> QED
  BY <1>1, <1>5

\* The report is assembled.
LEMMA AssemblingKeepsLeaderInv ==
  ASSUME FewCrash, TypeInv, AttestInv, AnswerInv, RestartsCounted, LeaderInv, OnGraceTimerTimeout
  PROVE  LeaderInv'
<1> DEFINE p == [round |-> leaderRound, observations |-> observe]
<1>1. /\ phase = "grace" /\ phase' = "report" /\ reportReqs' = reportReqs \cup {p}
      /\ UNCHANGED <<leaderRound, observe, inc, observes>>
  BY DEF OnGraceTimerTimeout, BroadcastReportReq, processVars, answerVars
<1>2. p.round = leaderRound /\ p.observations = observe
  OBVIOUS
<1> HIDE DEF p
<1>3. observe \in SUBSET Observation /\ inc[Leader] \in Incarnations
  BY DEF TypeInv, TypeOK
<1>4. /\ \A o \in observe : o.round = leaderRound /\ [observation |-> o, to |-> inc[Leader]] \in observes
      /\ \A o, u \in observe : o.oracle = u.oracle => o = u
  BY DEF AttestInv, ObservedInRound, LeaderInv, ObserveSent
<1>5. Cardinality({o.oracle : o \in observe}) >= 2 * F + 1
  <2> DEFINE T == {o.oracle : o \in observe}
  <2>1. T \in SUBSET Oracles /\ \A o \in observe : o.oracle \in T
    BY <1>3 DEF Observation
  <2> HIDE DEF T
  <2>2. IsFiniteSet(observe) /\ IsFiniteSet(T) /\ Cardinality(observe) <= Cardinality(T)
    BY <1>4, <2>1, DistinctOracles
  <2>3. Cardinality(observe) \in Nat /\ Cardinality(T) \in Nat
    BY <2>2, FS_CardinalityType
  <2>4. Cardinality(observe) >= 2 * F + 1
    BY <1>1 DEF LeaderInv, GraceHasMost
  <2> QED
    BY <2>2, <2>3, <2>4, FType DEF T
<1>6. ASSUME NEW q \in reportReqs
      PROVE  q.round # leaderRound
  <2> SUFFICES ASSUME q.round = leaderRound
               PROVE  FALSE
    OBVIOUS
  <2>1. PICK t \in Incarnations : AssembledBy(q, t)
    BY DEF LeaderInv, Assembled
  <2>2. q.observations \in SUBSET Observation
    BY DEF TypeInv, TypeOK, Report
  <2>3. /\ \A o \in q.observations : o.round = leaderRound /\ [observation |-> o, to |-> t] \in observes
        /\ Cardinality({o.oracle : o \in q.observations}) >= 2 * F + 1
    BY <2>1 DEF AttestInv, RequestedInRound, AssembledBy, LeaderInv, Assembled, ObservedByMost
  <2>4. t = inc[Leader]
    BY <1>3, <1>4, <1>5, <2>2, <2>3, OneCollector
  <2> QED
    BY <1>1, <2>1, <2>4 DEF AssembledBy
<1>7. OneReportAssembled'
  BY <1>1, <1>2, <1>6 DEF LeaderInv, OneReportAssembled
<1>8. Assembled'
  <2> SUFFICES ASSUME NEW q \in reportReqs'
               PROVE  ObservedByMost(q) /\ \E t \in Incarnations : AssembledBy(q, t)'
    BY DEF Assembled, ObservedByMost
  <2>1. CASE q \in reportReqs
    <3>1. PICK t \in Incarnations : AssembledBy(q, t)
      BY <2>1 DEF LeaderInv, Assembled
    <3>2. AssembledBy(q, t)'
      BY <1>1, <3>1 DEF AssembledBy
    <3> QED
      BY <2>1, <3>2 DEF LeaderInv, Assembled
  <2>2. CASE q = p
    <3>1. inc[Leader] \in Nat /\ leaderRound \in Nat
      BY <1>3 DEF Incarnations, TypeInv, TypeOK
    <3>2. PICK t \in Incarnations : t = inc[Leader]
      BY <1>3
    <3>3. /\ q.observations = observe
          /\ q.round <= leaderRound /\ t <= inc[Leader]
      BY <1>2, <2>2, <3>1, <3>2
    <3>4. AssembledBy(q, t)'
      BY <1>1, <1>4, <3>2, <3>3 DEF AssembledBy
    <3>5. ObservedByMost(q)
      BY <1>5, <3>3 DEF ObservedByMost
    <3> QED
      BY <3>4, <3>5
  <2> QED
    BY <1>1, <2>1, <2>2
<1>9. ObserveSent' /\ GraceHasMost'
  BY <1>1 DEF LeaderInv, ObserveSent, GraceHasMost
<1> QED
  BY <1>7, <1>8, <1>9 DEF LeaderInv

\* An observation comes in.
LEMMA OnObserveKeepsLeaderInv ==
  ASSUME TypeInv, TypeInv', LeaderInv, NEW m \in observes, OnObserve(m)
  PROVE  LeaderInv'
<1>1. /\ m.to = inc[Leader] /\ \A o \in observe : o.oracle # m.observation.oracle
      /\ phase \in {"observe", "grace"} /\ observe' = observe \cup {m.observation}
      /\ phase' = IF Cardinality(observe') = 2 * F + 1 THEN "grace" ELSE phase
      /\ UNCHANGED <<leaderRound, inc, observes, reportReqs>>
  BY DEF OnObserve, processVars, requestVars, answerVars
<1>2. m = [observation |-> m.observation, to |-> m.to]
  BY AnswerTypes
<1>3. ObserveSent'
  BY <1>1, <1>2 DEF LeaderInv, ObserveSent
<1>4. GraceHasMost'
  <2>1. observe \in SUBSET Observation /\ \A o \in observe : o.oracle \in Oracles
    BY DEF TypeInv, TypeOK, Observation
  <2>2. IsFiniteSet(observe)
    BY <2>1, DistinctOracles DEF LeaderInv, ObserveSent
  <2>3. /\ Cardinality(observe) \in Nat /\ Cardinality(observe') \in Nat
        /\ Cardinality(observe') >= Cardinality(observe)
    <3>1. /\ IsFiniteSet(observe \cup {m.observation})
          /\ Cardinality(observe \cup {m.observation})
               = IF m.observation \in observe THEN Cardinality(observe) ELSE Cardinality(observe) + 1
      BY <2>2, FS_AddElement
    <3> QED
      BY <1>1, <2>2, <3>1, FS_CardinalityType
  <2>4. CASE Cardinality(observe') = 2 * F + 1
    BY <2>3, <2>4, FType DEF GraceHasMost
  <2>5. CASE Cardinality(observe') # 2 * F + 1
    BY <1>1, <2>3, <2>5, FType DEF LeaderInv, GraceHasMost
  <2> QED
    BY <2>4, <2>5
<1>5. Assembled'
  BY <1>1, MovingOnKeepsAssembled DEF LeaderInv
<1>6. OneReportAssembled'
  BY <1>1 DEF LeaderInv, OneReportAssembled
<1> QED
  BY <1>3, <1>4, <1>5, <1>6 DEF LeaderInv

\* Every step keeps what is known of the leader.
LEMMA NextKeepsLeaderInv ==
  ASSUME FewCrash, TypeInv, TypeInv', AttestInv, AnswerInv, RestartsCounted, LeaderInv, [Next]_vars
  PROVE  LeaderInv'
<1>0. /\ leaderRound \in Nat /\ inc \in [Oracles -> Incarnations] /\ inc[Leader] \in Nat
  <2>1. leaderRound \in 0..MaxRound /\ inc \in [Oracles -> Incarnations]
    BY DEF TypeInv, TypeOK
  <2> QED
    BY <2>1 DEF Incarnations
<1>1. CASE OnStartEpoch \/ OnTimerRoundTimeout
  <2>1. /\ observe' = {} /\ phase' = "observe" /\ leaderRound' = leaderRound + 1
        /\ UNCHANGED <<reportReqs, inc, observes>>
    BY <1>1 DEF OnStartEpoch, OnTimerRoundTimeout, StartRound, processVars, answerVars
  <2>2. Assembled'
    BY <1>0, <2>1, MovingOnKeepsAssembled DEF LeaderInv
  <2> QED
    BY <2>1, <2>2 DEF LeaderInv, ObserveSent, GraceHasMost, OneReportAssembled
<1>2. CASE \E m \in reports : OnReport(m)
  <2>1. /\ phase = "report" /\ phase' \in {"report", "final"}
        /\ UNCHANGED <<reportReqs, observe, leaderRound, inc, observes>>
    BY <1>2 DEF OnReport, processVars, answerVars
  <2>2. Assembled'
    BY <2>1, MovingOnKeepsAssembled DEF LeaderInv
  <2> QED
    BY <2>1, <2>2 DEF LeaderInv, ObserveSent, GraceHasMost, OneReportAssembled
<1>3. ASSUME NEW i \in Oracles, Rejoin(i)
      PROVE  LeaderInv'
  <2>1. /\ inc' = [inc EXCEPT ![i] = inc[i] + 1] /\ UNCHANGED <<reportReqs, observes>>
        /\ IF i = Leader THEN observe' = {} /\ phase' = "none"
                         ELSE UNCHANGED <<leaderRound, observe, phase>>
    BY <1>3 DEF Rejoin, leaderVars, requestVars, answerVars
  <2>2. IF i = Leader THEN inc'[Leader] > inc[Leader] ELSE inc'[Leader] = inc[Leader]
    BY <1>0, <2>1
  <2>3. Assembled'
    BY <2>1, <2>2, MovingOnKeepsAssembled DEF LeaderInv
  <2>4. CASE i = Leader
    BY <2>1, <2>3, <2>4 DEF LeaderInv, ObserveSent, GraceHasMost, OneReportAssembled
  <2>5. CASE i # Leader
    BY <2>1, <2>2, <2>3, <2>5 DEF LeaderInv, ObserveSent, GraceHasMost, OneReportAssembled
  <2> QED
    BY <2>4, <2>5
<1>4. CASE /\ UNCHANGED <<leaderRound, observe, phase, inc, reportReqs>>
           /\ observes \subseteq observes'
  <2>1. Assembled'
    BY <1>4, MovingOnKeepsAssembled DEF LeaderInv
  <2> QED
    BY <1>4, <2>1 DEF LeaderInv, ObserveSent, GraceHasMost, OneReportAssembled
<1>5. ASSUME (\E i \in Oracles, r \in observeReqs :
                OnObserveReqReceived(i, r) \/ OnObserveReqOverMax(i, r))
             \/ (\E i \in Oracles, p \in reportReqs, should \in Due : OnReportReqReceived(i, p, should))
             \/ (\E i \in Oracles, a \in finals : OnFinalReceived(i, a))
             \/ (\E i \in Oracles, m \in finalEchoes : OnFinalEchoReceived(i, m))
             \/ (\E i \in Oracles : Crash(i)) \/ UNCHANGED vars
      PROVE  /\ UNCHANGED <<leaderRound, observe, phase, inc, reportReqs>>
             /\ observes \subseteq observes'
  BY <1>5 DEF OnObserveReqReceived, SendObserve, OnObserveReqOverMax, OnReportReqReceived,
              OnFinalReceived, OnFinalEchoReceived, Crash, vars,
              leaderVars, processVars, requestVars, answerVars
<1> QED
  BY <1>1, <1>2, <1>3, <1>4, <1>5, OnObserveKeepsLeaderInv, AssemblingKeepsLeaderInv DEF Next

AgreeInv == TypeInv /\ AttestInv /\ AnswerInv /\ RestartsCounted /\ LeaderInv

\* The initial states satisfy the invariant.
LEMMA InitAgrees == Init => AgreeInv
<1> SUFFICES ASSUME Init
             PROVE  AgreeInv
  OBVIOUS
<1>1. AttestInv
  BY DEF Init, AttestInv, ObservedInRound, RequestedInRound, SignedWasRequested,
         SignaturesSent, HandedVerified, Sent
<1>2. AnswerInv
  BY DEF Init, AnswerInv, AnsweredBefore, AnsweredOnce, AnsweredInMax
<1>3. RestartsCounted
  <2>1. \A i \in Oracles : inc[i] = 0 /\ running[i] = (i \notin Absent)
    BY DEF Init
  <2>2. Restarted = {}
    <3>1. \A i \in Oracles : ~(inc[i] > 0)
      BY <2>1
    <3>2. \A i \in Oracles : running[i] \/ i \in Absent
      BY <2>1, Zenon
    <3> QED
      BY <3>1, <3>2, Zenon DEF Restarted
  <2> QED
    BY <2>2, FS_EmptySet DEF RestartsCounted, Init
<1>4. LeaderInv
  BY DEF Init, LeaderInv, ObserveSent, GraceHasMost, Assembled, OneReportAssembled
<1> QED
  BY <1>1, <1>2, <1>3, <1>4, InitTypes DEF AgreeInv

\* Every step keeps it.
LEMMA NextAgrees ==
  ASSUME FewCrash, AgreeInv, [Next]_vars
  PROVE  AgreeInv'
<1>1. TypeInv'
  BY NextTypes DEF AgreeInv
<1>2. AttestInv' /\ RestartsCounted'
  BY NextKeepsAttested, NextKeepsRestarts DEF AgreeInv
<1>3. AnswerInv' /\ LeaderInv'
  BY <1>1, NextKeepsAnswers, NextKeepsLeaderInv DEF AgreeInv
<1> QED
  BY <1>1, <1>2, <1>3 DEF AgreeInv

\* The leader assembles one report per round, even when its process dies and
\* it leads the epoch again from round 1.
THEOREM OneAssembled ==
  ASSUME FewCrash
  PROVE  Spec => []OneReportAssembled
<1>1. AgreeInv /\ [Next]_vars => AgreeInv'
  BY NextAgrees
<1>2. AgreeInv => OneReportAssembled
  BY DEF AgreeInv, LeaderInv
<1> QED
  BY InitAgrees, <1>1, <1>2, PTL DEF Spec

\* Agreement: what any two oracles hand to their transmit services for a round
\* is the same report.
THEOREM OneTransmitted ==
  ASSUME FewCrash
  PROVE  Spec => []OneReportPerRound
<1>1. AgreeInv /\ [Next]_vars => AgreeInv'
  BY NextAgrees
<1>2. ASSUME AgreeInv
      PROVE  OneReportPerRound
  <2> SUFFICES ASSUME NEW i \in Oracles, NEW j \in Oracles, NEW s \in Handed(i), NEW t \in Handed(j),
                      s.attested.report.round = t.attested.report.round
               PROVE  s.attested.report = t.attested.report
    BY DEF OneReportPerRound
  <2>1. ASSUME NEW l \in Oracles, NEW u \in Handed(l)
        PROVE  u.attested.report \in reportReqs
    <3>1. VerifyAttestedReport(u.attested) /\ Sent(u.attested.signatures)
      BY <1>2 DEF Handed, AgreeInv, AttestInv, HandedVerified
    <3> QED
      BY <1>2, <3>1, VerifiedWasRequested DEF AgreeInv, AttestInv
  <2> QED
    BY <1>2, <2>1 DEF AgreeInv, LeaderInv, OneReportAssembled
<1> QED
  BY InitAgrees, <1>1, <1>2, PTL DEF Spec

(***************************************************************************)
(* More than f echoes are of one report. A follower counts the echoes of   *)
(* its round without looking at what they echo; that they echo the same is *)
(* because the leader assembles one report per round.                      *)
(***************************************************************************)

\* Whose echo of report p was broadcast.
Echoers(p) == {m.from : m \in {n \in finalEchoes : n.attested.report = p}}

EchoesVerified == \A e \in finalEchoes : VerifyAttestedReport(e.attested)

\* A follower above _roundMax keeps the echoes of the round before it.
EchoesCounted ==
  \A i \in Oracles : round[i] <= RoundMax =>
    \A j \in receivedEcho[i] :
      \E e \in finalEchoes : e.from = j /\ e.attested.report.round = round[i]

HandedEchoed ==
  \A i \in Oracles : \A k \in DOMAIN transmitted[i] :
    Cardinality(Echoers(transmitted[i][k].attested.report)) > F

EchoInv == EchoesVerified /\ EchoesCounted /\ HandedEchoed

\* The echoers of a report are oracles, and they become more.
LEMMA EchoersGrow ==
  ASSUME TypeInv', NEW p, finalEchoes \subseteq finalEchoes', Cardinality(Echoers(p)) > F
  PROVE  Cardinality(Echoers(p)') > F
<1>1. Echoers(p)' \in SUBSET Oracles
  <2>1. \A e \in finalEchoes' : e.from \in Oracles
    BY DEF TypeInv, TypeOK
  <2> QED
    BY <2>1 DEF Echoers
<1>2. Echoers(p) \in SUBSET (Echoers(p)')
  BY DEF Echoers
<1> HIDE DEF Echoers
<1>3. IsFiniteSet(Echoers(p)') /\ IsFiniteSet(Echoers(p))
      /\ Cardinality(Echoers(p)) <= Cardinality(Echoers(p)')
  <2>1. IsFiniteSet(Echoers(p)')
    BY <1>1, FS_Subset
  <2> QED
    BY <1>2, <2>1, FS_Subset
<1>4. Cardinality(Echoers(p)) \in Nat /\ Cardinality(Echoers(p)') \in Nat
  BY <1>3, FS_CardinalityType
<1> QED
  BY <1>3, <1>4, FType

\* A report that passed the verification is the one of its round, and its round
\* is not above _roundMax.
LEMMA VerifiedIsTheReport ==
  ASSUME AgreeInv, NEW a, VerifyAttestedReport(a), Sent(a.signatures)
  PROVE  a.report \in reportReqs /\ a.report.round <= RoundMax
<1>1. a.report \in reportReqs /\ ObservedByMost(a.report)
  BY VerifiedWasRequested DEF AgreeInv, AttestInv
<1>2. PICK o \in a.report.observations : TRUE
  <2>1. ASSUME a.report.observations = {}
        PROVE  FALSE
    <3>1. {o.oracle : o \in a.report.observations} = {}
      BY <2>1
    <3>2. Cardinality({o.oracle : o \in a.report.observations}) = 0
      BY <3>1, FS_EmptySet
    <3> QED
      BY <1>1, <3>2, FType DEF ObservedByMost
  <2> QED
    BY <2>1
<1>3. PICK t \in Incarnations : AssembledBy(a.report, t)
  BY <1>1 DEF AgreeInv, LeaderInv, Assembled
<1>4. PICK m \in observes : m = [observation |-> o, to |-> t]
  BY <1>2, <1>3 DEF AssembledBy
<1>5. m.observation = o
  BY <1>4
<1>6. o.round <= RoundMax /\ o.round = a.report.round
  BY <1>1, <1>2, <1>5 DEF AgreeInv, AnswerInv, AnsweredInMax, AttestInv, RequestedInRound
<1> QED
  BY <1>1, <1>6

\* Echoes are only added, and nobody transmits.
LEMMA EchoesStay ==
  ASSUME TypeInv', EchoInv, transmitted' = transmitted, finalEchoes \subseteq finalEchoes'
  PROVE  HandedEchoed'
<1> SUFFICES ASSUME NEW i \in Oracles, NEW k \in DOMAIN transmitted'[i], NEW q,
                    q = transmitted'[i][k].attested.report
             PROVE  Cardinality(Echoers(q)') > F
  BY DEF HandedEchoed, Echoers
<1>1. Cardinality(Echoers(q)) > F
  BY DEF EchoInv, HandedEchoed
<1> QED
  BY <1>1, EchoersGrow

\* A follower receives an echo.
LEMMA OnFinalEchoKeepsEchoes ==
  ASSUME AgreeInv, TypeInv', EchoInv, NEW i \in Oracles, NEW m \in finalEchoes,
         OnFinalEchoReceived(i, m)
  PROVE  EchoInv'
<1>1. TypeInv
  BY DEF AgreeInv
<1>2. /\ m.attested.report.round = round[i] /\ VerifyAttestedReport(m.attested)
      /\ round' = round /\ inc' = inc
      /\ \/ finalEchoes' = finalEchoes
         \/ finalEchoes' = finalEchoes \cup {[from |-> i, attested |-> m.attested]}
  BY DEF OnFinalEchoReceived, EchoOnce, BroadcastFinalEcho, processVars
<1>3. finalEchoes \subseteq finalEchoes' /\ m \in finalEchoes'
  BY <1>2
<1>4. /\ receivedEcho \in [Oracles -> SUBSET Oracles]
      /\ receivedEcho' = [receivedEcho EXCEPT ![i] = receivedEcho[i] \cup {m.from}]
  BY <1>1 DEF OnFinalEchoReceived, TypeInv, TypeOK
<1>5. EchoesVerified'
  BY <1>2 DEF EchoInv, EchoesVerified, VerifyAttestedReport
<1>6. EchoesCounted'
  <2> SUFFICES ASSUME NEW j \in Oracles, round[j] <= RoundMax, NEW l \in receivedEcho'[j]
               PROVE  \E e \in finalEchoes' : e.from = l /\ e.attested.report.round = round[j]
    BY <1>2 DEF EchoesCounted
  <2>1. CASE l \in receivedEcho[j]
    BY <1>3, <2>1 DEF EchoInv, EchoesCounted
  <2>2. CASE j = i /\ l = m.from
    BY <1>2, <1>3, <2>2
  <2> QED
    BY <1>4, <2>1, <2>2
<1>7. HandedEchoed'
  <2>1. CASE transmitted' = transmitted
    BY <1>3, <2>1, EchoesStay
  <2>2. CASE EnoughEchoes(receivedEcho'[i]) /\ TransmitAndComplete(i, m.attested)
    <3>1. Sent(m.attested.signatures)
      BY DEF AgreeInv, AttestInv, SignaturesSent
    <3>2. PICK p : p = m.attested.report
      OBVIOUS
    <3>3. p \in reportReqs /\ p.round = round[i] /\ round[i] <= RoundMax
      BY <1>2, <3>1, <3>2, VerifiedIsTheReport
    <3>4. ASSUME NEW e \in finalEchoes, e.attested.report.round = round[i]
          PROVE  e.attested.report = p
      <4>1. VerifyAttestedReport(e.attested) /\ Sent(e.attested.signatures)
        BY DEF EchoInv, EchoesVerified, AgreeInv, AttestInv, SignaturesSent
      <4>2. e.attested.report \in reportReqs
        BY <4>1, VerifiedIsTheReport
      <4> QED
        BY <3>3, <3>4, <4>2 DEF AgreeInv, LeaderInv, OneReportAssembled
    <3>5. receivedEcho'[i] \in SUBSET Echoers(p)
      <4> SUFFICES ASSUME NEW l \in receivedEcho'[i]
                   PROVE  l \in Echoers(p)
        OBVIOUS
      <4>1. CASE l = m.from
        BY <3>2, <4>1 DEF Echoers
      <4>2. CASE l \in receivedEcho[i]
        <5>1. PICK e \in finalEchoes : e.from = l /\ e.attested.report.round = round[i]
          BY <3>3, <4>2 DEF EchoInv, EchoesCounted
        <5> QED
          BY <3>4, <5>1 DEF Echoers
      <4> QED
        BY <1>4, <4>1, <4>2
    <3>6. Cardinality(Echoers(p)) > F
      <4>1. Echoers(p) \in SUBSET Oracles
        <5>1. \A e \in finalEchoes : e.from \in Oracles
          BY <1>1 DEF TypeInv, TypeOK
        <5> QED
          BY <5>1 DEF Echoers
      <4> HIDE DEF Echoers
      <4>2. IsFiniteSet(Echoers(p))
        BY <4>1, FS_Subset
      <4>3. IsFiniteSet(receivedEcho'[i]) /\ Cardinality(receivedEcho'[i]) <= Cardinality(Echoers(p))
        BY <3>5, <4>2, FS_Subset
      <4>4. Cardinality(receivedEcho'[i]) \in Nat /\ Cardinality(Echoers(p)) \in Nat
        BY <4>2, <4>3, FS_CardinalityType
      <4>5. Cardinality(receivedEcho'[i]) > F
        BY <2>2 DEF EnoughEchoes
      <4> QED
        BY <4>3, <4>4, <4>5, FType
    <3>7. Cardinality(Echoers(p)') > F
      BY <1>3, <3>6, EchoersGrow
    <3> DEFINE t == [attested |-> m.attested, inc |-> inc[i]]
    <3>8. /\ transmitted' = [transmitted EXCEPT ![i] = Append(transmitted[i], t)]
          /\ t.attested.report = p
      BY <2>2, <3>2 DEF TransmitAndComplete
    <3> HIDE DEF t
    <3>9. transmitted \in [Oracles -> Seq([attested : Attested, inc : Incarnations])]
      BY <1>1 DEF TypeInv, TypeOK
    <3> SUFFICES ASSUME NEW j \in Oracles, NEW k \in DOMAIN transmitted'[j], NEW q,
                        q = transmitted'[j][k].attested.report
                 PROVE  Cardinality(Echoers(q)') > F
      BY DEF HandedEchoed, Echoers
    <3>10. \/ transmitted'[j][k] = t
           \/ k \in DOMAIN transmitted[j] /\ transmitted'[j][k] = transmitted[j][k]
      <4>1. CASE j # i
        BY <3>8, <3>9, <4>1
      <4>2. CASE j = i
        <5>1. transmitted'[i] = Append(transmitted[i], t)
          BY <3>8, <3>9
        <5>2. transmitted[i] \in Seq([attested : Attested, inc : Incarnations])
          BY <3>9
        <5> QED
          BY <4>2, <5>1, <5>2
      <4> QED
        BY <4>1, <4>2
    <3>11. CASE transmitted'[j][k] = t
      BY <3>7, <3>8, <3>11
    <3>12. CASE k \in DOMAIN transmitted[j] /\ transmitted'[j][k] = transmitted[j][k]
      <4>1. Cardinality(Echoers(q)) > F
        BY <3>12 DEF EchoInv, HandedEchoed
      <4> QED
        BY <1>3, <4>1, EchoersGrow
    <3> QED
      BY <3>10, <3>11, <3>12
  <2> QED
    BY <2>1, <2>2 DEF OnFinalEchoReceived
<1> QED
  BY <1>5, <1>6, <1>7 DEF EchoInv

\* Every step keeps what is known of the echoes.
LEMMA NextKeepsEchoes ==
  ASSUME AgreeInv, TypeInv', EchoInv, [Next]_vars
  PROVE  EchoInv'
<1>0. /\ round \in [Oracles -> 0..MaxRound] /\ receivedEcho \in [Oracles -> SUBSET Oracles]
  BY DEF AgreeInv, TypeInv, TypeOK
<1>1. ASSUME NEW i \in Oracles, NEW r \in observeReqs, OnObserveReqReceived(i, r)
      PROVE  EchoInv'
  <2>1. /\ round' = [round EXCEPT ![i] = r] /\ receivedEcho' = [receivedEcho EXCEPT ![i] = {}]
        /\ UNCHANGED <<finalEchoes, transmitted>>
    BY <1>1 DEF OnObserveReqReceived
  <2>2. EchoesCounted'
    BY <1>0, <2>1 DEF EchoInv, EchoesCounted
  <2> QED
    BY <2>1, <2>2, EchoesStay DEF EchoInv, EchoesVerified, VerifyAttestedReport
<1>2. ASSUME NEW i \in Oracles, NEW r \in observeReqs, OnObserveReqOverMax(i, r)
      PROVE  EchoInv'
  <2>1. /\ round' = [round EXCEPT ![i] = r] /\ r = RoundMax + 1
        /\ UNCHANGED <<receivedEcho, finalEchoes, transmitted>>
    BY <1>2 DEF OnObserveReqOverMax, answerVars
  <2>2. EchoesCounted'
    <3> SUFFICES ASSUME NEW j \in Oracles, round'[j] <= RoundMax, NEW l \in receivedEcho[j]
                 PROVE  \E e \in finalEchoes : e.from = l /\ e.attested.report.round = round'[j]
      BY <2>1 DEF EchoesCounted
    <3>1. j # i
      BY <1>0, <2>1
    <3>2. round'[j] = round[j]
      BY <1>0, <2>1, <3>1
    <3> QED
      BY <3>2 DEF EchoInv, EchoesCounted
  <2> QED
    BY <2>1, <2>2, EchoesStay DEF EchoInv, EchoesVerified, VerifyAttestedReport
<1>3. ASSUME NEW i \in Oracles, Rejoin(i)
      PROVE  EchoInv'
  <2>1. /\ round' = [round EXCEPT ![i] = 0] /\ receivedEcho' = [receivedEcho EXCEPT ![i] = {}]
        /\ UNCHANGED <<finalEchoes, transmitted>>
    BY <1>3 DEF Rejoin, answerVars
  <2>2. EchoesCounted'
    BY <1>0, <2>1 DEF EchoInv, EchoesCounted
  <2> QED
    BY <2>1, <2>2, EchoesStay DEF EchoInv, EchoesVerified, VerifyAttestedReport
<1>4. ASSUME NEW i \in Oracles, NEW a \in finals, OnFinalReceived(i, a)
      PROVE  EchoInv'
  <2>1. /\ VerifyAttestedReport(a) /\ UNCHANGED <<round, receivedEcho, transmitted>>
        /\ finalEchoes' = finalEchoes \cup {[from |-> i, attested |-> a]}
    BY <1>4 DEF OnFinalReceived, BroadcastFinalEcho
  <2>2. EchoesVerified'
    BY <2>1 DEF EchoInv, EchoesVerified, VerifyAttestedReport
  <2>3. EchoesCounted'
    BY <2>1 DEF EchoInv, EchoesCounted
  <2>4. finalEchoes \subseteq finalEchoes'
    BY <2>1
  <2> QED
    BY <2>1, <2>2, <2>3, <2>4, EchoesStay DEF EchoInv
<1>5. CASE UNCHANGED <<round, receivedEcho, finalEchoes, transmitted>>
  <2>1. EchoesCounted'
    BY <1>5 DEF EchoInv, EchoesCounted
  <2> QED
    BY <1>5, <2>1, EchoesStay DEF EchoInv, EchoesVerified, VerifyAttestedReport
<1>6. ASSUME OnStartEpoch \/ OnTimerRoundTimeout \/ (\E m \in observes : OnObserve(m))
             \/ OnGraceTimerTimeout \/ (\E m \in reports : OnReport(m))
             \/ (\E i \in Oracles, p \in reportReqs, should \in Due : OnReportReqReceived(i, p, should))
             \/ (\E i \in Oracles : Crash(i)) \/ UNCHANGED vars
      PROVE  UNCHANGED <<round, receivedEcho, finalEchoes, transmitted>>
  BY <1>6 DEF OnStartEpoch, OnTimerRoundTimeout, StartRound, OnObserve, OnGraceTimerTimeout,
              OnReport, OnReportReqReceived, Crash, vars, followerVars, answerVars
<1> QED
  BY <1>1, <1>2, <1>3, <1>4, <1>5, <1>6, OnFinalEchoKeepsEchoes DEF Next

\* A report is transmitted only when more than f oracles echoed that very
\* report, though the follower counts echoes of the round.
THEOREM EchoedByMore ==
  ASSUME FewCrash
  PROVE  Spec => []TransmittedIsEchoed
<1>1. Init => EchoInv
  BY DEF Init, EchoInv, EchoesVerified, EchoesCounted, HandedEchoed
<1>2. AgreeInv /\ [Next]_vars => AgreeInv'
  BY NextAgrees
<1>3. AgreeInv /\ EchoInv /\ [Next]_vars => EchoInv'
  BY <1>2, NextKeepsEchoes DEF AgreeInv
<1>4. EchoInv => TransmittedIsEchoed
  BY DEF EchoInv, HandedEchoed, Echoers, TransmittedIsEchoed, Handed
<1> QED
  BY InitAgrees, <1>1, <1>2, <1>3, <1>4, PTL DEF Spec

(***************************************************************************)
(* The refinement: each handler is a step of ReportAgreement. That the     *)
(* leader assembles a report once for its round, that what is verified was *)
(* asked for and signed, that the echoes counted are of one report and     *)
(* that an instance is behind what it transmitted are the invariants above.*)
(***************************************************************************)

RefinementInv == AgreeInv /\ TransmitInv /\ EchoInv

\* Who echoes p in E, and who does in the pairs of ReportAgreement.
EchoersIn(E, p) == {m.from : m \in {n \in E : n.attested.report = p}}

EchoPairs(E) == {<<m.from, m.attested.report>> : m \in E}

PairedWith(S, p) == {x[1] : x \in {y \in S : y[2] = p}}

LEMMA EchoersOfPairs ==
  ASSUME NEW E, NEW p
  PROVE  PairedWith(EchoPairs(E), p) = EchoersIn(E, p)
<1> DEFINE S == {<<m.from, m.attested.report>> : m \in E}
<1>1. ASSUME NEW m \in E, m.attested.report = p
      PROVE  m.from \in {x[1] : x \in {y \in S : y[2] = p}}
  <2>1. <<m.from, p>> \in S
    BY <1>1
  <2>2. <<m.from, p>>[1] = m.from /\ <<m.from, p>>[2] = p
    OBVIOUS
  <2> HIDE DEF S
  <2> QED
    BY <2>1, <2>2
<1>2. ASSUME NEW x \in S, x[2] = p
      PROVE  \E m \in E : m.attested.report = p /\ m.from = x[1]
  <2>1. PICK m \in E : x = <<m.from, m.attested.report>>
    OBVIOUS
  <2> QED
    BY <1>2, <2>1
<1> HIDE DEF S
<1>3. {x[1] : x \in {y \in S : y[2] = p}} = {m.from : m \in {n \in E : n.attested.report = p}}
  BY <1>1, <1>2
<1> QED
  BY <1>3 DEF S, PairedWith, EchoPairs, EchoersIn

\* The abstract operators say the same.
LEMMA SameMeaning ==
  ASSUME NEW p
  PROVE  /\ Agreement!F = F
         /\ \A S : Agreement!Cardinality(S) = Cardinality(S)
         /\ Agreement!Observers(p) = {o.oracle : o \in p.observations}
         /\ Agreement!Signers(p)
              = {m.signature.oracle : m \in {n \in reports : n.signature.report = p}}
         /\ Agreement!Echoers(p) = Echoers(p)
<1>1. \A S : Agreement!Cardinality(S) = Cardinality(S)
  BY Zenon DEF Agreement!Cardinality, Cardinality
<1>2. Agreement!F = F
  BY <1>1 DEF Agreement!F, F
<1>3. Agreement!Observers(p) = {o.oracle : o \in p.observations}
  BY DEF Agreement!Observers
<1>4. Agreement!Signers(p)
        = {m.signature.oracle : m \in {n \in reports : n.signature.report = p}}
  <2> DEFINE S == {<<m.signature.oracle, m.signature.report>> : m \in reports}
  <2>1. Agreement!Signers(p) = {x[1] : x \in {y \in S : y[2] = p}}
    BY DEF Agreement!Signers
  <2>2. ASSUME NEW m \in reports, m.signature.report = p
        PROVE  m.signature.oracle \in {x[1] : x \in {y \in S : y[2] = p}}
    <3>1. <<m.signature.oracle, p>> \in S
      BY <2>2
    <3>2. <<m.signature.oracle, p>>[1] = m.signature.oracle /\ <<m.signature.oracle, p>>[2] = p
      OBVIOUS
    <3> HIDE DEF S
    <3> QED
      BY <3>1, <3>2
  <2>3. ASSUME NEW x \in S, x[2] = p
        PROVE  \E m \in reports : m.signature.report = p /\ m.signature.oracle = x[1]
    <3>1. PICK m \in reports : x = <<m.signature.oracle, m.signature.report>>
      OBVIOUS
    <3> QED
      BY <2>3, <3>1
  <2> HIDE DEF S
  <2> QED
    BY <2>1, <2>2, <2>3
<1>5. Agreement!Echoers(p) = Echoers(p)
  <2>1. Agreement!Echoers(p) = PairedWith(EchoPairs(finalEchoes), p)
    BY DEF Agreement!Echoers, PairedWith, EchoPairs
  <2>2. Echoers(p) = EchoersIn(finalEchoes, p)
    BY DEF Echoers, EchoersIn
  <2> QED
    BY <2>1, <2>2, EchoersOfPairs
<1> QED
  BY <1>1, <1>2, <1>3, <1>4, <1>5

\* Handing over one more.
LEMMA ReportsOfMore ==
  ASSUME NEW S, NEW s \in Seq(S), NEW t \in S
  PROVE  Reports(Append(s, t)) = Append(Reports(s), [report |-> t.attested.report, life |-> t.inc])
<1> DEFINE T == {[report |-> x.attested.report, life |-> x.inc] : x \in S}
           u == [report |-> t.attested.report, life |-> t.inc]
<1>1. Len(s) \in Nat /\ DOMAIN s = 1..Len(s) /\ \A k \in 1..Len(s) : s[k] \in S
  OBVIOUS
<1>2. Reports(s) = [k \in 1..Len(s) |-> [report |-> s[k].attested.report, life |-> s[k].inc]]
  BY <1>1 DEF Reports
<1>3. Reports(s) \in Seq(T)
  <2>1. \A k \in 1..Len(s) : [report |-> s[k].attested.report, life |-> s[k].inc] \in T
    BY <1>1
  <2> HIDE DEF T
  <2> QED
    BY <1>1, <1>2, <2>1
<1>4. Len(Reports(s)) = Len(s)
  BY <1>1, <1>2, <1>3
<1>5. u \in T
  OBVIOUS
<1> HIDE DEF T
<1>6. /\ DOMAIN Append(s, t) = 1..(Len(s) + 1)
      /\ \A k \in 1..Len(s) : Append(s, t)[k] = s[k]
      /\ Append(s, t)[Len(s) + 1] = t
  BY <1>1
<1>7. /\ Append(Reports(s), u) \in Seq(T)
      /\ DOMAIN Append(Reports(s), u) = 1..(Len(s) + 1)
      /\ \A k \in 1..Len(s) : Append(Reports(s), u)[k] = Reports(s)[k]
      /\ Append(Reports(s), u)[Len(s) + 1] = u
  BY <1>1, <1>3, <1>4, <1>5
<1>8. \A k \in 1..(Len(s) + 1) : Reports(Append(s, t))[k] = Append(Reports(s), u)[k]
  <2> SUFFICES ASSUME NEW k \in 1..(Len(s) + 1)
               PROVE  Reports(Append(s, t))[k] = Append(Reports(s), u)[k]
    OBVIOUS
  <2>0. k \in 1..Len(s) \/ k = Len(s) + 1
    <3>1. \A n \in Nat : \A l \in 1..(n + 1) : l \in 1..n \/ l = n + 1
      BY SMT
    <3> QED
      BY <1>1, <3>1, Zenon
  <2>1. Reports(Append(s, t))[k]
          = [report |-> Append(s, t)[k].attested.report, life |-> Append(s, t)[k].inc]
    BY <1>6 DEF Reports
  <2>2. CASE k \in 1..Len(s)
    BY <1>2, <1>6, <1>7, <2>1, <2>2
  <2>3. CASE k = Len(s) + 1
    BY <1>6, <1>7, <2>1, <2>3
  <2> QED
    BY <2>0, <2>2, <2>3
<1>9. Reports(Append(s, t)) = [k \in 1..(Len(s) + 1) |-> Reports(Append(s, t))[k]]
  BY <1>6 DEF Reports
<1>10. Append(Reports(s), u) = [k \in 1..(Len(s) + 1) |-> Append(Reports(s), u)[k]]
  BY <1>7
<1> QED
  BY <1>8, <1>9, <1>10, Zenon

LEMMA InitAgreement == Init => Agreement!Init
  BY DEF Init, Agreement!Init, Reports

\* Assembling a report makes it, unless it was assembled before.
LEMMA AssemblingMakes ==
  ASSUME AgreeInv, AgreeInv', OnGraceTimerTimeout
  PROVE  Agreement!Make \/ UNCHANGED Agreement!vars
<1>1. PICK p : p = [round |-> leaderRound, observations |-> observe]
  OBVIOUS
<1>2. reportReqs' = reportReqs \cup {p} /\ UNCHANGED <<reports, finalEchoes, inc, transmitted>>
  BY <1>1 DEF OnGraceTimerTimeout, BroadcastReportReq, processVars, answerVars, followerVars
<1>3. CASE p \in reportReqs
  <2>1. reportReqs' = reportReqs
    BY <1>2, <1>3
  <2> QED
    BY <1>2, <2>1 DEF Agreement!vars
<1>4. CASE p \notin reportReqs
  <2>1. p \in reportReqs'
    BY <1>2
  <2>2. \A q \in reportReqs : q.round # p.round
    BY <1>2, <1>4, <2>1 DEF AgreeInv, LeaderInv, OneReportAssembled
  <2>3. Agreement!Observed(p)
    <3> DEFINE n == Cardinality({o.oracle : o \in p.observations})
    <3>1. n >= 2 * F + 1 /\ \A o \in p.observations : o.round = p.round
      BY <2>1 DEF AgreeInv, LeaderInv, Assembled, ObservedByMost, AttestInv, RequestedInRound
    <3>2. n \in Nat
      <4>1. {o.oracle : o \in p.observations} \in SUBSET Oracles
        BY <2>1 DEF AgreeInv, TypeInv, TypeOK, Report, Observation
      <4> QED
        BY <4>1, FS_Subset, FS_CardinalityType
    <3> HIDE DEF n
    <3>3. n > 2 * F
      BY <3>1, <3>2, FType
    <3>4. /\ Agreement!F = F
          /\ Agreement!Cardinality(Agreement!Observers(p)) = n
      BY SameMeaning DEF n
    <3> QED
      BY <3>1, <3>3, <3>4 DEF Agreement!Observed
  <2>4. Agreement!Make
    BY <1>2, <2>1, <2>2, <2>3 DEF Agreement!Make
  <2> QED
    BY <2>4
<1> QED
  BY <1>3, <1>4

\* A signature that is sent.
LEMMA ReportReqSigns ==
  ASSUME NEW i \in Oracles, NEW p \in reportReqs, NEW should \in Due,
         OnReportReqReceived(i, p, should)
  PROVE  Agreement!Sign(i) \/ UNCHANGED Agreement!vars
<1>1. UNCHANGED <<reportReqs, finalEchoes, inc, transmitted>>
  BY DEF OnReportReqReceived, requestVars, processVars
<1>2. CASE reports' = reports
  BY <1>1, <1>2 DEF Agreement!vars
<1>3. CASE reports' = reports \cup {[signature |-> [oracle |-> i, report |-> p], to |-> inc[Leader]]}
  <2>1. {<<m.signature.oracle, m.signature.report>> : m \in reports'}
          = {<<m.signature.oracle, m.signature.report>> : m \in reports} \cup {<<i, p>>}
    <3> DEFINE x == [signature |-> [oracle |-> i, report |-> p], to |-> inc[Leader]]
    <3>1. reports' = reports \cup {x} /\ x.signature.oracle = i /\ x.signature.report = p
      BY <1>3
    <3> HIDE DEF x
    <3>2. \A y : /\ y \in {<<m.signature.oracle, m.signature.report>> : m \in reports'}
                    <=> \E m \in reports' : y = <<m.signature.oracle, m.signature.report>>
                 /\ y \in {<<m.signature.oracle, m.signature.report>> : m \in reports}
                    <=> \E m \in reports : y = <<m.signature.oracle, m.signature.report>>
      BY Zenon
    <3> QED
      BY <3>1, <3>2
  <2>2. Agreement!Sign(i)
    BY <1>1, <2>1 DEF Agreement!Sign
  <2> QED
    BY <2>2
<1> QED
  BY <1>2, <1>3 DEF OnReportReqReceived, SendReport

\* What passed the verification is attested.
LEMMA VerifiedIsAttested ==
  ASSUME AgreeInv, NEW a \in Attested, VerifyAttestedReport(a), Sent(a.signatures)
  PROVE  Agreement!Attested(a.report)
<1>1. a.report \in reportReqs
  BY VerifiedIsTheReport
<1>2. Cardinality({m.signature.oracle : m \in {n \in reports : n.signature.report = a.report}}) > F
  BY VerifiedWasSigned DEF AgreeInv
<1>3. /\ Agreement!F = F
      /\ Agreement!Cardinality(Agreement!Signers(a.report))
           = Cardinality({m.signature.oracle : m \in {n \in reports : n.signature.report = a.report}})
  BY SameMeaning
<1> QED
  BY <1>1, <1>2, <1>3 DEF Agreement!Attested

\* An echo that is broadcast.
LEMMA BroadcastEchoes ==
  ASSUME NEW i \in Oracles, NEW a, BroadcastFinalEcho(i, a)
  PROVE  Agreement!Echo(i, a.report)
<1>1. finalEchoes' = finalEchoes \cup {[from |-> i, attested |-> a]}
  BY DEF BroadcastFinalEcho
<1>2. {<<m.from, m.attested.report>> : m \in finalEchoes'}
        = {<<m.from, m.attested.report>> : m \in finalEchoes} \cup {<<i, a.report>>}
  <2> DEFINE x == [from |-> i, attested |-> a]
  <2>1. finalEchoes' = finalEchoes \cup {x} /\ x.from = i /\ x.attested.report = a.report
    BY <1>1
  <2> HIDE DEF x
  <2>2. \A y : /\ y \in {<<m.from, m.attested.report>> : m \in finalEchoes'}
                  <=> \E m \in finalEchoes' : y = <<m.from, m.attested.report>>
               /\ y \in {<<m.from, m.attested.report>> : m \in finalEchoes}
                  <=> \E m \in finalEchoes : y = <<m.from, m.attested.report>>
    BY Zenon
  <2> QED
    BY <2>1, <2>2
<1> QED
  BY <1>2 DEF Agreement!Echo

\* A report that is handed to the transmit service.
LEMMA TransmittingHandsOver ==
  ASSUME RefinementInv, RefinementInv', NEW i \in Oracles, NEW a \in Attested,
         a.report.round = round[i], ~completedRound[i], TransmitAndComplete(i, a)
  PROVE  Agreement!HandOver(i, a.report)
<1> DEFINE t == [attested |-> a, inc |-> inc[i]]
           S == [attested : Attested, inc : Incarnations]
           u == [report |-> a.report, life |-> inc[i]]
<1>1. TypeInv /\ TypeInv'
  BY DEF RefinementInv, AgreeInv
<1>2. transmitted \in [Oracles -> Seq(S)] /\ transmitted[i] \in Seq(S) /\ inc[i] \in Incarnations
  BY <1>1 DEF TypeInv, TypeOK
<1>3. t \in S /\ t.attested = a /\ t.inc = inc[i]
  BY <1>2
<1>4. transmitted' = [transmitted EXCEPT ![i] = Append(transmitted[i], t)]
  BY DEF TransmitAndComplete
<1> HIDE DEF t, S
<1>5. transmitted'[i] = Append(transmitted[i], t)
  BY <1>2, <1>4
<1>6. Cardinality(Echoers(a.report)') > F
  <2>1. Len(transmitted[i]) + 1 \in DOMAIN transmitted'[i]
        /\ transmitted'[i][Len(transmitted[i]) + 1] = t
    BY <1>2, <1>3, <1>5
  <2>2. PICK k \in DOMAIN transmitted'[i] : transmitted'[i][k] = t
    BY <2>1
  <2>3. transmitted'[i][k].attested.report = a.report
    BY <1>3, <2>2
  <2>4. PICK p : p = a.report
    OBVIOUS
  <2>5. \A j \in Oracles : \A l \in DOMAIN transmitted'[j] : \A q :
          q = transmitted'[j][l].attested.report => Cardinality(Echoers(q)') > F
    BY DEF RefinementInv, EchoInv, HandedEchoed, Echoers
  <2>6. Cardinality(Echoers(p)') > F
    BY <2>2, <2>3, <2>4, <2>5
  <2> QED
    BY <2>4, <2>6
<1>7. \A k \in DOMAIN transmitted[i] :
        transmitted[i][k].inc = inc[i] => transmitted[i][k].attested.report.round < a.report.round
  <2> SUFFICES ASSUME NEW k \in DOMAIN transmitted[i], transmitted[i][k].inc = inc[i]
               PROVE  transmitted[i][k].attested.report.round < a.report.round
    OBVIOUS
  <2>1. Behind(i, transmitted[i][k])
    BY DEF RefinementInv, TransmitInv, CompletedBehind
  <2>2. transmitted[i][k].attested.report.round \in Nat /\ round[i] \in Nat
    BY <1>1, HandedTypes
  <2> QED
    BY <2>1, <2>2 DEF Behind
<1>8. [j \in Oracles |-> Reports(transmitted'[j])]
        = [[j \in Oracles |-> Reports(transmitted[j])] EXCEPT
             ![i] = Append([j \in Oracles |-> Reports(transmitted[j])][i], u)]
  <2>1. Reports(transmitted'[i]) = Append(Reports(transmitted[i]), u)
    BY <1>2, <1>3, <1>5, ReportsOfMore
  <2>2. \A j \in Oracles : j # i => transmitted'[j] = transmitted[j]
    BY <1>2, <1>4
  <2> HIDE DEF u
  <2> QED
    BY <2>1, <2>2
<1>9. /\ DOMAIN Reports(transmitted[i]) = DOMAIN transmitted[i]
      /\ \A k \in DOMAIN transmitted[i] :
           /\ Reports(transmitted[i])[k].life = transmitted[i][k].inc
           /\ Reports(transmitted[i])[k].report = transmitted[i][k].attested.report
  BY DEF Reports
<1>10. /\ Agreement!F = F
       /\ (Agreement!Cardinality(Agreement!Echoers(a.report)))' = Cardinality(Echoers(a.report)')
  <2>1. PICK p : p = a.report
    OBVIOUS
  <2>2. (Agreement!Echoers(p))' = Echoers(p)'
    <3>1. PICK E : E = finalEchoes'
      OBVIOUS
    <3>2. (Agreement!Echoers(p))' = PairedWith(EchoPairs(E), p)
      BY <3>1 DEF Agreement!Echoers, PairedWith, EchoPairs
    <3>3. Echoers(p)' = EchoersIn(E, p)
      BY <3>1 DEF Echoers, EchoersIn
    <3> QED
      BY <3>2, <3>3, EchoersOfPairs
  <2>3. (Agreement!Echoers(a.report))' = Echoers(a.report)'
    BY <2>1, <2>2
  <2> QED
    BY <2>3, SameMeaning
<1> QED
  BY <1>6, <1>7, <1>8, <1>9, <1>10 DEF Agreement!HandOver

\* Every step is one of ReportAgreement, or none.
LEMMA NextAgreement ==
  ASSUME RefinementInv, RefinementInv', [Next]_vars
  PROVE  [Agreement!Next]_(Agreement!vars)
<1> SUFFICES Agreement!Next \/ UNCHANGED Agreement!vars
  OBVIOUS
<1>0. AgreeInv /\ AgreeInv' /\ AttestInv /\ TypeInv
  BY DEF RefinementInv, AgreeInv
<1>1. CASE OnGraceTimerTimeout
  BY <1>0, <1>1, AssemblingMakes DEF Agreement!Next
<1>2. ASSUME NEW i \in Oracles, NEW p \in reportReqs, NEW should \in Due,
             OnReportReqReceived(i, p, should)
      PROVE  Agreement!Next \/ UNCHANGED Agreement!vars
  BY <1>2, ReportReqSigns DEF Agreement!Next
<1>3. ASSUME NEW i \in Oracles, NEW a \in finals, OnFinalReceived(i, a)
      PROVE  Agreement!Next
  <2>1. /\ VerifyAttestedReport(a) /\ BroadcastFinalEcho(i, a)
        /\ UNCHANGED <<reportReqs, reports, inc, transmitted>>
    BY <1>3 DEF OnFinalReceived, requestVars, processVars
  <2>2. a \in Attested /\ Sent(a.signatures)
    BY <1>0 DEF AttestInv, SignaturesSent, TypeInv, TypeOK
  <2>3. Agreement!Attested(a.report) /\ a.report \in reportReqs
    BY <1>0, <2>1, <2>2, VerifiedIsAttested, VerifiedIsTheReport
  <2>4. Agreement!Learn(i)
    BY <2>1, <2>3, BroadcastEchoes DEF Agreement!Learn
  <2> QED
    BY <2>4 DEF Agreement!Next
<1>4. ASSUME NEW i \in Oracles, NEW m \in finalEchoes, OnFinalEchoReceived(i, m)
      PROVE  Agreement!Next
  <2> DEFINE a == m.attested
  <2>1. /\ VerifyAttestedReport(a) /\ a.report.round = round[i] /\ ~completedRound[i]
        /\ BroadcastFinalEcho(i, a) \/ finalEchoes' = finalEchoes
        /\ TransmitAndComplete(i, a) \/ transmitted' = transmitted
        /\ UNCHANGED <<reportReqs, reports, inc>>
    BY <1>4 DEF OnFinalEchoReceived, EchoOnce, requestVars, processVars
  <2>2. a \in Attested /\ Sent(a.signatures)
    BY <1>0 DEF AttestInv, SignaturesSent, TypeInv, TypeOK
  <2> HIDE DEF a
  <2>3. Agreement!Attested(a.report) /\ a.report \in reportReqs
    BY <1>0, <2>1, <2>2, VerifiedIsAttested, VerifiedIsTheReport
  <2>4. TransmitAndComplete(i, a) => Agreement!HandOver(i, a.report)
    BY <2>1, <2>2, TransmittingHandsOver
  <2>5. Agreement!Learn(i)
    BY <2>1, <2>3, <2>4, BroadcastEchoes DEF Agreement!Learn
  <2> QED
    BY <2>5 DEF Agreement!Next
<1>5. ASSUME NEW i \in Oracles, Rejoin(i)
      PROVE  Agreement!Next
  <2>1. Agreement!StartAgain(i)
    BY <1>5 DEF Rejoin, requestVars, answerVars, Agreement!StartAgain
  <2> QED
    BY <2>1 DEF Agreement!Next
<1>6. ASSUME OnStartEpoch \/ OnTimerRoundTimeout \/ (\E m \in observes : OnObserve(m))
             \/ (\E m \in reports : OnReport(m))
             \/ (\E i \in Oracles, r \in observeReqs :
                   OnObserveReqReceived(i, r) \/ OnObserveReqOverMax(i, r))
             \/ (\E i \in Oracles : Crash(i)) \/ UNCHANGED vars
      PROVE  UNCHANGED <<reportReqs, reports, finalEchoes, inc, transmitted>>
  BY <1>6 DEF OnStartEpoch, OnTimerRoundTimeout, StartRound, OnObserve, OnReport,
              OnObserveReqReceived, OnObserveReqOverMax, Crash, vars, leaderVars,
              followerVars, processVars, requestVars, answerVars
<1>7. CASE UNCHANGED <<reportReqs, reports, finalEchoes, inc, transmitted>>
  BY <1>7 DEF Agreement!vars
<1> QED
  BY <1>1, <1>2, <1>3, <1>4, <1>5, <1>6, <1>7 DEF Next

\* The oracles of an epoch keep the promise of ReportAgreement: one report of a
\* round, observed by most and signed and seen by more than f, and handed over
\* in order, whatever the network does with the messages and even when up to f
\* processes, the leader's too, die and start again.
THEOREM KeepsAgreement ==
  ASSUME FewCrash
  PROVE  Spec => ImplementsReportAgreement
<1>1. Init => RefinementInv /\ Agreement!Init
  <2>1. Init => TransmitInv /\ EchoInv
    BY DEF Init, TransmitInv, TransmitsInOrder, CompletedBehind,
           EchoInv, EchoesVerified, EchoesCounted, HandedEchoed
  <2> QED
    BY <2>1, InitAgrees, InitAgreement DEF RefinementInv
<1>2. RefinementInv /\ [Next]_vars => RefinementInv'
  <2> SUFFICES ASSUME RefinementInv, [Next]_vars
               PROVE  RefinementInv'
    OBVIOUS
  <2>1. AgreeInv'
    BY NextAgrees DEF RefinementInv
  <2>2. TypeInv /\ TypeInv'
    BY <2>1 DEF RefinementInv, AgreeInv
  <2> QED
    BY <2>1, <2>2, NextKeepsOrder, NextKeepsEchoes DEF RefinementInv
<1>3. RefinementInv /\ RefinementInv' /\ [Next]_vars => [Agreement!Next]_(Agreement!vars)
  BY NextAgreement
<1> QED
  BY <1>1, <1>2, <1>3, PTL DEF Spec, ImplementsReportAgreement, Agreement!Spec
=============================================================================
