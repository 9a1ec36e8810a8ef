--------------------------- MODULE PacemakerProofs ---------------------------
(***************************************************************************)
(* Proofs about Pacemaker, for any oracles, ledgers, epochs, number of     *)
(* faults and any order that sort() may give the epochs.                   *)
(***************************************************************************)
EXTENDS Pacemaker, FiniteSetTheorems, TLAPS

USE OraclesAssumption, LedgersAssumption, BoundsAssumption DEF Epochs

(***************************************************************************)
(* Operators                                                               *)
(***************************************************************************)

\* The leader function picks an oracle, and f is a natural number.
LEMMA LedgerFacts ==
  ASSUME NEW l \in Ledgers, NEW e \in Epochs
  PROVE  LeaderForEpoch(l, e) \in Oracles /\ F(l) \in Nat
<1>1. l \in Seq(Oracles) /\ Len(l) \in Nat /\ Len(l) > 0
  OBVIOUS
<1>2. (e % Len(l)) + 1 \in 1..Len(l)
  BY <1>1
<1> QED
  BY <1>1, <1>2 DEF LeaderForEpoch, F

\* Sets of oracles are finite, and a larger set has no fewer elements.
LEMMA OracleSets ==
  ASSUME NEW S, NEW T, S \subseteq T, T \subseteq Oracles
  PROVE  /\ Cardinality(S) \in Nat
         /\ Cardinality(T) \in Nat
         /\ Cardinality(S) <= Cardinality(T)
<1>1. IsFiniteSet(T)
  BY FS_Subset
<1> QED
  BY <1>1, FS_Subset, FS_CardinalityType

\* An epoch above the fallback that a rule picks is a value of the map with
\* enough oracles behind it, and comes before the other candidates.
LEMMA FirstCandidateFacts ==
  ASSUME NEW p \in [Oracles -> {0} \cup Epochs], NEW low \in Epochs, NEW t \in Nat,
         NEW v \in FirstCandidate(Candidates(p, low, t), low)
  PROVE  /\ v \in Epochs
         /\ v >= low
         /\ v # low => /\ v \in Candidates(p, low, t)
                       /\ \A w \in Candidates(p, low, t) \ {v} : SortsAfter(v, w)
         /\ v = low => Candidates(p, low, t) = {}
<1> DEFINE C == Candidates(p, low, t)
<1>1. \A w \in C : w \in Epochs /\ w > low
  BY DEF Candidates
<1>2. CASE C = {}
  BY <1>2 DEF FirstCandidate
<1>3. CASE C # {}
  <2>1. v \in C /\ \A w \in C \ {v} : SortsAfter(v, w)
    BY <1>3 DEF FirstCandidate
  <2> QED
    BY <1>1, <2>1, <1>3
<1> QED
  BY <1>2, <1>3

\* The two rules on one map: the epoch that is agreed on is never above the
\* newEpoch that the amplification rule leaves. Both loops see the candidates
\* in the same order, and one that is agreed on is also one to amplify.
LEMMA AgreedBelowAmplified ==
  ASSUME TypeOK, NEW i \in Oracles, epoch[i] <= newEpoch[i],
         NEW p \in [Oracles -> {0} \cup Epochs],
         NEW a \in Amplified(i, p), NEW e \in Agreed(i, p)
  PROVE  /\ a \in Epochs /\ a >= newEpoch[i]
         /\ e \in Epochs /\ e >= epoch[i]
         /\ e <= a
<1> DEFINE f == F(ledger[i])
           A == Candidates(p, newEpoch[i], f)
           B == Candidates(p, epoch[i], 2 * f)
<1>1. f \in Nat /\ 2 * f \in Nat /\ newEpoch[i] \in Epochs /\ epoch[i] \in Epochs
  <2>1. ledger[i] \in Ledgers /\ newEpoch[i] \in Epochs /\ epoch[i] \in Epochs
    BY DEF TypeOK
  <2> QED
    BY <2>1, LedgerFacts
<1>2. /\ a \in Epochs
      /\ a >= newEpoch[i]
      /\ a # newEpoch[i] => a \in A /\ \A w \in A \ {a} : SortsAfter(a, w)
      /\ a = newEpoch[i] => A = {}
  BY <1>1, FirstCandidateFacts DEF Amplified
<1>3. /\ e \in Epochs
      /\ e >= epoch[i]
      /\ e # epoch[i] => e \in B /\ \A w \in B \ {e} : SortsAfter(e, w)
  BY <1>1, FirstCandidateFacts DEF Agreed
<1>4. \A v \in Epochs : Cardinality(Wanting(p, v)) \in Nat
  BY OracleSets DEF Wanting
<1>5. ASSUME e > newEpoch[i]
      PROVE  e \in A
  <2>1. e \in B
    BY <1>1, <1>3, <1>5 DEF TypeOK
  <2> QED
    BY <1>1, <1>3, <1>4, <1>5, <2>1 DEF Candidates
<1>6. ASSUME e > a
      PROVE  FALSE
  <2>1. e > newEpoch[i] /\ e # epoch[i]
    BY <1>1, <1>2, <1>3, <1>6
  <2>2. e \in A /\ e \in B
    BY <1>5, <1>3, <2>1
  <2>3. a # newEpoch[i]
    BY <1>2, <2>2
  <2>4. a \in A /\ SortsAfter(a, e)
    BY <1>1, <1>2, <1>6, <2>2, <2>3
  <2>5. Wanting(p, e) \subseteq Wanting(p, a)
    BY <1>2, <1>3, <1>6 DEF Wanting
  <2>6. Cardinality(Wanting(p, a)) > 2 * f
    <3>1. Cardinality(Wanting(p, e)) > 2 * f
      BY <2>2 DEF Candidates
    <3>2. Cardinality(Wanting(p, e)) <= Cardinality(Wanting(p, a))
      BY <2>5, OracleSets DEF Wanting
    <3> QED
      BY <1>1, <1>2, <1>3, <1>4, <3>1, <3>2
  <2>7. a \in B
    BY <1>1, <1>2, <2>3, <2>4, <2>6 DEF Candidates, TypeOK
  <2>8. SortsAfter(e, a)
    BY <1>1, <1>2, <1>3, <1>6, <2>1, <2>7
  <2> QED
    BY <1>2, <1>3, <1>6, <2>4, <2>8, SortAssumption
<1> QED
  BY <1>2, <1>3, <1>6

(***************************************************************************)
(* Type correctness, together with EpochBelowNewEpoch: the epoch that is   *)
(* agreed on must not exceed what was amplified for newEpoch to be kept.   *)
(***************************************************************************)

TypeInv == TypeOK /\ EpochBelowNewEpoch

\* What the two rules leave behind in one receipt.
LEMMA ReceiptFacts ==
  ASSUME TypeInv, NEW i \in Oracles, NEW j \in Oracles, NEW v \in sent[j],
         NEW a \in Amplified(i, Received(i, j, v)),
         NEW e \in Agreed(i, Received(i, j, v))
  PROVE  /\ Received(i, j, v) \in [Oracles -> {0} \cup Epochs]
         /\ a \in Epochs /\ a >= newEpoch[i]
         /\ e \in Epochs /\ e >= epoch[i]
         /\ e <= a
         /\ Larger(a, e) = a
<1> DEFINE p == Received(i, j, v)
<1>1. v \in Epochs /\ peersNewEpoch[i] \in [Oracles -> {0} \cup Epochs]
  BY DEF TypeInv, TypeOK
<1>2. p \in [Oracles -> {0} \cup Epochs]
  BY <1>1 DEF Larger, Received
<1> HIDE DEF p
<1>3. TypeOK /\ epoch[i] <= newEpoch[i]
  BY DEF TypeInv, EpochBelowNewEpoch
<1>4. /\ a \in Epochs /\ a >= newEpoch[i]
      /\ e \in Epochs /\ e >= epoch[i]
      /\ e <= a
  BY <1>2, <1>3, AgreedBelowAmplified DEF p
<1> QED
  BY <1>2, <1>4 DEF Larger, p

LEMMA InitTypeInv == Init => TypeInv
<1> SUFFICES ASSUME Init
             PROVE  TypeInv
  OBVIOUS
<1> USE DEF Init
<1>1. StartEpoch \in Epochs /\ LeaderForEpoch(chainLedger, StartEpoch) \in Oracles
  BY LedgerFacts
<1>2. peersNewEpoch \in [Oracles -> [Oracles -> {0} \cup Epochs]]
  BY DEF NoPeers
<1>3. reportGen \in [Oracles -> [epoch : Epochs, leader : Oracles, started : BOOLEAN]]
  BY <1>1 DEF StartReportGen
<1>4. epoch \in [Oracles -> Epochs] /\ newEpoch \in [Oracles -> Epochs]
  BY <1>1
<1>5. leader \in [Oracles -> Oracles] /\ ledger \in [Oracles -> Ledgers]
  BY <1>1
<1>6. up \in [Oracles -> BOOLEAN] /\ resendArmed \in [Oracles -> BOOLEAN]
  OBVIOUS
<1>7. sent \in [Oracles -> SUBSET Epochs] /\ entered \in SUBSET Epochs
  BY <1>1
<1>8. initiated \in SUBSET (Oracles \X Epochs) /\ faults \in 0..MaxFaults
  OBVIOUS
<1>9. EpochBelowNewEpoch
  BY DEF EpochBelowNewEpoch
<1>10. chainEpoch \in Epochs /\ chainLedger \in Ledgers
  BY <1>1
<1> HIDE DEF Init
<1> QED
  BY <1>2, <1>3, <1>4, <1>5, <1>6, <1>7, <1>8, <1>9, <1>10 DEF TypeInv, TypeOK

LEMMA NextTypeInv == TypeInv /\ [Next]_vars => TypeInv'
<1> SUFFICES ASSUME TypeInv, [Next]_vars
             PROVE  TypeInv'
  OBVIOUS
<1> USE DEF TypeInv, TypeOK, EpochBelowNewEpoch
<1>1. ASSUME NEW i \in Oracles, OnResendTimerTimeout(i)
      PROVE  TypeInv'
  <2>1. /\ ledger' = [ledger EXCEPT ![i] = chainLedger]
        /\ sent' = [sent EXCEPT ![i] = @ \cup {newEpoch[i]}]
        /\ newEpoch' = [newEpoch EXCEPT ![i] = newEpoch[i]]
        /\ resendArmed' = [resendArmed EXCEPT ![i] = TRUE]
        /\ UNCHANGED <<chainEpoch, chainLedger, up, epoch, leader, peersNewEpoch,
                       reportGen, faults, entered, initiated>>
    BY <1>1 DEF OnResendTimerTimeout, UpdateOracleLedger, SendNewEpoch, history
  <2>2. ledger' \in [Oracles -> Ledgers]
    BY <2>1
  <2>3. sent' \in [Oracles -> SUBSET Epochs]
    BY <2>1
  <2>4. newEpoch' \in [Oracles -> Epochs] /\ EpochBelowNewEpoch'
    BY <2>1
  <2>5. resendArmed' \in [Oracles -> BOOLEAN]
    BY <2>1
  <2> QED
    BY <2>1, <2>2, <2>3, <2>4, <2>5
<1>2. ASSUME NEW i \in Oracles, OnTimeoutOrChangeLeader(i)
      PROVE  TypeInv'
  <2> DEFINE v == NextEpoch(i)
  <2>1. v \in Epochs /\ v >= newEpoch[i] /\ v >= epoch[i]
    <3>1. v <= MaxEpoch
      BY <1>2 DEF OnTimeoutOrChangeLeader
    <3>2. epoch[i] \in Epochs /\ newEpoch[i] \in Epochs
      OBVIOUS
    <3> HIDE DEF TypeInv, TypeOK, EpochBelowNewEpoch
    <3> QED
      BY <3>1, <3>2 DEF NextEpoch, Larger
  <2>2. /\ ledger' = [ledger EXCEPT ![i] = chainLedger]
        /\ sent' = [sent EXCEPT ![i] = @ \cup {v}]
        /\ newEpoch' = [newEpoch EXCEPT ![i] = v]
        /\ resendArmed' = [resendArmed EXCEPT ![i] = TRUE]
        /\ initiated' = initiated \cup {<<i, v>>}
        /\ UNCHANGED <<chainEpoch, chainLedger, up, epoch, leader, peersNewEpoch,
                       reportGen, faults, entered>>
    BY <1>2 DEF OnTimeoutOrChangeLeader, UpdateOracleLedger, SendNewEpoch
  <2> HIDE DEF v
  <2>3. ledger' \in [Oracles -> Ledgers]
    BY <2>2
  <2>4. sent' \in [Oracles -> SUBSET Epochs]
    BY <2>1, <2>2
  <2>5. newEpoch' \in [Oracles -> Epochs] /\ EpochBelowNewEpoch'
    BY <2>1, <2>2
  <2>6. resendArmed' \in [Oracles -> BOOLEAN]
    BY <2>2
  <2>7. initiated' \in SUBSET (Oracles \X Epochs)
    <3>1. <<i, v>> \in Oracles \X Epochs
      BY <2>1
    <3>2. initiated \in SUBSET (Oracles \X Epochs)
      OBVIOUS
    <3> HIDE DEF TypeInv, TypeOK, EpochBelowNewEpoch, Epochs
    <3> QED
      BY <2>2, <3>1, <3>2
  <2> QED
    BY <2>2, <2>3, <2>4, <2>5, <2>6, <2>7
<1>3. ASSUME NEW i \in Oracles, NEW j \in Oracles, NEW v \in sent[j],
             OnNewEpochReceived(i, j, v)
      PROVE  TypeInv'
  <2> DEFINE p == Received(i, j, v)
  <2>1. PICK a \in Amplified(i, p), e \in Agreed(i, p) :
          /\ Amplify(i, a)
          /\ \/ e = epoch[i] /\ KeepEpoch(i, a)
             \/ e # epoch[i] /\ AdoptWithoutConfig(i, a, e)
             \/ e # epoch[i] /\ AdoptAndRestart(i, a, e)
    BY <1>3 DEF OnNewEpochReceived
  <2>2. /\ p \in [Oracles -> {0} \cup Epochs]
        /\ a \in Epochs /\ a >= newEpoch[i]
        /\ e \in Epochs /\ e >= epoch[i]
        /\ e <= a
        /\ Larger(a, e) = a
    <3> HIDE DEF TypeInv
    <3> QED
      BY ReceiptFacts
  <2>3. /\ peersNewEpoch' = [peersNewEpoch EXCEPT ![i] = p]
        /\ UNCHANGED <<chainEpoch, chainLedger, up, ledger, initiated>>
    BY <1>3 DEF OnNewEpochReceived
  <2> HIDE DEF p
  <2>4. sent' \in [Oracles -> SUBSET Epochs] /\ resendArmed' \in [Oracles -> BOOLEAN]
    <3>1. CASE a = newEpoch[i]
      BY <2>1, <3>1 DEF Amplify
    <3>2. CASE a # newEpoch[i]
      <4>1. /\ sent' = [sent EXCEPT ![i] = @ \cup {a}]
            /\ resendArmed' = [resendArmed EXCEPT ![i] = TRUE]
        BY <2>1, <3>2 DEF Amplify
      <4>2. sent' \in [Oracles -> SUBSET Epochs]
        BY <2>2, <4>1
      <4>3. resendArmed' \in [Oracles -> BOOLEAN]
        BY <4>1
      <4> QED
        BY <4>2, <4>3
    <3> QED
      BY <3>1, <3>2
  <2>5. LeaderForEpoch(ledger[i], e) \in Oracles
    BY <2>2, LedgerFacts
  <2>6. peersNewEpoch' \in [Oracles -> [Oracles -> {0} \cup Epochs]]
    BY <2>2, <2>3
  <2>7. newEpoch' = [newEpoch EXCEPT ![i] = a]
    BY <2>1, <2>2 DEF KeepEpoch, AdoptWithoutConfig, AdoptAndRestart
  <2>8. epoch' = [epoch EXCEPT ![i] = e]
    BY <2>1 DEF KeepEpoch, AdoptWithoutConfig, AdoptAndRestart
  <2>9. /\ newEpoch' \in [Oracles -> Epochs]
        /\ epoch' \in [Oracles -> Epochs]
        /\ EpochBelowNewEpoch'
    BY <2>2, <2>7, <2>8
  <2>10. leader' \in [Oracles -> Oracles]
    BY <2>1, <2>5 DEF KeepEpoch, AdoptWithoutConfig, AdoptAndRestart
  <2>11. reportGen' \in [Oracles -> [epoch : Epochs, leader : Oracles, started : BOOLEAN]]
    <3>1. StartReportGen(e, LeaderForEpoch(ledger[i], e), LeaderForEpoch(ledger[i], e) = i)
            \in [epoch : Epochs, leader : Oracles, started : BOOLEAN]
      BY <2>2, <2>5 DEF StartReportGen
    <3> QED
      BY <2>1, <3>1 DEF KeepEpoch, AdoptWithoutConfig, AdoptAndRestart
  <2>12. entered' \in SUBSET Epochs
    BY <2>1, <2>2 DEF KeepEpoch, AdoptWithoutConfig, AdoptAndRestart
  <2>13. faults' \in 0..MaxFaults
    <3>1. faults' = faults \/ (faults < MaxFaults /\ faults' = faults + 1)
      BY <2>1 DEF KeepEpoch, AdoptWithoutConfig, AdoptAndRestart
    <3>2. faults \in 0..MaxFaults
      OBVIOUS
    <3> HIDE DEF TypeInv, TypeOK, EpochBelowNewEpoch
    <3> QED
      BY <3>1, <3>2
  <2> QED
    BY <2>3, <2>4, <2>6, <2>9, <2>10, <2>11, <2>12, <2>13
<1>4. ASSUME NEW i \in Oracles, Crash(i)
      PROVE  TypeInv'
  <2>1. /\ up' = [up EXCEPT ![i] = FALSE]
        /\ faults' = faults + 1 /\ faults < MaxFaults
        /\ UNCHANGED <<chainEpoch, chainLedger, ledger, epoch, leader, newEpoch,
                       peersNewEpoch, resendArmed, reportGen, sent, entered, initiated>>
    BY <1>4 DEF Crash, memory, history
  <2>2. up' \in [Oracles -> BOOLEAN] /\ faults' \in 0..MaxFaults
    BY <2>1
  <2> QED
    BY <2>1, <2>2
<1>5. ASSUME NEW i \in Oracles, Initialize(i)
      PROVE  TypeInv'
  <2>1. LeaderForEpoch(chainLedger, chainEpoch) \in Oracles
    BY LedgerFacts
  <2>2. NoPeers \in [Oracles -> {0} \cup Epochs]
    BY DEF NoPeers
  <2> DEFINE l == LeaderForEpoch(chainLedger, chainEpoch)
  <2>3. /\ up' = [up EXCEPT ![i] = TRUE]
        /\ ledger' = [ledger EXCEPT ![i] = chainLedger]
        /\ epoch' = [epoch EXCEPT ![i] = chainEpoch]
        /\ leader' = [leader EXCEPT ![i] = l]
        /\ newEpoch' = [newEpoch EXCEPT ![i] = chainEpoch]
        /\ peersNewEpoch' = [peersNewEpoch EXCEPT ![i] = NoPeers]
        /\ resendArmed' = [resendArmed EXCEPT ![i] = FALSE]
        /\ reportGen' = [reportGen EXCEPT ![i] = StartReportGen(chainEpoch, l, FALSE)]
        /\ UNCHANGED <<chainEpoch, chainLedger, sent, faults, entered, initiated>>
    BY <1>5 DEF Initialize, UpdateOracleLedger, history
  <2>4. StartReportGen(chainEpoch, l, FALSE)
          \in [epoch : Epochs, leader : Oracles, started : BOOLEAN]
    BY <2>1 DEF StartReportGen
  <2> HIDE DEF l
  <2>5. reportGen' \in [Oracles -> [epoch : Epochs, leader : Oracles, started : BOOLEAN]]
    BY <2>3, <2>4
  <2>6. peersNewEpoch' \in [Oracles -> [Oracles -> {0} \cup Epochs]]
    BY <2>2, <2>3
  <2>7. /\ epoch' \in [Oracles -> Epochs]
        /\ newEpoch' \in [Oracles -> Epochs]
        /\ EpochBelowNewEpoch'
    <3>1. chainEpoch \in Epochs
      OBVIOUS
    <3>2. epoch' \in [Oracles -> Epochs] /\ newEpoch' \in [Oracles -> Epochs]
      BY <2>3, <3>1
    <3>3. ASSUME NEW k \in Oracles
          PROVE  epoch'[k] <= newEpoch'[k]
      <4>1. epoch'[k] = IF k = i THEN chainEpoch ELSE epoch[k]
        BY <2>3
      <4>2. newEpoch'[k] = IF k = i THEN chainEpoch ELSE newEpoch[k]
        BY <2>3
      <4>3. epoch[k] <= newEpoch[k]
        OBVIOUS
      <4> QED
        BY <3>1, <4>1, <4>2, <4>3
    <3> QED
      BY <3>2, <3>3
  <2>8. up' \in [Oracles -> BOOLEAN] /\ resendArmed' \in [Oracles -> BOOLEAN]
    BY <2>3
  <2>9. ledger' \in [Oracles -> Ledgers] /\ leader' \in [Oracles -> Oracles]
    BY <2>1, <2>3 DEF l
  <2> QED
    BY <2>3, <2>5, <2>6, <2>7, <2>8, <2>9
<1>6. ASSUME NEW e \in entered, CommitReport(e)
      PROVE  TypeInv'
  BY <1>6 DEF CommitReport, memory, history
<1>7. ASSUME NEW l \in Ledgers, ChangeLedger(l)
      PROVE  TypeInv'
  BY <1>7 DEF ChangeLedger, memory, history
<1>8. CASE UNCHANGED vars
  BY <1>8 DEF vars, memory, history
<1>9. ASSUME NEW i \in Oracles, OnChangeLeaderElsewhere(i)
      PROVE  TypeInv'
  BY <1>9 DEF OnChangeLeaderElsewhere, UpdateOracleLedger, history
<1> QED
  BY <1>1, <1>2, <1>3, <1>4, <1>5, <1>6, <1>7, <1>8, <1>9 DEF Next

\* Every variable keeps its type, and no oracle runs an epoch above the one it
\* announces.
THEOREM TypeCorrectness == Spec => []TypeOK
<1>1. TypeInv => TypeOK
  BY DEF TypeInv
<1> QED
  BY <1>1, InitTypeInv, NextTypeInv, PTL DEF Spec

\* No oracle runs an epoch above the one it announces (and resends), on every
\* path of the handlers, the failed read of the configuration included.
THEOREM AnnouncesItsEpoch == Spec => []EpochBelowNewEpoch
<1>1. TypeInv => EpochBelowNewEpoch
  BY DEF TypeInv
<1> QED
  BY <1>1, InitTypeInv, NextTypeInv, PTL DEF Spec

(***************************************************************************)
(* Who moves the epoch. What an oracle ever sent it asked for of its own   *)
(* accord, or more than f oracles had: amplification only repeats. The     *)
(* maps hold what was sent, a resend repeats it, and an epoch is entered   *)
(* from the maps or from the blockchain, which holds entered ones.         *)
(***************************************************************************)

Quorum(v) == \E l \in Ledgers : Cardinality(Initiators(v)) > F(l)

PeersSent(p) == \A k \in Oracles : p[k] = 0 \/ p[k] \in sent[k]

SentInitiated ==
  \A j \in Oracles : \A v \in sent[j] : j \in Initiators(v) \/ Quorum(v)

ResendsSent == \A i \in Oracles : resendArmed[i] => newEpoch[i] \in sent[i]

NewEpochKnown == \A i \in Oracles : newEpoch[i] \in sent[i] \/ newEpoch[i] \in entered

HistoryInv ==
  /\ TypeInv
  /\ chainEpoch \in entered
  /\ \A i \in Oracles : epoch[i] \in entered
  /\ \A i \in Oracles : PeersSent(peersNewEpoch[i])
  /\ ResendsSent
  /\ NewEpochKnown
  /\ SentInitiated
  /\ EpochBacked
  /\ NoLoneEpochChange
  /\ NewEpochAdvancesByOne

\* A later epoch has no more initiators than an earlier one.
LEMMA QuorumDown ==
  ASSUME NEW v \in Epochs, NEW w \in Epochs, v <= w
  PROVE  /\ Initiators(w) \subseteq Initiators(v)
         /\ Quorum(w) => Quorum(v)
<1>1. Initiators(w) \subseteq Initiators(v) /\ Initiators(v) \subseteq Oracles
  BY DEF Initiators
<1>2. /\ Cardinality(Initiators(w)) \in Nat
      /\ Cardinality(Initiators(v)) \in Nat
      /\ Cardinality(Initiators(w)) <= Cardinality(Initiators(v))
  BY <1>1, OracleSets
<1>3. \A l \in Ledgers : F(l) \in Nat
  BY LedgerFacts
<1> QED
  BY <1>1, <1>2, <1>3 DEF Quorum

\* When more than f values of a map are v or more, more than f oracles asked
\* for v of their own accord.
LEMMA WantedIsInitiated ==
  ASSUME SentInitiated, TypeOK,
         NEW p \in [Oracles -> {0} \cup Epochs], PeersSent(p),
         NEW v \in Epochs, v > 0,
         NEW l \in Ledgers, Cardinality(Wanting(p, v)) > F(l)
  PROVE  Quorum(v)
<1>1. CASE \E k \in Wanting(p, v) : k \notin Initiators(v)
  <2>1. PICK k \in Wanting(p, v) : k \notin Initiators(v)
    BY <1>1
  <2>2. k \in Oracles /\ p[k] >= v /\ p[k] \in Epochs /\ p[k] \in sent[k]
    <3>1. k \in Oracles /\ p[k] >= v
      BY DEF Wanting
    <3> QED
      BY <3>1 DEF PeersSent
  <2>3. k \notin Initiators(p[k])
    BY <2>1, <2>2, QuorumDown
  <2>4. Quorum(p[k])
    BY <2>2, <2>3 DEF SentInitiated
  <2> QED
    BY <2>2, <2>4, QuorumDown
<1>2. CASE Wanting(p, v) \subseteq Initiators(v)
  <2>1. /\ Cardinality(Wanting(p, v)) \in Nat
        /\ Cardinality(Initiators(v)) \in Nat
        /\ Cardinality(Wanting(p, v)) <= Cardinality(Initiators(v))
    BY <1>2, OracleSets DEF Initiators
  <2>2. F(l) \in Nat
    BY LedgerFacts
  <2> QED
    BY <2>1, <2>2 DEF Quorum
<1> QED
  BY <1>1, <1>2

\* The oracles a map shows to want v have asked for it.
LEMMA WantedIsAsked ==
  ASSUME TypeOK, NEW p \in [Oracles -> {0} \cup Epochs], PeersSent(p),
         NEW v \in Epochs, v > 0
  PROVE  Wanting(p, v) \subseteq Askers(v)
<1> SUFFICES ASSUME NEW k \in Wanting(p, v)
             PROVE  k \in Askers(v)
  OBVIOUS
<1>1. k \in Oracles /\ p[k] >= v
  BY DEF Wanting
<1>2. p[k] \in sent[k]
  BY <1>1 DEF PeersSent
<1> QED
  BY <1>1, <1>2 DEF Askers

\* Histories only grow, so what they establish stays.
Grows ==
  /\ \A j \in Oracles : sent[j] \subseteq sent'[j]
  /\ entered \subseteq entered'
  /\ initiated \subseteq initiated'

LEMMA StaysEstablished ==
  ASSUME TypeOK, TypeOK', Grows, NEW v \in Epochs
  PROVE  /\ Initiators(v) \subseteq Initiators(v)'
         /\ Quorum(v) => Quorum(v)'
         /\ \A l \in Ledgers : Cardinality(Askers(v)) > 2 * F(l)
                                 => Cardinality(Askers(v)') > 2 * F(l)
<1>1. Initiators(v) \subseteq Initiators(v)' /\ Initiators(v)' \subseteq Oracles
  BY DEF Initiators, Grows
<1>2. Askers(v) \subseteq Askers(v)' /\ Askers(v)' \subseteq Oracles
  BY DEF Askers, Grows
<1>3. /\ Cardinality(Initiators(v)) \in Nat
      /\ Cardinality(Initiators(v)') \in Nat
      /\ Cardinality(Initiators(v)) <= Cardinality(Initiators(v)')
  BY <1>1, OracleSets
<1>4. /\ Cardinality(Askers(v)) \in Nat
      /\ Cardinality(Askers(v)') \in Nat
      /\ Cardinality(Askers(v)) <= Cardinality(Askers(v)')
  BY <1>2, OracleSets
<1>5. \A l \in Ledgers : F(l) \in Nat
  BY LedgerFacts
<1>6. Quorum(v) => Quorum(v)'
  BY <1>3, <1>5 DEF Quorum
<1> QED
  BY <1>1, <1>4, <1>5, <1>6

\* What a step must show: the new values it sends and the new epochs it enters
\* are established; the rest stays.
LEMMA HistoryStep ==
  ASSUME HistoryInv, TypeInv', Grows,
         chainEpoch' \in entered',
         \A i \in Oracles : epoch'[i] \in entered',
         \A i \in Oracles : PeersSent(peersNewEpoch[i])',
         ResendsSent', NewEpochKnown',
         \A j \in Oracles : \A v \in sent'[j] \ sent[j] :
           /\ j \in Initiators(v)' \/ Quorum(v)'
           /\ \E e \in entered' : v <= e + 1,
         \A e \in entered' \ entered :
           /\ Quorum(e)'
           /\ \E l \in Ledgers : Cardinality(Askers(e)') > 2 * F(l)
  PROVE  HistoryInv'
<1>1. TypeOK /\ TypeOK'
  BY DEF HistoryInv, TypeInv
<1>2. SentInitiated'
  <2> SUFFICES ASSUME NEW j \in Oracles, NEW v \in sent'[j]
               PROVE  j \in Initiators(v)' \/ Quorum(v)'
    BY DEF SentInitiated
  <2>1. v \in Epochs
    BY <1>1 DEF TypeOK
  <2>2. CASE v \in sent[j]
    BY <1>1, <2>1, <2>2, StaysEstablished DEF HistoryInv, SentInitiated
  <2> QED
    BY <2>2
<1>3. EpochBacked'
  <2> SUFFICES ASSUME NEW e \in entered', e > StartEpoch
               PROVE  \E l \in Ledgers : Cardinality(Askers(e)') > 2 * F(l)
    BY DEF EpochBacked
  <2>1. e \in Epochs
    BY <1>1 DEF TypeOK
  <2>2. CASE e \in entered
    BY <1>1, <2>1, <2>2, StaysEstablished DEF HistoryInv, EpochBacked
  <2> QED
    BY <2>2
<1>4. NoLoneEpochChange'
  <2> SUFFICES ASSUME NEW e \in entered', e > StartEpoch
               PROVE  Quorum(e)'
    BY DEF NoLoneEpochChange, Quorum
  <2>1. e \in Epochs
    BY <1>1 DEF TypeOK
  <2>2. CASE e \in entered
    <3>1. Quorum(e)
      BY <2>2 DEF HistoryInv, NoLoneEpochChange, Quorum
    <3> QED
      BY <1>1, <2>1, <3>1, StaysEstablished
  <2> QED
    BY <2>2
<1>5. NewEpochAdvancesByOne'
  <2> SUFFICES ASSUME NEW j \in Oracles, NEW v \in sent'[j]
               PROVE  \E e \in entered' : v <= e + 1
    BY DEF NewEpochAdvancesByOne
  <2>1. CASE v \in sent[j]
    BY <2>1 DEF HistoryInv, NewEpochAdvancesByOne, Grows
  <2> QED
    BY <2>1
<1> QED
  BY <1>2, <1>3, <1>4, <1>5 DEF HistoryInv

\* Steps that neither send nor enter anything new.
LEMMA QuietStep ==
  ASSUME HistoryInv, TypeInv',
         UNCHANGED <<sent, entered, initiated>>,
         chainEpoch' \in entered,
         \A i \in Oracles : epoch'[i] \in entered,
         \A i \in Oracles : PeersSent(peersNewEpoch[i])',
         ResendsSent', NewEpochKnown'
  PROVE  HistoryInv'
<1>1. Grows
  BY DEF Grows
<1> QED
  BY <1>1, HistoryStep

LEMMA FrozenStep ==
  ASSUME HistoryInv, TypeInv', chainEpoch' \in entered,
         UNCHANGED <<epoch, newEpoch, peersNewEpoch, resendArmed, sent, entered, initiated>>
  PROVE  HistoryInv'
<1>1. \A i \in Oracles : epoch'[i] \in entered
  BY DEF HistoryInv
<1>2. \A i \in Oracles : PeersSent(peersNewEpoch[i])'
  BY DEF HistoryInv, PeersSent
<1>3. ResendsSent' /\ NewEpochKnown'
  BY DEF HistoryInv, ResendsSent, NewEpochKnown
<1> QED
  BY <1>1, <1>2, <1>3, QuietStep

LEMMA InitHistoryInv == Init => HistoryInv
<1> SUFFICES ASSUME Init
             PROVE  HistoryInv
  OBVIOUS
<1>1. TypeInv
  BY InitTypeInv
<1>2. /\ chainEpoch \in entered
      /\ \A i \in Oracles : epoch[i] \in entered
      /\ NewEpochKnown
      /\ ResendsSent
  BY DEF Init, NewEpochKnown, ResendsSent
<1>3. \A i \in Oracles : PeersSent(peersNewEpoch[i])
  BY DEF Init, PeersSent, NoPeers
<1>4. SentInitiated /\ NewEpochAdvancesByOne
  BY DEF Init, SentInitiated, NewEpochAdvancesByOne
<1>5. EpochBacked /\ NoLoneEpochChange
  BY DEF Init, EpochBacked, NoLoneEpochChange
<1> QED
  BY <1>1, <1>2, <1>3, <1>4, <1>5 DEF HistoryInv

\* What a receipt of i leaves: its newEpoch at a and its epoch at e.
ReceiptEffect(i, p, a, e) ==
  /\ p \in [Oracles -> {0} \cup Epochs] /\ PeersSent(p)
  /\ peersNewEpoch' = [peersNewEpoch EXCEPT ![i] = p]
  /\ newEpoch' = [newEpoch EXCEPT ![i] = a]
  /\ Amplify(i, a)
  /\ a # newEpoch[i] => Quorum(a) /\ \E k \in Oracles : a \in sent[k]
  /\ epoch' = [epoch EXCEPT ![i] = e]
  /\ entered' = entered \cup {e}
  /\ e # epoch[i] => e > epoch[i] /\ Quorum(e) /\ Cardinality(Askers(e)) > 2 * F(ledger[i])
  /\ UNCHANGED <<chainEpoch, initiated>>

\* A receipt: what is amplified and what is agreed on comes from the map.
LEMMA ReceiptHasEffect ==
  ASSUME HistoryInv, TypeInv', NEW i \in Oracles, NEW j \in Oracles, NEW v \in sent[j],
         OnNewEpochReceived(i, j, v)
  PROVE  \E p \in [Oracles -> {0} \cup Epochs], a, e \in Epochs : ReceiptEffect(i, p, a, e)
<1> DEFINE p == Received(i, j, v)
           f == F(ledger[i])
<1>1. PICK a \in Amplified(i, p), e \in Agreed(i, p) :
        /\ Amplify(i, a)
        /\ \/ e = epoch[i] /\ KeepEpoch(i, a)
           \/ e # epoch[i] /\ AdoptWithoutConfig(i, a, e)
           \/ e # epoch[i] /\ AdoptAndRestart(i, a, e)
  BY DEF OnNewEpochReceived
<1>2. /\ peersNewEpoch' = [peersNewEpoch EXCEPT ![i] = p]
      /\ UNCHANGED <<chainEpoch, chainLedger, up, ledger, initiated>>
  BY DEF OnNewEpochReceived
<1>3. /\ TypeInv /\ TypeOK /\ TypeOK'
      /\ ledger[i] \in Ledgers /\ f \in Nat /\ 2 * f \in Nat
      /\ newEpoch[i] \in Epochs /\ epoch[i] \in Epochs
  <2>1. TypeOK /\ TypeOK' /\ TypeInv
    BY DEF HistoryInv, TypeInv
  <2>2. ledger[i] \in Ledgers /\ newEpoch[i] \in Epochs /\ epoch[i] \in Epochs
    BY <2>1 DEF TypeOK
  <2> QED
    BY <2>1, <2>2, LedgerFacts
<1>4. /\ p \in [Oracles -> {0} \cup Epochs]
      /\ a \in Epochs /\ a >= newEpoch[i]
      /\ e \in Epochs /\ e >= epoch[i]
      /\ Larger(a, e) = a
  BY <1>3, ReceiptFacts
<1>5. PeersSent(p)
  <2>1. v \in Epochs /\ peersNewEpoch[i] \in [Oracles -> {0} \cup Epochs]
    BY <1>3 DEF TypeOK
  <2>2. PeersSent(peersNewEpoch[i])
    BY DEF HistoryInv
  <2> QED
    BY <2>1, <2>2 DEF PeersSent, Received, Larger
<1>6. newEpoch' = [newEpoch EXCEPT ![i] = a]
  BY <1>1, <1>4 DEF KeepEpoch, AdoptWithoutConfig, AdoptAndRestart
<1>7. epoch' = [epoch EXCEPT ![i] = e]
  <2>1. CASE KeepEpoch(i, a) /\ e = epoch[i]
    BY <1>3, <2>1 DEF KeepEpoch, TypeOK
  <2> QED
    BY <1>1, <2>1 DEF AdoptWithoutConfig, AdoptAndRestart
<1>8. entered' = entered \cup {e}
  <2>1. epoch[i] \in entered
    BY DEF HistoryInv
  <2> QED
    BY <1>1, <2>1 DEF KeepEpoch, AdoptWithoutConfig, AdoptAndRestart
<1>9. /\ Cardinality(Wanting(p, a)) \in Nat
      /\ Cardinality(Wanting(p, e)) \in Nat
  BY OracleSets DEF Wanting
<1>10. ASSUME a # newEpoch[i]
       PROVE  /\ Quorum(a)
              /\ \E k \in Oracles : a \in sent[k]
  <2>1. a \in Candidates(p, newEpoch[i], f)
    BY <1>3, <1>4, <1>10, FirstCandidateFacts DEF Amplified
  <2>2. PICK k \in Oracles : p[k] = a
    BY <2>1 DEF Candidates
  <2>3. a > 0 /\ Cardinality(Wanting(p, a)) > f
    <3>1. a > newEpoch[i] /\ newEpoch[i] >= 0
      BY <1>3, <1>4, <1>10
    <3>2. Cardinality(Wanting(p, a)) > f
      BY <2>1 DEF Candidates
    <3> QED
      BY <1>3, <1>4, <3>1, <3>2
  <2>4. Quorum(a)
    BY <1>3, <1>4, <1>5, <2>3, WantedIsInitiated DEF HistoryInv
  <2> QED
    BY <1>5, <2>2, <2>3, <2>4 DEF PeersSent
<1>11. ASSUME e # epoch[i]
       PROVE  /\ Quorum(e)
              /\ Cardinality(Askers(e)) > 2 * f
  <2>1. e \in Candidates(p, epoch[i], 2 * f)
    <3>1. e \in FirstCandidate(Candidates(p, epoch[i], 2 * f), epoch[i])
      BY DEF Agreed
    <3> HIDE DEF p, f
    <3> QED
      BY <1>3, <1>4, <1>11, <3>1, FirstCandidateFacts
  <2>2. e > 0 /\ Cardinality(Wanting(p, e)) > 2 * f /\ Cardinality(Wanting(p, e)) > f
    <3>1. e > epoch[i] /\ epoch[i] >= 0
      BY <1>3, <1>4, <1>11
    <3>2. Cardinality(Wanting(p, e)) > 2 * f
      BY <2>1 DEF Candidates
    <3> HIDE DEF p, f
    <3> QED
      BY <1>3, <1>4, <1>9, <3>1, <3>2
  <2>3. Quorum(e)
    BY <1>3, <1>4, <1>5, <2>2, WantedIsInitiated DEF HistoryInv
  <2>4. Wanting(p, e) \subseteq Askers(e)
    BY <1>3, <1>4, <1>5, <2>2, WantedIsAsked
  <2>5. /\ Cardinality(Askers(e)) \in Nat
        /\ Cardinality(Wanting(p, e)) <= Cardinality(Askers(e))
    BY <2>4, OracleSets DEF Askers
  <2> QED
    BY <1>3, <1>9, <2>2, <2>3, <2>5
<1> HIDE DEF p, f
<1>12. ReceiptEffect(i, p, a, e)
  BY <1>1, <1>2, <1>3, <1>4, <1>5, <1>6, <1>7, <1>8, <1>10, <1>11 DEF ReceiptEffect, f
<1> QED
  BY <1>4, <1>12

\* A receipt keeps the history.
LEMMA ReceiptHistory ==
  ASSUME HistoryInv, TypeInv', NEW i \in Oracles, NEW j \in Oracles, NEW v \in sent[j],
         OnNewEpochReceived(i, j, v)
  PROVE  HistoryInv'
<1>1. PICK p \in [Oracles -> {0} \cup Epochs], a \in Epochs, e \in Epochs :
        ReceiptEffect(i, p, a, e)
  BY ReceiptHasEffect
<1>2. /\ peersNewEpoch' = [peersNewEpoch EXCEPT ![i] = p]
      /\ newEpoch' = [newEpoch EXCEPT ![i] = a]
      /\ epoch' = [epoch EXCEPT ![i] = e]
      /\ entered' = entered \cup {e}
      /\ UNCHANGED <<chainEpoch, initiated>>
  BY <1>1 DEF ReceiptEffect
<1>3. TypeInv /\ TypeOK /\ TypeOK' /\ ledger[i] \in Ledgers
  BY DEF HistoryInv, TypeInv, TypeOK
<1>4. /\ \A k \in Oracles : sent[k] \subseteq sent'[k]
      /\ \A k \in Oracles : \A w \in sent'[k] \ sent[k] : w = a /\ a # newEpoch[i]
      /\ a # newEpoch[i] => a \in sent'[i]
  <2>1. sent \in [Oracles -> SUBSET Epochs]
    BY <1>3 DEF TypeOK
  <2>2. \/ a = newEpoch[i] /\ sent' = sent
        \/ a # newEpoch[i] /\ sent' = [sent EXCEPT ![i] = @ \cup {a}]
    BY <1>1 DEF Amplify, ReceiptEffect
  <2> QED
    BY <2>1, <2>2
<1>5. Grows
  BY <1>2, <1>4 DEF Grows
<1>6. ASSUME NEW k \in Oracles, NEW w \in sent'[k] \ sent[k]
      PROVE  /\ Quorum(w)'
             /\ \E d \in entered' : w <= d + 1
  <2>1. w = a /\ Quorum(a)
    BY <1>1, <1>4 DEF ReceiptEffect
  <2>2. Quorum(a)'
    BY <1>3, <1>5, <2>1, StaysEstablished
  <2>3. \E d \in entered : a <= d + 1
    <3>1. PICK m \in Oracles : a \in sent[m]
      BY <1>1, <1>4 DEF ReceiptEffect
    <3> QED
      BY <3>1 DEF HistoryInv, NewEpochAdvancesByOne
  <2> QED
    BY <1>2, <2>1, <2>2, <2>3
<1>7. ASSUME NEW d \in entered' \ entered
      PROVE  /\ Quorum(d)'
             /\ \E l \in Ledgers : Cardinality(Askers(d)') > 2 * F(l)
  <2>1. d = e /\ e # epoch[i]
    BY <1>2 DEF HistoryInv
  <2>2. Quorum(e)' /\ Cardinality(Askers(e)') > 2 * F(ledger[i])
    BY <1>1, <1>3, <1>5, <2>1, StaysEstablished DEF ReceiptEffect
  <2> QED
    BY <1>3, <2>1, <2>2
<1>8. /\ chainEpoch' \in entered'
      /\ \A k \in Oracles : epoch'[k] \in entered'
  <2>1. epoch \in [Oracles -> Epochs]
    BY <1>3 DEF TypeOK
  <2> QED
    BY <1>2, <2>1 DEF HistoryInv
<1>9. \A k \in Oracles : PeersSent(peersNewEpoch[k])'
  <2> SUFFICES ASSUME NEW k \in Oracles, NEW m \in Oracles
               PROVE  peersNewEpoch'[k][m] = 0 \/ peersNewEpoch'[k][m] \in sent'[m]
    BY DEF PeersSent
  <2>1. peersNewEpoch'[k] = IF k = i THEN p ELSE peersNewEpoch[k]
    BY <1>2, <1>3 DEF TypeOK
  <2>2. PeersSent(peersNewEpoch'[k])
    BY <1>1, <2>1 DEF HistoryInv, ReceiptEffect
  <2> QED
    BY <1>4, <2>2 DEF PeersSent
<1>10. ResendsSent' /\ NewEpochKnown'
  <2> SUFFICES ASSUME NEW k \in Oracles
               PROVE  /\ resendArmed'[k] => newEpoch'[k] \in sent'[k]
                      /\ newEpoch'[k] \in sent'[k] \/ newEpoch'[k] \in entered'
    BY DEF ResendsSent, NewEpochKnown
  <2>1. newEpoch'[k] = IF k = i THEN a ELSE newEpoch[k]
    BY <1>2, <1>3 DEF TypeOK
  <2>2. resendArmed'[k] => resendArmed[k] \/ (k = i /\ a # newEpoch[i])
    <3>1. resendArmed \in [Oracles -> BOOLEAN]
      BY <1>3 DEF TypeOK
    <3>2. \/ a = newEpoch[i] /\ resendArmed' = resendArmed
          \/ a # newEpoch[i] /\ resendArmed' = [resendArmed EXCEPT ![i] = TRUE]
      BY <1>1 DEF Amplify, ReceiptEffect
    <3> QED
      BY <3>1, <3>2
  <2> QED
    BY <1>2, <1>4, <2>1, <2>2 DEF HistoryInv, ResendsSent, NewEpochKnown
<1> QED
  BY <1>3, <1>5, <1>6, <1>7, <1>8, <1>9, <1>10, HistoryStep

\* A timeout, or a follower that gives up on the leader, is an initiative.
LEMMA InitiativeHistory ==
  ASSUME HistoryInv, TypeInv', NEW i \in Oracles, OnTimeoutOrChangeLeader(i),
         NEW v \in Epochs, v = NextEpoch(i)
  PROVE  HistoryInv'
<1>1. /\ sent' = [sent EXCEPT ![i] = @ \cup {v}]
      /\ newEpoch' = [newEpoch EXCEPT ![i] = v]
      /\ resendArmed' = [resendArmed EXCEPT ![i] = TRUE]
      /\ initiated' = initiated \cup {<<i, v>>}
      /\ UNCHANGED <<chainEpoch, epoch, peersNewEpoch, entered>>
  BY DEF OnTimeoutOrChangeLeader, SendNewEpoch
<1>2. TypeOK /\ TypeOK'
  BY DEF HistoryInv, TypeInv
<1>3. v = epoch[i] + 1 \/ v = newEpoch[i]
  BY DEF NextEpoch, Larger
<1>5. /\ \A k \in Oracles : sent[k] \subseteq sent'[k]
      /\ \A k \in Oracles : \A w \in sent'[k] \ sent[k] : k = i /\ w = v
      /\ v \in sent'[i]
  <2>1. sent \in [Oracles -> SUBSET Epochs]
    BY <1>2 DEF TypeOK
  <2> QED
    BY <1>1, <2>1
<1>6. Grows
  BY <1>1, <1>5 DEF Grows
<1>7. i \in Initiators(v)'
  <2>1. v >= v /\ <<i, v>> \in initiated'
    BY <1>1
  <2> QED
    BY <2>1 DEF Initiators
<1>8. \E e \in entered' : v <= e + 1
  <2>1. epoch[i] \in entered /\ epoch[i] \in Epochs /\ newEpoch[i] \in Epochs
    BY <1>2 DEF HistoryInv, TypeOK
  <2>2. CASE v = epoch[i] + 1
    BY <1>1, <2>1, <2>2
  <2>3. CASE v = newEpoch[i] /\ newEpoch[i] \in entered
    BY <1>1, <2>1, <2>3
  <2>4. CASE v = newEpoch[i] /\ newEpoch[i] \in sent[i]
    BY <1>1, <2>4 DEF HistoryInv, NewEpochAdvancesByOne
  <2> QED
    BY <1>3, <2>2, <2>3, <2>4 DEF HistoryInv, NewEpochKnown
<1>9. \A k \in Oracles : PeersSent(peersNewEpoch[k])'
  BY <1>1, <1>5 DEF HistoryInv, PeersSent
<1>10. ResendsSent' /\ NewEpochKnown'
  <2> SUFFICES ASSUME NEW k \in Oracles
               PROVE  /\ resendArmed'[k] => newEpoch'[k] \in sent'[k]
                      /\ newEpoch'[k] \in sent'[k] \/ newEpoch'[k] \in entered'
    BY DEF ResendsSent, NewEpochKnown
  <2>1. /\ newEpoch'[k] = IF k = i THEN v ELSE newEpoch[k]
        /\ k # i => resendArmed'[k] = resendArmed[k]
    BY <1>1, <1>2 DEF TypeOK
  <2> QED
    BY <1>1, <1>5, <2>1 DEF HistoryInv, ResendsSent, NewEpochKnown
<1>11. /\ chainEpoch' \in entered'
       /\ \A k \in Oracles : epoch'[k] \in entered'
       /\ entered' \ entered = {}
  BY <1>1 DEF HistoryInv
<1>12. \A k \in Oracles : \A w \in sent'[k] \ sent[k] :
         /\ k \in Initiators(w)' \/ Quorum(w)'
         /\ \E e \in entered' : w <= e + 1
  <2> SUFFICES ASSUME NEW k \in Oracles, NEW w \in sent'[k] \ sent[k]
               PROVE  /\ k \in Initiators(w)'
                      /\ \E e \in entered' : w <= e + 1
    OBVIOUS
  <2>1. k = i /\ w = v
    BY <1>5
  <2> QED
    BY <1>7, <1>8, <2>1
<1> QED
  BY <1>6, <1>9, <1>10, <1>11, <1>12, HistoryStep

LEMMA NextHistoryInv == HistoryInv /\ [Next]_vars => HistoryInv'
<1> SUFFICES ASSUME HistoryInv, [Next]_vars
             PROVE  HistoryInv'
  OBVIOUS
<1>1. TypeInv' /\ TypeOK /\ TypeOK'
  BY NextTypeInv DEF HistoryInv, TypeInv
<1>2. ASSUME NEW i \in Oracles, OnResendTimerTimeout(i)
      PROVE  HistoryInv'
  <2>1. /\ sent' = [sent EXCEPT ![i] = @ \cup {newEpoch[i]}]
        /\ newEpoch' = [newEpoch EXCEPT ![i] = newEpoch[i]]
        /\ resendArmed[i] /\ resendArmed' = [resendArmed EXCEPT ![i] = TRUE]
        /\ UNCHANGED <<chainEpoch, epoch, peersNewEpoch, entered, initiated>>
    BY <1>2 DEF OnResendTimerTimeout, SendNewEpoch, history
  <2>2. newEpoch[i] \in sent[i]
    BY <2>1 DEF HistoryInv, ResendsSent
  <2>3. sent \in [Oracles -> SUBSET Epochs] /\ sent[i] \cup {newEpoch[i]} = sent[i]
    BY <1>1, <2>2 DEF TypeOK
  <2>4. sent' = sent
    BY <2>1, <2>3
  <2>5. newEpoch' = newEpoch
    BY <1>1, <2>1 DEF TypeOK
  <2>6. resendArmed \in [Oracles -> BOOLEAN] /\ resendArmed[i] = TRUE
    BY <1>1, <2>1 DEF TypeOK
  <2>7. resendArmed' = resendArmed
    BY <2>1, <2>6
  <2> QED
    BY <1>1, <2>1, <2>4, <2>5, <2>7, FrozenStep DEF HistoryInv
<1>3. ASSUME NEW i \in Oracles, OnTimeoutOrChangeLeader(i)
      PROVE  HistoryInv'
  <2>1. PICK v : v = NextEpoch(i)
    OBVIOUS
  <2>2. newEpoch' = [newEpoch EXCEPT ![i] = v]
    BY <1>3, <2>1 DEF OnTimeoutOrChangeLeader, SendNewEpoch
  <2>3. v \in Epochs
    <3>1. newEpoch'[i] = v
      BY <1>1, <2>2 DEF TypeOK
    <3> QED
      BY <1>1, <3>1 DEF TypeOK
  <2> QED
    BY <1>1, <1>3, <2>1, <2>3, InitiativeHistory
<1>4. ASSUME NEW i \in Oracles, NEW j \in Oracles, NEW v \in sent[j],
             OnNewEpochReceived(i, j, v)
      PROVE  HistoryInv'
  BY <1>1, <1>4, ReceiptHistory
<1>5. ASSUME NEW i \in Oracles, Crash(i)
      PROVE  HistoryInv'
  BY <1>1, <1>5, FrozenStep DEF Crash, memory, history, HistoryInv
<1>6. ASSUME NEW i \in Oracles, Initialize(i)
      PROVE  HistoryInv'
  <2>1. /\ epoch' = [epoch EXCEPT ![i] = chainEpoch]
        /\ newEpoch' = [newEpoch EXCEPT ![i] = chainEpoch]
        /\ peersNewEpoch' = [peersNewEpoch EXCEPT ![i] = NoPeers]
        /\ resendArmed' = [resendArmed EXCEPT ![i] = FALSE]
        /\ UNCHANGED <<chainEpoch, sent, entered, initiated>>
    BY <1>6 DEF Initialize, history
  <2>2. \A k \in Oracles :
          /\ epoch'[k] = IF k = i THEN chainEpoch ELSE epoch[k]
          /\ newEpoch'[k] = IF k = i THEN chainEpoch ELSE newEpoch[k]
          /\ peersNewEpoch'[k] = IF k = i THEN NoPeers ELSE peersNewEpoch[k]
          /\ resendArmed'[k] => k # i /\ resendArmed[k]
    BY <1>1, <2>1 DEF TypeOK
  <2>3. \A k \in Oracles : epoch'[k] \in entered
    BY <2>2 DEF HistoryInv
  <2>4. \A k \in Oracles : PeersSent(peersNewEpoch[k])'
    BY <2>1, <2>2 DEF HistoryInv, PeersSent, NoPeers
  <2>5. ResendsSent' /\ NewEpochKnown'
    BY <2>1, <2>2 DEF HistoryInv, ResendsSent, NewEpochKnown
  <2> QED
    BY <1>1, <2>1, <2>3, <2>4, <2>5, QuietStep DEF HistoryInv
<1>7. ASSUME NEW e \in entered, CommitReport(e)
      PROVE  HistoryInv'
  BY <1>1, <1>7, FrozenStep DEF CommitReport, memory, history, HistoryInv
<1>8. ASSUME NEW l \in Ledgers, ChangeLedger(l)
      PROVE  HistoryInv'
  BY <1>1, <1>8, FrozenStep DEF ChangeLedger, memory, history, HistoryInv
<1>9. CASE UNCHANGED vars
  BY <1>1, <1>9, FrozenStep DEF vars, memory, history, HistoryInv
<1>10. ASSUME NEW i \in Oracles, OnChangeLeaderElsewhere(i)
      PROVE  HistoryInv'
  BY <1>1, <1>10, FrozenStep DEF OnChangeLeaderElsewhere, history, HistoryInv
<1> QED
  BY <1>2, <1>3, <1>4, <1>5, <1>6, <1>7, <1>8, <1>9, <1>10 DEF Next

\* An epoch is entered only when more than 2f oracles of some ledger asked for
\* it or for a later one.
THEOREM AgreementIsBacked == Spec => []EpochBacked
<1>1. HistoryInv => EpochBacked
  BY DEF HistoryInv
<1> QED
  BY <1>1, InitHistoryInv, NextHistoryInv, PTL DEF Spec

\* An epoch is entered only when more than f oracles asked for it of their own
\* accord: f oracles whose timers expire do not take the others along.
THEOREM EpochChangeNeedsInitiators == Spec => []NoLoneEpochChange
<1>1. HistoryInv => NoLoneEpochChange
  BY DEF HistoryInv
<1> QED
  BY <1>1, InitHistoryInv, NextHistoryInv, PTL DEF Spec

\* No oracle ever asks for an epoch more than one above the highest entered.
THEOREM EpochsComeInOrder == Spec => []NewEpochAdvancesByOne
<1>1. HistoryInv => NewEpochAdvancesByOne
  BY DEF HistoryInv
<1> QED
  BY <1>1, InitHistoryInv, NextHistoryInv, PTL DEF Spec

(***************************************************************************)
(* The refinement: each handler is a step of EpochAgreement. An oracle     *)
(* joins and enters only what the histories of the others justify, which   *)
(* is what HistoryInv says of its maps.                                    *)
(***************************************************************************)

LEMMA SameQuorums ==
  ASSUME NEW v \in Epochs
  PROVE  /\ Agreement!Begun(v) <=> Quorum(v)
         /\ Agreement!Agreed(v) <=> \E l \in Ledgers : Cardinality(Askers(v)) > 2 * F(l)
<1>1. Agreement!Initiators(v) = Initiators(v)
  BY DEF Agreement!Initiators, Initiators
<1>2. Agreement!Askers(v) = Askers(v)
  BY DEF Agreement!Askers, Askers
<1>3. \A l : Agreement!F(l) = F(l)
  BY DEF Agreement!F, F
<1>4. \A S : Agreement!Cardinality(S) = Cardinality(S)
  BY Zenon DEF Agreement!Cardinality, Cardinality
<1> QED
  BY <1>1, <1>2, <1>3, <1>4 DEF Agreement!Begun, Agreement!Agreed, Quorum

LEMMA InitAgreement == Init => Agreement!Init
  BY DEF Init, Agreement!Init

\* A receipt is a Learn: it joins what is amplified and enters what is agreed.
LEMMA ReceiptLearns ==
  ASSUME HistoryInv, TypeInv', NEW i \in Oracles, NEW j \in Oracles, NEW v \in sent[j],
         OnNewEpochReceived(i, j, v)
  PROVE  Agreement!Learn(i)
<1>1. PICK p \in [Oracles -> {0} \cup Epochs], a \in Epochs, e \in Epochs :
        ReceiptEffect(i, p, a, e)
  BY ReceiptHasEffect
<1>2. TypeOK
  BY DEF HistoryInv, TypeInv
<1>3. Agreement!Join(i)
  <2>1. CASE a = newEpoch[i]
    BY <1>1, <2>1 DEF ReceiptEffect, Amplify, Agreement!Join
  <2>2. CASE a # newEpoch[i]
    <3>1. sent' = [sent EXCEPT ![i] = @ \cup {a}]
      BY <1>1, <2>2 DEF ReceiptEffect, Amplify
    <3>2. Agreement!Begun(a) /\ \E k \in Oracles : a \in sent[k]
      BY <1>1, <2>2, SameQuorums DEF ReceiptEffect
    <3> QED
      BY <3>1, <3>2 DEF Agreement!Join
  <2> QED
    BY <2>1, <2>2
<1>4. Agreement!Enter(i)
  <2>1. epoch' = [epoch EXCEPT ![i] = e] /\ entered' = entered \cup {e}
    BY <1>1 DEF ReceiptEffect
  <2>2. CASE e = epoch[i]
    <3>1. epoch \in [Oracles -> Epochs] /\ epoch[i] \in entered
      BY <1>2 DEF TypeOK, HistoryInv
    <3>2. epoch' = epoch /\ entered' = entered
      BY <2>1, <2>2, <3>1
    <3> QED
      BY <3>2 DEF Agreement!Enter
  <2>3. CASE e # epoch[i]
    <3>1. e > epoch[i] /\ Quorum(e) /\ Cardinality(Askers(e)) > 2 * F(ledger[i])
      BY <1>1, <2>3 DEF ReceiptEffect
    <3>2. ledger[i] \in Ledgers
      BY <1>2 DEF TypeOK
    <3>3. Agreement!Begun(e) /\ Agreement!Agreed(e)
      BY <3>1, <3>2, SameQuorums
    <3> QED
      BY <2>1, <3>1, <3>3 DEF Agreement!Enter
  <2> QED
    BY <2>2, <2>3
<1>5. UNCHANGED <<initiated, chainEpoch>>
  BY <1>1 DEF ReceiptEffect
<1> QED
  BY <1>3, <1>4, <1>5 DEF Agreement!Learn

\* A timeout is a Begin.
LEMMA TimeoutBegins ==
  ASSUME HistoryInv, TypeInv', NEW i \in Oracles, OnTimeoutOrChangeLeader(i)
  PROVE  Agreement!Begin(i)
<1> DEFINE v == NextEpoch(i)
<1>1. /\ sent' = [sent EXCEPT ![i] = @ \cup {v}]
      /\ newEpoch' = [newEpoch EXCEPT ![i] = v]
      /\ initiated' = initiated \cup {<<i, v>>}
      /\ UNCHANGED <<chainEpoch, epoch, entered>>
  BY DEF OnTimeoutOrChangeLeader, SendNewEpoch
<1>2. TypeOK /\ TypeOK'
  BY DEF HistoryInv, TypeInv
<1>3. v \in Epochs
  BY <1>1, <1>2 DEF TypeOK
<1>4. v = epoch[i] + 1 \/ v = newEpoch[i]
  BY DEF NextEpoch, Larger
<1> HIDE DEF v
<1>5. \E e \in entered : v <= e + 1
  <2>1. epoch[i] \in entered /\ epoch[i] \in Epochs /\ newEpoch[i] \in Epochs
    BY <1>2 DEF HistoryInv, TypeOK
  <2>2. CASE v = epoch[i] + 1
    BY <2>1, <2>2
  <2>3. CASE v = newEpoch[i] /\ newEpoch[i] \in entered
    BY <2>1, <2>3
  <2>4. CASE v = newEpoch[i] /\ newEpoch[i] \in sent[i]
    BY <2>4 DEF HistoryInv, NewEpochAdvancesByOne
  <2> QED
    BY <1>4, <2>2, <2>3, <2>4 DEF HistoryInv, NewEpochKnown
<1> QED
  BY <1>1, <1>3, <1>5 DEF Agreement!Begin

LEMMA NextAgreement == HistoryInv /\ HistoryInv' /\ [Next]_vars => [Agreement!Next]_(Agreement!vars)
<1> SUFFICES ASSUME HistoryInv, HistoryInv', [Next]_vars
             PROVE  Agreement!Next \/ UNCHANGED Agreement!vars
  OBVIOUS
<1>1. TypeOK /\ TypeInv'
  BY DEF HistoryInv, TypeInv
<1>2. ASSUME NEW i \in Oracles, OnResendTimerTimeout(i)
      PROVE  UNCHANGED Agreement!vars
  <2>1. /\ sent' = [sent EXCEPT ![i] = @ \cup {newEpoch[i]}]
        /\ resendArmed[i]
        /\ UNCHANGED <<chainEpoch, epoch, entered, initiated>>
    BY <1>2 DEF OnResendTimerTimeout, SendNewEpoch, history
  <2>2. newEpoch[i] \in sent[i]
    BY <2>1 DEF HistoryInv, ResendsSent
  <2>3. sent \in [Oracles -> SUBSET Epochs] /\ sent[i] \cup {newEpoch[i]} = sent[i]
    BY <1>1, <2>2 DEF TypeOK
  <2>4. sent' = sent
    BY <2>1, <2>3
  <2> QED
    BY <2>1, <2>4 DEF Agreement!vars
<1>3. ASSUME NEW i \in Oracles, OnTimeoutOrChangeLeader(i)
      PROVE  Agreement!Next
  BY <1>1, <1>3, TimeoutBegins DEF Agreement!Next
<1>4. ASSUME NEW i \in Oracles, NEW j \in Oracles, NEW v \in sent[j],
             OnNewEpochReceived(i, j, v)
      PROVE  Agreement!Next
  BY <1>1, <1>4, ReceiptLearns DEF Agreement!Next
<1>5. ASSUME NEW i \in Oracles, Crash(i)
      PROVE  UNCHANGED Agreement!vars
  BY <1>5 DEF Crash, memory, history, Agreement!vars
<1>6. ASSUME NEW i \in Oracles, Initialize(i)
      PROVE  Agreement!Next
  <2>1. Agreement!Resume(i)
    BY <1>6 DEF Initialize, history, Agreement!Resume
  <2> QED
    BY <2>1 DEF Agreement!Next
<1>7. ASSUME NEW e \in entered, CommitReport(e)
      PROVE  Agreement!Next
  <2>1. Agreement!Commit
    BY <1>7 DEF CommitReport, memory, history, Agreement!Commit
  <2> QED
    BY <2>1 DEF Agreement!Next
<1>8. ASSUME NEW l \in Ledgers, ChangeLedger(l)
      PROVE  UNCHANGED Agreement!vars
  BY <1>8 DEF ChangeLedger, memory, history, Agreement!vars
<1>9. CASE UNCHANGED vars
  BY <1>9 DEF vars, memory, history, Agreement!vars
<1>10. ASSUME NEW i \in Oracles, OnChangeLeaderElsewhere(i)
      PROVE  UNCHANGED Agreement!vars
  BY <1>10 DEF OnChangeLeaderElsewhere, history, Agreement!vars
<1> QED
  BY <1>2, <1>3, <1>4, <1>5, <1>6, <1>7, <1>8, <1>9, <1>10 DEF Next

\* The pacemakers implement the succession of epochs, for any ledgers that
\* governance installs, any faults and any order sort() gives to the epochs.
THEOREM PacemakersAgree == Spec => ImplementsAgreement
<1>1. Init => HistoryInv /\ Agreement!Init
  BY InitHistoryInv, InitAgreement
<1>2. HistoryInv /\ [Next]_vars => HistoryInv'
  BY NextHistoryInv
<1>3. HistoryInv /\ HistoryInv' /\ [Next]_vars => [Agreement!Next]_(Agreement!vars)
  BY NextAgreement
<1> QED
  BY <1>1, <1>2, <1>3, PTL DEF Spec, ImplementsAgreement, Agreement!Spec

(***************************************************************************)
(* The rules leave nothing behind. One message raises one value of a map   *)
(* in which no candidate was left, so at most one epoch becomes a          *)
(* candidate: two of them would have to be the new value and another, and  *)
(* the other would have been a candidate before. This needs f not to       *)
(* change, which ConstantF says of the ledgers.                            *)
(***************************************************************************)

ConstantF == \A l, m \in Ledgers : F(l) = F(m)

LEMMA OneCandidate ==
  ASSUME NEW p \in [Oracles -> {0} \cup Epochs], NEW q \in [Oracles -> {0} \cup Epochs],
         NEW j \in Oracles, \A k \in Oracles \ {j} : q[k] = p[k], q[j] >= p[j],
         NEW low \in Epochs, NEW t \in Nat, Candidates(p, low, t) = {},
         NEW a \in Candidates(q, low, t), NEW b \in Candidates(q, low, t)
  PROVE  a = b
<1>1. ASSUME NEW c \in Candidates(q, low, t), NEW d \in Candidates(q, low, t), c < d
      PROVE  FALSE
  <2>1. /\ c \in Epochs /\ c > low /\ Cardinality(Wanting(q, c)) > t
        /\ d \in Epochs /\ d > low /\ Cardinality(Wanting(q, d)) > t
    BY DEF Candidates
  <2>2. PICK x \in Oracles : q[x] = c
    BY DEF Candidates
  <2>3. PICK y \in Oracles : q[y] = d
    BY DEF Candidates
  <2>4. CASE x = j
    <3>1. y # j /\ p[y] = d
      BY <2>1, <2>2, <2>3, <2>4, <1>1
    <3>2. Wanting(q, d) \subseteq Wanting(p, d)
      BY <2>1, <2>2, <2>4, <1>1 DEF Wanting
    <3>3. Cardinality(Wanting(p, d)) > t
      <4>1. /\ Cardinality(Wanting(q, d)) \in Nat
            /\ Cardinality(Wanting(p, d)) \in Nat
            /\ Cardinality(Wanting(q, d)) <= Cardinality(Wanting(p, d))
        BY <3>2, OracleSets DEF Wanting
      <4> QED
        BY <2>1, <4>1
    <3> QED
      BY <2>1, <3>1, <3>3 DEF Candidates
  <2>5. CASE x # j
    <3>1. p[x] = c
      BY <2>2, <2>5
    <3>2. Wanting(q, c) \ {j} \subseteq Wanting(p, c)
      <4> SUFFICES ASSUME NEW k \in Oracles, q[k] >= c, k # j
                   PROVE  k \in Wanting(p, c)
        BY DEF Wanting
      <4>1. q[k] = p[k]
        OBVIOUS
      <4> QED
        BY <4>1 DEF Wanting
    <3>3. Wanting(q, d) \subseteq Wanting(q, c) \ {x} /\ x \in Wanting(q, c)
      <4>1. x \in Wanting(q, c)
        BY <2>1, <2>2 DEF Wanting, Epochs
      <4>2. ASSUME NEW k \in Wanting(q, d)
            PROVE  k \in Wanting(q, c) \ {x}
        <5>1. k \in Oracles /\ q[k] \in Int /\ q[k] >= d /\ c \in Int /\ d \in Int
          BY <2>1, BoundsAssumption DEF Wanting, Epochs
        <5>2. q[k] >= c /\ k # x
          BY <1>1, <2>2, <5>1
        <5> QED
          BY <5>1, <5>2 DEF Wanting
      <4> QED
        BY <4>1, <4>2
    <3>4. IsFiniteSet(Wanting(q, c)) /\ Cardinality(Wanting(q, c)) \in Nat
      <4>1. Wanting(q, c) \subseteq Oracles
        BY DEF Wanting
      <4>2. IsFiniteSet(Wanting(q, c))
        BY <4>1, FS_Subset
      <4> QED
        BY <4>2, FS_CardinalityType
    <3>5. /\ Cardinality(Wanting(q, c) \ {x}) = Cardinality(Wanting(q, c)) - 1
          /\ Cardinality(Wanting(q, c) \ {j}) >= Cardinality(Wanting(q, c)) - 1
      <4> DEFINE S == Wanting(q, c)
      <4> HIDE DEF S
      <4>1. ASSUME NEW z
            PROVE  Cardinality(S \ {z}) = IF z \in S THEN Cardinality(S) - 1
                                                     ELSE Cardinality(S)
        BY <3>4, FS_RemoveElement, Zenon DEF S
      <4>2. x \in S /\ Cardinality(S) \in Nat
        BY <3>3, <3>4 DEF S
      <4>3. Cardinality(S \ {x}) = Cardinality(S) - 1
        BY <4>1, <4>2
      <4>4. Cardinality(S \ {j}) = IF j \in S THEN Cardinality(S) - 1
                                               ELSE Cardinality(S)
        BY <4>1
      <4>5. Cardinality(S \ {j}) >= Cardinality(S) - 1
        BY <4>2, <4>4
      <4> QED
        BY <4>3, <4>5 DEF S
    <3>6. /\ Cardinality(Wanting(q, d)) \in Nat
          /\ Cardinality(Wanting(q, d)) <= Cardinality(Wanting(q, c) \ {x})
      BY <3>3, OracleSets DEF Wanting
    <3>7. /\ Cardinality(Wanting(p, c)) \in Nat
          /\ Cardinality(Wanting(q, c) \ {j}) \in Nat
          /\ Cardinality(Wanting(q, c) \ {j}) <= Cardinality(Wanting(p, c))
      BY <3>2, OracleSets DEF Wanting
    <3>8. Cardinality(Wanting(p, c)) > t
      BY <2>1, <3>4, <3>5, <3>6, <3>7
    <3> QED
      BY <2>1, <3>1, <3>8 DEF Candidates
  <2> QED
    BY <2>4, <2>5
<1>2. a \in Epochs /\ b \in Epochs
  BY DEF Candidates
<1> QED
  BY <1>1, <1>2

\* Candidates above a higher bound are candidates above a lower one.
LEMMA FewerCandidates ==
  ASSUME NEW p \in [Oracles -> {0} \cup Epochs], NEW low \in Epochs, NEW high \in Epochs,
         low <= high, NEW t \in Nat
  PROVE  Candidates(p, high, t) \subseteq Candidates(p, low, t)
<1>1. \A v \in {p[k] : k \in Oracles} : v \in {0} \cup Epochs
  OBVIOUS
<1> QED
  BY <1>1 DEF Candidates

\* What is left above the epoch a rule picked.
LEMMA NoneLeft ==
  ASSUME NEW p \in [Oracles -> {0} \cup Epochs], NEW q \in [Oracles -> {0} \cup Epochs],
         NEW j \in Oracles, \A k \in Oracles \ {j} : q[k] = p[k], q[j] >= p[j],
         NEW low \in Epochs, NEW t \in Nat, Candidates(p, low, t) = {},
         NEW a \in FirstCandidate(Candidates(q, low, t), low)
  PROVE  Candidates(q, a, t) = {}
<1>1. /\ a \in Epochs /\ a >= low
      /\ a # low => a \in Candidates(q, low, t)
      /\ a = low => Candidates(q, low, t) = {}
  BY FirstCandidateFacts
<1>2. Candidates(q, a, t) \subseteq Candidates(q, low, t)
  BY <1>1, FewerCandidates
<1>3. \A v \in Candidates(q, a, t) : v # a
  BY <1>1 DEF Candidates
<1>4. ASSUME a # low, NEW v \in Candidates(q, a, t)
      PROVE  v = a
  <2>1. a \in Candidates(q, low, t) /\ v \in Candidates(q, low, t)
    BY <1>1, <1>2, <1>4
  <2> QED
    BY <2>1, OneCandidate
<1>5. CASE a = low
  BY <1>1, <1>5
<1>6. CASE a # low
  BY <1>3, <1>4, <1>6
<1> QED
  BY <1>5, <1>6

\* What recording one message changes in the map of its receiver.
LEMMA ReceivedFacts ==
  ASSUME TypeOK, NEW i \in Oracles, NEW j \in Oracles, NEW v \in Epochs
  PROVE  /\ peersNewEpoch[i] \in [Oracles -> {0} \cup Epochs]
         /\ Received(i, j, v) \in [Oracles -> {0} \cup Epochs]
         /\ \A k \in Oracles \ {j} : Received(i, j, v)[k] = peersNewEpoch[i][k]
         /\ Received(i, j, v)[j] >= peersNewEpoch[i][j]
<1>1. peersNewEpoch[i] \in [Oracles -> {0} \cup Epochs]
  BY DEF TypeOK
<1>2. peersNewEpoch[i][j] \in {0} \cup Epochs
  BY <1>1
<1>3. /\ Larger(peersNewEpoch[i][j], v) \in {0} \cup Epochs
      /\ Larger(peersNewEpoch[i][j], v) >= peersNewEpoch[i][j]
  BY <1>2 DEF Larger
<1> QED
  BY <1>1, <1>3 DEF Received

\* Every ledger tolerates the same number of faulty oracles, a natural number.
LEMMA SameF ==
  ASSUME ConstantF, TypeOK, TypeOK', NEW i \in Oracles
  PROVE  /\ F(ledger'[i]) = F(ledger[i])
         /\ F(ledger[i]) \in Nat
         /\ 2 * F(ledger[i]) \in Nat
<1>1. ledger[i] \in Ledgers /\ ledger'[i] \in Ledgers
  BY DEF TypeOK
<1>2. F(ledger[i]) \in Nat
  BY <1>1, LedgerFacts
<1> QED
  BY <1>1, <1>2 DEF ConstantF

\* An oracle whose map stays and whose epochs do not fall keeps both rules
\* exhausted.
LEMMA StaysExhausted ==
  ASSUME ConstantF, TypeOK, TypeOK', RulesExhausted, NEW i \in Oracles,
         peersNewEpoch'[i] = peersNewEpoch[i],
         newEpoch'[i] >= newEpoch[i], epoch'[i] >= epoch[i]
  PROVE  /\ Candidates(peersNewEpoch'[i], newEpoch'[i], F(ledger'[i])) = {}
         /\ Candidates(peersNewEpoch'[i], epoch'[i], 2 * F(ledger'[i])) = {}
<1>1. /\ peersNewEpoch[i] \in [Oracles -> {0} \cup Epochs]
      /\ newEpoch[i] \in Epochs /\ newEpoch'[i] \in Epochs
      /\ epoch[i] \in Epochs /\ epoch'[i] \in Epochs
  BY DEF TypeOK
<1>2. /\ F(ledger'[i]) = F(ledger[i])
      /\ F(ledger[i]) \in Nat
      /\ 2 * F(ledger[i]) \in Nat
  BY SameF
<1>3. newEpoch[i] <= newEpoch'[i] /\ epoch[i] <= epoch'[i]
  BY <1>1, BoundsAssumption DEF Epochs
<1>4. Candidates(peersNewEpoch[i], newEpoch'[i], F(ledger[i]))
        \subseteq Candidates(peersNewEpoch[i], newEpoch[i], F(ledger[i]))
  BY <1>1, <1>2, <1>3, FewerCandidates
<1>5. Candidates(peersNewEpoch[i], epoch'[i], 2 * F(ledger[i]))
        \subseteq Candidates(peersNewEpoch[i], epoch[i], 2 * F(ledger[i]))
  BY <1>1, <1>2, <1>3, FewerCandidates
<1>6. /\ Candidates(peersNewEpoch[i], newEpoch[i], F(ledger[i])) = {}
      /\ Candidates(peersNewEpoch[i], epoch[i], 2 * F(ledger[i])) = {}
  BY DEF RulesExhausted
<1>7. /\ Candidates(peersNewEpoch[i], newEpoch'[i], F(ledger[i])) = {}
      /\ Candidates(peersNewEpoch[i], epoch'[i], 2 * F(ledger[i])) = {}
  BY <1>4, <1>5, <1>6
<1> QED
  BY <1>2, <1>7

\* An empty map has no candidates.
LEMMA NoPeersNoCandidates ==
  ASSUME NEW low \in Epochs, NEW t
  PROVE  Candidates(NoPeers, low, t) = {}
<1>1. low >= 0
  BY BoundsAssumption DEF Epochs
<1>2. low \in Int
  BY BoundsAssumption DEF Epochs
<1> QED
  BY <1>1, <1>2 DEF Candidates, NoPeers

\* A receipt exhausts both rules for its receiver.
LEMMA ReceiptExhausts ==
  ASSUME ConstantF, TypeInv, TypeInv', RulesExhausted,
         NEW i \in Oracles, NEW j \in Oracles, NEW v \in sent[j],
         OnNewEpochReceived(i, j, v)
  PROVE  /\ Candidates(peersNewEpoch'[i], newEpoch'[i], F(ledger'[i])) = {}
         /\ Candidates(peersNewEpoch'[i], epoch'[i], 2 * F(ledger'[i])) = {}
<1> DEFINE p == Received(i, j, v)
<1>1. PICK a \in Amplified(i, p), e \in Agreed(i, p) :
        /\ Amplify(i, a)
        /\ \/ e = epoch[i] /\ KeepEpoch(i, a)
           \/ e # epoch[i] /\ AdoptWithoutConfig(i, a, e)
           \/ e # epoch[i] /\ AdoptAndRestart(i, a, e)
  BY DEF OnNewEpochReceived
<1>2. Larger(a, e) = a
  BY ReceiptFacts
<1>3. TypeOK /\ TypeOK' /\ v \in Epochs
  BY DEF TypeInv, TypeOK
<1>4. /\ peersNewEpoch[i] \in [Oracles -> {0} \cup Epochs]
      /\ p \in [Oracles -> {0} \cup Epochs]
      /\ \A k \in Oracles \ {j} : p[k] = peersNewEpoch[i][k]
      /\ p[j] >= peersNewEpoch[i][j]
  BY <1>3, ReceivedFacts
<1>5. peersNewEpoch'[i] = p /\ ledger'[i] = ledger[i]
  BY <1>3 DEF OnNewEpochReceived, TypeOK
<1>6. newEpoch'[i] = a /\ epoch'[i] = e
  BY <1>1, <1>2, <1>3
     DEF KeepEpoch, AdoptWithoutConfig, AdoptAndRestart, TypeOK
<1>7. /\ a \in FirstCandidate(Candidates(p, newEpoch[i], F(ledger[i])), newEpoch[i])
      /\ e \in FirstCandidate(Candidates(p, epoch[i], 2 * F(ledger[i])), epoch[i])
  BY DEF Amplified, Agreed
<1>8. /\ newEpoch[i] \in Epochs /\ epoch[i] \in Epochs
      /\ F(ledger[i]) \in Nat /\ 2 * F(ledger[i]) \in Nat
  BY <1>3, SameF DEF TypeOK
<1>9. /\ Candidates(peersNewEpoch[i], newEpoch[i], F(ledger[i])) = {}
      /\ Candidates(peersNewEpoch[i], epoch[i], 2 * F(ledger[i])) = {}
  BY DEF RulesExhausted
<1> HIDE DEF p
<1>10. Candidates(p, a, F(ledger[i])) = {}
  BY <1>4, <1>7, <1>8, <1>9, NoneLeft
<1>11. Candidates(p, e, 2 * F(ledger[i])) = {}
  BY <1>4, <1>7, <1>8, <1>9, NoneLeft
<1> QED
  BY <1>5, <1>6, <1>10, <1>11

LEMMA InitExhausted == Init => RulesExhausted
<1> SUFFICES ASSUME Init, NEW i \in Oracles
             PROVE  /\ Candidates(peersNewEpoch[i], newEpoch[i], F(ledger[i])) = {}
                    /\ Candidates(peersNewEpoch[i], epoch[i], 2 * F(ledger[i])) = {}
  BY DEF RulesExhausted
<1>1. peersNewEpoch[i] = NoPeers /\ newEpoch[i] \in Epochs /\ epoch[i] \in Epochs
  BY DEF Init
<1> QED
  BY <1>1, NoPeersNoCandidates

ExhaustedAt(k) ==
  /\ Candidates(peersNewEpoch[k], newEpoch[k], F(ledger[k])) = {}
  /\ Candidates(peersNewEpoch[k], epoch[k], 2 * F(ledger[k])) = {}

LEMMA NextExhausted ==
  ASSUME ConstantF
  PROVE  TypeInv /\ TypeInv' /\ RulesExhausted /\ [Next]_vars => RulesExhausted'
<1> SUFFICES ASSUME TypeInv, TypeInv', RulesExhausted, [Next]_vars, NEW k \in Oracles
             PROVE  ExhaustedAt(k)'
  BY DEF RulesExhausted, ExhaustedAt
<1>0. /\ TypeOK /\ TypeOK'
      /\ newEpoch[k] \in Epochs /\ epoch[k] \in Epochs
  BY DEF TypeInv, TypeOK
<1>a. ASSUME peersNewEpoch'[k] = peersNewEpoch[k],
             newEpoch'[k] >= newEpoch[k], epoch'[k] >= epoch[k]
      PROVE  ExhaustedAt(k)'
  BY <1>0, <1>a, StaysExhausted DEF ExhaustedAt
<1>b. ASSUME UNCHANGED <<peersNewEpoch, newEpoch, epoch>>
      PROVE  ExhaustedAt(k)'
  BY <1>0, <1>a, <1>b
<1>1. ASSUME NEW i \in Oracles, OnResendTimerTimeout(i)
      PROVE  ExhaustedAt(k)'
  <2>1. newEpoch' = newEpoch
    BY <1>0, <1>1 DEF OnResendTimerTimeout, SendNewEpoch, TypeOK
  <2> QED
    BY <1>1, <1>b, <2>1 DEF OnResendTimerTimeout
<1>2. ASSUME NEW i \in Oracles, OnTimeoutOrChangeLeader(i)
      PROVE  ExhaustedAt(k)'
  <2>1. /\ newEpoch' = [newEpoch EXCEPT ![i] = NextEpoch(i)]
        /\ UNCHANGED <<peersNewEpoch, epoch>>
    BY <1>2 DEF OnTimeoutOrChangeLeader, SendNewEpoch
  <2>2. newEpoch'[k] >= newEpoch[k]
    <3>1. newEpoch \in [Oracles -> Epochs] /\ epoch \in [Oracles -> Epochs]
      BY <1>0 DEF TypeOK
    <3>2. NextEpoch(i) >= newEpoch[i]
      BY <3>1 DEF NextEpoch, Larger
    <3>3. CASE k = i
      BY <2>1, <3>1, <3>2, <3>3
    <3>4. CASE k # i
      BY <1>0, <2>1, <3>1, <3>4
    <3> QED
      BY <3>3, <3>4
  <2> QED
    BY <1>0, <1>a, <2>1, <2>2
<1>3. ASSUME NEW i \in Oracles, NEW j \in Oracles, NEW v \in sent[j],
             OnNewEpochReceived(i, j, v)
      PROVE  ExhaustedAt(k)'
  <2>1. CASE k = i
    BY <1>3, <2>1, ReceiptExhausts DEF ExhaustedAt
  <2>2. CASE k # i
    <3>1. peersNewEpoch'[k] = peersNewEpoch[k]
      BY <1>0, <1>3, <2>2 DEF OnNewEpochReceived, TypeOK
    <3>2. newEpoch'[k] = newEpoch[k] /\ epoch'[k] = epoch[k]
      <4>1. newEpoch \in [Oracles -> Epochs] /\ epoch \in [Oracles -> Epochs]
        BY <1>0 DEF TypeOK
      <4>2. PICK a, e : \/ KeepEpoch(i, a)
                        \/ AdoptWithoutConfig(i, a, e)
                        \/ AdoptAndRestart(i, a, e)
        BY <1>3 DEF OnNewEpochReceived
      <4>3. CASE KeepEpoch(i, a)
        BY <2>2, <4>1, <4>3 DEF KeepEpoch
      <4>4. CASE AdoptWithoutConfig(i, a, e)
        BY <2>2, <4>1, <4>4 DEF AdoptWithoutConfig
      <4>5. CASE AdoptAndRestart(i, a, e)
        BY <2>2, <4>1, <4>5 DEF AdoptAndRestart
      <4> QED
        BY <4>2, <4>3, <4>4, <4>5
    <3> QED
      BY <1>0, <1>a, <3>1, <3>2
  <2> QED
    BY <2>1, <2>2
<1>4. ASSUME NEW i \in Oracles, Crash(i)
      PROVE  ExhaustedAt(k)'
  BY <1>4, <1>b DEF Crash, memory
<1>5. ASSUME NEW i \in Oracles, Initialize(i)
      PROVE  ExhaustedAt(k)'
  <2>1. CASE k = i
    <3>1. peersNewEpoch'[k] = NoPeers
      BY <1>0, <1>5, <2>1 DEF Initialize, TypeOK
    <3>2. newEpoch'[k] \in Epochs /\ epoch'[k] \in Epochs
      BY <1>0 DEF TypeOK
    <3> QED
      BY <3>1, <3>2, NoPeersNoCandidates DEF ExhaustedAt
  <2>2. CASE k # i
    <3>1. /\ peersNewEpoch'[k] = peersNewEpoch[k]
          /\ newEpoch'[k] = newEpoch[k] /\ epoch'[k] = epoch[k]
      BY <1>0, <1>5, <2>2 DEF Initialize, TypeOK
    <3> QED
      BY <1>0, <1>a, <3>1
  <2> QED
    BY <2>1, <2>2
<1>6. ASSUME NEW e \in entered, CommitReport(e)
      PROVE  ExhaustedAt(k)'
  BY <1>6, <1>b DEF CommitReport, memory
<1>7. ASSUME NEW l \in Ledgers, ChangeLedger(l)
      PROVE  ExhaustedAt(k)'
  BY <1>7, <1>b DEF ChangeLedger, memory
<1>8. ASSUME UNCHANGED vars
      PROVE  ExhaustedAt(k)'
  <2>1. UNCHANGED <<peersNewEpoch, newEpoch, epoch>>
    BY <1>8 DEF vars, memory
  <2> QED
    BY <1>b, <2>1
<1>9. ASSUME NEW i \in Oracles, OnChangeLeaderElsewhere(i)
      PROVE  ExhaustedAt(k)'
  BY <1>9, <1>b DEF OnChangeLeaderElsewhere
<1> QED
  BY <1>1, <1>2, <1>3, <1>4, <1>5, <1>6, <1>7, <1>8, <1>9 DEF Next

\* After every handler nothing is left to amplify and nothing to agree on, so
\* an oracle never waits for a message it has already counted.
THEOREM RulesLeaveNothing ==
  ASSUME ConstantF
  PROVE  Spec => []RulesExhausted
<1>1. TypeInv /\ TypeInv' /\ RulesExhausted /\ [Next]_vars => RulesExhausted'
  BY NextExhausted
<1> QED
  BY <1>1, InitTypeInv, NextTypeInv, InitExhausted, PTL DEF Spec

\* The order in which sort() leaves the epochs does not matter as long as f is
\* the same for every ledger: one message makes at most one epoch a candidate.
THEOREM SortOrderIsHarmless ==
  ASSUME ConstantF
  PROVE  Spec => []AtMostOneCandidate
<1>1. ASSUME TypeOK, RulesExhausted
      PROVE  AtMostOneCandidate
  <2> SUFFICES ASSUME NEW i \in Oracles, NEW j \in Oracles, NEW v \in sent[j]
               PROVE  /\ \A a, b \in Candidates(Received(i, j, v), newEpoch[i], F(ledger[i])) : a = b
                      /\ \A a, b \in Candidates(Received(i, j, v), epoch[i], 2 * F(ledger[i])) : a = b
    BY DEF AtMostOneCandidate
  <2> DEFINE p == Received(i, j, v)
  <2>1. /\ v \in Epochs /\ newEpoch[i] \in Epochs /\ epoch[i] \in Epochs
        /\ ledger[i] \in Ledgers
    BY <1>1 DEF TypeOK
  <2>2. /\ peersNewEpoch[i] \in [Oracles -> {0} \cup Epochs]
        /\ p \in [Oracles -> {0} \cup Epochs]
        /\ \A k \in Oracles \ {j} : p[k] = peersNewEpoch[i][k]
        /\ p[j] >= peersNewEpoch[i][j]
    BY <1>1, <2>1, ReceivedFacts
  <2>3. F(ledger[i]) \in Nat /\ 2 * F(ledger[i]) \in Nat
    <3>1. F(ledger[i]) \in Nat
      BY <2>1, LedgerFacts
    <3> QED
      BY <3>1
  <2>4. /\ Candidates(peersNewEpoch[i], newEpoch[i], F(ledger[i])) = {}
        /\ Candidates(peersNewEpoch[i], epoch[i], 2 * F(ledger[i])) = {}
    BY <1>1 DEF RulesExhausted
  <2> HIDE DEF p
  <2>5. ASSUME NEW m \in [Oracles -> {0} \cup Epochs], NEW q \in [Oracles -> {0} \cup Epochs],
               NEW low \in Epochs, NEW t \in Nat, Candidates(m, low, t) = {},
               \A k \in Oracles \ {j} : q[k] = m[k], q[j] >= m[j]
        PROVE  \A a, b \in Candidates(q, low, t) : a = b
    BY <2>5, OneCandidate
  <2>6. \A a, b \in Candidates(p, newEpoch[i], F(ledger[i])) : a = b
    BY <2>1, <2>2, <2>3, <2>4, <2>5
  <2>7. \A a, b \in Candidates(p, epoch[i], 2 * F(ledger[i])) : a = b
    <3> DEFINE twice == 2 * F(ledger[i])
    <3>1. twice \in Nat /\ Candidates(peersNewEpoch[i], epoch[i], twice) = {}
      BY <2>3, <2>4
    <3> HIDE DEF twice
    <3>2. \A a, b \in Candidates(p, epoch[i], twice) : a = b
      BY <2>1, <2>2, <2>5, <3>1
    <3> QED
      BY <3>2 DEF twice
  <2> QED
    BY <2>6, <2>7 DEF p
<1> QED
  BY <1>1, TypeCorrectness, RulesLeaveNothing, PTL

(***************************************************************************)
(* No oracle goes back while its process lives. A report generation        *)
(* instance is only replaced when the epoch rises, and never runs an epoch *)
(* above it.                                                               *)
(***************************************************************************)

ReportGenBelowEpoch == \A i \in Oracles : reportGen[i].epoch <= epoch[i]

StepForward(i) ==
  /\ epoch'[i] >= epoch[i]
  /\ newEpoch'[i] >= newEpoch[i]
  /\ reportGen'[i] # reportGen[i] => reportGen'[i].epoch > reportGen[i].epoch
  /\ reportGen'[i].epoch <= epoch'[i]

LEMMA ReceiptForward ==
  ASSUME TypeInv, ReportGenBelowEpoch,
         NEW i \in Oracles, NEW j \in Oracles, NEW v \in sent[j],
         OnNewEpochReceived(i, j, v), NEW k \in Oracles
  PROVE  StepForward(k)
<1> DEFINE p == Received(i, j, v)
<1>1. PICK a \in Amplified(i, p), e \in Agreed(i, p) :
        /\ Amplify(i, a)
        /\ \/ e = epoch[i] /\ KeepEpoch(i, a)
           \/ e # epoch[i] /\ AdoptWithoutConfig(i, a, e)
           \/ e # epoch[i] /\ AdoptAndRestart(i, a, e)
  BY DEF OnNewEpochReceived
<1>2. /\ a \in Epochs /\ a >= newEpoch[i]
      /\ e \in Epochs /\ e >= epoch[i]
      /\ Larger(a, e) = a
  BY ReceiptFacts
<1> HIDE DEF p
<1>3. /\ epoch \in [Oracles -> Epochs] /\ newEpoch \in [Oracles -> Epochs]
      /\ reportGen \in [Oracles -> [epoch : Epochs, leader : Oracles, started : BOOLEAN]]
  BY DEF TypeInv, TypeOK
<1>4. newEpoch' = [newEpoch EXCEPT ![i] = a] /\ epoch' = [epoch EXCEPT ![i] = e]
  BY <1>1, <1>2, <1>3 DEF KeepEpoch, AdoptWithoutConfig, AdoptAndRestart
<1>5. epoch'[k] >= epoch[k] /\ newEpoch'[k] >= newEpoch[k]
  BY <1>2, <1>3, <1>4
<1>6. /\ reportGen[k].epoch \in Epochs /\ reportGen[k].epoch <= epoch[k]
      /\ epoch[k] \in Epochs /\ epoch'[k] \in Epochs
  BY <1>2, <1>3, <1>4 DEF ReportGenBelowEpoch
<1>7. CASE reportGen'[k] = reportGen[k]
  BY <1>5, <1>6, <1>7 DEF StepForward
<1>8. CASE reportGen'[k] # reportGen[k]
  <2>1. e # epoch[i] /\ AdoptAndRestart(i, a, e)
    BY <1>1, <1>8 DEF KeepEpoch, AdoptWithoutConfig
  <2>2. k = i /\ reportGen'[k].epoch = e
    BY <1>3, <1>8, <2>1 DEF AdoptAndRestart, StartReportGen
  <2>3. epoch'[k] = e
    BY <1>3, <1>4, <2>2
  <2> QED
    BY <1>2, <1>5, <1>6, <2>1, <2>2, <2>3 DEF StepForward
<1> QED
  BY <1>7, <1>8

LEMMA InitReportGen == Init => ReportGenBelowEpoch
BY DEF Init, StartReportGen, ReportGenBelowEpoch

LEMMA NextReportGen ==
  TypeInv /\ ReportGenBelowEpoch /\ [Next]_vars =>
    /\ ReportGenBelowEpoch'
    /\ \A k \in Oracles : up[k] /\ up'[k] => StepForward(k)
<1> SUFFICES ASSUME TypeInv, ReportGenBelowEpoch, [Next]_vars, NEW k \in Oracles
             PROVE  /\ reportGen'[k].epoch <= epoch'[k]
                    /\ up[k] /\ up'[k] => StepForward(k)
  BY DEF ReportGenBelowEpoch
<1> DEFINE Goal == /\ reportGen'[k].epoch <= epoch'[k]
                   /\ up[k] /\ up'[k] => StepForward(k)
<1>0. /\ epoch \in [Oracles -> Epochs] /\ newEpoch \in [Oracles -> Epochs]
      /\ chainEpoch \in Epochs
      /\ reportGen \in [Oracles -> [epoch : Epochs, leader : Oracles, started : BOOLEAN]]
      /\ up \in [Oracles -> BOOLEAN]
  BY DEF TypeInv, TypeOK
<1>a. reportGen[k].epoch <= epoch[k]
  BY DEF ReportGenBelowEpoch
<1>b. ASSUME reportGen'[k] = reportGen[k], epoch'[k] = epoch[k],
             newEpoch'[k] \in Epochs, newEpoch'[k] >= newEpoch[k]
      PROVE  Goal
  BY <1>0, <1>a, <1>b DEF StepForward
<1>1. ASSUME NEW i \in Oracles, OnResendTimerTimeout(i)
      PROVE  Goal
  <2>1. newEpoch' = newEpoch /\ UNCHANGED <<epoch, reportGen>>
    BY <1>0, <1>1 DEF OnResendTimerTimeout, SendNewEpoch
  <2>2. newEpoch'[k] \in Epochs /\ newEpoch'[k] >= newEpoch[k]
    BY <1>0, <2>1
  <2> QED
    BY <1>b, <2>1, <2>2
<1>2. ASSUME NEW i \in Oracles, OnTimeoutOrChangeLeader(i)
      PROVE  Goal
  <2> DEFINE v == NextEpoch(i)
  <2>1. /\ newEpoch' = [newEpoch EXCEPT ![i] = v] /\ v <= MaxEpoch
        /\ UNCHANGED <<epoch, reportGen>>
    BY <1>2 DEF OnTimeoutOrChangeLeader, SendNewEpoch
  <2>2. v \in Epochs /\ v >= newEpoch[i]
    BY <1>0, <2>1 DEF NextEpoch, Larger
  <2> HIDE DEF v
  <2>3. newEpoch'[k] \in Epochs /\ newEpoch'[k] >= newEpoch[k]
    BY <1>0, <2>1, <2>2
  <2> QED
    BY <1>b, <2>1, <2>3
<1>3. ASSUME NEW i \in Oracles, NEW j \in Oracles, NEW v \in sent[j],
             OnNewEpochReceived(i, j, v)
      PROVE  Goal
  BY <1>3, ReceiptForward DEF StepForward
<1>4. ASSUME NEW i \in Oracles, Crash(i)
      PROVE  Goal
  <2>1. UNCHANGED <<epoch, newEpoch, reportGen>>
    BY <1>4 DEF Crash, memory
  <2>2. newEpoch'[k] \in Epochs /\ newEpoch'[k] >= newEpoch[k]
    BY <1>0, <2>1
  <2> QED
    BY <1>b, <2>1, <2>2
<1>5. ASSUME NEW i \in Oracles, Initialize(i)
      PROVE  Goal
  <2>1. CASE k = i
    <3>1. ~up[k]
      BY <1>5, <2>1 DEF Initialize
    <3>2. epoch'[k] = chainEpoch /\ reportGen'[k].epoch = chainEpoch
      BY <1>0, <1>5, <2>1 DEF Initialize, StartReportGen
    <3> QED
      BY <1>0, <3>1, <3>2
  <2>2. CASE k # i
    <3>1. /\ reportGen'[k] = reportGen[k] /\ epoch'[k] = epoch[k]
          /\ newEpoch'[k] = newEpoch[k]
      BY <1>0, <1>5, <2>2 DEF Initialize
    <3>2. newEpoch'[k] \in Epochs /\ newEpoch'[k] >= newEpoch[k]
      BY <1>0, <3>1
    <3> QED
      BY <1>b, <3>1, <3>2
  <2> QED
    BY <2>1, <2>2
<1>6. ASSUME UNCHANGED memory
      PROVE  Goal
  <2>1. UNCHANGED <<epoch, newEpoch, reportGen>>
    BY <1>6 DEF memory
  <2>2. newEpoch'[k] \in Epochs /\ newEpoch'[k] >= newEpoch[k]
    BY <1>0, <2>1
  <2> QED
    BY <1>b, <2>1, <2>2
<1>7. ASSUME NEW e \in entered, CommitReport(e)
      PROVE  Goal
  BY <1>6, <1>7 DEF CommitReport
<1>8. ASSUME NEW l \in Ledgers, ChangeLedger(l)
      PROVE  Goal
  BY <1>6, <1>8 DEF ChangeLedger
<1>9. ASSUME UNCHANGED vars
      PROVE  Goal
  BY <1>6, <1>9 DEF vars
<1>10. ASSUME NEW i \in Oracles, OnChangeLeaderElsewhere(i)
      PROVE  Goal
  <2>1. UNCHANGED <<epoch, newEpoch, reportGen>>
    BY <1>10 DEF OnChangeLeaderElsewhere
  <2>2. newEpoch'[k] \in Epochs /\ newEpoch'[k] >= newEpoch[k]
    BY <1>0, <2>1
  <2> QED
    BY <1>b, <2>1, <2>2
<1> QED
  BY <1>1, <1>2, <1>3, <1>4, <1>5, <1>7, <1>8, <1>9, <1>10 DEF Next

\* While its process lives an oracle never returns to an earlier epoch or
\* announces less than before, and replaces its report generation only by one
\* of a later epoch.
THEOREM OracleNeverGoesBack == Spec => NeverGoesBack
<1> DEFINE Forward == \A i \in Oracles : up[i] /\ up'[i] =>
             /\ epoch'[i] >= epoch[i]
             /\ newEpoch'[i] >= newEpoch[i]
             /\ reportGen'[i] # reportGen[i] => reportGen'[i].epoch > reportGen[i].epoch
<1>1. TypeInv /\ ReportGenBelowEpoch /\ [Next]_vars => ReportGenBelowEpoch' /\ [Forward]_vars
  BY NextReportGen DEF StepForward
<1>2. NeverGoesBack <=> [][Forward]_vars
  BY DEF NeverGoesBack
<1> HIDE DEF Forward
<1> QED
  BY <1>1, <1>2, InitTypeInv, NextTypeInv, InitReportGen, PTL DEF Spec

=============================================================================
