------------------------------ MODULE Pacemaker ------------------------------
(***************************************************************************)
(* The pacemaker of one aggregator: the oracles of the network broadcast   *)
(* the epoch they want (newEpoch), amplify what more than f of them want,  *)
(* and adopt what more than 2f of them want, which restarts the report     *)
(* generation under the leader of the adopted epoch                        *)
(* (libs/oracle/src/lib/pacemaker/pacemaker.service.ts).                   *)
(*                                                                         *)
(* Every handler of the code runs under the mutex of its pacemaker, so a   *)
(* handler is one action. Time is abstract: an armed timer may expire at   *)
(* any moment. The pubsub network loses, delays, duplicates and reorders   *)
(* messages. An oracle may crash, lose its memory and restart from the     *)
(* epoch of the last report on the blockchain; an exception that leaves a  *)
(* handler (a failed read of the ledger) ends the process, which is the    *)
(* same crash.                                                             *)
(***************************************************************************)
EXTENDS Integers, Sequences, FiniteSets

CONSTANTS
  Oracles,          \* every oracle that is ever in the ledger
  Ledgers,          \* the values the aggregator's oracle ledger may take
  StartEpoch,       \* epoch of the last report when the system boots
  MaxEpoch,         \* bound: no timeout asks for an epoch above this one
  Absent,           \* oracles of the ledgers whose node is never started
  MaxFaults,        \* bound: crashes and failed reads of the configuration
  SortsAfter(_, _)  \* order that Array.prototype.sort gives to two epochs

Epochs == StartEpoch..MaxEpoch

ASSUME OraclesAssumption == IsFiniteSet(Oracles)

ASSUME LedgersAssumption ==
  /\ Ledgers # {}
  /\ \A l \in Ledgers : l \in Seq(Oracles) /\ Len(l) > 0

ASSUME BoundsAssumption ==
  /\ StartEpoch \in Nat
  /\ MaxEpoch \in Nat
  /\ StartEpoch <= MaxEpoch
  /\ MaxFaults \in Nat

\* A sort is at least a strict order: two different epochs are not both after
\* one another.
ASSUME SortAssumption ==
  \A a, b \in Epochs : a # b => (SortsAfter(a, b) <=> ~SortsAfter(b, a))

VARIABLES
  chainEpoch,     \* epoch of the last report on the blockchain
  chainLedger,    \* the aggregator's oracle ledger on the blockchain
  up,             \* up[i]: the process of oracle i runs
  ledger,         \* _oracleLedger, as last read by i
  epoch,          \* _epochAndLeader.epoch
  leader,         \* _epochAndLeader.leader
  newEpoch,       \* _newEpoch
  peersNewEpoch,  \* _peersNewEpoch; 0 where the map has no entry
  resendArmed,    \* _timerResend is running
  reportGen,      \* the report generation instance i runs
  sent,           \* sent[i]: every epoch i ever broadcast
  faults,         \* number of crashes and failed reads so far
  entered,        \* history: every epoch some oracle was ever in
  initiated       \* history: <<i, v>> when a timeout or a leader change made
                  \* i ask for v, whatever the others asked for

memory  == <<ledger, epoch, leader, newEpoch, peersNewEpoch, resendArmed, reportGen>>
history == <<entered, initiated>>
vars == <<chainEpoch, chainLedger, up, memory, sent, faults, history>>

(***************************************************************************)
(* Helpers                                                                 *)
(***************************************************************************)

Larger(a, b) == IF a >= b THEN a ELSE b

\* The number of faulty oracles a ledger tolerates.
F(l) == (Len(l) - 1) \div 3

Members(l) == {l[k] : k \in DOMAIN l}

LeaderForEpoch(l, e) == l[(e % Len(l)) + 1]

\* The oracles that sent v or more, as far as the map p shows.
Wanting(p, v) == {j \in Oracles : p[j] >= v}

\* The epochs above low that more than t oracles want.
Candidates(p, low, t) ==
  {v \in {p[j] : j \in Oracles} : v > low /\ Cardinality(Wanting(p, v)) > t}

\* What the loop over sort().reverse() returns: the candidate it meets first,
\* or the fallback when no value qualifies.
FirstCandidate(c, fallback) ==
  IF c = {} THEN {fallback}
            ELSE {v \in c : \A w \in c \ {v} : SortsAfter(v, w)}

\* Mutant: the threshold of the comment, "at least f".
AmplifiedByF(i, p) ==
  FirstCandidate(Candidates(p, newEpoch[i], F(ledger[i]) - 1), newEpoch[i])

Amplified(i, p) ==
  FirstCandidate(Candidates(p, newEpoch[i], F(ledger[i])), newEpoch[i])

\* Mutant: the threshold of the amplification rule.
AgreedByF(i, p) ==
  FirstCandidate(Candidates(p, epoch[i], F(ledger[i])), epoch[i])

\* Mutant: the early return of the amplification rule ends the handler.
AgreedAfterAmplified(i, p) ==
  IF Amplified(i, p) = {newEpoch[i]}
    THEN {epoch[i]}
    ELSE FirstCandidate(Candidates(p, epoch[i], 2 * F(ledger[i])), epoch[i])

\* Mutant: no early return when no value qualifies, epochAccumulator is -1.
AgreedOrMinusOne(i, p) ==
  FirstCandidate(Candidates(p, epoch[i], 2 * F(ledger[i])), -1)

Agreed(i, p) ==
  FirstCandidate(Candidates(p, epoch[i], 2 * F(ledger[i])), epoch[i])

\* The map of i after it recorded newEpoch v of j.
Received(i, j, v) == [peersNewEpoch[i] EXCEPT ![j] = Larger(@, v)]

NoPeers == [j \in Oracles |-> 0]

\* startReportGen: a follower and, at the leader, a leader that waits for the
\* startepoch event.
StartReportGen(e, l, started) == [epoch |-> e, leader |-> l, started |-> started]

(***************************************************************************)
(* Initial states: initialize() ran at every oracle on a freshly deployed  *)
(* system. No startepoch event is emitted and the resend timer is off.     *)
(***************************************************************************)

Init ==
  /\ chainEpoch = StartEpoch
  /\ chainLedger \in Ledgers
  /\ up = [i \in Oracles |-> i \notin Absent]
  /\ ledger = [i \in Oracles |-> chainLedger]
  /\ epoch = [i \in Oracles |-> StartEpoch]
  /\ leader = [i \in Oracles |-> LeaderForEpoch(chainLedger, StartEpoch)]
  /\ newEpoch = [i \in Oracles |-> StartEpoch]
  /\ peersNewEpoch = [i \in Oracles |-> NoPeers]
  /\ resendArmed = [i \in Oracles |-> FALSE]
  /\ reportGen = [i \in Oracles |->
       StartReportGen(StartEpoch, LeaderForEpoch(chainLedger, StartEpoch), FALSE)]
  /\ sent = [i \in Oracles |-> {}]
  /\ faults = 0
  /\ entered = {StartEpoch}
  /\ initiated = {}

(***************************************************************************)
(* Timers and events of one oracle                                         *)
(***************************************************************************)

\* Mutant: the resend timer stays off.
SendNewEpochOnce(i, v) ==
  /\ sent' = [sent EXCEPT ![i] = @ \cup {v}]
  /\ newEpoch' = [newEpoch EXCEPT ![i] = v]
  /\ UNCHANGED resendArmed

\* _sendNewEpoch: broadcast v, remember it, arm the resend timer.
SendNewEpoch(i, v) ==
  /\ sent' = [sent EXCEPT ![i] = @ \cup {v}]
  /\ newEpoch' = [newEpoch EXCEPT ![i] = v]
  /\ resendArmed' = [resendArmed EXCEPT ![i] = TRUE]

UpdateOracleLedger(i) == ledger' = [ledger EXCEPT ![i] = chainLedger]

OnResendTimerTimeout(i) ==
  /\ up[i]
  /\ resendArmed[i]
  /\ UpdateOracleLedger(i)
  /\ SendNewEpoch(i, newEpoch[i])
  /\ UNCHANGED <<chainEpoch, chainLedger, up, epoch, leader, peersNewEpoch,
                 reportGen, faults, history>>

\* Mutant: without Math.max.
NextEpochOfCurrent(i) == epoch[i] + 1

\* Mutant: every timeout asks for one more.
NextEpochAfterAsked(i) == Larger(epoch[i], newEpoch[i]) + 1

\* The next epoch a timeout asks for.
NextEpoch(i) == Larger(epoch[i] + 1, newEpoch[i])

\* The progress timer expired, or the follower of the aggregator asked for
\* another leader: both handlers read the ledger again and ask for the next epoch.
OnTimeoutOrChangeLeader(i) ==
  LET v == NextEpoch(i)
  IN  /\ up[i]
      /\ v <= MaxEpoch
      /\ UpdateOracleLedger(i)
      /\ SendNewEpoch(i, v)
      /\ initiated' = initiated \cup {<<i, v>>}
      /\ UNCHANGED <<chainEpoch, chainLedger, up, epoch, leader, peersNewEpoch,
                     reportGen, faults, entered>>

\* A follower of another aggregator in the process asked for another leader:
\* _onChangeLeader has read the ledger before it looks at the aggregator.
OnChangeLeaderElsewhere(i) ==
  /\ up[i]
  /\ UpdateOracleLedger(i)
  /\ UNCHANGED <<chainEpoch, chainLedger, up, epoch, leader, newEpoch, peersNewEpoch,
                 resendArmed, reportGen, sent, faults, history>>

(***************************************************************************)
(* _onNewEpochReceived: record the peer's epoch, then the amplification    *)
(* rule, then the agreement rule on what the first left.                   *)
(***************************************************************************)

\* The amplification rule, which leaves newEpoch at a.
Amplify(i, a) ==
  IF a = newEpoch[i]
    THEN UNCHANGED <<sent, resendArmed>>
    ELSE /\ sent' = [sent EXCEPT ![i] = @ \cup {a}]
         /\ resendArmed' = [resendArmed EXCEPT ![i] = TRUE]

\* No epoch above the current one has more than 2f oracles behind it.
KeepEpoch(i, a) ==
  /\ newEpoch' = [newEpoch EXCEPT ![i] = a]
  /\ UNCHANGED <<epoch, leader, reportGen, entered, faults>>

\* The epoch and the leader are set before the aggregator's configuration is
\* read; when that read fails the handler returns, and the instance of the
\* previous epoch goes on.
AdoptWithoutConfig(i, a, e) ==
  /\ epoch' = [epoch EXCEPT ![i] = e]
  /\ leader' = [leader EXCEPT ![i] = LeaderForEpoch(ledger[i], e)]
  /\ newEpoch' = [newEpoch EXCEPT ![i] = a]
  /\ entered' = entered \cup {e}
  /\ faults < MaxFaults
  /\ faults' = faults + 1
  /\ UNCHANGED reportGen

AdoptAndRestart(i, a, e) ==
  LET l == LeaderForEpoch(ledger[i], e)
  IN  /\ epoch' = [epoch EXCEPT ![i] = e]
      /\ leader' = [leader EXCEPT ![i] = l]
      /\ newEpoch' = [newEpoch EXCEPT ![i] = Larger(a, e)]
      /\ reportGen' = [reportGen EXCEPT ![i] = StartReportGen(e, l, l = i)]
      /\ entered' = entered \cup {e}
      /\ UNCHANGED faults

OnNewEpochReceived(i, j, v) ==
  LET p == Received(i, j, v)
  IN  /\ up[i]
      /\ v \in sent[j]
      /\ j \in Members(ledger[i])
      /\ peersNewEpoch' = [peersNewEpoch EXCEPT ![i] = p]
      /\ \E a \in Amplified(i, p), e \in Agreed(i, p) :
           /\ Amplify(i, a)
           /\ \/ e = epoch[i] /\ KeepEpoch(i, a)
              \/ e # epoch[i] /\ AdoptWithoutConfig(i, a, e)
              \/ e # epoch[i] /\ AdoptAndRestart(i, a, e)
      /\ UNCHANGED <<chainEpoch, chainLedger, up, ledger, initiated>>

(***************************************************************************)
(* Crashes and restarts                                                    *)
(***************************************************************************)

Crash(i) ==
  /\ up[i]
  /\ faults < MaxFaults
  /\ faults' = faults + 1
  /\ up' = [up EXCEPT ![i] = FALSE]
  /\ UNCHANGED <<chainEpoch, chainLedger, memory, sent, history>>

\* Mutant: _newEpoch is not read from the blockchain.
InitializeNewEpochLate(i) ==
  LET l == LeaderForEpoch(chainLedger, chainEpoch)
  IN  /\ ~up[i]
      /\ i \notin Absent
      /\ up' = [up EXCEPT ![i] = TRUE]
      /\ UpdateOracleLedger(i)
      /\ epoch' = [epoch EXCEPT ![i] = chainEpoch]
      /\ leader' = [leader EXCEPT ![i] = l]
      /\ newEpoch' = [newEpoch EXCEPT ![i] = StartEpoch]
      /\ peersNewEpoch' = [peersNewEpoch EXCEPT ![i] = NoPeers]
      /\ resendArmed' = [resendArmed EXCEPT ![i] = FALSE]
      /\ reportGen' = [reportGen EXCEPT ![i] = StartReportGen(chainEpoch, l, FALSE)]
      /\ UNCHANGED <<chainEpoch, chainLedger, sent, faults, history>>

\* initialize() of the new process.
Initialize(i) ==
  LET l == LeaderForEpoch(chainLedger, chainEpoch)
  IN  /\ ~up[i]
      /\ i \notin Absent
      /\ up' = [up EXCEPT ![i] = TRUE]
      /\ UpdateOracleLedger(i)
      /\ epoch' = [epoch EXCEPT ![i] = chainEpoch]
      /\ leader' = [leader EXCEPT ![i] = l]
      /\ newEpoch' = [newEpoch EXCEPT ![i] = chainEpoch]
      /\ peersNewEpoch' = [peersNewEpoch EXCEPT ![i] = NoPeers]
      /\ resendArmed' = [resendArmed EXCEPT ![i] = FALSE]
      /\ reportGen' = [reportGen EXCEPT ![i] = StartReportGen(chainEpoch, l, FALSE)]
      /\ UNCHANGED <<chainEpoch, chainLedger, sent, faults, history>>

(***************************************************************************)
(* The blockchain, outside src/: reports of epochs the oracles were in are *)
(* committed, and governance changes the ledger.                           *)
(***************************************************************************)

CommitReport(e) ==
  /\ e \in entered
  /\ e > chainEpoch
  /\ chainEpoch' = e
  /\ UNCHANGED <<chainLedger, up, memory, sent, faults, history>>

ChangeLedger(l) ==
  /\ l # chainLedger
  /\ chainLedger' = l
  /\ UNCHANGED <<chainEpoch, up, memory, sent, faults, history>>

Next ==
  \/ \E i \in Oracles : OnResendTimerTimeout(i)
  \/ \E i \in Oracles : OnTimeoutOrChangeLeader(i)
  \/ \E i \in Oracles : OnChangeLeaderElsewhere(i)
  \/ \E i, j \in Oracles : \E v \in sent[j] : OnNewEpochReceived(i, j, v)
  \/ \E i \in Oracles : Crash(i)
  \/ \E i \in Oracles : Initialize(i)
  \/ \E e \in entered : CommitReport(e)
  \/ \E l \in Ledgers : ChangeLedger(l)

Spec == Init /\ [][Next]_vars
(***************************************************************************)
(* Fairness, for an epoch in which no report completes: the progress timer *)
(* is never restarted by a progress event, so it expires; the resend timer *)
(* broadcasts the current newEpoch every 15 s until a copy gets through.   *)
(***************************************************************************)

DeliverResent(i, j) ==
  /\ up[j]
  /\ resendArmed[j]
  /\ \E v \in sent[j] : v = newEpoch[j] /\ OnNewEpochReceived(i, j, v)

Fairness ==
  /\ \A i \in Oracles : WF_vars(OnTimeoutOrChangeLeader(i))
  /\ \A i, j \in Oracles : WF_vars(DeliverResent(i, j))

StalledSpec == Spec /\ Fairness

(***************************************************************************)
(* Properties                                                              *)
(***************************************************************************)

\* The types of the variables.
TypeOK ==
  /\ chainEpoch \in Epochs
  /\ chainLedger \in Ledgers
  /\ up \in [Oracles -> BOOLEAN]
  /\ ledger \in [Oracles -> Ledgers]
  /\ epoch \in [Oracles -> Epochs]
  /\ leader \in [Oracles -> Oracles]
  /\ newEpoch \in [Oracles -> Epochs]
  /\ peersNewEpoch \in [Oracles -> [Oracles -> {0} \cup Epochs]]
  /\ resendArmed \in [Oracles -> BOOLEAN]
  /\ reportGen \in [Oracles -> [epoch : Epochs, leader : Oracles, started : BOOLEAN]]
  /\ sent \in [Oracles -> SUBSET Epochs]
  /\ faults \in 0..MaxFaults
  /\ entered \in SUBSET Epochs
  /\ initiated \in SUBSET (Oracles \X Epochs)

\* An oracle never runs an epoch above the one it announces: what it resends
\* always supports the epoch it is in, even after the return that skips the
\* update of _newEpoch, and whatever order sort() gives the candidates.
EpochBelowNewEpoch == \A i \in Oracles : epoch[i] <= newEpoch[i]

\* Both rules are exhausted after every handler: no value above newEpoch is
\* left with more than f oracles behind it, and none above the epoch with more
\* than 2f, as long as f does not change under the oracle.
RulesExhausted ==
  \A i \in Oracles :
    /\ Candidates(peersNewEpoch[i], newEpoch[i], F(ledger[i])) = {}
    /\ Candidates(peersNewEpoch[i], epoch[i], 2 * F(ledger[i])) = {}

\* The order of sort() does not matter: whatever message arrives next, at most
\* one epoch passes each rule.
AtMostOneCandidate ==
  \A i, j \in Oracles : \A v \in sent[j] :
    /\ \A a, b \in Candidates(Received(i, j, v), newEpoch[i], F(ledger[i])) : a = b
    /\ \A a, b \in Candidates(Received(i, j, v), epoch[i], 2 * F(ledger[i])) : a = b

Askers(v) == {j \in Oracles : \E w \in sent[j] : w >= v}

\* Agreement: an epoch other than the first is entered only when more than 2f
\* oracles have asked for it or for a later one.
EpochBacked ==
  \A e \in entered : e > StartEpoch =>
    \E l \in Ledgers : Cardinality(Askers(e)) > 2 * F(l)

Initiators(v) == {j \in Oracles : \E w \in Epochs : w >= v /\ <<j, w>> \in initiated}

\* f oracles alone never move the others: an epoch is entered only if more
\* than f oracles asked for it of their own accord (their progress timer
\* expired or their follower gave up on the leader), not by amplification.
NoLoneEpochChange ==
  \A e \in entered : e > StartEpoch =>
    \E l \in Ledgers : Cardinality(Initiators(e)) > F(l)

\* Epochs are entered one after the other: no oracle ever asks for an epoch
\* more than one above the highest that was entered somewhere.
NewEpochAdvancesByOne ==
  \A i \in Oracles : \A v \in sent[i] : \E e \in entered : v <= e + 1

\* While its process lives an oracle never goes back to an earlier epoch,
\* never announces less than it did, and replaces a report generation
\* instance only by one of a later epoch.
NeverGoesBack ==
  [][\A i \in Oracles : up[i] /\ up'[i] =>
       /\ epoch'[i] >= epoch[i]
       /\ newEpoch'[i] >= newEpoch[i]
       /\ reportGen'[i] # reportGen[i] => reportGen'[i].epoch > reportGen[i].epoch]_vars

\* The detailed protocol implements the succession of epochs: whatever is lost,
\* repeated or forgotten, and in whatever order sort() puts the candidates, each
\* handler is a step, or no step, of EpochAgreement.
Agreement == INSTANCE EpochAgreement
               WITH asked <- sent, began <- initiated, chain <- chainEpoch, First <- StartEpoch

ImplementsAgreement == Agreement!Spec

\* An epoch that makes no progress ends: with at most f faults, every oracle
\* that stays up leaves every epoch below the bound.
StalledEpochEnds ==
  \A i \in Oracles : \A e \in StartEpoch..(MaxEpoch - 1) :
    (up[i] /\ epoch[i] = e) ~> (~up[i] \/ epoch[i] > e)

\* The class comment: an agreed epoch is the one the report generation runs
\* with.
RunsTheAgreedEpoch == \A i \in Oracles : up[i] => reportGen[i].epoch = epoch[i]

\* The comment in both rules, "We are sure that it's the biggest value": after
\* a newEpoch message no higher epoch is left that either rule would take.
NoHigherCandidateLeft ==
  [][\A i \in Oracles : up[i] /\ up'[i] /\ peersNewEpoch'[i] # peersNewEpoch[i] =>
       /\ Candidates(peersNewEpoch'[i], newEpoch'[i], F(ledger[i])) = {}
       /\ Candidates(peersNewEpoch'[i], epoch'[i], 2 * F(ledger[i])) = {}]_vars
=============================================================================
