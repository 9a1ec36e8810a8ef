------------------------------ MODULE ReportGen ------------------------------
(***************************************************************************)
(* The report generation of one aggregator in one epoch: the leader        *)
(* collects observations, assembles a report, collects signatures on it    *)
(* and broadcasts the attested report; the followers echo it and, once     *)
(* more than f echoes came in, hand it to the transmit service             *)
(* (libs/oracle/src/lib/reportgen).                                        *)
(*                                                                         *)
(* Every handler runs under the mutex of its instance, so a handler is one *)
(* action. Time is abstract: an armed timer may expire at any moment.      *)
(* Broadcasts are lost, delayed, duplicated and reordered; what is sent to *)
(* the leader over a stream is lost when the leader's process dies. An     *)
(* oracle may crash and join the epoch again: its instance starts afresh,  *)
(* and a leader starts again from round 1.                                 *)
(***************************************************************************)
EXTENDS Integers, Sequences, FiniteSets

CONSTANTS
  Oracles,     \* the oracle ledger, with which every instance was started
  Leader,      \* the leader of the epoch
  Absent,      \* oracles that never join the epoch
  RoundMax,    \* _roundMax of the follower
  Due,         \* what _shouldReport may find: a subset of BOOLEAN
  MaxRound,    \* bound: rounds the leader starts
  MaxCrashes   \* bound: crashes

ASSUME OraclesAssumption == IsFiniteSet(Oracles) /\ Leader \in Oracles

ASSUME BoundsAssumption ==
  /\ RoundMax \in Nat /\ MaxRound \in Nat /\ MaxCrashes \in Nat
  /\ RoundMax > 0 /\ MaxRound > 0
  /\ Due \subseteq BOOLEAN

F == (Cardinality(Oracles) - 1) \div 3

Rounds == 1..MaxRound

Incarnations == 0..MaxCrashes

\* What one instance of an oracle observed for one round.
Observation == [oracle : Oracles, round : Rounds, inc : Incarnations]

Report == [round : Rounds, observations : SUBSET Observation]

Signature == [oracle : Oracles, report : Report]

Attested == [report : Report, signatures : SUBSET Signature]

Phases == {"none", "observe", "grace", "report", "final"}

VARIABLES
  \* the leader
  leaderRound,    \* _round
  observe,        \* _observe: at most one observation of each oracle
  report,         \* _report: at most one signature of each oracle
  phase,          \* _phase
  \* the followers
  round,          \* _round
  sentEcho,       \* {} or {_sentEcho}
  completedRound, \* _completedRound
  receivedEcho,   \* _receivedEcho
  \* the processes
  running,        \* running[i]: the instance of oracle i runs
  inc,            \* inc[i]: which instance of oracle i it is
  crashes,        \* number of crashes so far
  \* every message ever sent
  observeReqs,    \* broadcast by the leader: rounds
  observes,       \* to the leader: an observation and the instance it goes to
  reportReqs,     \* broadcast by the leader: reports
  reports,        \* to the leader: a signature and the instance it goes to
  finals,         \* broadcast by the leader: attested reports
  finalEchoes,    \* broadcast by the followers: attested reports
  \* history
  transmitted     \* transmitted[i]: what the instances of i handed to the
                  \* transmit service, in order

leaderVars   == <<leaderRound, observe, report, phase>>
followerVars == <<round, sentEcho, completedRound, receivedEcho, transmitted>>
processVars  == <<running, inc, crashes>>
requestVars  == <<observeReqs, reportReqs, finals>>
answerVars   == <<observes, reports, finalEchoes>>
vars == <<leaderVars, followerVars, processVars, requestVars, answerVars>>

Init ==
  /\ leaderRound = 0
  /\ observe = {}
  /\ report = {}
  /\ phase = "none"
  /\ round = [i \in Oracles |-> 0]
  /\ sentEcho = [i \in Oracles |-> {}]
  /\ completedRound = [i \in Oracles |-> FALSE]
  /\ receivedEcho = [i \in Oracles |-> {}]
  /\ running = [i \in Oracles |-> i \notin Absent]
  /\ inc = [i \in Oracles |-> 0]
  /\ crashes = 0
  /\ observeReqs = {} /\ observes = {}
  /\ reportReqs = {} /\ reports = {}
  /\ finals = {} /\ finalEchoes = {}
  /\ transmitted = [i \in Oracles |-> <<>>]

(***************************************************************************)
(* The network service. A message to the leader goes on a stream to the    *)
(* instance that runs when it is sent.                                     *)
(***************************************************************************)

BroadcastObserveReq(r) == observeReqs' = observeReqs \cup {r}

BroadcastReportReq(p) == reportReqs' = reportReqs \cup {p}

BroadcastFinal(a) == finals' = finals \cup {a}

BroadcastFinalEcho(i, a) == finalEchoes' = finalEchoes \cup {[from |-> i, attested |-> a]}

SendObserve(o) == observes' = observes \cup {[observation |-> o, to |-> inc[Leader]]}

SendReport(s) == reports' = reports \cup {[signature |-> s, to |-> inc[Leader]]}

(***************************************************************************)
(* The leader                                                              *)
(***************************************************************************)

\* Mutant: the request is broadcast before the round is incremented.
StartRoundAfterRequest ==
  /\ running[Leader]
  /\ leaderRound < MaxRound
  /\ leaderRound' = leaderRound + 1
  /\ observe' = {}
  /\ report' = {}
  /\ phase' = "observe"
  /\ BroadcastObserveReq(leaderRound)
  /\ UNCHANGED <<followerVars, processVars, reportReqs, finals, answerVars>>

StartRound ==
  /\ running[Leader]
  /\ leaderRound < MaxRound
  /\ leaderRound' = leaderRound + 1
  /\ observe' = {}
  /\ report' = {}
  /\ phase' = "observe"
  /\ BroadcastObserveReq(leaderRound + 1)
  /\ UNCHANGED <<followerVars, processVars, reportReqs, finals, answerVars>>

OnStartEpoch == leaderRound = 0 /\ StartRound

\* The round timer runs from the first round on and restarts with each.
OnTimerRoundTimeout == leaderRound > 0 /\ StartRound

\* Mutant: without the check of the round.
OnObserveOfAnyRound(m) ==
  LET o == m.observation
  IN  /\ running[Leader]
      /\ m.to = inc[Leader]
      /\ \A p \in observe : p.oracle # o.oracle
      /\ phase \in {"observe", "grace"}
      /\ observe' = observe \cup {o}
      /\ phase' = IF Cardinality(observe') = 2 * F + 1 THEN "grace" ELSE phase
      /\ UNCHANGED <<leaderRound, report, followerVars, processVars, requestVars, answerVars>>

OnObserve(m) ==
  LET o == m.observation
  IN  /\ running[Leader]
      /\ m.to = inc[Leader]
      /\ o.round = leaderRound
      /\ \A p \in observe : p.oracle # o.oracle
      /\ phase \in {"observe", "grace"}
      /\ observe' = observe \cup {o}
      /\ phase' = IF Cardinality(observe') = 2 * F + 1 THEN "grace" ELSE phase
      /\ UNCHANGED <<leaderRound, report, followerVars, processVars, requestVars, answerVars>>

\* _assembleReport and the broadcast of reportReq.
OnGraceTimerTimeout ==
  /\ running[Leader]
  /\ phase = "grace"
  /\ BroadcastReportReq([round |-> leaderRound, observations |-> observe])
  /\ phase' = "report"
  /\ UNCHANGED <<leaderRound, observe, report, followerVars, processVars,
                 observeReqs, finals, answerVars>>

\* The attested report has the content that came with the last signature.
OnReport(m) ==
  LET s == m.signature
  IN  /\ running[Leader]
      /\ m.to = inc[Leader]
      /\ s.report.round = leaderRound
      /\ \A t \in report : t.oracle # s.oracle
      /\ phase = "report"
      /\ report' = report \cup {s}
      /\ IF Cardinality(report') <= F
           THEN UNCHANGED <<phase, finals>>
           ELSE /\ BroadcastFinal([report |-> s.report, signatures |-> report'])
                /\ phase' = "final"
      /\ UNCHANGED <<leaderRound, observe, followerVars, processVars,
                     observeReqs, reportReqs, answerVars>>

(***************************************************************************)
(* The follower of oracle i                                                *)
(***************************************************************************)

\* Mutant: > for >= in the check of the round.
OnObserveReqAgain(i, r) ==
  /\ running[i]
  /\ round[i] <= r
  /\ r <= RoundMax
  /\ round' = [round EXCEPT ![i] = r]
  /\ sentEcho' = [sentEcho EXCEPT ![i] = {}]
  /\ completedRound' = [completedRound EXCEPT ![i] = FALSE]
  /\ receivedEcho' = [receivedEcho EXCEPT ![i] = {}]
  /\ SendObserve([oracle |-> i, round |-> r, inc |-> inc[i]])
  /\ UNCHANGED <<leaderVars, transmitted, processVars, requestVars, reports, finalEchoes>>

\* The leader asks for an observation of a later round.
OnObserveReqReceived(i, r) ==
  /\ running[i]
  /\ round[i] < r
  /\ r <= RoundMax
  /\ round' = [round EXCEPT ![i] = r]
  /\ sentEcho' = [sentEcho EXCEPT ![i] = {}]
  /\ completedRound' = [completedRound EXCEPT ![i] = FALSE]
  /\ receivedEcho' = [receivedEcho EXCEPT ![i] = {}]
  /\ SendObserve([oracle |-> i, round |-> r, inc |-> inc[i]])
  /\ UNCHANGED <<leaderVars, transmitted, processVars, requestVars, reports, finalEchoes>>

\* The first round above _roundMax: the follower asks its pacemaker for another
\* leader (Pacemaker!OnTimeoutOrChangeLeader) and leaves the rest as it was.
OnObserveReqOverMax(i, r) ==
  /\ running[i]
  /\ round[i] < r
  /\ r = RoundMax + 1
  /\ round' = [round EXCEPT ![i] = r]
  /\ UNCHANGED <<leaderVars, sentEcho, completedRound, receivedEcho, transmitted,
                 processVars, requestVars, answerVars>>

\* The leader asks for a signature. Neither the round of the report nor whether
\* a report was signed before is looked at. should is what _shouldReport finds:
\* the report is due (heartbeat or deviation), or the round ends without it.
OnReportReqReceived(i, p, should) ==
  /\ running[i]
  /\ Cardinality({o.oracle : o \in p.observations}) >= 2 * F + 1
  /\ IF should
       THEN /\ SendReport([oracle |-> i, report |-> p])
            /\ UNCHANGED completedRound
       ELSE /\ completedRound' = [completedRound EXCEPT ![i] = TRUE]
            /\ UNCHANGED reports
  /\ UNCHANGED <<leaderVars, round, sentEcho, receivedEcho, transmitted,
                 processVars, requestVars, observes, finalEchoes>>

\* ContractService.verifyAttestedReport: every signature is one of this report,
\* and they are more than f.
VerifyAttestedReport(a) ==
  /\ \A s \in a.signatures : s.report = a.report
  /\ Cardinality(a.signatures) > F

OnFinalReceived(i, a) ==
  /\ running[i]
  /\ a.report.round = round[i]
  /\ sentEcho[i] = {}
  /\ VerifyAttestedReport(a)
  /\ sentEcho' = [sentEcho EXCEPT ![i] = {a}]
  /\ BroadcastFinalEcho(i, a)
  /\ UNCHANGED <<leaderVars, round, completedRound, receivedEcho, transmitted,
                 processVars, requestVars, observes, reports>>

\* Mutant: the echo is only sent for a final message.
EchoNever(i, a) == UNCHANGED <<sentEcho, finalEchoes>>

\* Broadcast the echo of a unless this round's was sent already.
EchoOnce(i, a) ==
  IF sentEcho[i] = {}
    THEN /\ sentEcho' = [sentEcho EXCEPT ![i] = {a}]
         /\ BroadcastFinalEcho(i, a)
    ELSE UNCHANGED <<sentEcho, finalEchoes>>

\* Mutant: f echoes are enough.
EnoughEchoesAtF(S) == Cardinality(S) >= F

EnoughEchoes(S) == Cardinality(S) > F

\* Mutant: the round is left open after the report was handed over.
TransmitOnly(i, a) ==
  /\ transmitted' = [transmitted EXCEPT ![i] = Append(@, [attested |-> a, inc |-> inc[i]])]
  /\ UNCHANGED completedRound

TransmitAndComplete(i, a) ==
  /\ transmitted' = [transmitted EXCEPT ![i] = Append(@, [attested |-> a, inc |-> inc[i]])]
  /\ completedRound' = [completedRound EXCEPT ![i] = TRUE]

\* An echo, of another oracle or of i itself (the pubsub delivers to the sender
\* too), is echoed if it is the first; more than f of them complete the round.
OnFinalEchoReceived(i, m) ==
  /\ running[i]
  /\ m.attested.report.round = round[i]
  /\ m.from \notin receivedEcho[i]
  /\ ~completedRound[i]
  /\ VerifyAttestedReport(m.attested)
  /\ receivedEcho' = [receivedEcho EXCEPT ![i] = @ \cup {m.from}]
  /\ EchoOnce(i, m.attested)
  /\ IF EnoughEchoes(receivedEcho'[i])
       THEN TransmitAndComplete(i, m.attested)
       ELSE UNCHANGED <<transmitted, completedRound>>
  /\ UNCHANGED <<leaderVars, round, processVars, requestVars, observes, reports>>

(***************************************************************************)
(* Crashes                                                                 *)
(***************************************************************************)

Crash(i) ==
  /\ running[i]
  /\ crashes < MaxCrashes
  /\ crashes' = crashes + 1
  /\ running' = [running EXCEPT ![i] = FALSE]
  /\ UNCHANGED <<inc, leaderVars, followerVars, requestVars, answerVars>>

\* The pacemaker of the new process agreed on the epoch again: startReportGen,
\* and startepoch when i leads.
Rejoin(i) ==
  /\ ~running[i]
  /\ i \notin Absent
  /\ running' = [running EXCEPT ![i] = TRUE]
  /\ inc' = [inc EXCEPT ![i] = @ + 1]
  /\ round' = [round EXCEPT ![i] = 0]
  /\ sentEcho' = [sentEcho EXCEPT ![i] = {}]
  /\ completedRound' = [completedRound EXCEPT ![i] = FALSE]
  /\ receivedEcho' = [receivedEcho EXCEPT ![i] = {}]
  /\ IF i = Leader
       THEN leaderRound' = 0 /\ observe' = {} /\ report' = {} /\ phase' = "none"
       ELSE UNCHANGED leaderVars
  /\ UNCHANGED <<crashes, transmitted, requestVars, answerVars>>

Next ==
  \/ OnStartEpoch
  \/ OnTimerRoundTimeout
  \/ \E m \in observes : OnObserve(m)
  \/ OnGraceTimerTimeout
  \/ \E m \in reports : OnReport(m)
  \/ \E i \in Oracles, r \in observeReqs : OnObserveReqReceived(i, r)
  \/ \E i \in Oracles, r \in observeReqs : OnObserveReqOverMax(i, r)
  \/ \E i \in Oracles, p \in reportReqs, should \in Due : OnReportReqReceived(i, p, should)
  \/ \E i \in Oracles, a \in finals : OnFinalReceived(i, a)
  \/ \E i \in Oracles, m \in finalEchoes : OnFinalEchoReceived(i, m)
  \/ \E i \in Oracles : Crash(i)
  \/ \E i \in Oracles : Rejoin(i)

Spec == Init /\ [][Next]_vars

(***************************************************************************)
(* Fairness: handlers run, and what an oracle sends is delivered in the    *)
(* end. Of the final message only the leader's own copy, which does not    *)
(* cross the network, is sure to arrive. Nothing is assumed of the round   *)
(* timer.                                                                  *)
(***************************************************************************)

Fairness ==
  /\ \A i \in Oracles, r \in Rounds :
       /\ WF_vars(r \in observeReqs /\ OnObserveReqReceived(i, r))
       /\ WF_vars(r \in observeReqs /\ OnObserveReqOverMax(i, r))
  /\ WF_vars(\E m \in observes : OnObserve(m))
  /\ WF_vars(OnGraceTimerTimeout)
  /\ \A i \in Oracles :
       WF_vars(\E p \in reportReqs, should \in Due : OnReportReqReceived(i, p, should))
  /\ WF_vars(\E m \in reports : OnReport(m))
  /\ WF_vars(\E a \in finals : OnFinalReceived(Leader, a))
  /\ \A i, j \in Oracles :
       WF_vars(\E m \in finalEchoes : m.from = j /\ OnFinalEchoReceived(i, m))

FairSpec == Spec /\ Fairness

(***************************************************************************)
(* Properties                                                              *)
(***************************************************************************)

\* The types of the variables.
TypeOK ==
  /\ leaderRound \in 0..MaxRound
  /\ observe \in SUBSET Observation
  /\ report \in SUBSET Signature
  /\ phase \in Phases
  /\ round \in [Oracles -> 0..MaxRound]
  /\ sentEcho \in [Oracles -> SUBSET Attested]
  /\ completedRound \in [Oracles -> BOOLEAN]
  /\ receivedEcho \in [Oracles -> SUBSET Oracles]
  /\ running \in [Oracles -> BOOLEAN]
  /\ inc \in [Oracles -> Incarnations]
  /\ crashes \in 0..MaxCrashes
  /\ observeReqs \in SUBSET Rounds
  /\ observes \in SUBSET [observation : Observation, to : Incarnations]
  /\ reportReqs \in SUBSET Report
  /\ reports \in SUBSET [signature : Signature, to : Incarnations]
  /\ finals \in SUBSET Attested
  /\ finalEchoes \in SUBSET [from : Oracles, attested : Attested]
  /\ transmitted \in [Oracles -> Seq([attested : Attested, inc : Incarnations])]

Handed(i) == {transmitted[i][k] : k \in DOMAIN transmitted[i]}

\* The leader assembles one report per round and no other, even when its
\* process dies and leads the epoch again from round 1.
OneReportAssembled == \A p, q \in reportReqs : p.round = q.round => p = q

\* Agreement: whatever two oracles hand to their transmit services for one
\* round, the observations in it are the same, and so is its median.
OneReportPerRound ==
  \A i, j \in Oracles : \A s \in Handed(i), t \in Handed(j) :
    s.attested.report.round = t.attested.report.round =>
      s.attested.report = t.attested.report

\* What is transmitted was observed in its round by more than 2f oracles, and
\* more than f oracles signed exactly that.
TransmittedIsAttested ==
  \A i \in Oracles : \A t \in Handed(i) :
    LET r == t.attested.report
    IN  /\ Cardinality({o.oracle : o \in r.observations}) > 2 * F
        /\ \A o \in r.observations : o.round = r.round
        /\ Cardinality({m.signature.oracle : m \in {n \in reports : n.signature.report = r}}) > F

\* An instance transmits a report only when more than f oracles echoed that
\* very report.
TransmittedIsEchoed ==
  \A i \in Oracles : \A t \in Handed(i) :
    Cardinality({m.from : m \in {n \in finalEchoes : n.attested.report = t.attested.report}}) > F

\* An instance hands at most one report of a round to the transmit service, and
\* never one of an earlier round than it did.
TransmitsInOrder ==
  \A i \in Oracles : \A k, l \in DOMAIN transmitted[i] :
    k < l /\ transmitted[i][k].inc = transmitted[i][l].inc =>
      transmitted[i][k].attested.report.round < transmitted[i][l].attested.report.round

\* What was handed over, without the signatures.
Reports(s) ==
  [k \in DOMAIN s |-> [report |-> s[k].attested.report, life |-> s[k].inc]]

Agreement == INSTANCE ReportAgreement WITH
  made   <- reportReqs,
  signed <- {<<m.signature.oracle, m.signature.report>> : m \in reports},
  echoed <- {<<m.from, m.attested.report>> : m \in finalEchoes},
  life   <- inc,
  handed <- [i \in Oracles |-> Reports(transmitted[i])]

\* Together the handlers keep the promise of ReportAgreement: each is a step of
\* it, or none. A lost, repeated or late message, a crash and a leader that
\* starts again from round 1 show in none of its steps.
ImplementsReportAgreement == Agreement!Spec

\* Totality: when a report is due, every oracle whose observation is in it
\* completes the round, unless the leader's round timer starts the next one:
\* one final message that arrives anywhere is enough for all.
ReportCompletes ==
  \A i \in Oracles, r \in Rounds :
    ((\E p \in reportReqs : p.round = r /\ \E o \in p.observations : o.oracle = i)
       /\ round[i] = r)
      ~> (completedRound[i] \/ round[i] # r)
=============================================================================
