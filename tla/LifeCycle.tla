------------------------------ MODULE LifeCycle ------------------------------
(***************************************************************************)
(* The report generation instances of one aggregator across epochs. When   *)
(* the pacemaker of an oracle adopts an epoch it stops the instances of    *)
(* the previous one and starts new ones (pacemaker.service.ts,             *)
(* reportgen.factory.service.ts). stop() removes the listeners and the     *)
(* timers of an instance but does not take its mutex: calls that wait for  *)
(* the mutex, and the one that holds it across an await, go on on the      *)
(* stopped instance.                                                       *)
(*                                                                         *)
(* Only what crosses epochs is here: the request for observations, which   *)
(* names no epoch, the observations, and the report made of them. What     *)
(* follows in a round is in ReportGen, the agreement on epochs in          *)
(* Pacemaker. A message is delivered at most once, at any time or never.   *)
(***************************************************************************)
EXTENDS Integers, Sequences, FiniteSets, Functions

CONSTANTS
  Oracles,     \* the oracle ledger
  Epochs,      \* the epochs that are agreed on: the first is that of the chain
  LeaderOf,    \* LeaderOf[e]: _leaderForEpoch
  RoundMax,    \* _roundMax of the follower
  MaxRound,    \* bound: rounds an instance of the leader starts
  MaxLate,     \* bound: instances of the leader that go beyond round 1
  MaxWaiting   \* bound: calls that hold or await the mutex of an instance

ASSUME EpochsAssumption ==
  /\ Epochs \subseteq Nat /\ \E e \in Epochs : \A d \in Epochs : e <= d
  /\ LeaderOf \in [Epochs -> Oracles]

ASSUME LifeCycleBounds == {RoundMax, MaxRound, MaxLate, MaxWaiting} \subseteq Nat \ {0}

F == (Cardinality(Oracles) - 1) \div 3

ChainEpoch == CHOOSE e \in Epochs : \A d \in Epochs : e <= d

Rounds == 1..MaxRound

Observation == [oracle : Oracles, epoch : Epochs, round : Rounds]

\* broadcastObserveReq: the sender and the round.
ObserveReq == [from : Oracles, round : Rounds]

\* The calls of a leader's handlers that wait for its mutex.
Call == [handler : {"startEpoch", "roundTimeout", "graceTimeout"}]
          \cup [handler : {"observe"}, observation : Observation]

VARIABLES
  epoch,        \* epoch[i]: _epochAndLeader.epoch of the pacemaker
  current,      \* current[i]: the epoch of the instances in the factory's maps
  follower,     \* follower[i][e]: the follower of oracle i for epoch e
  leader,       \* leader[e]: the leader of epoch e, in the process LeaderOf[e]
  requests,     \* requests[i]: observeReq messages on their way to i
  observations, \* observe messages on their way to another oracle
  reports,      \* history: reports that were assembled
  asked,        \* history: epoch and round of every request
  started       \* history: epochs for which startepoch was emitted

vars == <<epoch, current, follower, leader, requests, observations, reports, asked, started>>

\* waiting: the requests whose handlers hold or await the mutex; fetching: the
\* first of them has passed its checks and awaits the data.
NoFollower == [state |-> "none", round |-> 0, waiting |-> <<>>, fetching |-> FALSE]

NewFollower == [NoFollower EXCEPT !.state = "listening"]

\* publishing: the first call has started a round and awaits the broadcast.
NoLeader == [state |-> "none", round |-> 0, observe |-> {}, phase |-> "none",
             waiting |-> <<>>, publishing |-> FALSE,
             roundTimer |-> FALSE, graceTimer |-> FALSE]

NewLeader == [NoLeader EXCEPT !.state = "listening"]

\* Every pacemaker was initialized with the epoch of the chain, for which no
\* startepoch is emitted.
Init ==
  /\ epoch = [i \in Oracles |-> ChainEpoch]
  /\ current = [i \in Oracles |-> ChainEpoch]
  /\ follower = [i \in Oracles |->
       [e \in Epochs |-> IF e = ChainEpoch THEN NewFollower ELSE NoFollower]]
  /\ leader = [e \in Epochs |-> IF e = ChainEpoch THEN NewLeader ELSE NoLeader]
  /\ requests = [i \in Oracles |-> {}]
  /\ observations = {} /\ reports = {} /\ asked = {} /\ started = {}

(***************************************************************************)
(* The pacemaker of oracle i, and the factory                              *)
(***************************************************************************)

\* The listeners and the timers go, the calls under way stay.
StopFollower(f) == [f EXCEPT !.state = "stopped"]

StopLeader(l) == [l EXCEPT !.state = "stopped", !.roundTimer = FALSE, !.graceTimer = FALSE]

\* Of the leaders, only the new one listens when startepoch is emitted.
EmitStartEpoch(l) == [l EXCEPT !.waiting = Append(@, [handler |-> "startEpoch"])]

\* Mutant: startepoch is emitted before the new leader is there to hear it; the
\* old one discards it, for it has another epoch.
LeadersAfterEmitting(i, e) ==
  [d \in Epochs |->
     CASE d = e /\ LeaderOf[e] = i -> NewLeader
       [] d = current[i] /\ LeaderOf[d] = i -> StopLeader(leader[d])
       [] OTHER -> leader[d]]

LeadersAfter(i, e) ==
  [d \in Epochs |->
     CASE d = e /\ LeaderOf[e] = i -> EmitStartEpoch(NewLeader)
       [] d = current[i] /\ LeaderOf[d] = i -> StopLeader(leader[d])
       [] OTHER -> leader[d]]

HasMutex(e, handlers) ==
  leader[e].waiting # <<>> /\ ~leader[e].publishing /\ Head(leader[e].waiting).handler \in handlers

\* The mutex of a new leader is free: its first call gets it before the process
\* turns to anything else.
Settled(i) == \A d \in Epochs : LeaderOf[d] = i => ~HasMutex(d, {"startEpoch"})

\* The agreement rule passes for epoch e: stopReportGen, startReportGen and,
\* at the leader, startepoch.
AdoptEpoch(i, e) ==
  /\ e > epoch[i]
  /\ Settled(i)
  /\ epoch' = [epoch EXCEPT ![i] = e]
  /\ current' = [current EXCEPT ![i] = e]
  /\ follower' = [follower EXCEPT ![i][current[i]] = StopFollower(@), ![i][e] = NewFollower]
  /\ leader' = LeadersAfter(i, e)
  /\ started' = IF LeaderOf[e] = i THEN started \cup {e} ELSE started
  /\ UNCHANGED <<requests, observations, reports, asked>>

\* The read of the aggregator's configuration fails: the instances stay.
AdoptEpochWithoutConfig(i, e) ==
  /\ e > epoch[i]
  /\ epoch' = [epoch EXCEPT ![i] = e]
  /\ UNCHANGED <<current, follower, leader, requests, observations, reports, asked, started>>

(***************************************************************************)
(* The follower of oracle i for epoch e                                    *)
(***************************************************************************)

\* The pubsub delivers a request to the follower that listens.
ReceiveObserveReq(i, m) ==
  LET e == current[i]
  IN  /\ Len(follower[i][e].waiting) < MaxWaiting
      /\ requests' = [requests EXCEPT ![i] = @ \ {m}]
      /\ follower' = [follower EXCEPT ![i][e].waiting = Append(@, m)]
      /\ UNCHANGED <<epoch, current, leader, observations, reports, asked, started>>

\* Mutant: without the check of the sender.
AcceptsOfAnyone(e, f, m) == f.round < m.round /\ m.round <= RoundMax + 1

Accepts(e, f, m) == /\ m.from = LeaderOf[e]
                    /\ f.round < m.round /\ m.round <= RoundMax + 1

\* Mutant: _round is left as it was.
OnObserveReqReceivedKeepsRound(i, e) ==
  LET f == follower[i][e]
      m == Head(f.waiting)
  IN  /\ f.waiting # <<>> /\ ~f.fetching
      /\ follower' = [follower EXCEPT ![i][e] =
           IF Accepts(e, f, m) /\ m.round <= RoundMax
             THEN [f EXCEPT !.fetching = TRUE]
             ELSE [f EXCEPT !.waiting = Tail(@)]]
      /\ UNCHANGED <<epoch, current, leader, requests, observations, reports, asked, started>>

\* The handler has the mutex. A request that is refused, or one over _roundMax
\* (changeLeader), ends it; else it goes on to fetch the data.
OnObserveReqReceived(i, e) ==
  LET f == follower[i][e]
      m == Head(f.waiting)
  IN  /\ f.waiting # <<>> /\ ~f.fetching
      /\ follower' = [follower EXCEPT ![i][e] =
           CASE ~Accepts(e, f, m) -> [f EXCEPT !.waiting = Tail(@)]
             [] Accepts(e, f, m) /\ m.round > RoundMax ->
                  [f EXCEPT !.round = m.round, !.waiting = Tail(@)]
             [] OTHER -> [f EXCEPT !.round = m.round, !.fetching = TRUE]]
      /\ UNCHANGED <<epoch, current, leader, requests, observations, reports, asked, started>>

\* The leader that listens in the process of oracle j takes the call, if there
\* is one.
Emit(j, call) ==
  leader' = [e \in Epochs |->
    IF LeaderOf[e] = j /\ leader[e].state = "listening"
      THEN [leader[e] EXCEPT !.waiting = Append(@, call)]
      ELSE leader[e]]

RoomAt(j) ==
  \A e \in Epochs : LeaderOf[e] = j /\ leader[e].state = "listening" =>
    Len(leader[e].waiting) < MaxWaiting

\* The data is there: sendObserve, which emits the observation when the leader
\* is in the same process.
SendObserve(i, e) ==
  LET f == follower[i][e]
      j == Head(f.waiting).from
      o == [oracle |-> i, epoch |-> e, round |-> Head(f.waiting).round]
  IN  /\ f.fetching
      /\ follower' = [follower EXCEPT ![i][e] = [f EXCEPT !.fetching = FALSE, !.waiting = Tail(@)]]
      /\ IF j = i
           THEN /\ RoomAt(i)
                /\ Emit(i, [handler |-> "observe", observation |-> o])
                /\ UNCHANGED observations
           ELSE /\ observations' = observations \cup {[to |-> j, observation |-> o]}
                /\ UNCHANGED leader
      /\ UNCHANGED <<epoch, current, requests, reports, asked, started>>

(***************************************************************************)
(* The leader of epoch e                                                   *)
(***************************************************************************)

\* onObserve of the network service.
ReceiveObserve(m) ==
  /\ RoomAt(m.to)
  /\ Emit(m.to, [handler |-> "observe", observation |-> m.observation])
  /\ observations' = observations \ {m}
  /\ UNCHANGED <<epoch, current, follower, requests, reports, asked, started>>

\* _startRound up to the broadcast.
StartRound(e) ==
  LET l == leader[e]
      r == l.round + 1
  IN  /\ HasMutex(e, {"startEpoch", "roundTimeout"})
      /\ r <= MaxRound
      /\ leader' = [leader EXCEPT ![e] =
           [l EXCEPT !.round = r, !.observe = {}, !.phase = "observe", !.publishing = TRUE]]
      /\ requests' = [i \in Oracles |-> requests[i] \cup {[from |-> LeaderOf[e], round |-> r]}]
      /\ asked' = asked \cup {<<e, r>>}
      /\ UNCHANGED <<epoch, current, follower, observations, reports, started>>

\* _startRound after the broadcast: the round timer is armed, also when the
\* instance was stopped meanwhile.
RoundStarted(e) ==
  LET l == leader[e]
  IN  /\ l.publishing
      /\ leader' = [leader EXCEPT ![e] =
           [l EXCEPT !.publishing = FALSE, !.waiting = Tail(@), !.roundTimer = TRUE]]
      /\ UNCHANGED <<epoch, current, follower, requests, observations, reports, asked, started>>

\* Mutant: without the check of the epoch.
CountsOfAnyEpoch(e, l, o) ==
  /\ o.round = l.round
  /\ \A p \in l.observe : p.oracle # o.oracle
  /\ l.phase \in {"observe", "grace"}

Counts(e, l, o) ==
  /\ o.epoch = e /\ o.round = l.round
  /\ \A p \in l.observe : p.oracle # o.oracle
  /\ l.phase \in {"observe", "grace"}

\* The observation that completes the quorum arms the grace timer.
OnObserve(e) ==
  LET l == leader[e]
      o == Head(l.waiting).observation
      seen == l.observe \cup {o}
      quorum == Cardinality(seen) = 2 * F + 1
  IN  /\ HasMutex(e, {"observe"})
      /\ leader' = [leader EXCEPT ![e] =
           IF Counts(e, l, o)
             THEN [l EXCEPT !.waiting = Tail(@), !.observe = seen,
                            !.phase = IF quorum THEN "grace" ELSE @,
                            !.graceTimer = @ \/ quorum]
             ELSE [l EXCEPT !.waiting = Tail(@)]]
      /\ UNCHANGED <<epoch, current, follower, requests, observations, reports, asked, started>>

\* _assembleReport, broadcastReportReq and the change of the phase.
OnGraceTimerTimeout(e) ==
  LET l == leader[e]
  IN  /\ HasMutex(e, {"graceTimeout"})
      /\ leader' = [leader EXCEPT ![e] =
           [l EXCEPT !.waiting = Tail(@), !.phase = IF @ = "grace" THEN "report" ELSE @]]
      /\ reports' = IF l.phase = "grace"
           THEN reports \cup {[epoch |-> e, round |-> l.round, observations |-> l.observe]}
           ELSE reports
      /\ UNCHANGED <<epoch, current, follower, requests, observations, asked, started>>

\* Instances that are, or will soon be, in a later round than the first.
Late == {e \in Epochs : leader[e].round > 1 \/ [handler |-> "roundTimeout"] \in Range(leader[e].waiting)}

RoundTimerFires(e) ==
  /\ leader[e].roundTimer
  /\ leader[e].round < MaxRound
  /\ Cardinality(Late \cup {e}) <= MaxLate
  /\ Len(leader[e].waiting) < MaxWaiting
  /\ leader' = [leader EXCEPT ![e].roundTimer = FALSE,
                              ![e].waiting = Append(@, [handler |-> "roundTimeout"])]
  /\ UNCHANGED <<epoch, current, follower, requests, observations, reports, asked, started>>

GraceTimerFires(e) ==
  /\ leader[e].graceTimer
  /\ Len(leader[e].waiting) < MaxWaiting
  /\ leader' = [leader EXCEPT ![e].graceTimer = FALSE,
                              ![e].waiting = Append(@, [handler |-> "graceTimeout"])]
  /\ UNCHANGED <<epoch, current, follower, requests, observations, reports, asked, started>>

Next ==
  \/ \E i \in Oracles, e \in Epochs :
       \/ AdoptEpoch(i, e)
       \/ AdoptEpochWithoutConfig(i, e)
       \/ OnObserveReqReceived(i, e)
       \/ SendObserve(i, e)
  \/ \E i \in Oracles : \E m \in requests[i] : ReceiveObserveReq(i, m)
  \/ \E m \in observations : ReceiveObserve(m)
  \/ \E e \in Epochs :
       \/ StartRound(e)
       \/ RoundStarted(e)
       \/ OnObserve(e)
       \/ OnGraceTimerTimeout(e)
       \/ RoundTimerFires(e)
       \/ GraceTimerFires(e)

Spec == Init /\ [][Next]_vars

\* Whoever waits for the mutex gets it, and whoever holds it lets it go.
FairSpec ==
  /\ Spec
  /\ \A e \in Epochs : /\ WF_vars(StartRound(e)) /\ WF_vars(RoundStarted(e))
                       /\ WF_vars(OnObserve(e)) /\ WF_vars(OnGraceTimerTimeout(e))

(***************************************************************************)
(* Properties                                                              *)
(***************************************************************************)

States == {"none", "listening", "stopped"}

\* A follower that fetches data is in the round of the request it handles.
FollowerStates ==
  {f \in [state : States, round : 0..RoundMax + 1, waiting : Seq(ObserveReq), fetching : BOOLEAN] :
     /\ Len(f.waiting) <= MaxWaiting
     /\ f.fetching => f.waiting # <<>> /\ Head(f.waiting).round = f.round}

\* A leader that publishes holds its mutex, and it has a phase in a round only.
LeaderStates ==
  {l \in [state : States, round : 0..MaxRound, observe : SUBSET Observation,
          phase : {"none", "observe", "grace", "report"}, waiting : Seq(Call),
          publishing : BOOLEAN, roundTimer : BOOLEAN, graceTimer : BOOLEAN] :
     /\ Len(l.waiting) <= MaxWaiting
     /\ l.publishing => l.waiting # <<>>
     /\ l.phase # "none" => l.round # 0}

\* The types of the variables.
TypeOK ==
  /\ epoch \in [Oracles -> Epochs]
  /\ current \in [Oracles -> Epochs]
  /\ follower \in [Oracles -> [Epochs -> FollowerStates]]
  /\ leader \in [Epochs -> LeaderStates]
  /\ requests \in [Oracles -> SUBSET ObserveReq]
  /\ observations \subseteq [to : Oracles, observation : Observation]
  /\ reports \subseteq [epoch : Epochs, round : Rounds, observations : SUBSET Observation]

\* However instances are stopped and replaced, and whatever they had under way,
\* a report is made of observations that were made for its epoch and its round,
\* although the same oracle led another epoch, in the same round numbers, before
\* (_onObserve, _assembleReport).
ReportOfOneEpoch ==
  \A p \in reports : \A o \in p.observations : o.epoch = p.epoch /\ o.round = p.round

\* A follower is in a round only when its leader asked for that round: a request
\* that another leader sent in an earlier epoch is refused, whenever it arrives
\* (_onObserveReqReceived). The request names no epoch, so it may be one of
\* another epoch of the same leader.
RoundWasAsked ==
  \A i \in Oracles, e \in Epochs :
    follower[i][e].round > 0 =>
      \E d \in Epochs : LeaderOf[d] = LeaderOf[e] /\ <<d, follower[i][e].round>> \in asked

\* An oracle that adopts an epoch it leads asks for observations: the leader is
\* there when startepoch is emitted (_checkAgreementRule, _onStartEpoch).
NewLeaderAsks == \A e \in Epochs : (e \in started) ~> (<<e, 1>> \in asked)

\* What the pacemaker says of stopReportGen: the previous instance is stopped.
\* Once its calls are done, a stopped leader does not wake up again.
StoppedLeaderIsQuiet ==
  \A e \in Epochs :
    leader[e].state = "stopped" /\ leader[e].waiting = <<>> =>
      ~leader[e].roundTimer /\ ~leader[e].graceTimer
=============================================================================
