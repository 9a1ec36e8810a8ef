--------------------------- MODULE LifeCycleProofs ---------------------------
(***************************************************************************)
(* Proofs about LifeCycle, for any oracles, epochs and leaders: the types, *)
(* and what keeps the epochs apart although a stopped instance may go on.  *)
(***************************************************************************)
EXTENDS LifeCycle, TLAPS

(***************************************************************************)
(* Instances                                                               *)
(***************************************************************************)

LEMMA ChainEpochIsEpoch == ChainEpoch \in Epochs
BY EpochsAssumption DEF ChainEpoch

\* The instances a process starts with, and those it starts later.
LEMMA NewInstances ==
  /\ NoFollower \in FollowerStates /\ NewFollower \in FollowerStates
  /\ NoLeader \in LeaderStates /\ NewLeader \in LeaderStates
<1>1. \A s \in States : [state |-> s, round |-> 0, waiting |-> <<>>, fetching |-> FALSE] \in FollowerStates
  BY LifeCycleBounds DEF FollowerStates
<1>2. \A s \in States :
        [state |-> s, round |-> 0, observe |-> {}, phase |-> "none", waiting |-> <<>>,
         publishing |-> FALSE, roundTimer |-> FALSE, graceTimer |-> FALSE] \in LeaderStates
  BY LifeCycleBounds DEF LeaderStates
<1>3. NoFollower \in FollowerStates /\ NoLeader \in LeaderStates
  BY <1>1, <1>2 DEF NoFollower, NoLeader, States
<1>4. \A f \in FollowerStates : [f EXCEPT !.state = "listening"] \in FollowerStates
  BY DEF FollowerStates, States
<1>5. \A l \in LeaderStates : [l EXCEPT !.state = "listening"] \in LeaderStates
  BY DEF LeaderStates, States
<1> QED
  BY <1>3, <1>4, <1>5 DEF NewFollower, NewLeader

\* The parts of a follower.
LEMMA FollowerFacts ==
  ASSUME NEW f \in FollowerStates
  PROVE  /\ f \in [state : States, round : 0..RoundMax + 1, waiting : Seq(ObserveReq), fetching : BOOLEAN]
         /\ f.round \in 0..RoundMax + 1 /\ f.waiting \in Seq(ObserveReq)
         /\ Len(f.waiting) <= MaxWaiting
         /\ f.fetching => f.waiting # <<>> /\ Head(f.waiting).round = f.round
BY DEF FollowerStates

\* The parts of a leader.
LEMMA LeaderFacts ==
  ASSUME NEW l \in LeaderStates
  PROVE  /\ l.round \in 0..MaxRound /\ l.observe \subseteq Observation /\ l.waiting \in Seq(Call)
         /\ Len(l.waiting) <= MaxWaiting
         /\ l.publishing => l.waiting # <<>>
         /\ l.phase # "none" => l.round # 0
BY DEF LeaderStates

\* stop() of a follower.
LEMMA StopFollowerFacts ==
  ASSUME NEW f \in FollowerStates
  PROVE  /\ StopFollower(f) \in FollowerStates
         /\ StopFollower(f).round = f.round /\ StopFollower(f).waiting = f.waiting
BY DEF StopFollower, FollowerStates, States

\* stop() of a leader.
LEMMA StopLeaderFacts ==
  ASSUME NEW l \in LeaderStates
  PROVE  /\ StopLeader(l) \in LeaderStates
         /\ StopLeader(l).round = l.round /\ StopLeader(l).observe = l.observe
BY DEF StopLeader, LeaderStates, States

\* A call that waits for the mutex of a leader.
LEMMA CallWaits ==
  ASSUME NEW l \in LeaderStates, NEW call \in Call, Len(l.waiting) < MaxWaiting
  PROVE  LET m == [l EXCEPT !.waiting = Append(@, call)]
         IN  m \in LeaderStates /\ m.round = l.round /\ m.observe = l.observe
<1> DEFINE w == Append(l.waiting, call)
<1>1. w \in Seq(Call) /\ Len(w) = Len(l.waiting) + 1 /\ w # <<>> /\ Len(l.waiting) \in Nat
  BY LeaderFacts
<1>2. MaxWaiting \in Nat
  BY LifeCycleBounds
<1>3. Len(w) <= MaxWaiting
  BY <1>1, <1>2
<1> HIDE DEF w
<1>4. [l EXCEPT !.waiting = w] \in LeaderStates
  BY <1>1, <1>3 DEF LeaderStates
<1>5. [l EXCEPT !.waiting = w].round = l.round /\ [l EXCEPT !.waiting = w].observe = l.observe
  BY DEF LeaderStates
<1> QED
  BY <1>4, <1>5 DEF w

\* Who waits once another call does.
LEMMA AppendedElements ==
  ASSUME NEW S, NEW s \in Seq(S), NEW m \in S
  PROVE  \A k \in DOMAIN Append(s, m) :
           Append(s, m)[k] = m \/ (k \in DOMAIN s /\ Append(s, m)[k] = s[k])
<1>1. PICK n \in Nat : n = Len(s) /\ DOMAIN s = 1..n
  OBVIOUS
<1>2. DOMAIN Append(s, m) = 1..(n + 1)
  BY <1>1
<1>3. Append(s, m)[n + 1] = m
  BY <1>1
<1>4. \A k \in 1..n : Append(s, m)[k] = s[k]
  BY <1>1
<1>5. \A k \in 1..(n + 1) : k = n + 1 \/ k \in 1..n
  OBVIOUS
<1> QED
  BY <1>1, <1>2, <1>3, <1>4, <1>5

\* A call that is done lets the next one wait in front.
LEMMA CallIsDone ==
  ASSUME NEW S, NEW s \in Seq(S), s # <<>>, Len(s) <= MaxWaiting
  PROVE  /\ Tail(s) \in Seq(S) /\ Len(Tail(s)) <= MaxWaiting /\ Head(s) \in S
         /\ \A k \in DOMAIN Tail(s) : k + 1 \in DOMAIN s /\ Tail(s)[k] = s[k + 1]
<1>1. MaxWaiting \in Nat
  BY LifeCycleBounds
<1>2. Tail(s) \in Seq(S) /\ Len(Tail(s)) = Len(s) - 1 /\ Head(s) \in S /\ Len(s) \in Nat
  OBVIOUS
<1>3. \A k \in DOMAIN Tail(s) : k + 1 \in DOMAIN s /\ Tail(s)[k] = s[k + 1]
  OBVIOUS
<1> QED
  BY <1>1, <1>2, <1>3

\* An observation that a leader takes, if one listens.
LEMMA EmitFacts ==
  ASSUME leader \in [Epochs -> LeaderStates], NEW j, RoomAt(j), NEW o \in Observation,
         Emit(j, [handler |-> "observe", observation |-> o])
  PROVE  /\ leader' \in [Epochs -> LeaderStates]
         /\ \A e \in Epochs : leader'[e].round = leader[e].round /\ leader'[e].observe = leader[e].observe
<1> DEFINE call == [handler |-> "observe", observation |-> o]
<1>1. call \in Call
  BY DEF Call
<1> HIDE DEF call
<1>2. ASSUME NEW e \in Epochs
      PROVE  /\ leader'[e] \in LeaderStates
             /\ leader'[e].round = leader[e].round /\ leader'[e].observe = leader[e].observe
  <2>1. CASE LeaderOf[e] = j /\ leader[e].state = "listening"
    <3>1. Len(leader[e].waiting) < MaxWaiting
      BY <2>1 DEF RoomAt
    <3>2. leader'[e] = [leader[e] EXCEPT !.waiting = Append(@, call)]
      BY <2>1 DEF Emit, call
    <3> QED
      BY <1>1, <3>1, <3>2, CallWaits
  <2>2. CASE ~(LeaderOf[e] = j /\ leader[e].state = "listening")
    <3>1. leader'[e] = leader[e]
      BY <2>2 DEF Emit
    <3> QED
      BY <3>1
  <2> QED
    BY <2>1, <2>2
<1>3. leader' = [e \in Epochs |-> leader'[e]]
  BY DEF Emit
<1> QED
  BY <1>2, <1>3

\* The leaders once a new epoch is adopted.
LEMMA LeadersAfterFacts ==
  ASSUME leader \in [Epochs -> LeaderStates], NEW i \in Oracles, NEW e \in Epochs
  PROVE  /\ LeadersAfter(i, e) \in [Epochs -> LeaderStates]
         /\ \A d \in Epochs :
              \/ LeadersAfter(i, e)[d].observe = {}
              \/ /\ LeadersAfter(i, e)[d].observe = leader[d].observe
                 /\ LeadersAfter(i, e)[d].round = leader[d].round
<1>1. EmitStartEpoch(NewLeader) \in LeaderStates /\ EmitStartEpoch(NewLeader).observe = {}
  <2>1. NewLeader.waiting = <<>> /\ NewLeader.observe = {}
    BY DEF NewLeader, NoLeader
  <2>2. Len(NewLeader.waiting) < MaxWaiting
    BY <2>1, LifeCycleBounds
  <2>3. [handler |-> "startEpoch"] \in Call
    BY DEF Call
  <2> QED
    BY <2>1, <2>2, <2>3, NewInstances, CallWaits DEF EmitStartEpoch
<1>2. ASSUME NEW d \in Epochs
      PROVE  /\ LeadersAfter(i, e)[d] \in LeaderStates
             /\ \/ LeadersAfter(i, e)[d].observe = {}
                \/ /\ LeadersAfter(i, e)[d].observe = leader[d].observe
                   /\ LeadersAfter(i, e)[d].round = leader[d].round
  <2>1. LeadersAfter(i, e)[d] \in {EmitStartEpoch(NewLeader), StopLeader(leader[d]), leader[d]}
    BY DEF LeadersAfter
  <2> QED
    BY <1>1, <2>1, StopLeaderFacts
<1> QED
  BY <1>2 DEF LeadersAfter

(***************************************************************************)
(* Types                                                                   *)
(***************************************************************************)

LEMMA TypeInitially == Init => TypeOK
<1> SUFFICES ASSUME Init PROVE TypeOK
  OBVIOUS
<1>1. follower \in [Oracles -> [Epochs -> FollowerStates]]
  BY NewInstances DEF Init
<1>2. leader \in [Epochs -> LeaderStates]
  BY NewInstances DEF Init
<1>3. epoch \in [Oracles -> Epochs] /\ current \in [Oracles -> Epochs]
  BY ChainEpochIsEpoch DEF Init
<1> QED
  BY <1>1, <1>2, <1>3 DEF Init, TypeOK

LEMMA TypePreserved == TypeOK /\ [Next]_vars => TypeOK'
<1> SUFFICES ASSUME TypeOK, [Next]_vars
             PROVE  TypeOK'
  OBVIOUS
<1>0. MaxRound \in Nat /\ RoundMax \in Nat /\ MaxWaiting \in Nat
  BY LifeCycleBounds
<1>1. ASSUME NEW i \in Oracles, NEW e \in Epochs, AdoptEpoch(i, e)
      PROVE  TypeOK'
  <2>1. /\ epoch' \in [Oracles -> Epochs] /\ current' \in [Oracles -> Epochs]
    BY <1>1 DEF AdoptEpoch, TypeOK
  <2>2. follower' \in [Oracles -> [Epochs -> FollowerStates]]
    <3> DEFINE d == current[i]
    <3>1. d \in Epochs /\ follower[i][d] \in FollowerStates
      BY DEF TypeOK
    <3>2. StopFollower(follower[i][d]) \in FollowerStates
      BY <3>1, StopFollowerFacts
    <3> DEFINE g == [follower EXCEPT ![i][d] = StopFollower(follower[i][d])]
    <3>3. g \in [Oracles -> [Epochs -> FollowerStates]]
      BY <3>1, <3>2 DEF TypeOK
    <3>4. follower' = [g EXCEPT ![i][e] = NewFollower]
      BY <1>1 DEF AdoptEpoch
    <3> HIDE DEF g
    <3> QED
      BY <3>3, <3>4, NewInstances
  <2>3. leader' \in [Epochs -> LeaderStates]
    BY <1>1, LeadersAfterFacts DEF AdoptEpoch, TypeOK
  <2> QED
    BY <1>1, <2>1, <2>2, <2>3 DEF AdoptEpoch, TypeOK
<1>2. ASSUME NEW i \in Oracles, NEW e \in Epochs, AdoptEpochWithoutConfig(i, e)
      PROVE  TypeOK'
  BY <1>2 DEF AdoptEpochWithoutConfig, TypeOK
<1>3. ASSUME NEW i \in Oracles, NEW m \in requests[i], ReceiveObserveReq(i, m)
      PROVE  TypeOK'
  <2> DEFINE e == current[i]
             f == follower[i][e]
             g == [f EXCEPT !.waiting = Append(@, m)]
  <2>1. e \in Epochs /\ f \in FollowerStates /\ m \in ObserveReq
    BY DEF TypeOK
  <2>2. g \in FollowerStates
    <3>1. /\ f.waiting \in Seq(ObserveReq) /\ Len(f.waiting) < MaxWaiting
          /\ f.fetching => f.waiting # <<>> /\ Head(f.waiting).round = f.round
      BY <1>3, <2>1, FollowerFacts DEF ReceiveObserveReq
    <3>2. PICK s \in Seq(ObserveReq) : s = f.waiting /\ Len(s) < MaxWaiting
      BY <3>1
    <3>3. /\ Append(s, m) \in Seq(ObserveReq) /\ Len(Append(s, m)) = Len(s) + 1
          /\ Len(s) \in Nat /\ Append(s, m) # <<>>
      BY <2>1, <3>2
    <3>4. s # <<>> => Head(Append(s, m)) = Head(s)
      <4>1. s # <<>> => 1 \in 1..Len(s)
        BY <3>2
      <4>2. \A k \in 1..Len(s) : Append(s, m)[k] = s[k]
        BY <3>2
      <4> QED
        BY <3>2, <3>3, <4>1, <4>2
    <3>5. Len(Append(s, m)) <= MaxWaiting
      BY <1>0, <3>2, <3>3
    <3> HIDE DEF f
    <3> QED
      BY <2>1, <3>1, <3>2, <3>3, <3>4, <3>5 DEF FollowerStates
  <2>3. follower' = [follower EXCEPT ![i] = [@ EXCEPT ![e] = g]]
    BY <1>3, <2>1 DEF ReceiveObserveReq, TypeOK
  <2>4. follower' \in [Oracles -> [Epochs -> FollowerStates]]
    BY <2>1, <2>2, <2>3 DEF TypeOK
  <2> QED
    BY <1>3, <2>4 DEF ReceiveObserveReq, TypeOK
<1>4. ASSUME NEW i \in Oracles, NEW e \in Epochs, OnObserveReqReceived(i, e)
      PROVE  TypeOK'
  <2> DEFINE f == follower[i][e]
             m == Head(f.waiting)
  <2>1. /\ f \in FollowerStates /\ f.waiting # <<>> /\ ~f.fetching
    BY <1>4 DEF OnObserveReqReceived, TypeOK
  <2>2. f.waiting \in Seq(ObserveReq) /\ Len(f.waiting) <= MaxWaiting
    BY <2>1, FollowerFacts
  <2>3. /\ Tail(f.waiting) \in Seq(ObserveReq) /\ Len(Tail(f.waiting)) <= MaxWaiting
        /\ m \in ObserveReq
    BY <2>1, <2>2, CallIsDone
  <2>4. PICK g : /\ follower' = [follower EXCEPT ![i][e] = g]
                 /\ \/ g = [f EXCEPT !.waiting = Tail(f.waiting)]
                    \/ /\ Accepts(e, f, m)
                       /\ g \in {[f EXCEPT !.round = m.round, !.waiting = Tail(f.waiting)],
                                 [f EXCEPT !.round = m.round, !.fetching = TRUE]}
    BY <1>4 DEF OnObserveReqReceived
  <2>5. Accepts(e, f, m) => m.round \in 0..RoundMax + 1
    BY <1>0, <2>3 DEF Accepts, ObserveReq, Rounds
  <2> HIDE DEF f, m
  <2>6. g \in FollowerStates
    BY <2>1, <2>2, <2>3, <2>4, <2>5 DEF FollowerStates, m
  <2>7. follower' \in [Oracles -> [Epochs -> FollowerStates]]
    BY <2>4, <2>6 DEF TypeOK
  <2> QED
    BY <1>4, <2>7 DEF OnObserveReqReceived, TypeOK
<1>5. ASSUME NEW i \in Oracles, NEW e \in Epochs, SendObserve(i, e)
      PROVE  TypeOK'
  <2> DEFINE f == follower[i][e]
             j == Head(f.waiting).from
             o == [oracle |-> i, epoch |-> e, round |-> Head(f.waiting).round]
             g == [f EXCEPT !.fetching = FALSE, !.waiting = Tail(@)]
  <2>1. f \in FollowerStates /\ f.fetching
    BY <1>5 DEF SendObserve, TypeOK
  <2>2. f.waiting \in Seq(ObserveReq) /\ Len(f.waiting) <= MaxWaiting /\ f.waiting # <<>>
    BY <2>1, FollowerFacts
  <2>3. /\ Tail(f.waiting) \in Seq(ObserveReq) /\ Len(Tail(f.waiting)) <= MaxWaiting
        /\ Head(f.waiting) \in ObserveReq
    BY <2>2, CallIsDone
  <2>4. o \in Observation /\ j \in Oracles
    BY <2>3 DEF ObserveReq, Observation
  <2>5. g \in FollowerStates
    <3> HIDE DEF f
    <3> QED
      BY <2>1, <2>3 DEF FollowerStates
  <2>6. follower' = [follower EXCEPT ![i][e] = g]
    BY <1>5 DEF SendObserve
  <2>7. follower' \in [Oracles -> [Epochs -> FollowerStates]]
    <3> HIDE DEF g
    <3> QED
      BY <2>5, <2>6 DEF TypeOK
  <2>8. CASE j = i
    <3>1. RoomAt(i) /\ Emit(i, [handler |-> "observe", observation |-> o]) /\ UNCHANGED observations
      BY <1>5, <2>8 DEF SendObserve
    <3> HIDE DEF o, j
    <3>2. leader' \in [Epochs -> LeaderStates]
      BY <2>4, <3>1, EmitFacts DEF TypeOK
    <3> QED
      BY <1>5, <2>7, <3>1, <3>2 DEF SendObserve, TypeOK
  <2>9. CASE j # i
    <3>1. observations' = observations \cup {[to |-> j, observation |-> o]} /\ UNCHANGED leader
      BY <1>5, <2>9 DEF SendObserve
    <3> HIDE DEF o, j
    <3> QED
      BY <1>5, <2>4, <2>7, <3>1 DEF SendObserve, TypeOK
  <2> QED
    BY <2>8, <2>9
<1>6. ASSUME NEW m \in observations, ReceiveObserve(m)
      PROVE  TypeOK'
  <2>1. m.observation \in Observation
    BY DEF TypeOK
  <2>2. leader' \in [Epochs -> LeaderStates]
    BY <1>6, <2>1, EmitFacts DEF ReceiveObserve, TypeOK
  <2> QED
    BY <1>6, <2>2 DEF ReceiveObserve, TypeOK
<1>7. ASSUME NEW e \in Epochs, StartRound(e)
      PROVE  TypeOK'
  <2> DEFINE l == leader[e]
             r == l.round + 1
             k == [l EXCEPT !.round = r, !.observe = {}, !.phase = "observe", !.publishing = TRUE]
  <2>1. l \in LeaderStates /\ l.waiting # <<>> /\ r <= MaxRound
    BY <1>7 DEF StartRound, HasMutex, TypeOK
  <2>2. r \in Rounds /\ r \in 0..MaxRound /\ r # 0
    BY <1>0, <2>1, LeaderFacts DEF Rounds
  <2>3. k \in LeaderStates
    <3> HIDE DEF l, r
    <3> QED
      BY <2>1, <2>2 DEF LeaderStates
  <2>4. leader' = [leader EXCEPT ![e] = k]
    BY <1>7 DEF StartRound
  <2>5. leader' \in [Epochs -> LeaderStates]
    <3> HIDE DEF k
    <3> QED
      BY <2>3, <2>4 DEF TypeOK
  <2>6. [from |-> LeaderOf[e], round |-> r] \in ObserveReq
    BY <2>2, EpochsAssumption DEF ObserveReq
  <2>7. requests' \in [Oracles -> SUBSET ObserveReq]
    BY <1>7, <2>6 DEF StartRound, TypeOK
  <2> QED
    BY <1>7, <2>5, <2>7 DEF StartRound, TypeOK
<1>8. ASSUME NEW e \in Epochs, RoundStarted(e)
      PROVE  TypeOK'
  <2> DEFINE l == leader[e]
             k == [l EXCEPT !.publishing = FALSE, !.waiting = Tail(@), !.roundTimer = TRUE]
  <2>1. l \in LeaderStates /\ l.publishing
    BY <1>8 DEF RoundStarted, TypeOK
  <2>2. Tail(l.waiting) \in Seq(Call) /\ Len(Tail(l.waiting)) <= MaxWaiting
    BY <2>1, LeaderFacts, CallIsDone
  <2>3. k \in LeaderStates
    <3> HIDE DEF l
    <3> QED
      BY <2>1, <2>2 DEF LeaderStates
  <2>4. leader' = [leader EXCEPT ![e] = k]
    BY <1>8 DEF RoundStarted
  <2>5. leader' \in [Epochs -> LeaderStates]
    <3> HIDE DEF k
    <3> QED
      BY <2>3, <2>4 DEF TypeOK
  <2> QED
    BY <1>8, <2>5 DEF RoundStarted, TypeOK
<1>9. ASSUME NEW e \in Epochs, OnObserve(e)
      PROVE  TypeOK'
  <2> DEFINE l == leader[e]
             o == Head(l.waiting).observation
             seen == l.observe \cup {o}
             quorum == Cardinality(seen) = 2 * F + 1
             t == Tail(l.waiting)
             k == [l EXCEPT !.waiting = Tail(@), !.observe = seen,
                            !.phase = IF quorum THEN "grace" ELSE @,
                            !.graceTimer = @ \/ quorum]
  <2>1. l \in LeaderStates /\ l.waiting # <<>> /\ ~l.publishing /\ Head(l.waiting).handler = "observe"
    BY <1>9 DEF OnObserve, HasMutex, TypeOK
  <2>2. t \in Seq(Call) /\ Len(t) <= MaxWaiting /\ Head(l.waiting) \in Call
    BY <2>1, LeaderFacts, CallIsDone
  <2>3. o \in Observation
    BY <2>1, <2>2 DEF Call
  <2>4. seen \subseteq Observation
    BY <2>1, <2>3, LeaderFacts
  <2>5. leader' = [leader EXCEPT ![e] = IF Counts(e, l, o) THEN k ELSE [l EXCEPT !.waiting = Tail(@)]]
    BY <1>9 DEF OnObserve
  <2>6. [l EXCEPT !.waiting = Tail(@)] \in LeaderStates
    <3> HIDE DEF l
    <3> QED
      BY <2>1, <2>2 DEF LeaderStates
  <2>7. Counts(e, l, o) => k \in LeaderStates
    <3> SUFFICES ASSUME Counts(e, l, o) PROVE k \in LeaderStates
      OBVIOUS
    <3>1. l.phase # "none"
      BY DEF Counts
    <3>2. quorum \in BOOLEAN
      OBVIOUS
    <3> HIDE DEF l, o, seen, quorum
    <3> QED
      BY <2>1, <2>2, <2>4, <3>1, <3>2 DEF LeaderStates
  <2>8. leader' \in [Epochs -> LeaderStates]
    <3> HIDE DEF k
    <3> QED
      BY <2>5, <2>6, <2>7 DEF TypeOK
  <2> QED
    BY <1>9, <2>8 DEF OnObserve, TypeOK
<1>10. ASSUME NEW e \in Epochs, OnGraceTimerTimeout(e)
       PROVE  TypeOK'
  <2> DEFINE l == leader[e]
             k == [l EXCEPT !.waiting = Tail(@), !.phase = IF @ = "grace" THEN "report" ELSE @]
  <2>1. l \in LeaderStates /\ l.waiting # <<>> /\ ~l.publishing
    BY <1>10 DEF OnGraceTimerTimeout, HasMutex, TypeOK
  <2>2. Tail(l.waiting) \in Seq(Call) /\ Len(Tail(l.waiting)) <= MaxWaiting
    BY <2>1, LeaderFacts, CallIsDone
  <2>3. k \in LeaderStates
    <3> HIDE DEF l
    <3> QED
      BY <2>1, <2>2 DEF LeaderStates
  <2>4. leader' = [leader EXCEPT ![e] = k]
    BY <1>10 DEF OnGraceTimerTimeout
  <2>5. leader' \in [Epochs -> LeaderStates]
    <3> HIDE DEF k
    <3> QED
      BY <2>3, <2>4 DEF TypeOK
  <2>6. l.phase = "grace" =>
          [epoch |-> e, round |-> l.round, observations |-> l.observe]
            \in [epoch : Epochs, round : Rounds, observations : SUBSET Observation]
    BY <1>0, <2>1, LeaderFacts DEF Rounds
  <2>7. reports' \subseteq [epoch : Epochs, round : Rounds, observations : SUBSET Observation]
    BY <1>10, <2>6 DEF OnGraceTimerTimeout, TypeOK
  <2> QED
    BY <1>10, <2>5, <2>7 DEF OnGraceTimerTimeout, TypeOK
<1>11. ASSUME NEW e \in Epochs, RoundTimerFires(e) \/ GraceTimerFires(e)
       PROVE  TypeOK'
  <2> DEFINE l == leader[e]
             w == Append(l.waiting, [handler |-> "roundTimeout"])
             v == Append(l.waiting, [handler |-> "graceTimeout"])
  <2>1. l \in LeaderStates /\ Len(l.waiting) < MaxWaiting
    BY <1>11 DEF RoundTimerFires, GraceTimerFires, TypeOK
  <2>2. w \in Seq(Call) /\ Len(w) <= MaxWaiting /\ w # <<>> /\ v \in Seq(Call) /\ Len(v) <= MaxWaiting /\ v # <<>>
    BY <1>0, <2>1, LeaderFacts DEF Call
  <2>3. leader' \in {[leader EXCEPT ![e] = [l EXCEPT !.roundTimer = FALSE, !.waiting = w]],
                     [leader EXCEPT ![e] = [l EXCEPT !.graceTimer = FALSE, !.waiting = v]]}
    BY <1>11 DEF RoundTimerFires, GraceTimerFires, TypeOK
  <2> HIDE DEF l, w, v
  <2>4. /\ [l EXCEPT !.roundTimer = FALSE, !.waiting = w] \in LeaderStates
        /\ [l EXCEPT !.graceTimer = FALSE, !.waiting = v] \in LeaderStates
    BY <2>1, <2>2 DEF LeaderStates
  <2>5. leader' \in [Epochs -> LeaderStates]
    BY <2>3, <2>4 DEF TypeOK
  <2> QED
    BY <1>11, <2>5 DEF RoundTimerFires, GraceTimerFires, TypeOK
<1>12. ASSUME UNCHANGED vars
       PROVE  TypeOK'
  BY <1>12 DEF vars, TypeOK
<1> QED
  BY <1>1, <1>2, <1>3, <1>4, <1>5, <1>6, <1>7, <1>8, <1>9, <1>10, <1>11, <1>12 DEF Next

\* Every variable keeps its type; a leader that publishes and a follower that
\* fetches hold their mutex, stopped or not (useMutex.ts).
THEOREM TypeCorrect == Spec => []TypeOK
<1>1. Init => TypeOK
  BY TypeInitially
<1>2. TypeOK /\ [Next]_vars => TypeOK'
  BY TypePreserved
<1> QED
  BY <1>1, <1>2, PTL DEF Spec
(***************************************************************************)
(* The observations of a report                                            *)
(***************************************************************************)

\* What a leader has counted, stopped or not, is of its epoch and of its round.
ObserveInv ==
  \A e \in Epochs : \A o \in leader[e].observe : o.epoch = e /\ o.round = leader[e].round

LEMMA ObservePreserved ==
  TypeOK /\ ObserveInv /\ ReportOfOneEpoch /\ [Next]_vars => ObserveInv' /\ ReportOfOneEpoch'
<1> SUFFICES ASSUME TypeOK, ObserveInv, ReportOfOneEpoch, [Next]_vars
             PROVE  ObserveInv' /\ ReportOfOneEpoch'
  OBVIOUS
<1>1. ASSUME UNCHANGED reports,
             \A e \in Epochs : \/ leader'[e].observe = {}
                               \/ leader'[e].observe = leader[e].observe /\ leader'[e].round = leader[e].round
      PROVE  ObserveInv' /\ ReportOfOneEpoch'
  BY <1>1 DEF ObserveInv, ReportOfOneEpoch
<1>2. ASSUME NEW i \in Oracles, NEW e \in Epochs, AdoptEpoch(i, e)
      PROVE  ObserveInv' /\ ReportOfOneEpoch'
  <2>1. leader' = LeadersAfter(i, e) /\ UNCHANGED reports
    BY <1>2 DEF AdoptEpoch
  <2>2. \A d \in Epochs : \/ leader'[d].observe = {}
                          \/ leader'[d].observe = leader[d].observe /\ leader'[d].round = leader[d].round
    BY <2>1, LeadersAfterFacts DEF TypeOK
  <2> QED
    BY <1>1, <2>1, <2>2
<1>3. ASSUME NEW i \in Oracles, NEW e \in Epochs,
             AdoptEpochWithoutConfig(i, e) \/ OnObserveReqReceived(i, e)
      PROVE  ObserveInv' /\ ReportOfOneEpoch'
  BY <1>1, <1>3 DEF AdoptEpochWithoutConfig, OnObserveReqReceived
<1>4. ASSUME NEW i \in Oracles, NEW m \in requests[i], ReceiveObserveReq(i, m)
      PROVE  ObserveInv' /\ ReportOfOneEpoch'
  BY <1>1, <1>4 DEF ReceiveObserveReq
<1>5. ASSUME NEW i \in Oracles, NEW e \in Epochs, SendObserve(i, e)
      PROVE  ObserveInv' /\ ReportOfOneEpoch'
  <2> DEFINE f == follower[i][e]
             o == [oracle |-> i, epoch |-> e, round |-> Head(f.waiting).round]
  <2>1. UNCHANGED reports
    BY <1>5 DEF SendObserve
  <2>2. CASE UNCHANGED leader
    BY <1>1, <2>1, <2>2
  <2>3. CASE RoomAt(i) /\ Emit(i, [handler |-> "observe", observation |-> o])
    <3>1. f \in FollowerStates /\ f.fetching
      BY <1>5 DEF SendObserve, TypeOK
    <3>2. f.waiting \in Seq(ObserveReq) /\ Len(f.waiting) <= MaxWaiting /\ f.waiting # <<>>
      BY <3>1, FollowerFacts
    <3>3. Head(f.waiting) \in ObserveReq
      BY <3>2, CallIsDone
    <3>4. o \in Observation
      BY <3>3 DEF ObserveReq, Observation
    <3> HIDE DEF o
    <3>5. \A d \in Epochs : leader'[d].round = leader[d].round /\ leader'[d].observe = leader[d].observe
      BY <2>3, <3>4, EmitFacts DEF TypeOK
    <3> QED
      BY <1>1, <2>1, <3>5
  <2> QED
    BY <1>5, <2>2, <2>3 DEF SendObserve
<1>6. ASSUME NEW m \in observations, ReceiveObserve(m)
      PROVE  ObserveInv' /\ ReportOfOneEpoch'
  <2>1. m.observation \in Observation
    BY DEF TypeOK
  <2>2. \A d \in Epochs : leader'[d].round = leader[d].round /\ leader'[d].observe = leader[d].observe
    BY <1>6, <2>1, EmitFacts DEF ReceiveObserve, TypeOK
  <2> QED
    BY <1>1, <1>6, <2>2 DEF ReceiveObserve
<1>7. ASSUME NEW e \in Epochs, StartRound(e)
      PROVE  ObserveInv' /\ ReportOfOneEpoch'
  <2>1. leader'[e].observe = {} /\ \A d \in Epochs \ {e} : leader'[d] = leader[d]
    BY <1>7 DEF StartRound, TypeOK, LeaderStates
  <2> QED
    BY <1>1, <1>7, <2>1 DEF StartRound
<1>8. ASSUME NEW e \in Epochs, RoundStarted(e) \/ RoundTimerFires(e) \/ GraceTimerFires(e)
      PROVE  ObserveInv' /\ ReportOfOneEpoch'
  <2>1. leader[e] \in LeaderStates
    BY DEF TypeOK
  <2>2. /\ leader'[e].observe = leader[e].observe /\ leader'[e].round = leader[e].round
        /\ \A d \in Epochs \ {e} : leader'[d] = leader[d]
    <3>1. CASE RoundStarted(e)
      BY <2>1, <3>1 DEF RoundStarted, TypeOK, LeaderStates
    <3>2. CASE RoundTimerFires(e)
      <4>1. leader' = [leader EXCEPT ![e] = [leader[e] EXCEPT !.roundTimer = FALSE,
                         !.waiting = Append(@, [handler |-> "roundTimeout"])]]
        BY <2>1, <3>2 DEF RoundTimerFires, TypeOK
      <4> QED
        BY <2>1, <4>1 DEF TypeOK, LeaderStates
    <3>3. CASE GraceTimerFires(e)
      <4>1. leader' = [leader EXCEPT ![e] = [leader[e] EXCEPT !.graceTimer = FALSE,
                         !.waiting = Append(@, [handler |-> "graceTimeout"])]]
        BY <2>1, <3>3 DEF GraceTimerFires, TypeOK
      <4> QED
        BY <2>1, <4>1 DEF TypeOK, LeaderStates
    <3> QED
      BY <1>8, <3>1, <3>2, <3>3
  <2> QED
    BY <1>1, <1>8, <2>2 DEF RoundStarted, RoundTimerFires, GraceTimerFires
<1>9. ASSUME NEW e \in Epochs, OnObserve(e)
      PROVE  ObserveInv' /\ ReportOfOneEpoch'
  <2> DEFINE l == leader[e]
             o == Head(l.waiting).observation
  <2>1. l \in LeaderStates
    BY DEF TypeOK
  <2>2. UNCHANGED reports /\ \A d \in Epochs \ {e} : leader'[d] = leader[d]
    BY <1>9 DEF OnObserve, TypeOK
  <2>3. CASE ~Counts(e, l, o)
    <3>1. leader'[e] = [l EXCEPT !.waiting = Tail(@)]
      BY <1>9, <2>3 DEF OnObserve, TypeOK
    <3>2. leader'[e].observe = l.observe /\ leader'[e].round = l.round
      BY <2>1, <3>1 DEF LeaderStates
    <3> QED
      BY <1>1, <2>2, <3>2
  <2>4. CASE Counts(e, l, o)
    <3>1. leader'[e].observe = l.observe \cup {o} /\ leader'[e].round = l.round
      BY <1>9, <2>1, <2>4 DEF OnObserve, TypeOK, LeaderStates
    <3>2. o.epoch = e /\ o.round = l.round
      BY <2>4 DEF Counts
    <3>3. \A p \in leader'[e].observe : p.epoch = e /\ p.round = leader'[e].round
      BY <3>1, <3>2 DEF ObserveInv
    <3> QED
      BY <2>2, <3>3 DEF ObserveInv, ReportOfOneEpoch
  <2> QED
    BY <2>3, <2>4
<1>10. ASSUME NEW e \in Epochs, OnGraceTimerTimeout(e)
       PROVE  ObserveInv' /\ ReportOfOneEpoch'
  <2> DEFINE l == leader[e]
  <2>1. l \in LeaderStates
    BY DEF TypeOK
  <2>2. /\ leader'[e].observe = l.observe /\ leader'[e].round = l.round
        /\ \A d \in Epochs \ {e} : leader'[d] = leader[d]
    BY <1>10, <2>1 DEF OnGraceTimerTimeout, TypeOK, LeaderStates
  <2>3. ObserveInv'
    BY <2>2 DEF ObserveInv
  <2>4. \A p \in reports' \ reports : p.epoch = e /\ p.round = l.round /\ p.observations = l.observe
    BY <1>10 DEF OnGraceTimerTimeout
  <2>5. ReportOfOneEpoch'
    BY <2>4 DEF ObserveInv, ReportOfOneEpoch
  <2> QED
    BY <2>3, <2>5
<1>11. ASSUME UNCHANGED vars
       PROVE  ObserveInv' /\ ReportOfOneEpoch'
  BY <1>1, <1>11 DEF vars
<1> QED
  BY <1>2, <1>3, <1>4, <1>5, <1>6, <1>7, <1>8, <1>9, <1>10, <1>11 DEF Next

LEMMA ObserveInitially == Init => ObserveInv /\ ReportOfOneEpoch
BY DEF Init, ObserveInv, ReportOfOneEpoch, NewLeader, NoLeader

\* A report is made of observations of its epoch and round, whatever instances
\* were stopped and went on (_onObserve and _assembleReport of
\* reportgen.leader.service.ts).
THEOREM ReportIsOfOneEpoch == Spec => []ReportOfOneEpoch
<1>1. Init => ObserveInv /\ ReportOfOneEpoch
  BY ObserveInitially
<1>2. TypeOK /\ ObserveInv /\ ReportOfOneEpoch /\ [Next]_vars => ObserveInv' /\ ReportOfOneEpoch'
  BY ObservePreserved
<1> QED
  BY <1>1, <1>2, TypeCorrect, PTL DEF Spec

(***************************************************************************)
(* The rounds of followers                                                 *)
(***************************************************************************)

\* Oracle j, leader of some epoch, asked for round r.
Asked(j, r) == \E d \in Epochs : LeaderOf[d] = j /\ <<d, r>> \in asked

\* Every request, on its way or before a follower, was sent.
RequestInv ==
  \A i \in Oracles :
    /\ \A m \in requests[i] : Asked(m.from, m.round)
    /\ \A e \in Epochs : \A k \in DOMAIN follower[i][e].waiting :
         Asked(follower[i][e].waiting[k].from, follower[i][e].waiting[k].round)

LEMMA RequestPreserved ==
  TypeOK /\ RequestInv /\ RoundWasAsked /\ [Next]_vars => RequestInv' /\ RoundWasAsked'
<1> SUFFICES ASSUME TypeOK, RequestInv, RoundWasAsked, [Next]_vars
             PROVE  RequestInv' /\ RoundWasAsked'
  OBVIOUS
<1> DEFINE Good(e, f) ==
             /\ f.round > 0 => Asked(LeaderOf[e], f.round)
             /\ \A k \in DOMAIN f.waiting : Asked(f.waiting[k].from, f.waiting[k].round)
<1>0. \A i \in Oracles, e \in Epochs : follower[i][e] \in FollowerStates /\ Good(e, follower[i][e])
  BY DEF TypeOK, RequestInv, RoundWasAsked, Asked
<1>1. ASSUME UNCHANGED asked, \A i \in Oracles : requests'[i] \subseteq requests[i],
             \A i \in Oracles, e \in Epochs : Good(e, follower'[i][e])
      PROVE  RequestInv' /\ RoundWasAsked'
  BY <1>1 DEF RequestInv, RoundWasAsked, Asked
<1>2. ASSUME UNCHANGED <<asked, requests, follower>>
      PROVE  RequestInv' /\ RoundWasAsked'
  BY <1>0, <1>1, <1>2
<1>3. ASSUME NEW i \in Oracles, NEW e \in Epochs, AdoptEpoch(i, e)
      PROVE  RequestInv' /\ RoundWasAsked'
  <2> DEFINE d == current[i]
             g == [follower EXCEPT ![i][d] = StopFollower(follower[i][d])]
  <2>1. d \in Epochs /\ UNCHANGED <<asked, requests>>
    BY <1>3 DEF AdoptEpoch, TypeOK
  <2>2. follower' = [g EXCEPT ![i][e] = NewFollower]
    BY <1>3 DEF AdoptEpoch
  <2>3. \A j \in Oracles, c \in Epochs :
          follower'[j][c] \in {NewFollower, follower[j][c], StopFollower(follower[j][c])}
    BY <2>1, <2>2 DEF TypeOK
  <2>4. NewFollower.round = 0 /\ NewFollower.waiting = <<>>
    BY DEF NewFollower, NoFollower
  <2>5. \A c : Good(c, NewFollower)
    BY <2>4
  <2>6. \A j \in Oracles, c \in Epochs : Good(c, StopFollower(follower[j][c]))
    BY <1>0, StopFollowerFacts
  <2> HIDE DEF Good
  <2>7. \A j \in Oracles, c \in Epochs : Good(c, follower'[j][c])
    BY <1>0, <2>3, <2>5, <2>6
  <2> QED
    BY <1>1, <2>1, <2>7
<1>4. ASSUME NEW i \in Oracles, NEW e \in Epochs, AdoptEpochWithoutConfig(i, e)
      PROVE  RequestInv' /\ RoundWasAsked'
  BY <1>2, <1>4 DEF AdoptEpochWithoutConfig
<1>5. ASSUME NEW i \in Oracles, NEW m \in requests[i], ReceiveObserveReq(i, m)
      PROVE  RequestInv' /\ RoundWasAsked'
  <2> DEFINE e == current[i]
             f == follower[i][e]
             g == [f EXCEPT !.waiting = Append(@, m)]
  <2>1. e \in Epochs /\ f \in FollowerStates /\ m \in ObserveReq
    BY DEF TypeOK
  <2>2. /\ UNCHANGED asked /\ follower' = [follower EXCEPT ![i][e] = g]
        /\ requests' = [requests EXCEPT ![i] = @ \ {m}]
    BY <1>5, <2>1 DEF ReceiveObserveReq, TypeOK
  <2>3. Asked(m.from, m.round)
    BY DEF RequestInv
  <2>4. PICK s \in Seq(ObserveReq) : s = f.waiting
    BY <2>1, FollowerFacts
  <2>5. g.round = f.round /\ g.waiting = Append(s, m)
    BY <2>1, <2>4 DEF FollowerStates
  <2>6. \A k \in DOMAIN Append(s, m) : Append(s, m)[k] = m \/ (k \in DOMAIN s /\ Append(s, m)[k] = s[k])
    BY <2>1, <2>4, AppendedElements
  <2>7. Good(e, g)
    <3>1. Good(e, f)
      BY <1>0, <2>1
    <3> HIDE DEF f, g
    <3> QED
      BY <2>3, <2>4, <2>5, <2>6, <3>1
  <2> HIDE DEF Good, g, f
  <2>8. \A j \in Oracles, c \in Epochs : Good(c, follower'[j][c])
    BY <1>0, <2>1, <2>2, <2>7 DEF TypeOK
  <2>9. \A j \in Oracles : requests'[j] \subseteq requests[j]
    BY <2>2 DEF TypeOK
  <2> QED
    BY <1>1, <2>2, <2>8, <2>9
<1>6. ASSUME NEW i \in Oracles, NEW e \in Epochs, OnObserveReqReceived(i, e)
      PROVE  RequestInv' /\ RoundWasAsked'
  <2> DEFINE f == follower[i][e]
             m == Head(f.waiting)
             t == Tail(f.waiting)
  <2>1. f \in FollowerStates /\ f.waiting # <<>>
    BY <1>6 DEF OnObserveReqReceived, TypeOK
  <2>2. f.waiting \in Seq(ObserveReq) /\ Len(f.waiting) <= MaxWaiting
    BY <2>1, FollowerFacts
  <2>3. \A k \in DOMAIN t : k + 1 \in DOMAIN f.waiting /\ t[k] = f.waiting[k + 1]
    BY <2>1, <2>2, CallIsDone
  <2>4. Asked(m.from, m.round)
    <3>1. 1 \in DOMAIN f.waiting /\ m = f.waiting[1]
      BY <2>1, <2>2
    <3> QED
      BY <3>1 DEF RequestInv
  <2>5. PICK g : /\ follower' = [follower EXCEPT ![i][e] = g]
                 /\ \/ g = [f EXCEPT !.waiting = t]
                    \/ /\ Accepts(e, f, m)
                       /\ g \in {[f EXCEPT !.round = m.round, !.waiting = t],
                                 [f EXCEPT !.round = m.round, !.fetching = TRUE]}
    BY <1>6 DEF OnObserveReqReceived
  <2>6. Accepts(e, f, m) => Asked(LeaderOf[e], m.round)
    BY <2>4 DEF Accepts
  <2>7. /\ g.round = f.round \/ (g.round = m.round /\ Asked(LeaderOf[e], m.round))
        /\ g.waiting = t \/ g.waiting = f.waiting
    <3> DEFINE a == [f EXCEPT !.waiting = t]
               b == [f EXCEPT !.round = m.round, !.waiting = t]
               c == [f EXCEPT !.round = m.round, !.fetching = TRUE]
    <3> HIDE DEF m, t, f
    <3>1. g = a \/ (g \in {b, c} /\ Asked(LeaderOf[e], m.round))
      BY <2>5, <2>6
    <3>2. a.round = f.round /\ a.waiting = t
      BY <2>1 DEF FollowerStates
    <3>3. b.round = m.round /\ b.waiting = t
      BY <2>1 DEF FollowerStates
    <3>4. c.round = m.round /\ c.waiting = f.waiting
      BY <2>1 DEF FollowerStates
    <3> HIDE DEF a, b, c
    <3> QED
      BY <3>1, <3>2, <3>3, <3>4
  <2>8. Good(e, f) /\ \A k \in DOMAIN t : Asked(t[k].from, t[k].round)
    BY <1>0, <2>3
  <2>9. Good(e, g)
    <3> HIDE DEF m, t, f
    <3> QED
      BY <2>7, <2>8
  <2> HIDE DEF Good
  <2>10. \A j \in Oracles, c \in Epochs : Good(c, follower'[j][c])
    BY <1>0, <2>5, <2>9 DEF TypeOK
  <2> QED
    BY <1>1, <1>6, <2>10 DEF OnObserveReqReceived
<1>7. ASSUME NEW i \in Oracles, NEW e \in Epochs, SendObserve(i, e)
      PROVE  RequestInv' /\ RoundWasAsked'
  <2> DEFINE f == follower[i][e]
             g == [f EXCEPT !.fetching = FALSE, !.waiting = Tail(@)]
  <2>1. f \in FollowerStates /\ f.fetching
    BY <1>7 DEF SendObserve, TypeOK
  <2>2. f.waiting \in Seq(ObserveReq) /\ Len(f.waiting) <= MaxWaiting /\ f.waiting # <<>>
    BY <2>1, FollowerFacts
  <2>3. \A k \in DOMAIN Tail(f.waiting) :
          k + 1 \in DOMAIN f.waiting /\ Tail(f.waiting)[k] = f.waiting[k + 1]
    BY <2>2, CallIsDone
  <2>4. g.round = f.round /\ g.waiting = Tail(f.waiting)
    BY <2>1 DEF FollowerStates
  <2>5. Good(e, g)
    BY <1>0, <2>3, <2>4
  <2>6. UNCHANGED <<asked, requests>> /\ follower' = [follower EXCEPT ![i][e] = g]
    BY <1>7 DEF SendObserve
  <2> HIDE DEF Good, g
  <2>7. \A j \in Oracles, c \in Epochs : Good(c, follower'[j][c])
    BY <1>0, <2>5, <2>6 DEF TypeOK
  <2> QED
    BY <1>1, <2>6, <2>7
<1>8. ASSUME NEW m \in observations, ReceiveObserve(m)
       PROVE  RequestInv' /\ RoundWasAsked'
  BY <1>2, <1>8 DEF ReceiveObserve
<1>9. ASSUME NEW e \in Epochs, StartRound(e)
       PROVE  RequestInv' /\ RoundWasAsked'
  <2>1. PICK r : r = leader[e].round + 1
    OBVIOUS
  <2>2. /\ asked' = asked \cup {<<e, r>>} /\ UNCHANGED follower
        /\ requests' = [i \in Oracles |-> requests[i] \cup {[from |-> LeaderOf[e], round |-> r]}]
    BY <1>9, <2>1 DEF StartRound
  <2>3. \A j, q : Asked(j, q) => Asked(j, q)'
    BY <2>2 DEF Asked
  <2>4. Asked(LeaderOf[e], r)'
    BY <2>2 DEF Asked
  <2>5. \A i \in Oracles : \A m \in requests'[i] :
          m \in requests[i] \/ (m.from = LeaderOf[e] /\ m.round = r)
    <3> DEFINE q == [from |-> LeaderOf[e], round |-> r]
    <3>1. q.from = LeaderOf[e] /\ q.round = r
      OBVIOUS
    <3>2. requests' = [i \in Oracles |-> requests[i] \cup {q}]
      BY <2>2
    <3> HIDE DEF q
    <3> QED
      BY <3>1, <3>2
  <2>6. \A i \in Oracles : \A m \in requests'[i] : Asked(m.from, m.round)'
    BY <2>3, <2>4, <2>5 DEF RequestInv
  <2>7. \A i \in Oracles, d \in Epochs : \A k \in DOMAIN follower'[i][d].waiting :
          Asked(follower[i][d].waiting[k].from, follower[i][d].waiting[k].round)'
    BY <2>2, <2>3 DEF RequestInv
  <2>8. RoundWasAsked'
    BY <2>2 DEF RoundWasAsked
  <2> QED
    BY <2>6, <2>7, <2>8 DEF RequestInv
<1>10. ASSUME NEW e \in Epochs,
              \/ RoundStarted(e) \/ OnObserve(e) \/ OnGraceTimerTimeout(e)
              \/ RoundTimerFires(e) \/ GraceTimerFires(e)
       PROVE  RequestInv' /\ RoundWasAsked'
  BY <1>2, <1>10 DEF RoundStarted, OnObserve, OnGraceTimerTimeout, RoundTimerFires, GraceTimerFires
<1>11. ASSUME UNCHANGED vars
       PROVE  RequestInv' /\ RoundWasAsked'
  BY <1>2, <1>11 DEF vars
<1> QED
  BY <1>3, <1>4, <1>5, <1>6, <1>7, <1>8, <1>9, <1>10, <1>11 DEF Next

LEMMA RequestInitially == Init => RequestInv /\ RoundWasAsked
<1> SUFFICES ASSUME Init PROVE RequestInv /\ RoundWasAsked
  OBVIOUS
<1>1. \A i \in Oracles, e \in Epochs : follower[i][e].round = 0 /\ follower[i][e].waiting = <<>>
  BY DEF Init, NewFollower, NoFollower
<1> QED
  BY <1>1 DEF Init, RequestInv, RoundWasAsked

\* A follower enters a round only when its leader asked for it, in this or in
\* another of its epochs (_onObserveReqReceived of
\* reportgen.follower.service.ts).
THEOREM RoundsWereAsked == Spec => []RoundWasAsked
<1>1. Init => RequestInv /\ RoundWasAsked
  BY RequestInitially
<1>2. TypeOK /\ RequestInv /\ RoundWasAsked /\ [Next]_vars => RequestInv' /\ RoundWasAsked'
  BY RequestPreserved
<1> QED
  BY <1>1, <1>2, TypeCorrect, PTL DEF Spec
=============================================================================
