# Maven oracles: a TLA+ model

The repository is the oracle node of Maven Finance: a network of nodes that
observe a price off chain and report it to an *aggregator* smart contract. It
follows the Offchain Reporting protocol (OCR, <https://research.chain.link/ocr.pdf>).
This directory holds TLA+ modules translated from its source, the TLC runs that
check them on small instances and the proofs that TLAPS checks for all instances.

Paths below are relative to the repository; `lib/` stands for
`libs/oracle/src/lib/`.

## 1. The system

One node runs, for every aggregator it is configured for, a *pacemaker*, a
*report generation follower* and, in the epochs it leads, a *report generation
leader*. The other services are shared by all aggregators.

| part | source | state | operations |
|---|---|---|---|
| pacemaker | `lib/pacemaker/pacemaker.service.ts` | epoch and leader, `_newEpoch`, `_peersNewEpoch`, the ledger read last, progress timer (1 h), resend timer (15 s) | `initialize`, both timers, `_onChangeLeader`, `_onProgress`, `_onNewEpochReceived` (amplification rule, agreement rule) |
| leader | `lib/reportgen/reportgen.leader.service.ts` | round, observations, signatures, phase, round timer (30 min), grace timer (2 s) | `_onStartEpoch`, both timers, `_onObserve`, `_onReport` |
| follower | `lib/reportgen/reportgen.follower.service.ts` | round, `_sentEcho`, `_completedRound`, `_receivedEcho` | `_onObserveReqReceived`, `_onReportReqReceived`, `_onFinalReceived`, `_onFinalEchoReceived` |
| report generation factory | `lib/reportgen/reportgen.factory.service.ts` | the instances of each aggregator | `startReportGen`, `stopReportGen` |
| transmit | `lib/transmit/transmit.service.ts` | queue of reports by due time, last report accepted per aggregator, one timer | `onTransmit`, `doTransmit`, the timer |
| transaction manager | `libs/tx-manager/src/tx-manager.service.ts` | pool of batches, a mutex, the stream of answers | `addBatch`, a cron job every second |
| contract service | `lib/contract/contract.service.ts` | none | reads of the contract, signing, verifying, sending |
| stream manager | `lib/stream-manager/*.ts` | inbound and outbound streams per protocol and peer | `createInboundStream`, `getOutboundStream` |
| network services, event hub | `lib/pacemaker/pacemaker.network.service.ts`, `lib/reportgen/reportgen.network.service.ts`, `lib/event-hub/` | listeners | publish and deliver messages; emit `startepoch`, `changeLeader`, `progress`, `transmit` |
| data service, fetchers | `lib/data/`, `libs/*-fetcher/` | none | median over three HTTP sources |
| node, configuration, apps | `lib/node.service.ts`, `libs/config`, `apps/` | libp2p node | start and stop |
| contract bindings, migrations | `libs/contracts` | none | deployment |
| indexer | `indexer/` | a database | one handler per contract operation |

How they interact:

* Pacemakers of different nodes exchange `newEpoch` over gossipsub (which also
  delivers to the sender). When more than 2f of them want an epoch, each
  restarts its report generation, and the leader's pacemaker emits `startepoch`.
* Leader to followers: `observeReq`, `reportReq`, `final`, over gossipsub.
  Follower to leader: `observe`, `report`, over one libp2p stream each, or
  directly when both are in the same process. Followers to all: `finalEcho`.
* Follower to pacemaker of the same node: `progress` when a round completes,
  `changeLeader` when a round is over `_roundMax`.
* Follower to transmit of the same node: `transmit`, after more than f echoes;
  transmit sends through the contract service and the transaction manager.

What is hard: handlers of the pacemaker and of a report generation instance are
serialised by a mutex (`lib/helpers/useMutex.ts`), but timers, events and
messages queue behind it and then run in a state that has moved on; those of
transmit, the transaction manager and the stream manager interleave at every
`await`. Messages are lost, repeated and overtaken (publish errors are only
logged). Nothing is persisted: a process that dies (an exception that nobody
catches ends it) restarts from the epoch on the chain. The ledger of oracles
changes while the protocol runs, and each node knows the one it read last.

The faults considered are crashes, restarts, omissions, delays, duplicates and
reordering, and failed reads. Every node runs this code.

What makes the parts correct:

* *pacemaker*: an epoch is entered only with a quorum behind it, moved by more
  than f oracles that saw a reason to; nobody goes back; a stalled epoch ends.
* *leader and follower*: one report per round; what is transmitted was observed
  by more than 2f oracles, signed by more than f and echoed by more than f; one
  delivered final message is enough for everybody.
* *transmit*: a queued report is sent or is obsolete; nothing older than the
  chain is sent; the timer is armed while the queue is not empty.
* *transaction manager*: every caller is answered, with what really happened.
* *stream manager*: one stream per protocol and peer; what is sent arrives in
  order, once; the bookkeeping of one stream never takes down another; no call
  waits for the mutex for ever.
* *values*: what is signed is a median that at most f wrong prices cannot move
  out of the range of the right ones; a report is due beyond alpha and skipped
  within it; each oracle transmits in a slot of its own.
* *life cycle*: a report has one epoch and one round, whatever the instances that
  were replaced still have under way; a new leader asks for observations.

The hazards of the code, each at its line and with the properties that cover it,
are in `PROJECT.json`.

## 2. Modules

| module | what it is |
|---|---|
| `Pacemaker` | all pacemakers of one aggregator, the network between them, the contract they read |
| `EpochOrder` | the order `sort()` without a comparator gives to numbers |
| `EpochAgreement` | what the pacemakers promise together: an abstract succession of epochs, which `Pacemaker` implements |
| `ReportGen` | the leader and the followers of one aggregator in one epoch, and the network |
| `ReportAgreement` | what the oracles promise together within an epoch: one report a round, signed, echoed and handed over, which `ReportGen` implements |
| `LifeCycle` | the instances of report generation across epochs: stopped, replaced, still running |
| `Streams` | the stream manager and the messages from followers to leaders on top of it |
| `DataPath` | the values of one round: prices, observations, medians, deviation, signatures, transmit slots |
| `TxManager` | the transaction manager of every oracle, the mempool and the contracts |
| `Transmit` | the transmit service of every oracle, on top of `TxManager` |
| `MC...` | instances of `Pacemaker`, `ReportGen`, `LifeCycle`, `Streams`, `DataPath`, `Transmit` for TLC |
| `PacemakerProofs`, `ReportGenProofs`, `LifeCycleProofs`, `StreamsProofs`, `DataPathProofs`, `TransmitProofs` | theorems |

How they fit: `ReportGen` is one epoch, with the instances taken as they are
started; `LifeCycle` is what happens between epochs, when the pacemaker replaces
them; `Streams` is why a message to the leader in `ReportGen` either arrives at
the instance it was sent to or is lost; `DataPath` is what the messages carry;
`Transmit` takes over where `transmitted` of `ReportGen` ends.

### Pacemaker

A variable of the code is a function from oracles: `epoch`, `leader`, `newEpoch`,
`peersNewEpoch`, `ledger` (`_oracleLedger`), `resendArmed` (`_timerResend`).
`reportGen[i]` is what the pacemaker of `i` started last. `chainEpoch` and
`chainLedger` are the contract. `entered` and `initiated` are history: they are
written, and only the properties read them.

One action per handler. The mutex of the pacemaker makes that exact: no other
handler of the instance runs between the awaits of one. What a handler awaits
changes nothing but its own oracle: the ledger it reads and the messages it sends.

* `OnResendTimerTimeout`, `OnTimeoutOrChangeLeader`: the three handlers that
  refresh the ledger and broadcast. `_onProgressTimerTimeout` and
  `_onChangeLeader` do the same to the state. They are enabled at any time: the
  progress timer is restarted whenever it expires, so it is always armed, and a
  handler that fired may wait for the mutex as long as it takes.
* `OnChangeLeaderElsewhere`: a `changeLeader` of another aggregator, which all
  pacemakers of the process hear. `_onChangeLeader` reads the ledger before it
  looks at the aggregator, so this one's ledger is refreshed and nothing is sent.
* `OnNewEpochReceived(i, j, v)`: record, then `Amplified`, then `Agreed`. The
  rules are one operator each. `Candidates` are the values that pass the
  threshold, `FirstCandidate` the one the loop meets first, in the order
  `SortsAfter`. The agreement rule ends in `KeepEpoch`, `AdoptAndRestart`, or
  `AdoptWithoutConfig` when the configuration cannot be read.
* `_onProgress` only restarts the progress timer, which is a stutter here.
* `sent[i]` only grows, and any oracle may read any part of it, any number of
  times: loss, delay, duplication and reordering are all in that.
* `Crash`, `Initialize`: the memory of the process is lost; what it sent is not.
* `CommitReport`, `ChangeLedger`: the contract, from how the code reads it. Its
  epoch only grows, to epochs some oracle was in.

### EpochAgreement

The abstract specification: an oracle asks (`Begin`), joins those who ask
(`Join`), enters a later epoch that is agreed on (`Enter`), resumes after a
restart (`Resume`); what was asked is seen at once, and there are no messages,
timers, maps or orders. `Pacemaker` instantiates it with its own variables
(`asked` is `sent`, `began` is `initiated`, `chain` is `chainEpoch`);
`ImplementsAgreement` is the refinement. One `newEpoch` message may make an
oracle join and enter in one step, so `Learn` is both.

### ReportGen

One epoch whose leader is fixed, with the ledger all instances were started
with. The leader's variables are `leaderRound`, `observe`, `report`, `phase`; the
follower's are functions from oracles. `_sentReport` is written by the code and
never read, and is left out. The value of an observation is the pair of the
round it was made in and the instance that made it (`inc`): two observations
differ exactly when they were made separately.

* `StartRound` is `_startRound`, taken by `OnStartEpoch` (round 0) and
  `OnTimerRoundTimeout`. `OnObserve`, `OnGraceTimerTimeout` and `OnReport` are
  the other handlers of the leader. The grace timer is armed exactly when the
  phase is `grace`, which is the handler's own check.
* `OnObserveReqReceived` and `OnObserveReqOverMax` are the two ways through
  `_onObserveReqReceived`; the second emits `changeLeader`, which is
  `OnTimeoutOrChangeLeader` of the pacemaker.
* `OnReportReqReceived(i, p, should)`: `should` is the answer of `_shouldReport`,
  which depends on the clock and the chain and may differ from node to node.
* `OnFinalReceived`, `OnFinalEchoReceived`: echo, count, transmit.
  `VerifyAttestedReport` is the contract service's check.
* Broadcasts are sets that only grow (`BroadcastObserveReq` and the like, the
  network service). `SendObserve` and `SendReport` name the instance of the
  leader whose stream the message was put on, and it reaches no other.
* `Crash` and `Rejoin`: the process dies; the next one agrees on the epoch again
  and starts new instances, the leader in round 0, so round 1 comes again. An
  exception nobody catches (no fetcher answers, the leader cannot be dialled) is
  the same crash.
* `transmitted` is history: what each oracle handed to its transmit service.

### ReportAgreement

The abstract specification of an epoch: the report of a round is made, if there is
none (`Make`), oracles sign it (`Sign`), tell each other that it is attested and
hand it over (`Learn`: `Echo`, `HandOver` or both), and start again
(`StartAgain`). A report is observed by more than 2f oracles in its round, attested
by more than f signatures, handed over after more than f echoes, and an oracle
that has not started again meanwhile hands over later and later rounds. There is
no leader, no message, phase or timer, and signing, echoing and handing over are
seen at once. `ReportGen` instantiates it: `made` are the reports the leader asked
signatures for, `signed` who sent one of which report, `echoed` who broadcast an
echo of which report, `life` is `inc`, `handed` is `transmitted` without the
signatures (`Reports`). `ImplementsReportAgreement` is the refinement; the round
timer, observations, the leader's bookkeeping and crashes show in no step of it.

### LifeCycle

The pacemaker's agreement is reduced to its outcome: oracle `i` adopts a later
epoch (`AdoptEpoch`), or does so without its configuration. Here a handler is
not one action, for the point is what `stop()` finds under way:

* `follower[i][e]` and `leader[e]` are the instances, with the calls that hold or
  await their mutex (`waiting`). `stop()` removes listeners and timers, the
  waiting calls stay. `AdoptEpoch` is `stopReportGen`, `startReportGen` and
  `startepoch` in the order of the code.
* A follower's handler is cut where it fetches the data (`fetching`), a leader's
  `_startRound` where it broadcasts (`publishing`); the timer is armed after.
* A request names its sender and round but no epoch; an observation has its epoch.
* The mutex of a new leader is free, so the handler of `startepoch` takes it in
  the same turn of the event loop (`Settled`).

### Streams

One node that sends, `Self`, and its peers. `queue` are the calls of
`getOutboundStream` that wait for the mutex, `dialing` the one that holds it;
`outbound` is the map of streams, whose entries are never deleted while the
process lives. A stream has two ends: `live` while the connection and both
processes are there, `loop` for the reading end.

* `Send`, `ReuseStream`, `StartDial`, `DialSucceeds`; a failed dial is logged for
  a report and ends the process for an observation (`DialOfReportFails`,
  `DialOfObserveFails`). `SendToSelf` is the message to a leader in the same process.
* `CreateInboundStream` closes the entry it replaces and starts its loop;
  `EndInbound` is the `finally` of the loop, which deletes the entry whatever it
  names by then.
* `CrashSelf`, `CrashPeer`, `LoseConnection`, failed dials of a peer that is up:
  counted by `faults`.

### DataPath

One round of values, in the order observation, report, signature, final message,
transmission. A price is a number of halves, so that `decimalPlaces(0)` of a mean
shows; an undefined price is NaN, a failed fetcher null, and both are carried
through the code as it does. What `sort()` of numbers puts at place k is stated by
rank: fewer than k numbers are below it, at least k not above it (`Sorted`).
`Medians` is a set because the comparator of `sort()` is inconsistent on NaN. `DeviatesBy` and `DeviatesAtLeast` divide by the
last value, 0 before the first report. Each oracle has the ledger it read:
`Packable` is the packing that throws for an unknown observer.
`RandomPermutation` is the shuffle of `helpers.ts` for the numbers the seeded
generator draws, `SlotOf` the index an oracle finds itself at. `DrawsAssumption` is
what `Math.floor(v * (i + 1))` gives for `v` in [0, 1): an index not above the place
itself, for every place of a ledger.

What an earlier step needs and a later does not is reset when the report is
assembled (`observation`, `fetched`), to keep the instance small. The
exceptions end the process (`up`).

### TxManager

A batch is the one operation that `sendReportBlockchain` makes of a report, so
the report names it. `pool[i]` is `_pool`; `executing[i]` holds the batch that
`_executeBatch` works on with the await it is at; the mutex, under which the
cron job empties the pool, is that there is at most one. `callers[i]` are those
who wait in `addBatch`, with the first answer that named their batch.

* `ExecuteBatch` takes a batch out of the pool. `Estimate`, `Send` and `Confirm`
  are the awaits that succeed; `EstimateFails`, `SendFails` and
  `ConfirmTimesOut` those that throw. A failed estimate answers the caller and
  the batch is sent all the same, so a second answer follows that nobody reads.
* External, from how the code uses it: `mempool` and `chain`. A contract takes a
  report if it is newer than the last one it took; the node refuses an operation
  the contract would refuse. Anything else that fails is a fault, counted by
  `faults`: a refused or lost call, an operation the chain drops, a confirmation
  that does not come in time (the operation may still be included later), a
  report the contract refuses for another reason.
* `toolkit.wallet.pkh()` is outside the `try`. The remote signer is built with
  its key hash and returns it, so no step makes it throw.
* The guard of `ExecuteBatch` is the mutex; that it is there is all `TypeOK` says of
  two batches at once.

### Transmit

`queue[i]` is `_reports`, `timer[i]` the report `_timerTransmit` is armed for,
`lastTransmitted[i][a]` the cache `_lastTransmittedReport`. Nothing serialises
the handlers of this service, so each is cut at its awaits:

* `OnTransmit` is the event and the read of the chain (`calls[i]` keeps what was
  read). `OnTransmitAccepts` and `OnTransmitDiscards` are what follows the read:
  the three tests are `Accepts`, and `DoTransmit` sets the cache, queues the
  report and restarts the timer. The `await` inside `doTransmit` waits for a
  computation only and lets nothing in that could tell the difference.
* `OnTransmitTimerTimeout` pops a report. `GetLastBlockchainReport` reads the
  chain; `SendReportBlockchain` or `DropObsolete` decides; `BatchAnswered` goes
  on when `addBatch` returns, whatever it says. The last two end the handler,
  which restarts the timer for the head of the queue. `handlers[i]` is a set:
  `doTransmit` restarts the timer while a handler waits, so several may run.
* Time is abstract. The transmit delays are a pseudo-random permutation, so a
  report may be put anywhere in the queue, and an armed timer may expire at any
  moment. Whether the median of a report deviates from another is the constant
  relation `Deviating`.
* A read of the chain that fails is an exception nobody catches and ends the
  process: `Restart`, as for a crash. Queue, cache and pool are lost, operations
  that were sent are not. `handed` keeps the order in which report generation
  hands reports over (rounds of an epoch in order, each once per process);
  `accepted` is history.
* All aggregators of an oracle share the queue, the timer and the pool;
  `Aggregators` is a constant.

## 3. Runs

Deadlock is checked in the runs of `Pacemaker`. The other instances are bounded
(rounds the leader starts, reports to hand over, messages to send, one round of
values, three epochs), so they stop and `CHECK_DEADLOCK` is off.

| run | instance | properties | shows |
|---|---|---|---|
| `pacemaker_ledger` | 5 oracles, ledgers of 4, 2 absent, 1 crash or failed read | `TypeOK`, `EpochBacked`, `NoLoneEpochChange`, `EpochBelowNewEpoch`, `ImplementsAgreement` | an epoch needs more than 2f askers, more than f of them initiators, even when governance replaces an oracle; the pacemakers implement the abstract agreement |
| `pacemaker_stalled` | 4 oracles, 1 absent, epochs 8 to 10, fair | `RulesExhausted`, `NewEpochAdvancesByOne`, `StalledEpochEnds`, `NeverGoesBack` | every live oracle leaves an epoch without progress, one epoch at a time, and the string sort does no harm |
| `pacemaker_sort` | ledger shrinks from 4 to 3 | `NoHigherCandidateLeft` | violated: see findings |
| `pacemaker_config` | 1 failed read | `RunsTheAgreedEpoch` | violated: see findings |
| `reportgen_rounds` | 4 oracles, 1 absent, 2 rounds, 1 crash, due or not | `TypeOK`, `TransmittedIsAttested`, `TransmittedIsEchoed`, `TransmitsInOrder`, `OneReportAssembled`, `ImplementsReportAgreement` | nothing of one round counts in another, a restarted leader gets no quorum for a round it already reported, and the handlers implement the abstract agreement on reports |
| `reportgen_live` | 4 oracles, 1 absent, 2 rounds started, fair | `ReportCompletes` | one final message that arrives is enough for all |
| `lifecycle` | 2 oracles, 3 epochs, `o1` leads twice, fair | `TypeOK`, `ReportOfOneEpoch`, `RoundWasAsked`, `NewLeaderAsks` | instances that are stopped while they work mix up no epochs, and every new leader asks |
| `lifecycle_zombie` | the same | `StoppedLeaderIsQuiet` | violated: see findings |
| `streams` | 3 messages, 2 peers and itself, both protocols, 2 faults, fair | `TypeOK`, `OneStreamPerDestination`, `ReceivedInOrder`, `OnlyFaultsCutStreams`, `EveryCallEnds`, `PushedArrives` | the mutex and the two maps do their work across ends, restarts and broken connections |
| `data` | 5 oracles with ledgers of 4, `o1` faulty, `o4` absent | `TypeOK`, `ObservationInRange`, `SignedIsTrusted`, `AlphaDecides`, `FinalConvinces`, `OneOraclePerSlot` | wrong and missing prices, a deviation of exactly alpha, a first report after 0, ledgers that differ |
| `transmit_queue` | 2 oracles, 2 rounds, prices that always deviate, 1 fault, fair | `TypeOK`, `EveryCallerHasABatch`, `TimerIsForHead`, `QueueIsServed`, `CacheCoversPending`, `AcceptedReachesChain` | the queue is always served, no caller is forgotten, nothing is under way twice, and one oracle makes good the failure of another |
| `transmit_fresh` | 1 oracle, 2 rounds, prices that do not move, 1 fault | `FresherIsTransmitted` | violated: see findings |

**Bounds.** Four oracles is the smallest network with f = 1, where f, 2f and n
differ; three live ones make every quorum need all of them. Epochs 8 to 10 let
the network move twice and cross the point where the string order turns around.
A timeout asks for no epoch above `MaxEpoch`; nothing else is cut. In
`ReportGen`, two rounds let messages of one round arrive in the next;
`MaxRound` bounds the rounds the leader starts and `MaxCrashes` the crashes.
`reportgen_rounds` follows only the first round once an oracle crashed or found a
report not due (`OneRoundAfterTrouble`, a constraint): the proofs have neither
this cut nor the bounds. Its symmetric oracles are the followers that are up; the
runs with a temporal property use no symmetry. In `LifeCycle` three epochs are
needed for one oracle to lead twice (0, 1 and 3: epoch 2 is skipped, as an
agreement may); with two oracles f is 0, so one observation is a quorum and
reports are made; `RoundMax` 1 and `MaxRound` 2 reach the request over
`_roundMax`; `MaxWaiting` and `MaxLate` keep one call at a mutex and one instance
beyond its first round. In `Streams` three messages are a reuse, and a message
behind a stream that is replaced; two faults let a connection break and the new
stream, or its process, fail again. In `DataPath` the right prices are 9 and 10,
whose mean is rounded, the wrong ones far off or undefined; alpha is 50 per
thousand, which is the move from 10 to 9.5; one draw moves every oracle; the
leader and the others have the same ledger, or two of them another. In `Transmit`
two rounds make the reports overtake each other in every handler and in the pool,
with two handlers of one oracle under way at once. `MaxFaults` is below the
number of oracles: if each of them may fail to send a report, nobody sends it.
The reports always deviate in `transmit_queue`, so that both get into the queue.
The run has one aggregator; the proofs are for any number.

**Fairness.** `StalledSpec` is about an epoch in which no round completes: no
progress event restarts the progress timer, so it expires (`setTimeout`) and its
handler gets the mutex. The resend timer broadcasts the current `_newEpoch`
every 15 s, so a copy reaches each live peer in the end (`DeliverResent`: weak
fairness of the delivery of the value that is being resent, not of any single
message). `FairSpec` of `ReportGen` assumes that handlers run and that
`observeReq`, `observe`, `reportReq`, `report` and `finalEcho` arrive in the
end. Of `final` only the copy the leader's pubsub hands to itself is assumed,
which is what the echo phase is for. Nothing is assumed of the round timer:
`ReportCompletes` ends when it starts the next round. `FairSpec` of `Transmit`
assumes that what a process has started goes on (`CallStep`, `HandlerStep`), that
an armed timer expires, that the cron job runs every second and the awaits of a
batch end, one way or the other (`ExecuteStep`), and that the chain includes or
drops what is in the mempool (`Include`). That every await ends is what the
client library gives: calls and confirmations have timeouts. Nothing is assumed
of what report generation hands over, nor that a report is accepted. `FairSpec`
of `LifeCycle` assumes that whoever waits for the mutex of a leader gets it and
lets it go; nothing of the network. `FairSpec` of `Streams` assumes that the
mutex is handed on, that a dial ends, as libp2p gives up on it after a timeout,
and that handlers are called and loops run; nothing of faults and restarts.

## 4. Findings

1. *String sort* (`pacemaker_sort`). Both rules sort numbers as strings, so 9 is
   tried before 10. While f is constant this is harmless, because at most one
   value can pass a rule: that is `AtMostOneCandidate`, which is proved.
   When the ledger shrinks so that f drops, values collected under the larger f
   pass together and the lower one is taken, against the comment at
   `pacemaker.service.ts:297`.
2. *Failed read of the configuration* (`pacemaker_config`). The oracle is in the
   agreed epoch, with its leader, but runs the report generation of the old one
   until the network agrees on a later epoch.
3. *A stopped leader wakes up* (`lifecycle_zombie`). `stop()` clears the round
   timer and does not take the mutex. A leader that awaits its broadcast in
   `_startRound` goes on afterwards, arms the timer again, and 30 minutes later
   starts another round, although it is in no map any more. Followers of a later
   epoch of the same oracle take the request, which names no epoch. That this
   does not mix up epochs in a report is `ReportOfOneEpoch`.
4. *A failed send stays in the cache* (`transmit_fresh`). A report is the last
   transmitted one as soon as it is queued, and remains it if its send fails.
   Fresher reports that do not deviate from it are then dropped, although the
   chain has neither: "the cached report is not newer than the chain" is false
   until another oracle moves the chain, the price moves or the process
   restarts. Without faults (`MaxFaults = 0`) TLC finds no violation.

5. *Exactly alpha* (`data`). `_shouldReport` compares the deviation with `gt`
   (`reportgen.follower.service.ts:608`), its doc says "as least
   `alphaPerThousand`" (line 574): before the heartbeat elapses, a report that
   deviates by exactly alpha is let go. The transmit service has it the other way
   round: `gte` (`transmit.service.ts:169`), and "greater than the deviation
   threshold" in its doc (line 23). `AlphaDecides`, which passes, pins both
   boundaries to what the code does. The run reaches equality (last value 10,
   median 9.5, alpha 50 per thousand), and the follower as its doc describes it,
   the mutant `DeviatesAtLeast`, violates the property there.

Observations that are no findings, for no property contradicts a line of the
repository:

* `observeReq` names no epoch, and a follower looks at its sender and round only.
  It takes a request that its leader sent in another epoch it leads, whether
  delayed or of an epoch the follower has not adopted yet, and is then in a round
  its own epoch has not reached, so it refuses the requests of its epoch up to that
  round. `RoundWasAsked` permits this and excludes the requests of other leaders;
  `ReportOfOneEpoch` says that no report is mixed up by it.
* `OneReportAssembled` depends on n = 3f + 1, and so do the theorems about it. With
  n = 5 and f = 1, a restarted leader finds two followers that did not answer
  round 1 and needs only itself as the third; TLC then finds two reports for one
  epoch and round.
* `_onReportReqReceived` looks at no round: a late request of the previous round,
  no longer due, completes the current round, whose echoes are then dropped.
* An outbound stream whose connection broke, or whose peer restarted, stays in the
  map and is reused: what is pushed to it is lost, silently, until this process
  ends. `PushedArrives` states what does hold.
* A price that Coingecko answers as undefined becomes a NaN observation. If the
  report is due because the heartbeat elapsed, encoding it throws in every
  follower that signs, which ends their processes; if only a deviation would make
  it due, it is let go.

## 5. Proofs

### PacemakerProofs

`PacemakerProofs` proves, for every set of oracles, ledgers, start epoch, bound
and sort order that meet the named assumptions of `Pacemaker`:

| theorem | statement |
|---|---|
| `TypeCorrectness` | `Spec => []TypeOK` |
| `AnnouncesItsEpoch` | `Spec => []EpochBelowNewEpoch` |
| `AgreementIsBacked` | `Spec => []EpochBacked` |
| `EpochChangeNeedsInitiators` | `Spec => []NoLoneEpochChange` |
| `EpochsComeInOrder` | `Spec => []NewEpochAdvancesByOne` |
| `RulesLeaveNothing` | if f is constant, `Spec => []RulesExhausted` |
| `SortOrderIsHarmless` | if f is constant, `Spec => []AtMostOneCandidate` |
| `OracleNeverGoesBack` | `Spec => NeverGoesBack` |
| `PacemakersAgree` | `Spec => ImplementsAgreement` |

The argument. None of the properties is inductive alone. The strengthening adds
what links memory, messages and history: what `peersNewEpoch[i][j]` records was
sent by `j` (so the askers a rule counts are real), everything an oracle
announces or runs was sent or entered, and every value ever sent was initiated
by more than f oracles or by the sender itself. That last part is where
amplification is discharged: more than f askers cannot all be amplifiers, since
the first of them to ask had to initiate. `RulesExhausted` needs f to be the
same under all ledgers; then a handler starts with no candidate above
`newEpoch`, one message raises one oracle's value, and so at most that one value
can pass; two different values never do, and the choice `SortsAfter` makes is
empty. Assumptions: `OraclesAssumption`, `LedgersAssumption`,
`BoundsAssumption`, `SortAssumption`, and `ConstantF` where stated.
`PacemakersAgree` is the refinement: initial states map to initial states, and
each handler is a step of `EpochAgreement` or none. The invariant is needed there
too, for the abstract guards speak of what was asked, the handler's of what the
oracle recorded.

### ReportGenProofs

`ReportGenProofs` proves, for any oracles, leader, bounds, rounds, crashes and
answers of `_shouldReport`:

| theorem | statement |
|---|---|
| `TypeCorrect` | `Spec => []TypeOK` |
| `InOrder` | `Spec => []TransmitsInOrder` |
| `Attested2F` | `Spec => []TransmittedIsAttested` |
| `OneAssembled` | if `FewCrash`, `Spec => []OneReportAssembled` |
| `OneTransmitted` | if `FewCrash`, `Spec => []OneReportPerRound` |
| `EchoedByMore` | if `FewCrash`, `Spec => []TransmittedIsEchoed` |
| `KeepsAgreement` | if `FewCrash`, `Spec => ImplementsReportAgreement` |

`FewCrash` is n <= 3f + 1 (so n = 3f + 1) and at most f crashes. The argument.
*Types*: an instance number is in its range because every new instance was paid
for with a crash (`CrashesCounted`). *Order*: what the running instance handed
over belongs to a completed round or an earlier one (`CompletedBehind`), and a
report is handed over only in a round that is not completed. *Attested*: every
signature in a final message or an echo was sent to the leader, only requested
reports with 2f + 1 observers are signed, and each signature of a verified set has
another oracle. *One report*: an instance answers a round once, to one instance of
the leader (`AnsweredOnce`); all observations in a report went to one instance,
which is past the assembly of that round (`AssembledBy`). So two reports of a
round come from different instances of the leader, their observers share more
than f oracles (`MostShare`), all of which have restarted, but at most f did
(`RestartsCounted`). *Agreement* follows from the last two. *Echoes*: a follower
counts echoes of its round without looking at what they echo; verified echoes of
a round echo a requested report, of which there is one. Above `_roundMax` the
follower keeps the old echoes, and `AnsweredInMax` shows that no report has such a
round. *Refinement*: `RefinementInv` puts these invariants together. The grace
timer's handler is `Make` because the round has no report yet; a handler of an
echo is `Learn` because what passes `VerifyAttestedReport` was asked for and
signed by more than f oracles, because the echoes it counted are of that report,
and because the round is not completed; `SameMeaning` and `ReportsOfMore` are the
refinement mapping. Every other step leaves what `ReportAgreement` sees as it is.
Without `FewCrash` the refinement is false, as `OneReportAssembled` is (findings).
Assumptions: `OraclesAssumption`, `BoundsAssumption`.

### LifeCycleProofs

`LifeCycleProofs` proves, for any oracles, epochs, leaders and bounds:

| theorem | statement |
|---|---|
| `TypeCorrect` | `Spec => []TypeOK` |
| `ReportIsOfOneEpoch` | `Spec => []ReportOfOneEpoch` |
| `RoundsWereAsked` | `Spec => []RoundWasAsked` |

The argument. `TypeOK` is inductive by itself, for it says what the mutex
guarantees: the call that publishes or fetches is the first of those that wait
(`FollowerStates`, `LeaderStates`). Stopped instances keep their calls and go on,
so nothing may rest on an instance being the current one. `ObserveInv`: what a
leader has counted is of its own epoch and of the round it is in, whether it is
stopped or not; the epoch is in the observation and `_onObserve` looks at it.
`RequestInv`: every `observeReq`, on its way or at the mutex of a follower, was
sent by a leader of some epoch for a round that this leader asked for; so
a follower's round was asked for by its leader, though perhaps in another epoch.
TLC checked `ObserveInv` and `RequestInv` first. Assumptions: `EpochsAssumption`,
`LifeCycleBounds`.

### StreamsProofs

`StreamsProofs` proves, for any peers, destinations, messages and faults:

| theorem | statement |
|---|---|
| `TypeCorrect` | `Spec => []TypeOK` |
| `OneStream` | `Spec => []OneStreamPerDestination` |
| `CutsNeedFaults` | `Spec => OnlyFaultsCutStreams` |
| `ReceivedAsSent` | `Spec => []ReceivedInOrder` |

The argument. `SenderInv`: the map has an entry for exactly the destinations that
the running process dialled, a call dials only while the mutex is its own and
the map has no entry, and the streams of a destination are in the order of the
processes that dialled them. `ReceiverInv`: an entry of the inbound map names a
stream of its peer that was already handled, and every stream of that peer that is
still only offered is a later one, so an entry is replaced by a later stream
only. `OrderInv`:
along the queue, the dial, the wire and what was received, the messages of one
process to one destination have ascending numbers. Assumptions:
`PeersAssumption`, `BoundsAssumption`.

### DataPathProofs

`DataPathProofs` proves, for any oracles and ledgers, any prices, faulty oracles,
last reports, alpha and draws of the generator:

| theorem | statement |
|---|---|
| `TypeCorrect` | `Spec => []TypeOK` |
| `ObservationIsInRange` | `Spec => []ObservationInRange` |
| `SignedMedianIsTrusted` | `Spec => []SignedIsTrusted` |
| `AlphaIsDecisive` | `Spec => []AlphaDecides` |
| `FinalMessageConvinces` | `Spec => []FinalConvinces` |
| `OneOracleInASlot` | `Spec => []OneOraclePerSlot` |

The argument. First what the operators compute, for lists of any length. Every
place of a sorted list has a value (`SortedFacts`): of the values with enough
others below or at them there is a smallest one. A median lies between two values
of the list (`MedianLiesBetween`); and if at most f of 2f + 1 values are wrong, at
least one right value is not above it and one not below (`MedianIsTrusted`, by
counting). The shuffle is defined at every step (`ShuffleIsDefined`) and exchanges
only, so every member of the ledger is at some place afterwards, and at one only
(`ShuffleKeepsElements`). Then the invariant, `IInv`: the report is a function from
a quorum of observers of the leader's ledger (`ReportInv`), a signature or a refusal
has its reason (`SignatureInv`), the final message has more than f signatures of
members who signed (`FinalInv`), and what the last oracle did with it has its reason
(`HandledInv`). TLC checked `IInv` first. Assumptions: `ValuesAssumption`,
`OraclesAssumption`, `DrawsAssumption`.

The provers cannot use the library's induction theorems, whose hypotheses are
about an operator. Where a statement about all numbers is needed (a finite set of
numbers has a smallest and a greatest one; what a recursive function is at each
place), the set of numbers for which it fails is shown to have no smallest
element (`SmallestNumber`, from `WFMin` and `NatLessThanWellFounded`).

### TransmitProofs

`TransmitProofs` proves, for any oracles, aggregators, reports, deviations and
number of faults:

| theorem | statement |
|---|---|
| `TypeCorrect` | `Spec => []TypeOK` |
| `TimerRunsForHead` | `Spec => []TimerIsForHead` |
| `QueueServed` | `Spec => []QueueIsServed` |
| `NothingPendingTwice` | `Spec => []CacheCoversPending` |
| `CallersAreServed` | `Spec => []EveryCallerHasABatch` |

The argument. `InsertAtFacts` says what putting a report into the queue does, at
any place. With it, types, timer and queue are inductive: whoever puts a report
into the queue arms the timer for its head, whoever takes one out is a handler,
and a handler arms the timer again when it ends. For `CacheCoversPending`,
epochs and rounds are totally ordered: what is queued or under way is no newer
than the cache, `Accepts` lets in only what is strictly newer than the cache, so
what is let in is not there yet; the cache only grows while the process lives,
and dies with the queue. `EveryCallerHasABatch` follows the batch from the pool
to its answer. Assumptions: `ReportsAssumption`, `MaxFaultsAssumption`,
`DeviatingAssumption`.

### Model-checked only

`StalledEpochEnds`, `ReportCompletes`, `NewLeaderAsks`, `EveryCallEnds`,
`PushedArrives` and `AcceptedReachesChain`: liveness under fairness is out of the
prover's reach. Every other property of a passing run is a theorem.

## 6. Not modelled

* Encodings: the protobuf and JSON codecs of the network services, and the packing
  of a report beyond what makes it throw. A signed thing is the thing, with its signer.
* How Coingecko loads its lists of coins at boot; a coin it has no id of is a
  fetcher that fails.
* The node service (libp2p): its effect is in the message sets and the streams.
* The pacemaker factory starts one pacemaker per aggregator and keeps no other
  state. Several aggregators at once are in `Transmit` only, where they share
  something.
* Logging, configuration, key generation, the contract bindings and the deployment
  scripts, which run once; the smart contracts, which are not in the repository
  (only what the code reads of them is here); the indexer, a sequential copy of
  contract operations into a database.
* Nodes that deviate from the code, apart from wrong prices in `DataPath`.

## 7. Plan

Done: the pacemaker and report generation with their refinements, life cycle,
streams, values, transmit and transaction manager; proofs of everything but the
liveness properties.

Left:

1. An abstract specification of transmission (a report that was accepted is sent
   or is obsolete; no process sends one twice) and `Transmit` shown to implement
   it; one of the streams, a reliable channel between two faults.
2. The safety part of the liveness properties as theorems: that a stalled epoch
   has a candidate once the resent values arrived, and that a report that is due
   has enough echoes once the final message did.
3. Report generation with a ledger that is not of 3f + 1 oracles: what remains true
   without `FewCrash`.
