------------------------------ MODULE TxManager ------------------------------
(***************************************************************************)
(* The transaction manager of every oracle (libs/tx-manager): callers put  *)
(* a batch in a pool and wait for its answer; a cron job takes one batch   *)
(* after the other out of the pool, estimates it, sends it to the node and *)
(* waits for its confirmation. A batch here is the one operation that      *)
(* sendReportBlockchain makes of a report.                                 *)
(*                                                                         *)
(* External to the repository: the mempool of the chain and the contract,  *)
(* which takes a report only if it is newer than the last one it took.     *)
(***************************************************************************)
EXTENDS Integers, Sequences, FiniteSets

CONSTANTS
  Oracles,      \* the processes
  Aggregators,  \* the contracts, one for each price
  Reports,      \* the attested reports: [aggregator, epoch, round]
  MaxFaults     \* bound: crashes, failed calls of the node, lost operations

Stamp == [epoch : Nat, round : Nat]

ASSUME ReportsAssumption ==
  /\ IsFiniteSet(Reports)
  /\ Reports \subseteq [aggregator : Aggregators, epoch : Nat, round : Nat]

ASSUME MaxFaultsAssumption == MaxFaults \in Nat

VARIABLES
  pool,       \* pool[i]: _pool, batches in the order they were added
  executing,  \* executing[i]: {} or {the batch that _executeBatch works on}
  callers,    \* callers[i]: those that wait in addBatch, with their answer
  mempool,    \* operations sent to the chain and not in a block yet
  chain,      \* chain[a]: lastCompletedData of the contract a
  faults      \* number of faults so far

txVars == <<pool, executing, callers, mempool, chain, faults>>

Batch == [report : Reports, stage : {"estimate", "send", "confirm"}]

Caller == [report : Reports, answer : {"none", "success", "error"}]

Operation == [oracle : Oracles, report : Reports]

\* Anything with an epoch and a round can be compared.
IsNewerOrEqual(base, other) ==
  \/ other.epoch > base.epoch
  \/ other.epoch = base.epoch /\ other.round >= base.round

\* The contract has this report or one that is as new.
OnChain(r) == IsNewerOrEqual(r, chain[r.aggregator])

Genesis == [epoch |-> 0, round |-> 0]

TxInit ==
  /\ pool = [i \in Oracles |-> <<>>]
  /\ executing = [i \in Oracles |-> {}]
  /\ callers = [i \in Oracles |-> {}]
  /\ mempool = {}
  /\ chain = [a \in Aggregators |-> Genesis]
  /\ faults = 0

Fault == faults < MaxFaults /\ faults' = faults + 1

\* The node refuses an operation that the contract would refuse; anything else
\* it refuses is a fault.
Refused(r) == IF OnChain(r) THEN UNCHANGED faults ELSE Fault

AddBatch(i, r) ==
  /\ pool' = [pool EXCEPT ![i] = Append(@, r)]
  /\ callers' = [callers EXCEPT ![i] = @ \cup {[report |-> r, answer |-> "none"]}]

\* The first answer resolves the promise of the caller; a second one is lost.
Answer(i, r, a) ==
  LET waiting == [report |-> r, answer |-> "none"]
  IN  callers' = [callers EXCEPT ![i] =
        IF waiting \in @ THEN (@ \ {waiting}) \cup {[waiting EXCEPT !.answer = a]} ELSE @]

GoOn(i, b, stage) == executing' = [executing EXCEPT ![i] = {[b EXCEPT !.stage = stage]}]

Finish(i) == executing' = [executing EXCEPT ![i] = {}]

ExecuteBatch(i) ==
  /\ executing[i] = {}
  /\ pool[i] # <<>>
  /\ executing' = [executing EXCEPT ![i] = {[report |-> Head(pool[i]), stage |-> "estimate"]}]
  /\ pool' = [pool EXCEPT ![i] = Tail(@)]
  /\ UNCHANGED <<callers, mempool, chain, faults>>

Estimate(i, b) ==
  /\ b.stage = "estimate"
  /\ ~OnChain(b.report)
  /\ GoOn(i, b, "send")
  /\ UNCHANGED <<pool, callers, mempool, chain, faults>>

\* The caller is answered, and the operation is sent all the same.
EstimateFails(i, b) ==
  /\ b.stage = "estimate"
  /\ Refused(b.report)
  /\ Answer(i, b.report, "error")
  /\ GoOn(i, b, "send")
  /\ UNCHANGED <<pool, mempool, chain>>

Send(i, b) ==
  /\ b.stage = "send"
  /\ mempool' = mempool \cup {[oracle |-> i, report |-> b.report]}
  /\ GoOn(i, b, "confirm")
  /\ UNCHANGED <<pool, callers, chain, faults>>

\* The node refuses the operation, or takes it and its answer is lost.
SendFails(i, b) ==
  /\ b.stage = "send"
  /\ \/ Refused(b.report) /\ UNCHANGED mempool
     \/ Fault /\ mempool' = mempool \cup {[oracle |-> i, report |-> b.report]}
  /\ Answer(i, b.report, "error")
  /\ Finish(i)
  /\ UNCHANGED <<pool, chain>>

Confirm(i, b) ==
  /\ b.stage = "confirm"
  /\ [oracle |-> i, report |-> b.report] \notin mempool
  /\ Answer(i, b.report, "success")
  /\ Finish(i)
  /\ UNCHANGED <<pool, mempool, chain, faults>>

\* Mutant: the caller is not told.
ConfirmTimesOutSilently(i, b) ==
  /\ b.stage = "confirm"
  /\ Fault
  /\ mempool' \in {mempool, mempool \ {[oracle |-> i, report |-> b.report]}}
  /\ Finish(i)
  /\ UNCHANGED <<pool, callers, chain>>

\* The operation stays in the mempool, or the chain dropped it.
ConfirmTimesOut(i, b) ==
  /\ b.stage = "confirm"
  /\ Fault
  /\ mempool' \in {mempool, mempool \ {[oracle |-> i, report |-> b.report]}}
  /\ Answer(i, b.report, "error")
  /\ Finish(i)
  /\ UNCHANGED <<pool, chain>>

\* The pool and what was executed die with the process.
TxRestart(i) ==
  /\ Fault
  /\ pool' = [pool EXCEPT ![i] = <<>>]
  /\ executing' = [executing EXCEPT ![i] = {}]
  /\ callers' = [callers EXCEPT ![i] = {}]
  /\ UNCHANGED <<mempool, chain>>

\* A block includes an operation. The contract takes the report if it is newer;
\* that it refuses it for another reason is a fault.
Include(op) ==
  LET r == op.report
  IN  /\ mempool' = mempool \ {op}
      /\ \/ /\ chain' = IF OnChain(r) THEN chain
                        ELSE [chain EXCEPT ![r.aggregator] = [epoch |-> r.epoch, round |-> r.round]]
            /\ UNCHANGED faults
         \/ ~OnChain(r) /\ Fault /\ UNCHANGED chain
      /\ UNCHANGED <<pool, executing, callers>>

\* What the process of i does on its own once a batch is in the pool.
ExecuteStep(i) ==
  \/ ExecuteBatch(i)
  \/ \E b \in executing[i] :
       \/ Estimate(i, b) \/ EstimateFails(i, b)
       \/ Send(i, b) \/ SendFails(i, b)
       \/ Confirm(i, b) \/ ConfirmTimesOut(i, b)

TxNext ==
  \/ \E i \in Oracles : ExecuteStep(i)
  \/ \E op \in mempool : Include(op)

AtMostOne(S) == \A x, y \in S : x = y

TxTypeOK ==
  /\ pool \in [Oracles -> Seq(Reports)]
  /\ executing \in [Oracles -> SUBSET Batch]
  /\ \A i \in Oracles : AtMostOne(executing[i])
  /\ callers \in [Oracles -> SUBSET Caller]
  /\ mempool \in SUBSET Operation
  /\ chain \in [Aggregators -> Stamp]
  /\ faults \in 0..MaxFaults

\* Everybody who waits for an answer has a batch in the pool or under way: no
\* batch is lost before its caller is answered, whatever fails.
EveryCallerHasABatch ==
  \A i \in Oracles : \A c \in callers[i] :
    c.answer = "none" =>
      \/ \E k \in DOMAIN pool[i] : pool[i][k] = c.report
      \/ \E b \in executing[i] : b.report = c.report
=============================================================================
