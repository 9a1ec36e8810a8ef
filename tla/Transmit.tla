------------------------------- MODULE Transmit -------------------------------
(***************************************************************************)
(* The transmit service of every oracle (libs/oracle/src/lib/transmit):    *)
(* the reports it accepted wait in a queue, ordered by the time each is    *)
(* due, and one timer wakes it for the first of them. The queue and the    *)
(* timer are shared by all aggregators, and every handler may be overtaken *)
(* at each of its awaits: two reads of the chain and the answer of the     *)
(* transaction manager.                                                    *)
(*                                                                         *)
(* Time is abstract: an accepted report may be due before any other, and   *)
(* an armed timer may expire at any moment. A call of the node that fails  *)
(* outside the transaction manager is an exception that nobody catches: it *)
(* ends the process, as a crash does, and the process starts afresh.       *)
(***************************************************************************)
EXTENDS TxManager, SequencesExt

CONSTANT
  Deviating  \* {<<r, s>> : the median of r deviates from that of s}

ASSUME DeviatingAssumption == Deviating \subseteq Reports \X Reports

VARIABLES
  queue,            \* queue[i]: _reports, the most imminent first
  timer,            \* timer[i]: {} or {the report _timerTransmit is armed for}
  lastTransmitted,  \* lastTransmitted[i][a]: {} or {_lastTransmittedReport}
  calls,            \* calls[i]: onTransmit in flight, with what it read
  handlers,         \* handlers[i]: _onTransmitTimerTimeout in flight
  handed,           \* handed[i]: what report generation handed to the process
  accepted          \* history: what the process accepted for transmission

serviceVars == <<queue, timer, lastTransmitted, calls, handlers, handed, accepted>>
vars == <<txVars, serviceVars>>

Call == [report : Reports, seen : Stamp]

Handler == [report : Reports, step : {"read", "decide", "answer"}, seen : Stamp]

Init ==
  /\ TxInit
  /\ queue = [i \in Oracles |-> <<>>]
  /\ timer = [i \in Oracles |-> {}]
  /\ lastTransmitted = [i \in Oracles |-> [a \in Aggregators |-> {}]]
  /\ calls = [i \in Oracles |-> {}]
  /\ handlers = [i \in Oracles |-> {}]
  /\ handed = [i \in Oracles |-> {}]
  /\ accepted = [i \in Oracles |-> {}]

(***************************************************************************)
(* onTransmit                                                              *)
(***************************************************************************)

\* A follower hands over the rounds of its epoch in order, each once.
Precedes(s, r) == s.aggregator = r.aggregator /\ s.epoch = r.epoch /\ s.round >= r.round

OnTransmit(i, r) ==
  /\ \A s \in handed[i] : ~Precedes(s, r)
  /\ handed' = [handed EXCEPT ![i] = @ \cup {r}]
  /\ calls' = [calls EXCEPT ![i] = @ \cup {[report |-> r, seen |-> chain[r.aggregator]]}]
  /\ UNCHANGED <<txVars, queue, timer, lastTransmitted, handlers, accepted>>

\* Mutant: without the check of the cache.
AcceptsIfNewerThanChain(i, c) ==
  LET r == c.report
      last == lastTransmitted[i][r.aggregator]
  IN  /\ ~IsNewerOrEqual(r, c.seen)
      /\ \/ last = {}
         \/ \E l \in last : <<r, l>> \in Deviating \/ IsNewerOrEqual(l, c.seen)

\* Is the report queued, given what was read of the chain?
Accepts(i, c) ==
  LET r == c.report
      last == lastTransmitted[i][r.aggregator]
  IN  /\ ~IsNewerOrEqual(r, c.seen)
      /\ \A l \in last : ~IsNewerOrEqual(r, l)
      /\ \/ last = {}
         \/ \E l \in last : <<r, l>> \in Deviating \/ IsNewerOrEqual(l, c.seen)

\* Mutant: what the timer was armed for is not cleared first.
RestartTimerWithoutStop(i) == timer' = [timer EXCEPT ![i] = @ \cup {Head(queue'[i])}]

RestartTimer(i) == timer' = [timer EXCEPT ![i] = {Head(queue'[i])}]

\* Mutant: the timer is left alone if it is armed already.
DoTransmitKeepTimer(i, r) ==
  /\ lastTransmitted' = [lastTransmitted EXCEPT ![i][r.aggregator] = {r}]
  /\ \E k \in 1..Len(queue[i]) + 1 : queue' = [queue EXCEPT ![i] = InsertAt(@, k, r)]
  /\ IF timer[i] = {} THEN RestartTimer(i) ELSE UNCHANGED timer
  /\ accepted' = [accepted EXCEPT ![i] = @ \cup {r}]

DoTransmit(i, r) ==
  /\ lastTransmitted' = [lastTransmitted EXCEPT ![i][r.aggregator] = {r}]
  /\ \E k \in 1..Len(queue[i]) + 1 : queue' = [queue EXCEPT ![i] = InsertAt(@, k, r)]
  /\ RestartTimer(i)
  /\ accepted' = [accepted EXCEPT ![i] = @ \cup {r}]

OnTransmitAccepts(i, c) ==
  /\ Accepts(i, c)
  /\ DoTransmit(i, c.report)
  /\ calls' = [calls EXCEPT ![i] = @ \ {c}]
  /\ UNCHANGED <<txVars, handlers, handed>>

OnTransmitDiscards(i, c) ==
  /\ ~Accepts(i, c)
  /\ calls' = [calls EXCEPT ![i] = @ \ {c}]
  /\ UNCHANGED <<txVars, queue, timer, lastTransmitted, handlers, handed, accepted>>

(***************************************************************************)
(* _onTransmitTimerTimeout                                                 *)
(***************************************************************************)

\* seen is Genesis while nothing that was read matters.
\* The branch for an empty queue is never taken: TimerIsForHead.
OnTransmitTimerTimeout(i) ==
  /\ timer[i] # {} /\ queue[i] # <<>>
  /\ timer' = [timer EXCEPT ![i] = {}]
  /\ handlers' = [handlers EXCEPT ![i] =
       @ \cup {[report |-> Head(queue[i]), step |-> "read", seen |-> Genesis]}]
  /\ queue' = [queue EXCEPT ![i] = Tail(@)]
  /\ UNCHANGED <<txVars, lastTransmitted, calls, handed, accepted>>

GetLastBlockchainReport(i, h) ==
  /\ h.step = "read"
  /\ handlers' = [handlers EXCEPT ![i] = (@ \ {h}) \cup
       {[h EXCEPT !.step = "decide", !.seen = chain[h.report.aggregator]]}]
  /\ UNCHANGED <<txVars, queue, timer, lastTransmitted, calls, handed, accepted>>

SendReportBlockchain(i, h) ==
  /\ h.step = "decide"
  /\ ~IsNewerOrEqual(h.report, h.seen)
  /\ AddBatch(i, h.report)
  /\ handlers' = [handlers EXCEPT ![i] = (@ \ {h}) \cup
       {[h EXCEPT !.step = "answer", !.seen = Genesis]}]
  /\ UNCHANGED <<executing, mempool, chain, faults>>
  /\ UNCHANGED <<queue, timer, lastTransmitted, calls, handed, accepted>>

\* Mutant: the timer is not restarted.
EndHandlerOnly(i, h) ==
  /\ handlers' = [handlers EXCEPT ![i] = @ \ {h}]
  /\ UNCHANGED <<queue, timer, lastTransmitted, calls, handed, accepted>>

\* The end of the handler: the timer restarts for the first of the queue.
EndHandler(i, h) ==
  /\ handlers' = [handlers EXCEPT ![i] = @ \ {h}]
  /\ UNCHANGED <<queue, lastTransmitted, calls, handed, accepted>>
  /\ IF queue[i] = <<>> THEN UNCHANGED timer ELSE RestartTimer(i)

DropObsolete(i, h) ==
  /\ h.step = "decide"
  /\ IsNewerOrEqual(h.report, h.seen)
  /\ EndHandler(i, h)
  /\ UNCHANGED txVars

\* The answer is only logged, whatever it is.
BatchAnswered(i, h) ==
  /\ h.step = "answer"
  /\ \E c \in callers[i] :
       /\ c.report = h.report /\ c.answer # "none"
       /\ callers' = [callers EXCEPT ![i] = @ \ {c}]
  /\ EndHandler(i, h)
  /\ UNCHANGED <<pool, executing, mempool, chain, faults>>

(***************************************************************************)
(* The process                                                             *)
(***************************************************************************)

Restart(i) ==
  /\ TxRestart(i)
  /\ queue' = [queue EXCEPT ![i] = <<>>]
  /\ timer' = [timer EXCEPT ![i] = {}]
  /\ lastTransmitted' = [lastTransmitted EXCEPT ![i] = [a \in Aggregators |-> {}]]
  /\ calls' = [calls EXCEPT ![i] = {}]
  /\ handlers' = [handlers EXCEPT ![i] = {}]
  /\ handed' = [handed EXCEPT ![i] = {}]
  /\ accepted' = [accepted EXCEPT ![i] = {}]

CallStep(i) == \E c \in calls[i] : OnTransmitAccepts(i, c) \/ OnTransmitDiscards(i, c)

HandlerStep(i, h) ==
  \/ GetLastBlockchainReport(i, h)
  \/ SendReportBlockchain(i, h)
  \/ DropObsolete(i, h)
  \/ BatchAnswered(i, h)

Next ==
  \/ \E i \in Oracles :
       \/ \E r \in Reports : OnTransmit(i, r)
       \/ CallStep(i)
       \/ OnTransmitTimerTimeout(i)
       \/ \E h \in handlers[i] : HandlerStep(i, h)
       \/ Restart(i)
  \/ TxNext /\ UNCHANGED serviceVars

Spec == Init /\ [][Next]_vars

(***************************************************************************)
(* Fairness: what an oracle has started goes on, its cron job runs, an     *)
(* armed timer expires, and the chain includes what is in the mempool.     *)
(* Nothing is assumed of what report generation hands over.                *)
(***************************************************************************)

Fairness ==
  /\ \A i \in Oracles :
       /\ WF_vars(CallStep(i))
       /\ WF_vars(OnTransmitTimerTimeout(i))
       /\ \A r \in Reports : WF_vars(\E h \in handlers[i] : h.report = r /\ HandlerStep(i, h))
       /\ WF_vars(ExecuteStep(i) /\ UNCHANGED serviceVars)
  /\ \A op \in Operation :
       WF_vars(op \in mempool /\ Include(op) /\ UNCHANGED serviceVars)

FairSpec == Spec /\ Fairness

(***************************************************************************)
(* Properties                                                              *)
(***************************************************************************)

\* The types of the variables: one timer, one batch under way, one cached report
\* of each aggregator.
TypeOK ==
  /\ TxTypeOK
  /\ queue \in [Oracles -> Seq(Reports)]
  /\ timer \in [Oracles -> SUBSET Reports]
  /\ lastTransmitted \in [Oracles -> [Aggregators -> SUBSET Reports]]
  /\ \A i \in Oracles : AtMostOne(timer[i]) /\ \A a \in Aggregators : AtMostOne(lastTransmitted[i][a])
  /\ calls \in [Oracles -> SUBSET Call]
  /\ handlers \in [Oracles -> SUBSET Handler]
  /\ handed \in [Oracles -> SUBSET Reports]
  /\ accepted \in [Oracles -> SUBSET Reports]

\* An armed timer is armed for the report that is due first, whoever armed it:
\* it never wakes the service too late, nor with an empty queue.
TimerIsForHead ==
  \A i \in Oracles : timer[i] # {} => queue[i] # <<>> /\ timer[i] = {Head(queue[i])}

\* While reports are queued, the timer is armed or a handler is under way that
\* will arm it.
QueueIsServed ==
  \A i \in Oracles : queue[i] # <<>> => timer[i] # {} \/ handlers[i] # {}

InFlight(i) == {h.report : h \in handlers[i]}

\* Nothing that is queued or under way is newer than the cache, or there twice:
\* however the awaits interleave, no report is transmitted twice by a process.
CacheCoversPending ==
  \A i \in Oracles :
    /\ IsInjective(queue[i])
    /\ ToSet(queue[i]) \cap InFlight(i) = {}
    /\ \A g, h \in handlers[i] : g.report = h.report => g = h
    /\ \A r \in ToSet(queue[i]) \cup InFlight(i) :
         \E l \in lastTransmitted[i][r.aggregator] : IsNewerOrEqual(r, l)

\* A report that every oracle accepted reaches the chain, or a newer one does:
\* the failures of one oracle are made good by another.
AcceptedReachesChain ==
  \A r \in Reports : (\A i \in Oracles : r \in accepted[i]) ~> OnChain(r)

Idle(i) ==
  queue[i] = <<>> /\ handlers[i] = {} /\ pool[i] = <<>> /\ executing[i] = {}

\* The class comment of the service, on what is transmitted: "The report
\* epoch/round is fresher than the one on the blockchain". An oracle with
\* nothing else to transmit queues a report that is fresher than the chain,
\* provided that what it read of the chain is still true.
FresherIsTransmitted ==
  [][\A i \in Oracles : \A c \in calls[i] :
       Idle(i) /\ c.seen = chain[c.report.aggregator] /\ ~OnChain(c.report)
         /\ c \notin calls'[i] /\ UNCHANGED faults
         => c.report \in ToSet(queue'[i])]_vars
=============================================================================
