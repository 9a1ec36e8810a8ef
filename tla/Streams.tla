------------------------------- MODULE Streams -------------------------------
(***************************************************************************)
(* How an oracle's observe and report messages reach the leader: one node  *)
(* that sends (Self, for the followers of all its aggregators) and the     *)
(* nodes it sends to (libs/oracle/src/lib/stream-manager, and sendObserve, *)
(* onObserve, sendReport, onReport of reportgen.network.service.ts).       *)
(*                                                                         *)
(* An outbound stream is made under one mutex that is held while the peer  *)
(* is dialled, and is kept in a map for good. An inbound stream replaces   *)
(* the entry of the one before it. Processes end and restart, connections  *)
(* break, dials fail; each of these is counted as a fault.                 *)
(***************************************************************************)
EXTENDS Integers, Sequences, SequencesExt

CONSTANTS
  Self,         \* the node that sends
  Peers,        \* the other nodes
  Destinations, \* the <<protocol, node>> pairs that are sent to
  MaxMessages,  \* bound: messages sent
  MaxFaults     \* bound: ends of processes, failed dials, broken connections

ASSUME PeersAssumption ==
  /\ Self \notin Peers
  /\ Destinations \subseteq {"observe", "report"} \X (Peers \cup {Self})

ASSUME BoundsAssumption == MaxMessages \in Nat /\ MaxFaults \in Nat

Peer(d) == d[2]

\* proc is the process of Self that sends it.
Message == [id : 1..MaxMessages, dest : Destinations, proc : Nat]

\* What the loop over an inbound stream does: its handler is not called yet, it
\* reads, it was told to stop, it has ended.
Loops == {"offered", "reading", "aborted", "ended"}

\* live: the connection and both ends exist.
Stream == [dest : Destinations, proc : Nat, live : BOOLEAN,
           loop : Loops, wire : Seq(Message)]

VARIABLES
  up,         \* up[n]: the process of node n runs
  proc,       \* which process of Self it is
  outbound,   \* _streamsOutbound of Self; 0 where the map has no entry
  queue,      \* the calls of getOutboundStream that wait for the mutex
  dialing,    \* {} or {the call that holds the mutex while it dials}
  streams,    \* every stream ever dialled
  inbound,    \* _streamsInbound of the peers, their entry of Self; 0 for none
  sentCount,  \* number of messages sent so far
  lost,       \* history: what a failed dial or the end of Self dropped
  received,   \* history: what onObserve or onReport emitted, in order
  faults      \* number of faults so far

senderVars == <<proc, outbound, queue, dialing>>
vars == <<up, senderVars, streams, inbound, sentCount, lost, received, faults>>

StreamsOf(d) == {n \in DOMAIN streams : streams[n].dest = d}

Init ==
  /\ up = [n \in Peers \cup {Self} |-> TRUE]
  /\ proc = 0
  /\ outbound = [d \in Destinations |-> 0]
  /\ queue = <<>>
  /\ dialing = {}
  /\ streams = <<>>
  /\ inbound = [d \in Destinations |-> 0]
  /\ sentCount = 0
  /\ lost = {}
  /\ received = [d \in Destinations |-> <<>>]
  /\ faults = 0

Fault == faults < MaxFaults /\ faults' = faults + 1

(***************************************************************************)
(* The sender                                                              *)
(***************************************************************************)

NextMessage(d) == [id |-> sentCount + 1, dest |-> d, proc |-> proc]

\* A message to oneself is emitted at once, without a stream.
SendToSelf(d) ==
  /\ up[Self] /\ Peer(d) = Self
  /\ sentCount < MaxMessages
  /\ sentCount' = sentCount + 1
  /\ received' = [received EXCEPT ![d] = Append(@, NextMessage(d))]
  /\ UNCHANGED <<up, senderVars, streams, inbound, lost, faults>>

\* Any other message waits for the mutex.
Send(d) ==
  /\ up[Self] /\ Peer(d) # Self
  /\ sentCount < MaxMessages
  /\ sentCount' = sentCount + 1
  /\ queue' = Append(queue, NextMessage(d))
  /\ UNCHANGED <<up, proc, outbound, dialing, streams, inbound, lost, received, faults>>

\* push() on a stream without a connection is silent.
Push(n, m) ==
  streams' = IF streams[n].live THEN [streams EXCEPT ![n].wire = Append(@, m)] ELSE streams

\* Mutant: a call that finds a stream does not wait for the mutex.
ReuseStreamAtOnce ==
  /\ up[Self]
  /\ \E k \in DOMAIN queue :
       /\ outbound[queue[k].dest] # 0 /\ Push(outbound[queue[k].dest], queue[k])
       /\ queue' = RemoveAt(queue, k)
  /\ UNCHANGED <<up, proc, outbound, dialing, inbound, sentCount, lost, received, faults>>

\* The mutex is free and the map has a stream.
ReuseStream ==
  /\ up[Self] /\ dialing = {} /\ queue # <<>>
  /\ LET m == Head(queue)
     IN  outbound[m.dest] # 0 /\ Push(outbound[m.dest], m)
  /\ queue' = Tail(queue)
  /\ UNCHANGED <<up, proc, outbound, dialing, inbound, sentCount, lost, received, faults>>

\* Mutant: the mutex is not held while the peer is dialled.
StartDialAtOnce ==
  /\ up[Self] /\ queue # <<>>
  /\ outbound[Head(queue).dest] = 0
  /\ dialing' = dialing \cup {Head(queue)}
  /\ queue' = Tail(queue)
  /\ UNCHANGED <<up, proc, outbound, streams, inbound, sentCount, lost, received, faults>>

StartDial ==
  /\ up[Self] /\ dialing = {} /\ queue # <<>>
  /\ outbound[Head(queue).dest] = 0
  /\ dialing' = {Head(queue)}
  /\ queue' = Tail(queue)
  /\ UNCHANGED <<up, proc, outbound, streams, inbound, sentCount, lost, received, faults>>

DialSucceeds(m) ==
  /\ up[Self] /\ up[Peer(m.dest)]
  /\ streams' = Append(streams, [dest |-> m.dest, proc |-> proc, live |-> TRUE,
                                 loop |-> "offered", wire |-> <<m>>])
  /\ outbound' = [outbound EXCEPT ![m.dest] = Len(streams')]
  /\ dialing' = dialing \ {m}
  /\ UNCHANGED <<up, proc, queue, inbound, sentCount, lost, received, faults>>

\* The peer cannot be reached: it is down, or the network fails.
Unreachable(d) == (~up[Peer(d)] /\ UNCHANGED faults) \/ Fault

\* The streams once those of S lost their connection. The reader at the other
\* end may still read what is on the wire, or notice at any time.
Broken(S) ==
  [n \in DOMAIN streams |-> IF n \in S THEN [streams[n] EXCEPT !.live = FALSE] ELSE streams[n]]

\* The process of Self ends; its calls are gone, and so are its streams:
\* onModuleDestroy closes them, or they die with the process.
EndOfSelf ==
  /\ up' = [up EXCEPT ![Self] = FALSE]
  /\ outbound' = [d \in Destinations |-> 0]
  /\ queue' = <<>>
  /\ dialing' = {}
  /\ lost' = lost \cup ToSet(queue) \cup dialing
  /\ streams' = Broken({n \in DOMAIN streams : streams[n].proc = proc})
  /\ UNCHANGED proc

\* Mutant: the exception leaves the mutex locked.
DialOfReportFailsLocked(m) ==
  /\ up[Self] /\ m.dest[1] = "report"
  /\ Unreachable(m.dest)
  /\ lost' = lost \cup {m}
  /\ UNCHANGED <<up, proc, outbound, queue, dialing, streams, inbound, sentCount, received>>

\* Mutant: the entry of the map is made before the dial.
DialOfReportFailsWithEntry(m) ==
  /\ up[Self] /\ m.dest[1] = "report"
  /\ Unreachable(m.dest)
  /\ dialing' = dialing \ {m}
  /\ outbound' = [outbound EXCEPT ![m.dest] = Len(streams) + 1]
  /\ lost' = lost \cup {m}
  /\ UNCHANGED <<up, proc, queue, streams, inbound, sentCount, received>>

\* sendReport logs the failure of the dial.
DialOfReportFails(m) ==
  /\ up[Self] /\ m.dest[1] = "report"
  /\ Unreachable(m.dest)
  /\ dialing' = dialing \ {m}
  /\ lost' = lost \cup {m}
  /\ UNCHANGED <<up, proc, outbound, queue, streams, inbound, sentCount, received>>

\* sendObserve does not: the rejection leaves the handler of the follower, and
\* the process ends.
DialOfObserveFails(m) ==
  /\ up[Self] /\ m.dest[1] = "observe"
  /\ Unreachable(m.dest)
  /\ EndOfSelf
  /\ UNCHANGED <<inbound, sentCount, received>>

(***************************************************************************)
(* The receivers                                                           *)
(***************************************************************************)

\* The streams once the prior inbound stream of d, if any, was closed.
ClosePrior(d) ==
  IF inbound[d] = 0 THEN streams
  ELSE [streams EXCEPT ![inbound[d]].live = FALSE,
                       ![inbound[d]].loop = "aborted"]

\* Mutant: a second stream of the same peer is turned away.
CreateInboundStreamOnce(n) ==
  LET d == streams[n].dest
  IN  /\ up[Peer(d)]
      /\ streams[n].loop = "offered"
      /\ \A k \in StreamsOf(d) : streams[k].loop = "offered" => k >= n
      /\ streams' = [streams EXCEPT ![n].loop = IF inbound[d] = 0 THEN "reading" ELSE "ended"]
      /\ inbound' = [inbound EXCEPT ![d] = IF @ = 0 THEN n ELSE @]
      /\ UNCHANGED <<up, senderVars, sentCount, lost, received, faults>>

\* createInboundStream up to its loop. Streams are handled in the order in
\* which they were dialled: a new process of Self takes longer to start than a
\* handler to be called.
CreateInboundStream(n) ==
  LET d == streams[n].dest
  IN  /\ up[Peer(d)]
      /\ streams[n].loop = "offered"
      /\ \A k \in StreamsOf(d) : streams[k].loop = "offered" => k >= n
      /\ streams' = [ClosePrior(d) EXCEPT ![n].loop = "reading"]
      /\ inbound' = [inbound EXCEPT ![d] = n]
      /\ UNCHANGED <<up, senderVars, sentCount, lost, received, faults>>

\* The loop takes a message, and onObserve or onReport emits it.
Receive(n) ==
  LET d == streams[n].dest
  IN  /\ streams[n].loop = "reading" /\ streams[n].wire # <<>>
      /\ streams' = [streams EXCEPT ![n].wire = Tail(@)]
      /\ received' = [received EXCEPT ![d] = Append(@, Head(streams[n].wire))]
      /\ UNCHANGED <<up, senderVars, inbound, sentCount, lost, faults>>

\* Mutant: the finally closes the stream of the entry it deletes.
EndInboundOfEntry(n) ==
  LET d == streams[n].dest
  IN  /\ \/ streams[n].loop = "aborted"
         \/ streams[n].loop = "reading" /\ ~streams[n].live
      /\ streams' = [ClosePrior(d) EXCEPT ![n].loop = "ended", ![n].wire = <<>>]
      /\ inbound' = [inbound EXCEPT ![d] = 0]
      /\ UNCHANGED <<up, senderVars, sentCount, lost, received, faults>>

\* The loop ends, and its finally deletes the entry of the peer, whichever
\* stream it names.
EndInbound(n) ==
  LET d == streams[n].dest
  IN  /\ \/ streams[n].loop = "aborted"
         \/ streams[n].loop = "reading" /\ ~streams[n].live
      /\ streams' = [streams EXCEPT ![n].loop = "ended", ![n].wire = <<>>]
      /\ inbound' = [inbound EXCEPT ![d] = 0]
      /\ UNCHANGED <<up, senderVars, sentCount, lost, received, faults>>

(***************************************************************************)
(* Faults                                                                  *)
(***************************************************************************)

CrashSelf ==
  /\ up[Self] /\ Fault /\ EndOfSelf
  /\ UNCHANGED <<inbound, sentCount, received>>

RestartSelf ==
  /\ ~up[Self]
  /\ up' = [up EXCEPT ![Self] = TRUE]
  /\ proc' = proc + 1
  /\ UNCHANGED <<outbound, queue, dialing, streams, inbound, sentCount, lost, received, faults>>

\* The map of Self keeps the streams to a peer that is gone.
CrashPeer(p) ==
  /\ up[p] /\ Fault
  /\ up' = [up EXCEPT ![p] = FALSE]
  /\ streams' = [n \in DOMAIN streams |->
       IF Peer(streams[n].dest) = p
         THEN [streams[n] EXCEPT !.live = FALSE, !.loop = "ended", !.wire = <<>>]
         ELSE streams[n]]
  /\ inbound' = [d \in Destinations |-> IF Peer(d) = p THEN 0 ELSE inbound[d]]
  /\ UNCHANGED <<senderVars, sentCount, lost, received>>

RestartPeer(p) ==
  /\ ~up[p]
  /\ up' = [up EXCEPT ![p] = TRUE]
  /\ UNCHANGED <<senderVars, streams, inbound, sentCount, lost, received, faults>>

\* The connection to p, which all its streams share, breaks.
LoseConnection(p) ==
  LET S == {n \in DOMAIN streams : Peer(streams[n].dest) = p /\ streams[n].live}
  IN  /\ S # {} /\ Fault
      /\ streams' = Broken(S)
      /\ UNCHANGED <<up, senderVars, inbound, sentCount, lost, received>>

Next ==
  \/ \E d \in Destinations : Send(d) \/ SendToSelf(d)
  \/ ReuseStream
  \/ StartDial
  \/ \E m \in dialing : DialSucceeds(m) \/ DialOfReportFails(m) \/ DialOfObserveFails(m)
  \/ \E n \in DOMAIN streams : CreateInboundStream(n) \/ Receive(n) \/ EndInbound(n)
  \/ CrashSelf \/ RestartSelf
  \/ \E p \in Peers : CrashPeer(p) \/ RestartPeer(p) \/ LoseConnection(p)

Spec == Init /\ [][Next]_vars

(***************************************************************************)
(* Fairness: the mutex is handed on, a dial ends (libp2p gives up on it    *)
(* after a timeout), handlers are called and loops run. Nothing is assumed *)
(* of faults and restarts.                                                 *)
(***************************************************************************)

DialEnds ==
  \E m \in dialing : DialSucceeds(m) \/ DialOfReportFails(m) \/ DialOfObserveFails(m)

Fairness ==
  /\ WF_vars(ReuseStream)
  /\ WF_vars(StartDial)
  /\ WF_vars(DialEnds)
  /\ \A n \in 1..MaxMessages :
       /\ WF_vars(n \in DOMAIN streams /\ CreateInboundStream(n))
       /\ WF_vars(n \in DOMAIN streams /\ Receive(n))
       /\ WF_vars(n \in DOMAIN streams /\ EndInbound(n))

FairSpec == Spec /\ Fairness

(***************************************************************************)
(* Properties                                                              *)
(***************************************************************************)

\* The types of the variables.
TypeOK ==
  /\ up \in [Peers \cup {Self} -> BOOLEAN]
  /\ proc \in Nat
  /\ outbound \in [Destinations -> 0..Len(streams)]
  /\ queue \in Seq(Message)
  /\ dialing \in SUBSET Message
  /\ streams \in Seq(Stream)
  /\ inbound \in [Destinations -> 0..Len(streams)]
  /\ sentCount \in 0..MaxMessages
  /\ lost \in SUBSET Message
  /\ received \in [Destinations -> Seq(Message)]
  /\ faults \in 0..MaxFaults

\* However many followers send at once, a process makes one stream for each
\* protocol and peer: the others wait for it and reuse it.
OneStreamPerDestination ==
  \A m, n \in DOMAIN streams :
    streams[m].dest = streams[n].dest /\ streams[m].proc = streams[n].proc => m = n

\* What one process sends to a destination is received in the order in which it
\* was sent and at most once, across broken and replaced streams.
ReceivedInOrder ==
  \A d \in Destinations : \A k, l \in DOMAIN received[d] :
    k < l /\ received[d][k].proc = received[d][l].proc
      => received[d][k].id < received[d][l].id

\* Replacing the inbound stream of a peer, and deleting the entry of another
\* stream than the one that ended, never cut off a sender that is alive: only
\* the end of a process or a broken connection takes a stream down.
OnlyFaultsCutStreams ==
  [][\A n \in DOMAIN streams :
       streams[n].live /\ ~streams'[n].live => up' # up \/ faults' # faults]_vars

Waiting(k) == \E m \in ToSet(queue) \cup dialing : m.id = k

\* The mutex is never leaked: every call of getOutboundStream ends, whatever
\* happens to the dials before it.
EveryCallEnds == \A k \in 1..MaxMessages : Waiting(k) ~> ~Waiting(k)

Live(n) == n \in DOMAIN streams /\ streams[n].live

OnWire(n, k) == Live(n) /\ \E m \in ToSet(streams[n].wire) : m.id = k

Got(k) == \E d \in Destinations : \E m \in ToSet(received[d]) : m.id = k

\* As long as the connection under it lasts, what is pushed on a stream arrives.
PushedArrives == \A n, k \in 1..MaxMessages : OnWire(n, k) ~> (Got(k) \/ ~Live(n))
=============================================================================
