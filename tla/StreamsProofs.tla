---------------------------- MODULE StreamsProofs ----------------------------
(***************************************************************************)
(* Proofs about Streams, for any peers and destinations and any number of  *)
(* messages and faults.                                                    *)
(***************************************************************************)
EXTENDS Streams, SequenceTheorems, TLAPS

USE PeersAssumption, BoundsAssumption

(***************************************************************************)
(* Type correctness                                                        *)
(***************************************************************************)

\* A destination names the sender or one of its peers.
LEMMA PeerOfDestination ==
  ASSUME NEW d \in Destinations
  PROVE  Peer(d) \in Peers \cup {Self}
BY DEF Peer

\* The message that is sent next is one, as long as the bound allows it.
LEMMA NextMessageType ==
  ASSUME TypeOK, sentCount < MaxMessages, NEW d \in Destinations
  PROVE  NextMessage(d) \in Message /\ sentCount + 1 \in 0..MaxMessages
BY DEF TypeOK, NextMessage, Message

\* Cutting the connection of some streams leaves all else about them.
LEMMA BrokenStreams ==
  ASSUME streams \in Seq(Stream), NEW S, streams' = Broken(S)
  PROVE  /\ streams' \in Seq(Stream) /\ Len(streams') = Len(streams)
         /\ \A n \in DOMAIN streams :
              /\ streams'[n].dest = streams[n].dest /\ streams'[n].proc = streams[n].proc
              /\ streams'[n].loop = streams[n].loop /\ streams'[n].wire = streams[n].wire
              /\ streams'[n].live = (streams[n].live /\ n \notin S)
<1>1. Len(streams) \in Nat /\ DOMAIN streams = 1..Len(streams)
  OBVIOUS
<1>2. ASSUME NEW n \in DOMAIN streams
      PROVE  /\ streams[n] \in Stream
             /\ streams'[n] = IF n \in S THEN [streams[n] EXCEPT !.live = FALSE] ELSE streams[n]
  BY DEF Broken
<1>3. \A n \in DOMAIN streams : streams'[n] \in Stream
  BY <1>2 DEF Stream
<1>4. streams' \in Seq(Stream) /\ Len(streams') = Len(streams)
  BY <1>1, <1>3 DEF Broken
<1> QED
  BY <1>2, <1>4 DEF Stream

\* Changing the loop, the connection or the messages of one stream.
LEMMA OneStreamChanged ==
  ASSUME NEW s \in Seq(Stream), NEW n \in DOMAIN s, NEW r \in Stream,
         r.dest = s[n].dest, r.proc = s[n].proc
  PROVE  /\ [s EXCEPT ![n] = r] \in Seq(Stream)
         /\ Len([s EXCEPT ![n] = r]) = Len(s)
         /\ DOMAIN [s EXCEPT ![n] = r] = DOMAIN s
         /\ \A k \in DOMAIN s : [s EXCEPT ![n] = r][k] = IF k = n THEN r ELSE s[k]
BY ExceptSeq

\* The end of the process of Self.
LEMMA EndOfSelfEffect ==
  ASSUME TypeOK, EndOfSelf
  PROVE  /\ up' \in [Peers \cup {Self} -> BOOLEAN] /\ ~up'[Self]
         /\ proc' = proc
         /\ outbound' = [d \in Destinations |-> 0]
         /\ queue' = <<>> /\ dialing' = {} /\ lost' \in SUBSET Message
         /\ streams' \in Seq(Stream) /\ Len(streams') = Len(streams)
         /\ \A n \in DOMAIN streams :
              /\ streams'[n].dest = streams[n].dest /\ streams'[n].proc = streams[n].proc
              /\ streams'[n].loop = streams[n].loop /\ streams'[n].wire = streams[n].wire
              /\ streams'[n].live = (streams[n].live /\ streams[n].proc # proc)
<1>1. ToSet(queue) \subseteq Message
  BY DEF TypeOK, ToSet
<1>2. lost' \in SUBSET Message
  BY <1>1 DEF TypeOK, EndOfSelf
<1> DEFINE S == {n \in DOMAIN streams : streams[n].proc = proc}
<1>3. /\ streams' \in Seq(Stream) /\ Len(streams') = Len(streams)
      /\ \A n \in DOMAIN streams :
           /\ streams'[n].dest = streams[n].dest /\ streams'[n].proc = streams[n].proc
           /\ streams'[n].loop = streams[n].loop /\ streams'[n].wire = streams[n].wire
           /\ streams'[n].live = (streams[n].live /\ n \notin S)
  <2>1. streams \in Seq(Stream) /\ streams' = Broken(S)
    BY DEF TypeOK, EndOfSelf
  <2> HIDE DEF S
  <2> QED
    BY <2>1, BrokenStreams
<1> QED
  BY <1>2, <1>3 DEF TypeOK, EndOfSelf

\* A message is pushed on a stream of the map.
LEMMA ReuseStreamEffect ==
  ASSUME TypeOK, ReuseStream
  PROVE  LET m == Head(queue)
             n == outbound[m.dest]
         IN  /\ dialing = {} /\ queue # <<>> /\ m \in Message /\ n \in DOMAIN streams
             /\ queue' \in Seq(Message) /\ queue' = Tail(queue)
             /\ streams' \in Seq(Stream) /\ Len(streams') = Len(streams)
             /\ \A k \in DOMAIN streams :
                  /\ streams'[k].dest = streams[k].dest /\ streams'[k].proc = streams[k].proc
                  /\ streams'[k].loop = streams[k].loop /\ streams'[k].live = streams[k].live
                  /\ streams'[k].wire =
                       IF k = n /\ streams[n].live
                         THEN Append(streams[k].wire, m) ELSE streams[k].wire
<1> DEFINE m == Head(queue)
           n == outbound[m.dest]
           r == [streams[n] EXCEPT !.wire = Append(@, m)]
<1>1. dialing = {} /\ queue # <<>> /\ queue' = Tail(queue) /\ queue \in Seq(Message)
  BY DEF TypeOK, ReuseStream
<1>2. m \in Message /\ queue' \in Seq(Message)
  BY <1>1
<1>3. n \in DOMAIN streams /\ streams \in Seq(Stream) /\ streams[n] \in Stream
  <2>1. n # 0 /\ n \in 0..Len(streams) /\ streams \in Seq(Stream)
    BY <1>2 DEF TypeOK, ReuseStream, Message
  <2> QED
    BY <2>1
<1>4. streams[n].wire \in Seq(Message) /\ Append(streams[n].wire, m) \in Seq(Message)
  BY <1>2, <1>3 DEF Stream
<1>5. /\ r \in Stream /\ r.dest = streams[n].dest /\ r.proc = streams[n].proc
      /\ r.loop = streams[n].loop /\ r.live = streams[n].live
      /\ r.wire = Append(streams[n].wire, m)
  BY <1>3, <1>4 DEF Stream
<1>6. streams' = IF streams[n].live THEN [streams EXCEPT ![n] = r] ELSE streams
  BY DEF ReuseStream, Push
<1> HIDE DEF m, n, r
<1>7. /\ streams' \in Seq(Stream) /\ Len(streams') = Len(streams)
      /\ \A k \in DOMAIN streams :
           streams'[k] = IF k = n /\ streams[n].live THEN r ELSE streams[k]
  BY <1>3, <1>5, <1>6, OneStreamChanged
<1> QED
  BY <1>1, <1>2, <1>3, <1>5, <1>7 DEF m, n

\* A dial succeeds: the stream is the last one, and in the map.
LEMMA DialSucceedsEffect ==
  ASSUME TypeOK, NEW m \in dialing, DialSucceeds(m)
  PROVE  LET n == Len(streams) + 1
         IN  /\ m \in Message /\ up[Self]
             /\ streams' \in Seq(Stream) /\ Len(streams') = n
             /\ \A k \in DOMAIN streams : streams'[k] = streams[k]
             /\ streams'[n] = [dest |-> m.dest, proc |-> proc, live |-> TRUE,
                               loop |-> "offered", wire |-> <<m>>]
             /\ outbound' = [outbound EXCEPT ![m.dest] = n]
<1> DEFINE r == [dest |-> m.dest, proc |-> proc, live |-> TRUE,
                 loop |-> "offered", wire |-> <<m>>]
<1>1. m \in Message /\ up[Self] /\ streams \in Seq(Stream) /\ streams' = Append(streams, r)
      /\ outbound' = [outbound EXCEPT ![m.dest] = Len(streams')]
  BY DEF TypeOK, DialSucceeds
<1>2. r \in Stream
  BY <1>1 DEF TypeOK, Stream, Message, Loops
<1> HIDE DEF r
<1>3. /\ streams' \in Seq(Stream) /\ Len(streams') = Len(streams) + 1
      /\ streams'[Len(streams) + 1] = r
      /\ \A k \in DOMAIN streams : streams'[k] = streams[k]
  BY <1>1, <1>2, AppendProperties
<1> QED
  BY <1>1, <1>3 DEF r

\* The prior inbound stream, if there is one, is closed, and the new one is read.
LEMMA CreateInboundStreamEffect ==
  ASSUME TypeOK, NEW n \in DOMAIN streams, CreateInboundStream(n)
  PROVE  LET d == streams[n].dest
         IN  /\ d \in Destinations /\ inbound[d] \in 0..Len(streams)
             /\ streams[n].loop = "offered"
             /\ \A k \in StreamsOf(d) : streams[k].loop = "offered" => k >= n
             /\ inbound' = [inbound EXCEPT ![d] = n]
             /\ streams' \in Seq(Stream) /\ Len(streams') = Len(streams)
             /\ \A k \in DOMAIN streams :
                  /\ streams'[k].dest = streams[k].dest /\ streams'[k].proc = streams[k].proc
                  /\ streams'[k].wire = streams[k].wire
                  /\ streams'[k].live = (streams[k].live /\ k # inbound[d])
                  /\ streams'[k].loop = CASE k = n -> "reading"
                                          [] k # n /\ k = inbound[d] -> "aborted"
                                          [] OTHER -> streams[k].loop
<1> DEFINE d == streams[n].dest
           c == inbound[d]
           s == ClosePrior(d)
           r == [streams[c] EXCEPT !.live = FALSE, !.loop = "aborted"]
           q == [s[n] EXCEPT !.loop = "reading"]
<1>1. streams \in Seq(Stream) /\ streams[n] \in Stream /\ DOMAIN streams = 1..Len(streams)
  BY DEF TypeOK
<1>2. d \in Destinations /\ c \in 0..Len(streams)
  BY <1>1 DEF TypeOK, Stream
<1>3. s = IF c = 0 THEN streams ELSE [streams EXCEPT ![c] = r]
  BY DEF ClosePrior
<1>4. c # 0 => /\ c \in DOMAIN streams /\ r \in Stream /\ r.dest = streams[c].dest
               /\ r.proc = streams[c].proc /\ r.wire = streams[c].wire
               /\ r.live = FALSE /\ r.loop = "aborted"
  <2>1. ASSUME c # 0
        PROVE  c \in DOMAIN streams /\ streams[c] \in Stream
    BY <1>1, <1>2, <2>1
  <2> QED
    BY <2>1 DEF Stream, Loops
<1> HIDE DEF d, c, s, r
<1>5. /\ s \in Seq(Stream) /\ Len(s) = Len(streams) /\ DOMAIN s = DOMAIN streams
      /\ \A k \in DOMAIN streams : s[k] = IF c # 0 /\ k = c THEN r ELSE streams[k]
  BY <1>1, <1>3, <1>4, OneStreamChanged
<1>6. \A k \in DOMAIN streams :
        /\ s[k] \in Stream /\ s[k].dest = streams[k].dest /\ s[k].proc = streams[k].proc
        /\ s[k].wire = streams[k].wire /\ s[k].live = (streams[k].live /\ k # c)
        /\ s[k].loop = IF k = c THEN "aborted" ELSE streams[k].loop
  <2> TAKE k \in DOMAIN streams
  <2>1. streams[k] \in Stream /\ k # 0
    BY <1>1
  <2> QED
    BY <1>4, <1>5, <2>1 DEF Stream
<1>7. /\ q \in Stream /\ q.dest = s[n].dest /\ q.proc = s[n].proc
      /\ q.wire = s[n].wire /\ q.live = s[n].live /\ q.loop = "reading"
  BY <1>6 DEF Stream, Loops
<1>8. streams' = [s EXCEPT ![n] = q]
  BY DEF CreateInboundStream, s, d
<1> HIDE DEF q
<1>9. /\ streams' \in Seq(Stream) /\ Len(streams') = Len(streams)
      /\ \A k \in DOMAIN streams : streams'[k] = IF k = n THEN q ELSE s[k]
  BY <1>5, <1>7, <1>8, OneStreamChanged
<1>10. /\ streams[n].loop = "offered"
       /\ \A k \in StreamsOf(d) : streams[k].loop = "offered" => k >= n
       /\ inbound' = [inbound EXCEPT ![d] = n]
  BY DEF CreateInboundStream, d
<1> QED
  BY <1>2, <1>6, <1>7, <1>9, <1>10 DEF c, d

\* The reader takes the first message of a stream.
LEMMA ReceiveEffect ==
  ASSUME TypeOK, NEW n \in DOMAIN streams, Receive(n)
  PROVE  LET d == streams[n].dest
             m == Head(streams[n].wire)
         IN  /\ d \in Destinations /\ m \in Message
             /\ streams[n].loop = "reading" /\ streams[n].wire # <<>>
             /\ received' = [received EXCEPT ![d] = Append(received[d], m)]
             /\ streams' \in Seq(Stream) /\ Len(streams') = Len(streams)
             /\ \A k \in DOMAIN streams :
                  /\ streams'[k].dest = streams[k].dest /\ streams'[k].proc = streams[k].proc
                  /\ streams'[k].loop = streams[k].loop /\ streams'[k].live = streams[k].live
                  /\ streams'[k].wire = IF k = n THEN Tail(streams[k].wire) ELSE streams[k].wire
<1> DEFINE r == [streams[n] EXCEPT !.wire = Tail(@)]
<1>1. streams \in Seq(Stream) /\ streams[n] \in Stream
  BY DEF TypeOK
<1>2. /\ streams[n].loop = "reading" /\ streams[n].wire # <<>>
      /\ received' = [received EXCEPT ![streams[n].dest] =
                        Append(received[streams[n].dest], Head(streams[n].wire))]
      /\ streams' = [streams EXCEPT ![n] = r]
  BY DEF Receive
<1>3. streams[n].dest \in Destinations /\ streams[n].wire \in Seq(Message)
  BY <1>1 DEF Stream
<1>4. Head(streams[n].wire) \in Message /\ Tail(streams[n].wire) \in Seq(Message)
  BY <1>2, <1>3
<1>5. /\ r \in Stream /\ r.dest = streams[n].dest /\ r.proc = streams[n].proc
      /\ r.loop = streams[n].loop /\ r.live = streams[n].live
      /\ r.wire = Tail(streams[n].wire)
  BY <1>1, <1>4 DEF Stream
<1> HIDE DEF r
<1>6. /\ streams' \in Seq(Stream) /\ Len(streams') = Len(streams)
      /\ \A k \in DOMAIN streams : streams'[k] = IF k = n THEN r ELSE streams[k]
  BY <1>1, <1>2, <1>5, OneStreamChanged
<1> QED
  BY <1>2, <1>3, <1>4, <1>5, <1>6

\* A loop ends; what was on the wire is gone.
LEMMA EndInboundEffect ==
  ASSUME TypeOK, NEW n \in DOMAIN streams, EndInbound(n)
  PROVE  /\ streams[n].dest \in Destinations
         /\ inbound' = [inbound EXCEPT ![streams[n].dest] = 0]
         /\ streams' \in Seq(Stream) /\ Len(streams') = Len(streams)
         /\ \A k \in DOMAIN streams :
              /\ streams'[k].dest = streams[k].dest /\ streams'[k].proc = streams[k].proc
              /\ streams'[k].live = streams[k].live
              /\ streams'[k].loop = IF k = n THEN "ended" ELSE streams[k].loop
              /\ streams'[k].wire = IF k = n THEN <<>> ELSE streams[k].wire
<1> DEFINE r == [streams[n] EXCEPT !.loop = "ended", !.wire = <<>>]
<1>1. streams \in Seq(Stream) /\ streams[n] \in Stream
  BY DEF TypeOK
<1>2. /\ inbound' = [inbound EXCEPT ![streams[n].dest] = 0]
      /\ streams' = [streams EXCEPT ![n] = r]
  BY DEF EndInbound
<1>3. /\ r \in Stream /\ r.dest = streams[n].dest /\ r.proc = streams[n].proc
      /\ r.loop = "ended" /\ r.live = streams[n].live /\ r.wire = <<>>
  <2>1. <<>> \in Seq(Message)
    OBVIOUS
  <2> QED
    BY <1>1, <2>1 DEF Stream, Loops
<1> HIDE DEF r
<1>4. /\ streams' \in Seq(Stream) /\ Len(streams') = Len(streams)
      /\ \A k \in DOMAIN streams : streams'[k] = IF k = n THEN r ELSE streams[k]
  BY <1>1, <1>2, <1>3, OneStreamChanged
<1> QED
  BY <1>1, <1>2, <1>3, <1>4 DEF Stream

\* The process of a peer ends, and with it the streams to it.
LEMMA CrashPeerEffect ==
  ASSUME TypeOK, NEW p \in Peers, CrashPeer(p)
  PROVE  /\ streams' \in Seq(Stream) /\ Len(streams') = Len(streams)
         /\ up' = [up EXCEPT ![p] = FALSE] /\ up'[Self] = up[Self]
         /\ inbound' \in [Destinations -> 0..Len(streams)]
         /\ \A d \in Destinations : inbound'[d] \in {0, inbound[d]}
         /\ \A d \in Destinations : inbound'[d] # 0 => Peer(d) # p
         /\ \A k \in DOMAIN streams :
              /\ streams'[k].dest = streams[k].dest /\ streams'[k].proc = streams[k].proc
              /\ streams'[k].live => streams[k].live
              /\ Peer(streams[k].dest) # p => streams'[k] = streams[k]
              /\ Peer(streams[k].dest) = p =>
                   streams'[k].loop = "ended" /\ streams'[k].wire = <<>>
<1>1. /\ Len(streams) \in Nat /\ DOMAIN streams = 1..Len(streams)
      /\ \A k \in DOMAIN streams : streams[k] \in Stream
  BY DEF TypeOK
<1>2. ASSUME NEW k \in DOMAIN streams
      PROVE  streams'[k] = IF Peer(streams[k].dest) = p
                             THEN [streams[k] EXCEPT !.live = FALSE, !.loop = "ended", !.wire = <<>>]
                             ELSE streams[k]
  BY DEF CrashPeer
<1>3. ASSUME NEW k \in DOMAIN streams
      PROVE  /\ streams'[k] \in Stream
             /\ streams'[k].dest = streams[k].dest /\ streams'[k].proc = streams[k].proc
             /\ streams'[k].live => streams[k].live
             /\ Peer(streams[k].dest) # p => streams'[k] = streams[k]
             /\ Peer(streams[k].dest) = p =>
                  streams'[k].loop = "ended" /\ streams'[k].wire = <<>>
  <2>1. <<>> \in Seq(Message) /\ streams[k] \in Stream
    BY <1>1
  <2> QED
    BY <1>2, <2>1 DEF Stream, Loops
<1>4. streams' \in Seq(Stream) /\ Len(streams') = Len(streams)
  <2>1. streams' = [k \in DOMAIN streams |-> streams'[k]]
    BY DEF CrashPeer
  <2> QED
    BY <1>1, <1>3, <2>1
<1>5. up' = [up EXCEPT ![p] = FALSE] /\ up'[Self] = up[Self]
  <2>1. up' = [up EXCEPT ![p] = FALSE] /\ up \in [Peers \cup {Self} -> BOOLEAN]
    BY DEF TypeOK, CrashPeer
  <2> QED
    BY <2>1
<1>6. /\ inbound' \in [Destinations -> 0..Len(streams)]
      /\ \A d \in Destinations : inbound'[d] \in {0, inbound[d]} /\ (inbound'[d] # 0 => Peer(d) # p)
  <2>1. /\ inbound' = [d \in Destinations |-> IF Peer(d) = p THEN 0 ELSE inbound[d]]
        /\ inbound \in [Destinations -> 0..Len(streams)]
    BY DEF TypeOK, CrashPeer
  <2> QED
    BY <1>1, <2>1
<1> QED
  BY <1>3, <1>4, <1>5, <1>6

\* The connection to a peer breaks.
LEMMA LoseConnectionEffect ==
  ASSUME TypeOK, NEW p \in Peers, LoseConnection(p)
  PROVE  /\ streams' \in Seq(Stream) /\ Len(streams') = Len(streams)
         /\ \A k \in DOMAIN streams :
              /\ streams'[k].dest = streams[k].dest /\ streams'[k].proc = streams[k].proc
              /\ streams'[k].loop = streams[k].loop /\ streams'[k].wire = streams[k].wire
              /\ streams'[k].live => streams[k].live
<1> DEFINE S == {n \in DOMAIN streams : Peer(streams[n].dest) = p /\ streams[n].live}
<1>1. streams \in Seq(Stream) /\ streams' = Broken(S)
  BY DEF TypeOK, LoseConnection
<1> HIDE DEF S
<1> QED
  BY <1>1, BrokenStreams

LEMMA InitType == Init => TypeOK
BY DEF Init, TypeOK

\* Every step preserves the types.
LEMMA TypePreserved == TypeOK /\ [Next]_vars => TypeOK'
<1> SUFFICES ASSUME TypeOK, [Next]_vars
             PROVE  TypeOK'
  OBVIOUS
<1>1. ASSUME NEW d \in Destinations, Send(d)
      PROVE  TypeOK'
  <2>1. NextMessage(d) \in Message /\ sentCount + 1 \in 0..MaxMessages
    BY <1>1, NextMessageType DEF Send
  <2> QED
    BY <1>1, <2>1 DEF Send, TypeOK
<1>2. ASSUME NEW d \in Destinations, SendToSelf(d)
      PROVE  TypeOK'
  <2>1. NextMessage(d) \in Message /\ sentCount + 1 \in 0..MaxMessages
    BY <1>2, NextMessageType DEF SendToSelf
  <2>2. received \in [Destinations -> Seq(Message)]
    BY DEF TypeOK
  <2>3. Append(received[d], NextMessage(d)) \in Seq(Message)
    BY <2>1, <2>2
  <2>4. received' = [received EXCEPT ![d] = Append(received[d], NextMessage(d))]
    BY <1>2 DEF SendToSelf
  <2>5. received' \in [Destinations -> Seq(Message)]
    BY <2>2, <2>3, <2>4
  <2> QED
    BY <1>2, <2>1, <2>5 DEF SendToSelf, TypeOK, senderVars
<1>3. CASE ReuseStream
  BY <1>3, ReuseStreamEffect DEF ReuseStream, TypeOK
<1>4. CASE StartDial
  <2>1. queue # <<>> /\ Head(queue) \in Message /\ Tail(queue) \in Seq(Message)
    BY <1>4 DEF StartDial, TypeOK
  <2> QED
    BY <1>4, <2>1 DEF StartDial, TypeOK
<1>5. ASSUME NEW m \in dialing, DialSucceeds(m)
      PROVE  TypeOK'
  <2>1. /\ streams' \in Seq(Stream) /\ Len(streams') = Len(streams) + 1
        /\ outbound' = [outbound EXCEPT ![m.dest] = Len(streams) + 1]
    BY <1>5, DialSucceedsEffect
  <2>2. /\ Len(streams) \in Nat
        /\ outbound \in [Destinations -> 0..Len(streams)]
        /\ inbound \in [Destinations -> 0..Len(streams)]
    BY DEF TypeOK
  <2>3. 0..Len(streams) \subseteq 0..Len(streams') /\ Len(streams) + 1 \in 0..Len(streams')
    BY <2>1, <2>2
  <2>4. outbound' \in [Destinations -> 0..Len(streams')] /\ inbound \in [Destinations -> 0..Len(streams')]
    BY <2>1, <2>2, <2>3
  <2>5. dialing' \subseteq dialing /\ UNCHANGED <<up, proc, queue, inbound, sentCount, lost, received, faults>>
    BY <1>5 DEF DialSucceeds
  <2> QED
    BY <2>1, <2>4, <2>5 DEF TypeOK
<1>6. ASSUME NEW m \in dialing, DialOfReportFails(m)
      PROVE  TypeOK'
  BY <1>6 DEF DialOfReportFails, Unreachable, Fault, TypeOK
<1>7. ASSUME EndOfSelf, UNCHANGED <<inbound, sentCount, received>>, faults' \in 0..MaxFaults
      PROVE  TypeOK'
  <2>1. /\ up' \in [Peers \cup {Self} -> BOOLEAN] /\ proc' = proc
        /\ outbound' = [d \in Destinations |-> 0]
        /\ queue' = <<>> /\ dialing' = {} /\ lost' \in SUBSET Message
        /\ streams' \in Seq(Stream) /\ Len(streams') = Len(streams)
    BY <1>7, EndOfSelfEffect
  <2>2. outbound' \in [Destinations -> 0..Len(streams')]
    BY <2>1
  <2> QED
    BY <1>7, <2>1, <2>2 DEF TypeOK
<1>8. ASSUME NEW m \in dialing, DialOfObserveFails(m)
      PROVE  TypeOK'
  BY <1>7, <1>8 DEF DialOfObserveFails, Unreachable, Fault, TypeOK
<1>9. ASSUME NEW n \in DOMAIN streams, CreateInboundStream(n)
      PROVE  TypeOK'
  <2>1. /\ streams' \in Seq(Stream) /\ Len(streams') = Len(streams)
        /\ inbound' = [inbound EXCEPT ![streams[n].dest] = n]
    BY <1>9, CreateInboundStreamEffect
  <2>2. inbound' \in [Destinations -> 0..Len(streams')]
    <3>1. /\ inbound \in [Destinations -> 0..Len(streams)]
          /\ Len(streams) \in Nat /\ n \in 0..Len(streams) /\ 0 \in 0..Len(streams)
      BY DEF TypeOK
    <3> QED
      BY <2>1, <3>1
  <2>3. UNCHANGED <<up, proc, outbound, queue, dialing, sentCount, lost, received, faults>>
    BY <1>9 DEF CreateInboundStream, senderVars
  <2> QED
    BY <2>1, <2>2, <2>3 DEF TypeOK
<1>10. ASSUME NEW n \in DOMAIN streams, Receive(n)
      PROVE  TypeOK'
  <2>1. /\ streams' \in Seq(Stream) /\ Len(streams') = Len(streams)
        /\ streams[n].dest \in Destinations /\ Head(streams[n].wire) \in Message
        /\ received' = [received EXCEPT ![streams[n].dest] =
                          Append(received[streams[n].dest], Head(streams[n].wire))]
    BY <1>10, ReceiveEffect
  <2>2. received' \in [Destinations -> Seq(Message)]
    BY <2>1 DEF TypeOK
  <2>3. UNCHANGED <<up, proc, outbound, queue, dialing, inbound, sentCount, lost, faults>>
    BY <1>10 DEF Receive, senderVars
  <2> QED
    BY <2>1, <2>2, <2>3 DEF TypeOK
<1>11. ASSUME NEW n \in DOMAIN streams, EndInbound(n)
       PROVE  TypeOK'
  <2>1. /\ streams' \in Seq(Stream) /\ Len(streams') = Len(streams)
        /\ inbound' = [inbound EXCEPT ![streams[n].dest] = 0]
    BY <1>11, EndInboundEffect
  <2>2. inbound' \in [Destinations -> 0..Len(streams')]
    <3>1. /\ inbound \in [Destinations -> 0..Len(streams)]
          /\ Len(streams) \in Nat /\ n \in 0..Len(streams) /\ 0 \in 0..Len(streams)
      BY DEF TypeOK
    <3> QED
      BY <2>1, <3>1
  <2>3. UNCHANGED <<up, proc, outbound, queue, dialing, sentCount, lost, received, faults>>
    BY <1>11 DEF EndInbound, senderVars
  <2> QED
    BY <2>1, <2>2, <2>3 DEF TypeOK
<1>12. CASE CrashSelf
  BY <1>7, <1>12 DEF CrashSelf, Fault, TypeOK
<1>13. CASE RestartSelf
  BY <1>13 DEF RestartSelf, TypeOK
<1>14. ASSUME NEW p \in Peers, CrashPeer(p)
       PROVE  TypeOK'
  <2>1. /\ streams' \in Seq(Stream) /\ Len(streams') = Len(streams)
        /\ inbound' \in [Destinations -> 0..Len(streams)]
        /\ up' = [up EXCEPT ![p] = FALSE]
    BY <1>14, CrashPeerEffect
  <2>2. UNCHANGED <<proc, outbound, queue, dialing, sentCount, lost, received>>
    BY <1>14 DEF CrashPeer, senderVars
  <2>3. faults' \in 0..MaxFaults
    <3>1. faults < MaxFaults /\ faults' = faults + 1
      BY <1>14 DEF CrashPeer, Fault
    <3> QED
      BY <3>1 DEF TypeOK
  <2> QED
    BY <2>1, <2>2, <2>3 DEF TypeOK
<1>15. ASSUME NEW p \in Peers, RestartPeer(p)
       PROVE  TypeOK'
  BY <1>15 DEF RestartPeer, senderVars, TypeOK
<1>16. ASSUME NEW p \in Peers, LoseConnection(p)
       PROVE  TypeOK'
  <2>1. streams' \in Seq(Stream) /\ Len(streams') = Len(streams)
    BY <1>16, LoseConnectionEffect
  <2>2. /\ faults' \in 0..MaxFaults
        /\ UNCHANGED <<up, proc, outbound, queue, dialing, inbound, sentCount, lost, received>>
    BY <1>16 DEF LoseConnection, senderVars, Fault, TypeOK
  <2> QED
    BY <2>1, <2>2 DEF TypeOK
<1>17. CASE UNCHANGED vars
  BY <1>17 DEF vars, senderVars, TypeOK
<1> QED
  BY <1>1, <1>2, <1>3, <1>4, <1>5, <1>6, <1>8, <1>9, <1>10, <1>11, <1>12, <1>13,
     <1>14, <1>15, <1>16, <1>17 DEF Next

\* The types of the variables, whatever fails.
THEOREM TypeCorrect == Spec => []TypeOK
BY InitType, TypePreserved, PTL DEF Spec

(***************************************************************************)
(* The sender: what its map says of the streams                            *)
(***************************************************************************)

\* The mutex is held by one call, for a destination that is not in the map.
OneCaller ==
  /\ \A m, k \in dialing : m = k
  /\ \A m \in dialing : outbound[m.dest] = 0

\* Nothing outlives the process of Self: its calls, its map, its connections.
NothingOutlives ==
  /\ ~up[Self] => dialing = {} /\ queue = <<>> /\ \A d \in Destinations : outbound[d] = 0
  /\ \A n \in DOMAIN streams : streams[n].live => up[Self] /\ streams[n].proc = proc

\* The map has every stream that the process dialled, and nothing else.
MapIsExact ==
  /\ up[Self] => \A n \in DOMAIN streams :
                   streams[n].proc = proc => outbound[streams[n].dest] = n
  /\ \A d \in Destinations : outbound[d] # 0 =>
       streams[outbound[d]].dest = d /\ streams[outbound[d]].proc = proc

\* Later streams are of later processes.
ProcessesInOrder ==
  /\ \A n \in DOMAIN streams : streams[n].proc <= proc
  /\ \A m, n \in DOMAIN streams : m <= n => streams[m].proc <= streams[n].proc

SenderInv ==
  /\ OneCaller
  /\ NothingOutlives
  /\ MapIsExact
  /\ ProcessesInOrder
  /\ OneStreamPerDestination

\* A step that neither makes streams nor revives them.
KeepsStreams ==
  /\ streams' \in Seq(Stream) /\ Len(streams') = Len(streams)
  /\ \A n \in DOMAIN streams :
       /\ streams'[n].dest = streams[n].dest /\ streams'[n].proc = streams[n].proc
       /\ streams'[n].live => streams[n].live

LEMMA StreamDomains ==
  ASSUME TypeOK
  PROVE  /\ Len(streams) \in Nat /\ DOMAIN streams = 1..Len(streams)
         /\ \A n \in DOMAIN streams :
              streams[n] \in Stream /\ streams[n].dest \in Destinations /\ streams[n].proc \in Nat
<1>1. streams \in Seq(Stream)
  BY DEF TypeOK
<1>2. \A n \in DOMAIN streams : streams[n] \in Stream
  BY <1>1
<1> QED
  BY <1>1, <1>2 DEF Stream

LEMMA KeepsDomain ==
  ASSUME TypeOK, KeepsStreams
  PROVE  DOMAIN streams' = DOMAIN streams
BY StreamDomains DEF KeepsStreams

\* Such a step preserves the invariant unless it changes the map or the process.
LEMMA SenderInvKept ==
  ASSUME TypeOK, SenderInv, KeepsStreams,
         up'[Self] = up[Self], UNCHANGED <<proc, outbound>>,
         dialing' \subseteq dialing, ~up[Self] => queue' = queue
  PROVE  SenderInv'
<1>1. DOMAIN streams' = DOMAIN streams
  BY KeepsDomain
<1>2. OneCaller'
  BY DEF SenderInv, OneCaller
<1>3. NothingOutlives'
  BY <1>1 DEF SenderInv, NothingOutlives, KeepsStreams
<1>4. MapIsExact'
  <2>1. ASSUME NEW d \in Destinations, outbound[d] # 0
        PROVE  outbound[d] \in DOMAIN streams
    BY <2>1, StreamDomains DEF TypeOK
  <2> QED
    BY <1>1, <2>1 DEF SenderInv, MapIsExact, KeepsStreams
<1>5. ProcessesInOrder'
  BY <1>1 DEF SenderInv, ProcessesInOrder, KeepsStreams
<1>6. OneStreamPerDestination'
  BY <1>1 DEF SenderInv, OneStreamPerDestination, KeepsStreams
<1> QED
  BY <1>2, <1>3, <1>4, <1>5, <1>6 DEF SenderInv

\* The end of the process empties its map.
LEMMA SenderInvAtEnd ==
  ASSUME TypeOK, SenderInv, EndOfSelf
  PROVE  SenderInv'
<1>1. KeepsStreams
  BY EndOfSelfEffect DEF KeepsStreams
<1>2. DOMAIN streams' = DOMAIN streams
  BY <1>1, KeepsDomain
<1>3. /\ ~up'[Self] /\ proc' = proc /\ queue' = <<>> /\ dialing' = {}
      /\ \A d \in Destinations : outbound'[d] = 0
      /\ \A n \in DOMAIN streams : streams'[n].live = (streams[n].live /\ streams[n].proc # proc)
  BY EndOfSelfEffect
<1>4. OneCaller'
  BY <1>3 DEF OneCaller
<1>5. NothingOutlives'
  BY <1>2, <1>3 DEF SenderInv, NothingOutlives
<1>6. MapIsExact'
  BY <1>3 DEF MapIsExact
<1>7. ProcessesInOrder'
  BY <1>1, <1>2, <1>3 DEF SenderInv, ProcessesInOrder, KeepsStreams
<1>8. OneStreamPerDestination'
  BY <1>1, <1>2 DEF SenderInv, OneStreamPerDestination, KeepsStreams
<1> QED
  BY <1>4, <1>5, <1>6, <1>7, <1>8 DEF SenderInv

\* A new process starts with streams of earlier ones only.
LEMMA SenderInvAtRestart ==
  ASSUME TypeOK, SenderInv, RestartSelf
  PROVE  SenderInv'
<1>1. /\ ~up[Self] /\ up'[Self] /\ proc' = proc + 1 /\ proc \in Nat
      /\ UNCHANGED <<outbound, queue, dialing, streams>>
  BY DEF RestartSelf, TypeOK
<1>2. dialing = {} /\ \A d \in Destinations : outbound[d] = 0
  BY <1>1 DEF SenderInv, NothingOutlives
<1>3. \A n \in DOMAIN streams :
        /\ ~streams[n].live /\ streams[n].dest \in Destinations
        /\ streams[n].proc \in Nat /\ streams[n].proc <= proc
  BY <1>1, StreamDomains DEF SenderInv, NothingOutlives, ProcessesInOrder
<1>4. OneCaller'
  BY <1>1, <1>2 DEF OneCaller
<1>5. NothingOutlives'
  BY <1>1, <1>3 DEF NothingOutlives
<1>6. MapIsExact'
  BY <1>1, <1>2, <1>3 DEF MapIsExact
<1>7. ProcessesInOrder'
  BY <1>1, <1>3 DEF SenderInv, ProcessesInOrder
<1>8. OneStreamPerDestination'
  BY <1>1 DEF SenderInv, OneStreamPerDestination
<1> QED
  BY <1>4, <1>5, <1>6, <1>7, <1>8 DEF SenderInv

\* The call that gets the mutex found no stream in the map.
LEMMA SenderInvAtStartDial ==
  ASSUME TypeOK, SenderInv, StartDial
  PROVE  SenderInv'
<1>1. /\ up[Self] /\ dialing' = {Head(queue)} /\ outbound[Head(queue).dest] = 0
      /\ UNCHANGED <<up, proc, outbound, streams>>
  BY DEF StartDial
<1>2. OneCaller'
  BY <1>1 DEF OneCaller
<1> QED
  BY <1>1, <1>2 DEF SenderInv, NothingOutlives, MapIsExact, ProcessesInOrder,
                    OneStreamPerDestination

\* The new stream is the only one of its process and destination: had there been
\* another, the map would have named it while the peer was dialled.
LEMMA SenderInvAtDial ==
  ASSUME TypeOK, SenderInv, NEW m \in dialing, DialSucceeds(m)
  PROVE  SenderInv'
<1> DEFINE n == Len(streams) + 1
<1>1. /\ m \in Message /\ m.dest \in Destinations /\ up[Self] /\ n \in Nat \ {0}
      /\ streams' \in Seq(Stream) /\ Len(streams') = n
      /\ \A k \in DOMAIN streams : streams'[k] = streams[k]
      /\ streams'[n].dest = m.dest /\ streams'[n].proc = proc /\ streams'[n].live
      /\ outbound' = [outbound EXCEPT ![m.dest] = n]
  <2>1. /\ m \in Message /\ up[Self]
        /\ streams' \in Seq(Stream) /\ Len(streams') = n
        /\ \A k \in DOMAIN streams : streams'[k] = streams[k]
        /\ streams'[n] = [dest |-> m.dest, proc |-> proc, live |-> TRUE,
                          loop |-> "offered", wire |-> <<m>>]
        /\ outbound' = [outbound EXCEPT ![m.dest] = n]
    BY DialSucceedsEffect
  <2>2. m.dest \in Destinations /\ n \in Nat \ {0}
    BY <2>1, StreamDomains DEF Message
  <2> QED
    BY <2>1, <2>2
<1>2. DOMAIN streams' = DOMAIN streams \cup {n} /\ n \notin DOMAIN streams
  BY <1>1, StreamDomains
<1>3. dialing' = dialing \ {m} /\ UNCHANGED <<up, proc, queue>>
  BY DEF DialSucceeds
<1>4. dialing' = {} /\ outbound[m.dest] = 0
  BY <1>3 DEF SenderInv, OneCaller
<1>5. \A k \in DOMAIN streams : streams[k].proc = proc => streams[k].dest # m.dest
  BY <1>1, <1>4, StreamDomains DEF SenderInv, MapIsExact
<1>6. \A d \in Destinations : outbound'[d] = IF d = m.dest THEN n ELSE outbound[d]
  BY <1>1 DEF TypeOK
<1> HIDE DEF n
<1>7. OneCaller'
  BY <1>4 DEF OneCaller
<1>8. NothingOutlives'
  BY <1>1, <1>2, <1>3 DEF SenderInv, NothingOutlives
<1>9. MapIsExact'
  <2>1. \A k \in DOMAIN streams' : streams'[k].proc = proc => outbound'[streams'[k].dest] = k
    BY <1>1, <1>2, <1>5, <1>6, StreamDomains DEF SenderInv, MapIsExact
  <2>2. ASSUME NEW d \in Destinations, outbound'[d] # 0
        PROVE  streams'[outbound'[d]].dest = d /\ streams'[outbound'[d]].proc = proc
    <3>1. CASE d = m.dest
      BY <1>1, <1>6, <3>1
    <3>2. CASE d # m.dest
      <4>1. outbound'[d] = outbound[d] /\ outbound[d] # 0 /\ outbound[d] \in DOMAIN streams
        BY <1>6, <2>2, <3>2, StreamDomains DEF TypeOK
      <4> QED
        BY <1>1, <4>1 DEF SenderInv, MapIsExact
    <3> QED
      BY <3>1, <3>2
  <2> QED
    BY <1>3, <2>1, <2>2 DEF MapIsExact
<1>10. ProcessesInOrder'
  <2>1. \A k \in DOMAIN streams : streams[k].proc <= proc /\ k < n
    BY StreamDomains DEF SenderInv, ProcessesInOrder, n
  <2>2. proc \in Nat /\ n \in Nat
    BY <1>1 DEF TypeOK
  <2> QED
    BY <1>1, <1>2, <1>3, <2>1, <2>2, StreamDomains DEF SenderInv, ProcessesInOrder
<1>11. OneStreamPerDestination'
  BY <1>1, <1>2, <1>5 DEF SenderInv, OneStreamPerDestination
<1> QED
  BY <1>7, <1>8, <1>9, <1>10, <1>11 DEF SenderInv

LEMMA InitSender == Init => SenderInv
BY DEF Init, SenderInv, OneCaller, NothingOutlives, MapIsExact, ProcessesInOrder,
       OneStreamPerDestination

\* The steps of the receivers and of the faults keep the streams, the map and
\* the process of the sender.
LEMMA ReceiversKeep ==
  ASSUME TypeOK,
         \/ \E n \in DOMAIN streams : CreateInboundStream(n) \/ Receive(n) \/ EndInbound(n)
         \/ \E p \in Peers : CrashPeer(p) \/ RestartPeer(p) \/ LoseConnection(p)
  PROVE  /\ KeepsStreams /\ up'[Self] = up[Self] /\ UNCHANGED <<proc, outbound, queue, dialing>>
         /\ UNCHANGED <<sentCount, lost>>
<1>1. ASSUME NEW n \in DOMAIN streams, CreateInboundStream(n)
      PROVE  KeepsStreams /\ UNCHANGED <<up, proc, outbound, queue, dialing, sentCount, lost>>
  <2>1. UNCHANGED <<up, proc, outbound, queue, dialing, sentCount, lost>>
    BY <1>1 DEF CreateInboundStream, senderVars
  <2> QED
    BY <1>1, <2>1, CreateInboundStreamEffect DEF KeepsStreams
<1>2. ASSUME NEW n \in DOMAIN streams, Receive(n)
      PROVE  KeepsStreams /\ UNCHANGED <<up, proc, outbound, queue, dialing, sentCount, lost>>
  <2>1. UNCHANGED <<up, proc, outbound, queue, dialing, sentCount, lost>>
    BY <1>2 DEF Receive, senderVars
  <2> QED
    BY <1>2, <2>1, ReceiveEffect DEF KeepsStreams
<1>3. ASSUME NEW n \in DOMAIN streams, EndInbound(n)
      PROVE  KeepsStreams /\ UNCHANGED <<up, proc, outbound, queue, dialing, sentCount, lost>>
  <2>1. UNCHANGED <<up, proc, outbound, queue, dialing, sentCount, lost>>
    BY <1>3 DEF EndInbound, senderVars
  <2> QED
    BY <1>3, <2>1, EndInboundEffect DEF KeepsStreams
<1>4. ASSUME NEW p \in Peers, CrashPeer(p)
      PROVE  /\ KeepsStreams /\ up'[Self] = up[Self]
             /\ UNCHANGED <<proc, outbound, queue, dialing, sentCount, lost>>
  <2>1. UNCHANGED <<proc, outbound, queue, dialing, sentCount, lost>>
    BY <1>4 DEF CrashPeer, senderVars
  <2> QED
    BY <1>4, <2>1, CrashPeerEffect DEF KeepsStreams
<1>5. ASSUME NEW p \in Peers, RestartPeer(p)
      PROVE  /\ KeepsStreams /\ up'[Self] = up[Self]
             /\ UNCHANGED <<proc, outbound, queue, dialing, sentCount, lost>>
  <2>1. up' = [up EXCEPT ![p] = TRUE] /\ UNCHANGED <<proc, outbound, queue, dialing, streams, sentCount, lost>>
    BY <1>5 DEF RestartPeer, senderVars
  <2> QED
    BY <2>1 DEF KeepsStreams, TypeOK
<1>6. ASSUME NEW p \in Peers, LoseConnection(p)
      PROVE  KeepsStreams /\ UNCHANGED <<up, proc, outbound, queue, dialing, sentCount, lost>>
  <2>1. UNCHANGED <<up, proc, outbound, queue, dialing, sentCount, lost>>
    BY <1>6 DEF LoseConnection, senderVars
  <2> QED
    BY <1>6, <2>1, LoseConnectionEffect DEF KeepsStreams
<1> QED
  BY <1>1, <1>2, <1>3, <1>4, <1>5, <1>6

LEMMA SenderPreserved == TypeOK /\ SenderInv /\ [Next]_vars => SenderInv'
<1> SUFFICES ASSUME TypeOK, SenderInv, [Next]_vars
             PROVE  SenderInv'
  OBVIOUS
<1>1. ASSUME UNCHANGED <<up, proc, outbound, dialing, streams>>, ~up[Self] => queue' = queue
      PROVE  SenderInv'
  <2>1. KeepsStreams
    BY <1>1 DEF KeepsStreams, TypeOK
  <2> QED
    BY <1>1, <2>1, SenderInvKept
<1>2. ASSUME NEW d \in Destinations, Send(d) \/ SendToSelf(d)
      PROVE  SenderInv'
  BY <1>1, <1>2 DEF Send, SendToSelf, senderVars
<1>3. CASE ReuseStream
  <2>1. KeepsStreams
    BY <1>3, ReuseStreamEffect DEF KeepsStreams
  <2>2. up[Self] /\ UNCHANGED <<up, proc, outbound, dialing>>
    BY <1>3 DEF ReuseStream
  <2> QED
    BY <2>1, <2>2, SenderInvKept
<1>4. CASE StartDial
  BY <1>4, SenderInvAtStartDial
<1>5. ASSUME NEW m \in dialing, DialSucceeds(m)
      PROVE  SenderInv'
  BY <1>5, SenderInvAtDial
<1>6. ASSUME NEW m \in dialing, DialOfReportFails(m)
      PROVE  SenderInv'
  <2>1. UNCHANGED <<up, proc, outbound, queue, streams>> /\ dialing' \subseteq dialing
    BY <1>6 DEF DialOfReportFails
  <2>2. KeepsStreams
    BY <2>1 DEF KeepsStreams, TypeOK
  <2> QED
    BY <2>1, <2>2, SenderInvKept
<1>7. ASSUME NEW m \in dialing, DialOfObserveFails(m)
      PROVE  SenderInv'
  BY <1>7, SenderInvAtEnd DEF DialOfObserveFails
<1>8. CASE CrashSelf
  BY <1>8, SenderInvAtEnd DEF CrashSelf
<1>9. CASE RestartSelf
  BY <1>9, SenderInvAtRestart
<1>10. CASE \/ \E n \in DOMAIN streams : CreateInboundStream(n) \/ Receive(n) \/ EndInbound(n)
            \/ \E p \in Peers : CrashPeer(p) \/ RestartPeer(p) \/ LoseConnection(p)
  <2>1. KeepsStreams /\ up'[Self] = up[Self] /\ UNCHANGED <<proc, outbound, queue, dialing>>
    BY <1>10, ReceiversKeep
  <2> QED
    BY <2>1, SenderInvKept
<1>11. CASE UNCHANGED vars
  BY <1>1, <1>11 DEF vars, senderVars
<1> QED
  BY <1>2, <1>3, <1>4, <1>5, <1>6, <1>7, <1>8, <1>9, <1>10, <1>11 DEF Next

LEMMA SenderInvariant == Spec => [](TypeOK /\ SenderInv)
<1>1. Init => TypeOK /\ SenderInv
  BY InitType, InitSender
<1>2. TypeOK /\ SenderInv /\ [Next]_vars => (TypeOK /\ SenderInv)'
  BY TypePreserved, SenderPreserved
<1> QED
  BY <1>1, <1>2, PTL DEF Spec

\* The mutex that is held while a peer is dialled keeps a process from making a
\* second stream for the same protocol and peer.
THEOREM OneStream == Spec => []OneStreamPerDestination
<1>1. TypeOK /\ SenderInv => OneStreamPerDestination
  BY DEF SenderInv
<1> QED
  BY <1>1, SenderInvariant, PTL

(***************************************************************************)
(* The receivers: what is cut off                                          *)
(***************************************************************************)

\* The entry of the map of a peer is a stream that was handled, and older than
\* those that are still to be handled.
ReceiverInv ==
  \A d \in Destinations : inbound[d] # 0 =>
    /\ streams[inbound[d]].dest = d /\ streams[inbound[d]].loop # "offered"
    /\ \A n \in DOMAIN streams :
         streams[n].dest = d /\ streams[n].loop = "offered" => inbound[d] < n

\* A step that offers no stream and changes no entry but to delete it.
LEMMA ReceiverInvKept ==
  ASSUME TypeOK, ReceiverInv, KeepsStreams,
         \A d \in Destinations : inbound'[d] \in {0, inbound[d]},
         \A n \in DOMAIN streams :
           streams'[n].loop = "offered" <=> streams[n].loop = "offered"
  PROVE  ReceiverInv'
<1>1. DOMAIN streams' = DOMAIN streams
  BY KeepsDomain
<1>2. \A d \in Destinations : inbound[d] # 0 => inbound[d] \in DOMAIN streams
  BY StreamDomains DEF TypeOK
<1> QED
  BY <1>1, <1>2 DEF ReceiverInv, KeepsStreams

LEMMA ReceiverPreserved == TypeOK /\ ReceiverInv /\ [Next]_vars => ReceiverInv'
<1> SUFFICES ASSUME TypeOK, ReceiverInv, [Next]_vars
             PROVE  ReceiverInv'
  OBVIOUS
<1>1. ASSUME UNCHANGED <<streams, inbound>>
      PROVE  ReceiverInv'
  BY <1>1 DEF ReceiverInv
<1>2. ASSUME NEW d \in Destinations, Send(d) \/ SendToSelf(d)
      PROVE  ReceiverInv'
  BY <1>1, <1>2 DEF Send, SendToSelf
<1>3. CASE ReuseStream
  <2>1. UNCHANGED inbound
    BY <1>3 DEF ReuseStream
  <2> QED
    BY <1>3, <2>1, ReuseStreamEffect, ReceiverInvKept DEF KeepsStreams
<1>4. CASE StartDial
  BY <1>1, <1>4 DEF StartDial
<1>5. ASSUME NEW m \in dialing, DialSucceeds(m)
      PROVE  ReceiverInv'
  <2>1. /\ \A k \in DOMAIN streams : streams'[k] = streams[k]
        /\ DOMAIN streams' = DOMAIN streams \cup {Len(streams) + 1}
    <3>1. /\ \A k \in DOMAIN streams : streams'[k] = streams[k]
          /\ streams' \in Seq(Stream) /\ Len(streams') = Len(streams) + 1
      BY <1>5, DialSucceedsEffect
    <3> QED
      BY <3>1, StreamDomains
  <2>2. UNCHANGED inbound
    BY <1>5 DEF DialSucceeds
  <2>3. \A d \in Destinations : inbound[d] # 0 =>
          inbound[d] \in DOMAIN streams /\ inbound[d] < Len(streams) + 1
    BY StreamDomains DEF TypeOK
  <2> QED
    BY <2>1, <2>2, <2>3 DEF ReceiverInv
<1>6. ASSUME NEW m \in dialing, DialOfReportFails(m)
      PROVE  ReceiverInv'
  BY <1>1, <1>6 DEF DialOfReportFails
<1>7. ASSUME EndOfSelf, UNCHANGED inbound
      PROVE  ReceiverInv'
  BY <1>7, EndOfSelfEffect, ReceiverInvKept DEF KeepsStreams
<1>8. ASSUME NEW m \in dialing, DialOfObserveFails(m)
      PROVE  ReceiverInv'
  BY <1>7, <1>8 DEF DialOfObserveFails
<1>9. ASSUME NEW n \in DOMAIN streams, CreateInboundStream(n)
      PROVE  ReceiverInv'
  <2> DEFINE e == streams[n].dest
  <2>1. /\ e \in Destinations /\ inbound' = [inbound EXCEPT ![e] = n]
        /\ \A k \in StreamsOf(e) : streams[k].loop = "offered" => k >= n
        /\ Len(streams') = Len(streams) /\ streams' \in Seq(Stream)
        /\ \A k \in DOMAIN streams :
             /\ streams'[k].dest = streams[k].dest
             /\ streams'[k].loop = CASE k = n -> "reading"
                                     [] k # n /\ k = inbound[e] -> "aborted"
                                     [] OTHER -> streams[k].loop
    BY <1>9, CreateInboundStreamEffect
  <2>2. DOMAIN streams' = DOMAIN streams /\ \A k \in DOMAIN streams : k \in Nat
    BY <2>1, StreamDomains
  <2>3. \A k \in DOMAIN streams : streams'[k].loop = "offered" => streams[k].loop = "offered" /\ k # n
    BY <2>1
  <2>4. \A d \in Destinations : inbound'[d] = IF d = e THEN n ELSE inbound[d]
    BY <2>1 DEF TypeOK
  <2>5. ASSUME NEW d \in Destinations, inbound[d] # 0
        PROVE  inbound[d] \in DOMAIN streams
    BY <2>5, StreamDomains DEF TypeOK
  <2> SUFFICES ASSUME NEW d \in Destinations, inbound'[d] # 0
               PROVE  /\ streams'[inbound'[d]].dest = d /\ streams'[inbound'[d]].loop # "offered"
                      /\ \A k \in DOMAIN streams :
                           streams'[k].dest = d /\ streams'[k].loop = "offered" => inbound'[d] < k
    BY <2>2 DEF ReceiverInv
  <2>6. CASE d = e
    <3>1. inbound'[d] = n /\ streams'[n].dest = d /\ streams'[n].loop # "offered"
      BY <2>1, <2>4, <2>6
    <3>2. ASSUME NEW k \in DOMAIN streams, streams'[k].dest = d, streams'[k].loop = "offered"
          PROVE  n < k
      <4>1. k \in StreamsOf(e) /\ streams[k].loop = "offered" /\ k # n
        BY <2>1, <2>3, <2>6, <3>2 DEF StreamsOf
      <4>2. k >= n /\ k \in Nat /\ n \in Nat
        BY <2>1, <2>2, <4>1
      <4> QED
        BY <4>1, <4>2
    <3> QED
      BY <3>1, <3>2
  <2>7. CASE d # e
    <3>1. inbound'[d] = inbound[d] /\ inbound[d] \in DOMAIN streams
      BY <2>4, <2>5, <2>7
    <3>2. streams'[inbound[d]].dest = d /\ streams'[inbound[d]].loop # "offered"
      BY <2>1, <2>3, <3>1 DEF ReceiverInv
    <3> QED
      BY <2>1, <2>3, <3>1, <3>2 DEF ReceiverInv
  <2> QED
    BY <2>6, <2>7
<1>10. ASSUME NEW n \in DOMAIN streams, Receive(n)
       PROVE  ReceiverInv'
  <2>1. UNCHANGED inbound
    BY <1>10 DEF Receive
  <2> QED
    BY <1>10, <2>1, ReceiveEffect, ReceiverInvKept DEF KeepsStreams
<1>11. ASSUME NEW n \in DOMAIN streams, EndInbound(n)
       PROVE  ReceiverInv'
  <2>1. streams[n].loop # "offered"
    BY <1>11 DEF EndInbound
  <2>2. \A d \in Destinations : inbound'[d] \in {0, inbound[d]}
    BY <1>11, EndInboundEffect DEF TypeOK
  <2> QED
    BY <1>11, <2>1, <2>2, EndInboundEffect, ReceiverInvKept DEF KeepsStreams
<1>12. CASE CrashSelf
  BY <1>7, <1>12 DEF CrashSelf
<1>13. CASE RestartSelf
  BY <1>1, <1>13 DEF RestartSelf
<1>14. ASSUME NEW p \in Peers, CrashPeer(p)
       PROVE  ReceiverInv'
  <2>1. /\ Len(streams') = Len(streams) /\ streams' \in Seq(Stream)
        /\ \A d \in Destinations : inbound'[d] \in {0, inbound[d]}
        /\ \A d \in Destinations : inbound'[d] # 0 => Peer(d) # p
        /\ \A k \in DOMAIN streams :
             /\ streams'[k].dest = streams[k].dest
             /\ Peer(streams[k].dest) # p => streams'[k] = streams[k]
    BY <1>14, CrashPeerEffect
  <2>2. DOMAIN streams' = DOMAIN streams
    BY <2>1, StreamDomains
  <2>3. \A d \in Destinations : inbound[d] # 0 => inbound[d] \in DOMAIN streams
    BY StreamDomains DEF TypeOK
  <2>4. ASSUME NEW d \in Destinations, inbound'[d] # 0
        PROVE  inbound'[d] = inbound[d] /\ \A k \in DOMAIN streams :
                 streams[k].dest = d => streams'[k] = streams[k]
    BY <2>1, <2>4
  <2> QED
    BY <2>1, <2>2, <2>3, <2>4 DEF ReceiverInv
<1>15. ASSUME NEW p \in Peers, RestartPeer(p)
       PROVE  ReceiverInv'
  BY <1>1, <1>15 DEF RestartPeer
<1>16. ASSUME NEW p \in Peers, LoseConnection(p)
       PROVE  ReceiverInv'
  <2>1. UNCHANGED inbound
    BY <1>16 DEF LoseConnection
  <2> QED
    BY <1>16, <2>1, LoseConnectionEffect, ReceiverInvKept DEF KeepsStreams
<1>17. CASE UNCHANGED vars
  BY <1>1, <1>17 DEF vars
<1> QED
  BY <1>2, <1>3, <1>4, <1>5, <1>6, <1>8, <1>9, <1>10, <1>11, <1>12, <1>13, <1>14, <1>15,
     <1>16, <1>17 DEF Next

\* The stream that is replaced when another one of the same peer is handled is
\* one of an earlier process of the sender, which has died with it.
LEMMA PriorIsDead ==
  ASSUME TypeOK, SenderInv, ReceiverInv,
         NEW n \in DOMAIN streams, streams[n].loop = "offered",
         NEW k \in DOMAIN streams, k = inbound[streams[n].dest]
  PROVE  ~streams[k].live
<1> DEFINE d == streams[n].dest
<1>1. d \in Destinations /\ inbound[d] # 0 /\ k \in Nat /\ n \in Nat
  BY StreamDomains
<1>2. streams[k].dest = d /\ k < n
  BY <1>1 DEF ReceiverInv
<1>3. SUFFICES ASSUME streams[k].live
               PROVE  FALSE
  OBVIOUS
<1>4. /\ streams[k].proc = proc /\ streams[k].proc <= streams[n].proc /\ streams[n].proc <= proc
      /\ proc \in Nat /\ streams[n].proc \in Nat
  BY <1>1, <1>2, <1>3, StreamDomains DEF SenderInv, NothingOutlives, ProcessesInOrder, TypeOK
<1>5. streams[n].proc = streams[k].proc
  BY <1>4
<1> QED
  BY <1>1, <1>2, <1>5 DEF SenderInv, OneStreamPerDestination

CutByFault ==
  \A n \in DOMAIN streams :
    streams[n].live /\ ~streams'[n].live => up' # up \/ faults' # faults

LEMMA CutsAreFaults ==
  TypeOK /\ SenderInv /\ ReceiverInv /\ [Next]_vars => CutByFault
<1> SUFFICES ASSUME TypeOK, SenderInv, ReceiverInv, [Next]_vars
             PROVE  CutByFault
  OBVIOUS
<1>1. ASSUME UNCHANGED streams
      PROVE  CutByFault
  BY <1>1 DEF CutByFault
<1>2. ASSUME NEW d \in Destinations, Send(d) \/ SendToSelf(d)
      PROVE  CutByFault
  BY <1>1, <1>2 DEF Send, SendToSelf
<1>3. CASE ReuseStream
  BY <1>3, ReuseStreamEffect DEF CutByFault
<1>4. CASE StartDial
  BY <1>1, <1>4 DEF StartDial
<1>5. ASSUME NEW m \in dialing, DialSucceeds(m)
      PROVE  CutByFault
  BY <1>5, DialSucceedsEffect DEF CutByFault
<1>6. ASSUME NEW m \in dialing, DialOfReportFails(m)
      PROVE  CutByFault
  BY <1>1, <1>6 DEF DialOfReportFails
<1>7. ASSUME NEW m \in dialing, DialOfObserveFails(m)
      PROVE  CutByFault
  <2>1. up[Self] /\ ~up'[Self]
    BY <1>7, EndOfSelfEffect DEF DialOfObserveFails
  <2> QED
    BY <2>1 DEF CutByFault
<1>8. ASSUME NEW n \in DOMAIN streams, CreateInboundStream(n)
      PROVE  CutByFault
  <2>1. /\ streams[n].loop = "offered"
        /\ \A k \in DOMAIN streams :
             streams'[k].live = (streams[k].live /\ k # inbound[streams[n].dest])
    BY <1>8, CreateInboundStreamEffect
  <2> QED
    BY <2>1, PriorIsDead DEF CutByFault
<1>9. ASSUME NEW n \in DOMAIN streams, Receive(n)
      PROVE  CutByFault
  BY <1>9, ReceiveEffect DEF CutByFault
<1>10. ASSUME NEW n \in DOMAIN streams, EndInbound(n)
       PROVE  CutByFault
  BY <1>10, EndInboundEffect DEF CutByFault
<1>11. ASSUME Fault
       PROVE  CutByFault
  <2>1. faults' = faults + 1 /\ faults \in Nat
    BY <1>11 DEF Fault, TypeOK
  <2> QED
    BY <2>1 DEF CutByFault
<1>12. CASE CrashSelf
  BY <1>11, <1>12 DEF CrashSelf
<1>13. CASE RestartSelf
  BY <1>1, <1>13 DEF RestartSelf
<1>14. ASSUME NEW p \in Peers, CrashPeer(p) \/ LoseConnection(p)
       PROVE  CutByFault
  BY <1>11, <1>14 DEF CrashPeer, LoseConnection
<1>15. ASSUME NEW p \in Peers, RestartPeer(p)
       PROVE  CutByFault
  BY <1>1, <1>15 DEF RestartPeer
<1>16. CASE UNCHANGED vars
  BY <1>1, <1>16 DEF vars
<1> QED
  BY <1>2, <1>3, <1>4, <1>5, <1>6, <1>7, <1>8, <1>9, <1>10, <1>12, <1>13, <1>14, <1>15,
     <1>16 DEF Next

LEMMA ReceiverInvariant == Spec => [](TypeOK /\ SenderInv /\ ReceiverInv)
<1>1. Init => ReceiverInv
  BY DEF Init, ReceiverInv
<1> QED
  BY <1>1, SenderInvariant, ReceiverPreserved, PTL DEF Spec

\* Replacing inbound streams and deleting entries of the map never cuts off a
\* sender that is alive.
THEOREM CutsNeedFaults == Spec => OnlyFaultsCutStreams
<1>1. TypeOK /\ SenderInv /\ ReceiverInv /\ [Next]_vars =>
        [\A n \in DOMAIN streams :
           streams[n].live /\ ~streams'[n].live => up' # up \/ faults' # faults]_vars
  BY CutsAreFaults DEF CutByFault
<1> QED
  BY <1>1, ReceiverInvariant, PTL DEF Spec, OnlyFaultsCutStreams

(***************************************************************************)
(* The order of messages                                                   *)
(***************************************************************************)

Ascending(s) == \A k, l \in DOMAIN s : k < l => s[k].id < s[l].id

LEMMA EmptyWire == ToSet(<<>>) = {} /\ Ascending(<<>>) /\ <<>> \in Seq(Message)
BY DEF ToSet, Ascending

LEMMA AppendedMessage ==
  ASSUME NEW s \in Seq(Message), NEW m \in Message
  PROVE  /\ ToSet(Append(s, m)) = ToSet(s) \cup {m}
         /\ Ascending(s) /\ (\A x \in ToSet(s) : x.id < m.id) => Ascending(Append(s, m))
<1>1. /\ Len(s) \in Nat /\ DOMAIN s = 1..Len(s) /\ DOMAIN Append(s, m) = 1..(Len(s) + 1)
      /\ \A k \in 1..Len(s) : Append(s, m)[k] = s[k]
      /\ Append(s, m)[Len(s) + 1] = m
  BY AppendProperties
<1>2. DOMAIN Append(s, m) = DOMAIN s \cup {Len(s) + 1}
  BY <1>1
<1>3. ToSet(Append(s, m)) = ToSet(s) \cup {m}
  BY <1>1, <1>2 DEF ToSet
<1>4. ASSUME Ascending(s), \A x \in ToSet(s) : x.id < m.id,
             NEW k \in DOMAIN Append(s, m), NEW l \in DOMAIN Append(s, m), k < l
      PROVE  Append(s, m)[k].id < Append(s, m)[l].id
  <2>1. k \in DOMAIN s
    BY <1>1, <1>4
  <2>2. CASE l \in DOMAIN s
    BY <1>1, <1>4, <2>1, <2>2 DEF Ascending
  <2>3. CASE l = Len(s) + 1
    BY <1>1, <1>4, <2>1, <2>3 DEF ToSet
  <2> QED
    BY <1>2, <2>2, <2>3
<1> QED
  BY <1>3, <1>4 DEF Ascending

LEMMA FirstMessage ==
  ASSUME NEW s \in Seq(Message), s # <<>>
  PROVE  /\ Head(s) \in Message /\ Tail(s) \in Seq(Message)
         /\ ToSet(s) = ToSet(Tail(s)) \cup {Head(s)}
         /\ Ascending(s) => Ascending(Tail(s)) /\ \A x \in ToSet(Tail(s)) : Head(s).id < x.id
<1>1. /\ Len(s) \in Nat \ {0} /\ DOMAIN s = 1..Len(s) /\ DOMAIN Tail(s) = 1..(Len(s) - 1)
      /\ \A k \in 1..(Len(s) - 1) : Tail(s)[k] = s[k + 1]
      /\ Head(s) = s[1] /\ Head(s) \in Message /\ Tail(s) \in Seq(Message)
  BY HeadTailProperties, EmptySeq
<1>2. ToSet(s) \subseteq ToSet(Tail(s)) \cup {Head(s)}
  <2> SUFFICES ASSUME NEW k \in DOMAIN s, k # 1
               PROVE  s[k] \in ToSet(Tail(s))
    BY <1>1 DEF ToSet
  <2>1. k - 1 \in 1..(Len(s) - 1) /\ (k - 1) + 1 = k
    BY <1>1
  <2> QED
    BY <1>1, <2>1 DEF ToSet
<1>3. ToSet(Tail(s)) \cup {Head(s)} \subseteq ToSet(s)
  <2>1. \A k \in 1..(Len(s) - 1) : k + 1 \in DOMAIN s
    BY <1>1
  <2> QED
    BY <1>1, <2>1 DEF ToSet
<1>4. Ascending(s) => Ascending(Tail(s)) /\ \A x \in ToSet(Tail(s)) : Head(s).id < x.id
  <2> SUFFICES ASSUME Ascending(s)
               PROVE  Ascending(Tail(s)) /\ \A x \in ToSet(Tail(s)) : Head(s).id < x.id
    OBVIOUS
  <2>1. \A k \in 1..(Len(s) - 1) : k + 1 \in DOMAIN s /\ 1 < k + 1 /\ 1 \in DOMAIN s
    BY <1>1
  <2>2. \A k, l \in 1..(Len(s) - 1) : k < l => k + 1 < l + 1
    BY <1>1
  <2> QED
    BY <1>1, <2>1, <2>2 DEF Ascending, ToSet
<1> QED
  BY <1>1, <1>2, <1>3, <1>4

\* The calls of getOutboundStream that are not done, in the order of the sends.
Calls == ToSet(queue) \cup dialing

CallsInOrder ==
  /\ Ascending(queue)
  /\ \A m \in dialing, x \in ToSet(queue) : m.id < x.id

\* A call comes after all that its process has already sent to the destination.
CallsAreNew ==
  \A m \in Calls :
    /\ m.proc = proc /\ m.id <= sentCount /\ Peer(m.dest) # Self
    /\ \A n \in DOMAIN streams :
         streams[n].dest = m.dest /\ streams[n].proc = proc =>
           \A x \in ToSet(streams[n].wire) : x.id < m.id
    /\ \A y \in ToSet(received[m.dest]) : y.proc = proc => y.id < m.id

\* A stream carries the messages of one process, in their order, and they come
\* after all that was received of that process.
WiresInOrder ==
  \A n \in DOMAIN streams :
    /\ Peer(streams[n].dest) # Self
    /\ Ascending(streams[n].wire)
    /\ \A x \in ToSet(streams[n].wire) :
         /\ x.proc = streams[n].proc /\ x.id <= sentCount
         /\ \A y \in ToSet(received[streams[n].dest]) : y.proc = x.proc => y.id < x.id

ReceivedWereSent == \A d \in Destinations : \A y \in ToSet(received[d]) : y.id <= sentCount

OrderInv ==
  /\ CallsInOrder
  /\ CallsAreNew
  /\ WiresInOrder
  /\ ReceivedWereSent
  /\ ReceivedInOrder

LEMMA InitOrder == Init => OrderInv
<1>1. Init => \A d \in Destinations : received[d] = <<>>
  BY DEF Init
<1> QED
  BY <1>1, EmptyWire DEF Init, OrderInv, CallsInOrder, CallsAreNew, Calls, WiresInOrder,
       ReceivedWereSent, ReceivedInOrder

\* A step that only drops calls and messages on the wire.
LEMMA OrderKept ==
  ASSUME TypeOK, OrderInv, KeepsStreams,
         UNCHANGED <<proc, sentCount, received>>,
         queue' = queue \/ queue' = <<>>, dialing' \subseteq dialing,
         \A n \in DOMAIN streams :
           streams'[n].wire = streams[n].wire \/ streams'[n].wire = <<>>
  PROVE  OrderInv'
<1>1. DOMAIN streams' = DOMAIN streams
  BY KeepsDomain
<1>2. ToSet(queue') \subseteq ToSet(queue) /\ (Ascending(queue) => Ascending(queue'))
  BY EmptyWire
<1>3. \A n \in DOMAIN streams :
        /\ ToSet(streams'[n].wire) \subseteq ToSet(streams[n].wire)
        /\ Ascending(streams[n].wire) => Ascending(streams'[n].wire)
  BY EmptyWire
<1>4. CallsInOrder'
  BY <1>2 DEF OrderInv, CallsInOrder
<1>5. CallsAreNew'
  BY <1>1, <1>2, <1>3 DEF OrderInv, CallsAreNew, Calls, KeepsStreams
<1>6. WiresInOrder'
  BY <1>1, <1>3 DEF OrderInv, WiresInOrder, KeepsStreams
<1>7. ReceivedWereSent' /\ ReceivedInOrder'
  BY DEF OrderInv, ReceivedWereSent, ReceivedInOrder
<1> QED
  BY <1>4, <1>5, <1>6, <1>7 DEF OrderInv

\* The types of messages, sent, waiting and received.
LEMMA MessageTypes ==
  ASSUME TypeOK
  PROVE  /\ sentCount \in Nat /\ proc \in Nat
         /\ \A m \in Message : m.id \in Nat /\ m.dest \in Destinations /\ m.proc \in Nat
         /\ queue \in Seq(Message) /\ dialing \subseteq Message /\ Calls \subseteq Message
         /\ \A d \in Destinations : received[d] \in Seq(Message) /\ ToSet(received[d]) \subseteq Message
         /\ \A n \in DOMAIN streams :
              streams[n].wire \in Seq(Message) /\ ToSet(streams[n].wire) \subseteq Message
<1>1. \A s \in Seq(Message) : ToSet(s) \subseteq Message
  BY DEF ToSet
<1>2. \A n \in DOMAIN streams : streams[n].wire \in Seq(Message)
  BY StreamDomains DEF Stream
<1>3. \A m \in Message : m.id \in Nat /\ m.dest \in Destinations /\ m.proc \in Nat
  BY DEF Message
<1> QED
  BY <1>1, <1>2, <1>3 DEF TypeOK, Calls

LEMMA OrderAtSend ==
  ASSUME TypeOK, OrderInv, NEW d \in Destinations, Send(d)
  PROVE  OrderInv'
<1> DEFINE m == NextMessage(d)
<1>1. /\ m \in Message /\ m.id = sentCount + 1 /\ m.dest = d /\ m.proc = proc
      /\ sentCount' = sentCount + 1 /\ Peer(d) # Self
      /\ queue' = Append(queue, m) /\ UNCHANGED <<proc, dialing, streams, received>>
  BY NextMessageType DEF Send, NextMessage
<1> HIDE DEF m
<1>2. ToSet(queue') = ToSet(queue) \cup {m} /\ Calls' = Calls \cup {m}
  BY <1>1, AppendedMessage, MessageTypes DEF Calls
<1>3. \A x \in Calls : x.id <= sentCount /\ x.id \in Nat /\ x.id < m.id
  BY <1>1, MessageTypes DEF OrderInv, CallsAreNew
<1>4. CallsInOrder'
  <2>1. Ascending(queue')
    BY <1>1, <1>3, AppendedMessage, MessageTypes DEF OrderInv, CallsInOrder, Calls
  <2>2. \A x \in dialing : x.id < m.id
    BY <1>3 DEF Calls
  <2> QED
    BY <1>1, <1>2, <2>1, <2>2 DEF OrderInv, CallsInOrder
<1>5. \A n \in DOMAIN streams : \A x \in ToSet(streams[n].wire) : x.id <= sentCount /\ x.id < m.id
  BY <1>1, MessageTypes DEF OrderInv, WiresInOrder
<1>6. \A e \in Destinations : \A y \in ToSet(received[e]) : y.id <= sentCount /\ y.id < m.id
  <2> SUFFICES ASSUME NEW e \in Destinations, NEW y \in ToSet(received[e])
               PROVE  y.id <= sentCount /\ y.id < m.id
    OBVIOUS
  <2>1. y.id \in Nat /\ sentCount \in Nat
    BY MessageTypes
  <2>2. y.id <= sentCount
    BY DEF OrderInv, ReceivedWereSent
  <2> QED
    BY <1>1, <2>1, <2>2
<1>7. CallsAreNew'
  <2>1. \A x \in Calls : x.id <= sentCount + 1
    BY <1>3, MessageTypes
  <2> QED
    BY <1>1, <1>2, <1>5, <1>6, <2>1, MessageTypes DEF OrderInv, CallsAreNew
<1>8. WiresInOrder'
  <2>1. \A n \in DOMAIN streams : \A x \in ToSet(streams[n].wire) : x.id <= sentCount + 1
    BY <1>5, MessageTypes
  <2> QED
    BY <1>1, <2>1 DEF OrderInv, WiresInOrder
<1>9. ReceivedWereSent'
  <2>1. \A e \in Destinations : \A y \in ToSet(received[e]) : y.id <= sentCount + 1
    BY <1>6, MessageTypes
  <2> QED
    BY <1>1, <2>1 DEF ReceivedWereSent
<1>10. ReceivedInOrder'
  BY <1>1 DEF OrderInv, ReceivedInOrder
<1> QED
  BY <1>4, <1>7, <1>8, <1>9, <1>10 DEF OrderInv

\* A message that is appended to what was received at d.
LEMMA OrderOfReceived ==
  ASSUME TypeOK, ReceivedInOrder, NEW d \in Destinations, NEW m \in Message,
         received' = [received EXCEPT ![d] = Append(received[d], m)],
         \A y \in ToSet(received[d]) : y.proc = m.proc => y.id < m.id
  PROVE  /\ ReceivedInOrder'
         /\ ToSet(received'[d]) = ToSet(received[d]) \cup {m}
         /\ \A e \in Destinations \ {d} : received'[e] = received[e]
<1>1. /\ received'[d] = Append(received[d], m) /\ received[d] \in Seq(Message)
      /\ \A e \in Destinations \ {d} : received'[e] = received[e]
  BY DEF TypeOK
<1>2. ToSet(received'[d]) = ToSet(received[d]) \cup {m}
  BY <1>1, AppendedMessage
<1>3. ASSUME NEW k \in DOMAIN received'[d], NEW l \in DOMAIN received'[d], k < l,
             received'[d][k].proc = received'[d][l].proc
      PROVE  received'[d][k].id < received'[d][l].id
  <2> DEFINE s == received[d]
  <2>1. /\ Len(s) \in Nat /\ DOMAIN s = 1..Len(s) /\ DOMAIN received'[d] = 1..(Len(s) + 1)
        /\ \A j \in 1..Len(s) : received'[d][j] = s[j]
        /\ received'[d][Len(s) + 1] = m
    BY <1>1, AppendProperties
  <2>2. k \in DOMAIN s
    BY <1>3, <2>1
  <2>3. CASE l \in DOMAIN s
    BY <1>3, <2>1, <2>2, <2>3 DEF ReceivedInOrder
  <2>4. CASE l = Len(s) + 1
    BY <1>3, <2>1, <2>2, <2>4 DEF ToSet
  <2> QED
    BY <2>1, <2>3, <2>4
<1> QED
  BY <1>1, <1>2, <1>3 DEF ReceivedInOrder

LEMMA OrderAtSendToSelf ==
  ASSUME TypeOK, OrderInv, NEW d \in Destinations, SendToSelf(d)
  PROVE  OrderInv'
<1> DEFINE m == NextMessage(d)
<1>1. /\ m \in Message /\ m.id = sentCount + 1 /\ m.dest = d
      /\ sentCount' = sentCount + 1 /\ Peer(d) = Self
      /\ received' = [received EXCEPT ![d] = Append(received[d], m)]
      /\ UNCHANGED <<proc, queue, dialing, streams>>
  BY NextMessageType DEF SendToSelf, NextMessage, senderVars
<1> HIDE DEF m
<1>2. \A y \in ToSet(received[d]) : y.id < m.id
  BY <1>1, MessageTypes DEF OrderInv, ReceivedWereSent
<1>3. /\ ReceivedInOrder'
      /\ ToSet(received'[d]) = ToSet(received[d]) \cup {m}
      /\ \A e \in Destinations \ {d} : received'[e] = received[e]
  BY <1>1, <1>2, OrderOfReceived DEF OrderInv
<1>4. CallsInOrder'
  BY <1>1 DEF OrderInv, CallsInOrder
<1>5. \A j \in Nat : j <= sentCount => j <= sentCount'
  BY <1>1, MessageTypes
<1>6. CallsAreNew'
  <2>1. \A x \in Calls : x.dest \in Destinations \ {d} /\ x.id <= sentCount'
    BY <1>1, <1>5, MessageTypes DEF OrderInv, CallsAreNew
  <2> QED
    BY <1>1, <1>3, <2>1 DEF OrderInv, CallsAreNew, Calls
<1>7. WiresInOrder'
  <2>1. \A n \in DOMAIN streams : /\ streams[n].dest \in Destinations \ {d}
                                  /\ \A x \in ToSet(streams[n].wire) : x.id <= sentCount'
    BY <1>1, <1>5, MessageTypes, StreamDomains DEF OrderInv, WiresInOrder
  <2> QED
    BY <1>1, <1>3, <2>1 DEF OrderInv, WiresInOrder
<1>8. ReceivedWereSent'
  <2>1. \A e \in Destinations : \A y \in ToSet(received[e]) : y.id <= sentCount'
    BY <1>5, MessageTypes DEF OrderInv, ReceivedWereSent
  <2>2. m.id <= sentCount'
    BY <1>1, MessageTypes
  <2> QED
    BY <1>3, <2>1, <2>2 DEF ReceivedWereSent
<1> QED
  BY <1>3, <1>4, <1>6, <1>7, <1>8 DEF OrderInv

\* The first call pushes its message on the stream of the map.
LEMMA OrderAtReuse ==
  ASSUME TypeOK, SenderInv, OrderInv, ReuseStream
  PROVE  OrderInv'
<1> DEFINE m == Head(queue)
           n == outbound[m.dest]
<1>1. /\ dialing = {} /\ queue # <<>> /\ m \in Message /\ n \in DOMAIN streams
      /\ queue' = Tail(queue)
      /\ streams' \in Seq(Stream) /\ Len(streams') = Len(streams)
      /\ \A k \in DOMAIN streams :
           /\ streams'[k].dest = streams[k].dest /\ streams'[k].proc = streams[k].proc
           /\ streams'[k].wire =
                IF k = n /\ streams[n].live
                  THEN Append(streams[k].wire, m) ELSE streams[k].wire
  BY ReuseStreamEffect
<1>2. UNCHANGED <<proc, dialing, sentCount, received>>
  BY DEF ReuseStream
<1>3. n # 0 /\ m.dest \in Destinations /\ streams[n].dest = m.dest /\ streams[n].proc = proc
  <2>1. n # 0
    BY DEF ReuseStream
  <2> QED
    BY <1>1, <2>1, MessageTypes DEF SenderInv, MapIsExact
<1> HIDE DEF m, n
<1>4. /\ m \in Calls /\ Calls' \subseteq Calls /\ Ascending(queue')
      /\ \A x \in Calls' : m.id < x.id
  <2>1. ToSet(queue) = ToSet(queue') \cup {m} /\ Ascending(queue)
    BY <1>1, FirstMessage, MessageTypes DEF OrderInv, CallsInOrder, m
  <2>2. Ascending(queue') /\ \A x \in ToSet(queue') : m.id < x.id
    BY <1>1, <2>1, FirstMessage, MessageTypes DEF m
  <2> QED
    BY <1>1, <1>2, <2>1, <2>2 DEF Calls
<1>5. /\ m.proc = proc /\ m.id <= sentCount /\ Peer(m.dest) # Self
      /\ \A x \in ToSet(streams[n].wire) : x.id < m.id
      /\ \A y \in ToSet(received[m.dest]) : y.proc = proc => y.id < m.id
  BY <1>1, <1>3, <1>4 DEF OrderInv, CallsAreNew
<1>6. DOMAIN streams' = DOMAIN streams
  BY <1>1, StreamDomains
<1>7. ASSUME NEW k \in DOMAIN streams
      PROVE  /\ Ascending(streams'[k].wire)
             /\ ToSet(streams'[k].wire) \subseteq ToSet(streams[k].wire) \cup (IF k = n THEN {m} ELSE {})
  <2>1. Ascending(streams[k].wire) /\ streams[k].wire \in Seq(Message)
    BY MessageTypes DEF OrderInv, WiresInOrder
  <2>2. CASE k = n /\ streams[n].live
    BY <1>1, <1>5, <2>1, <2>2, AppendedMessage
  <2>3. CASE ~(k = n /\ streams[n].live)
    BY <1>1, <2>1, <2>3
  <2> QED
    BY <2>2, <2>3
<1>8. CallsInOrder'
  BY <1>1, <1>2, <1>4 DEF CallsInOrder
<1>9. CallsAreNew'
  <2> SUFFICES ASSUME NEW c \in Calls'
               PROVE  /\ c.proc = proc /\ c.id <= sentCount /\ Peer(c.dest) # Self
                      /\ \A k \in DOMAIN streams :
                           streams[k].dest = c.dest /\ streams[k].proc = proc =>
                             \A x \in ToSet(streams'[k].wire) : x.id < c.id
                      /\ \A y \in ToSet(received[c.dest]) : y.proc = proc => y.id < c.id
    BY <1>1, <1>2, <1>6 DEF CallsAreNew
  <2>1. c \in Calls /\ m.id < c.id
    BY <1>4
  <2> QED
    BY <1>7, <2>1 DEF OrderInv, CallsAreNew
<1>10. WiresInOrder'
  <2> SUFFICES ASSUME NEW k \in DOMAIN streams
               PROVE  /\ Peer(streams[k].dest) # Self
                      /\ Ascending(streams'[k].wire)
                      /\ \A x \in ToSet(streams'[k].wire) :
                           /\ x.proc = streams[k].proc /\ x.id <= sentCount
                           /\ \A y \in ToSet(received[streams[k].dest]) : y.proc = x.proc => y.id < x.id
    BY <1>1, <1>2, <1>6 DEF WiresInOrder
  <2> QED
    BY <1>3, <1>5, <1>7 DEF OrderInv, WiresInOrder
<1>11. ReceivedWereSent' /\ ReceivedInOrder'
  BY <1>2 DEF OrderInv, ReceivedWereSent, ReceivedInOrder
<1> QED
  BY <1>8, <1>9, <1>10, <1>11 DEF OrderInv

LEMMA OrderAtStartDial ==
  ASSUME TypeOK, OrderInv, StartDial
  PROVE  OrderInv'
<1> DEFINE m == Head(queue)
<1>1. /\ dialing = {} /\ queue # <<>> /\ queue' = Tail(queue) /\ dialing' = {m}
      /\ UNCHANGED <<proc, streams, sentCount, received>>
  BY DEF StartDial
<1> HIDE DEF m
<1>2. /\ ToSet(queue) = ToSet(queue') \cup {m} /\ Ascending(queue')
      /\ \A x \in ToSet(queue') : m.id < x.id
  BY <1>1, FirstMessage, MessageTypes DEF OrderInv, CallsInOrder, m
<1>3. Calls' = Calls
  BY <1>1, <1>2 DEF Calls
<1>4. CallsInOrder'
  BY <1>1, <1>2 DEF CallsInOrder
<1> QED
  BY <1>1, <1>3, <1>4 DEF OrderInv, CallsAreNew, WiresInOrder, ReceivedWereSent, ReceivedInOrder

\* The message that waited for the dial is the first one on the new stream.
LEMMA OrderAtDial ==
  ASSUME TypeOK, SenderInv, OrderInv, NEW m \in dialing, DialSucceeds(m)
  PROVE  OrderInv'
<1> DEFINE n == Len(streams) + 1
<1>1. /\ m \in Message /\ n \in Nat
      /\ streams' \in Seq(Stream) /\ Len(streams') = n
      /\ \A k \in DOMAIN streams : streams'[k] = streams[k]
      /\ streams'[n].dest = m.dest /\ streams'[n].proc = proc /\ streams'[n].wire = <<m>>
  <2>1. /\ m \in Message /\ streams' \in Seq(Stream) /\ Len(streams') = n
        /\ \A k \in DOMAIN streams : streams'[k] = streams[k]
        /\ streams'[n] = [dest |-> m.dest, proc |-> proc, live |-> TRUE,
                          loop |-> "offered", wire |-> <<m>>]
    BY DialSucceedsEffect
  <2> QED
    BY <2>1, StreamDomains
<1>2. DOMAIN streams' = DOMAIN streams \cup {n}
  BY <1>1, StreamDomains
<1> HIDE DEF n
<1>3. dialing' = {} /\ UNCHANGED <<proc, queue, sentCount, received>>
  BY DEF DialSucceeds, SenderInv, OneCaller
<1>4. /\ m \in Calls /\ Calls' \subseteq Calls /\ \A x \in Calls' : m.id < x.id
  BY <1>3 DEF Calls, OrderInv, CallsInOrder
<1>5. ToSet(<<m>>) = {m} /\ Ascending(<<m>>)
  BY DEF ToSet, Ascending
<1>6. /\ m.proc = proc /\ m.id <= sentCount /\ Peer(m.dest) # Self
      /\ \A y \in ToSet(received[m.dest]) : y.proc = proc => y.id < m.id
  BY <1>4 DEF OrderInv, CallsAreNew
<1>7. CallsInOrder'
  BY <1>3 DEF OrderInv, CallsInOrder
<1>8. CallsAreNew'
  BY <1>1, <1>2, <1>3, <1>4, <1>5 DEF OrderInv, CallsAreNew
<1>9. WiresInOrder'
  BY <1>1, <1>2, <1>3, <1>5, <1>6 DEF OrderInv, WiresInOrder
<1>10. ReceivedWereSent' /\ ReceivedInOrder'
  BY <1>3 DEF OrderInv, ReceivedWereSent, ReceivedInOrder
<1> QED
  BY <1>7, <1>8, <1>9, <1>10 DEF OrderInv

\* The message that is read first is the next one of its process, for no other
\* stream carries messages of that process to the destination.
LEMMA OrderAtReceive ==
  ASSUME TypeOK, SenderInv, OrderInv, NEW n \in DOMAIN streams, Receive(n)
  PROVE  OrderInv'
<1> DEFINE d == streams[n].dest
           m == Head(streams[n].wire)
<1>1. /\ d \in Destinations /\ m \in Message /\ streams[n].wire # <<>>
      /\ received' = [received EXCEPT ![d] = Append(received[d], m)]
      /\ streams' \in Seq(Stream) /\ Len(streams') = Len(streams)
      /\ \A k \in DOMAIN streams :
           /\ streams'[k].dest = streams[k].dest /\ streams'[k].proc = streams[k].proc
           /\ streams'[k].wire = IF k = n THEN Tail(streams[k].wire) ELSE streams[k].wire
  BY ReceiveEffect
<1>2. UNCHANGED <<proc, queue, dialing, sentCount>>
  BY DEF Receive, senderVars
<1>3. /\ Ascending(streams'[n].wire) /\ \A x \in ToSet(streams'[n].wire) : m.id < x.id
      /\ m \in ToSet(streams[n].wire)
      /\ ToSet(streams'[n].wire) \subseteq ToSet(streams[n].wire)
  <2>1. streams[n].wire \in Seq(Message) /\ Ascending(streams[n].wire)
    BY MessageTypes DEF OrderInv, WiresInOrder
  <2> QED
    BY <1>1, <2>1, FirstMessage
<1> HIDE DEF m
<1>4. /\ m.proc = streams[n].proc /\ m.id <= sentCount
      /\ \A y \in ToSet(received[d]) : y.proc = m.proc => y.id < m.id
  BY <1>3 DEF OrderInv, WiresInOrder
<1>5. /\ ReceivedInOrder'
      /\ ToSet(received'[d]) = ToSet(received[d]) \cup {m}
      /\ \A e \in Destinations \ {d} : received'[e] = received[e]
  BY <1>1, <1>4, OrderOfReceived DEF OrderInv
<1>6. DOMAIN streams' = DOMAIN streams
  BY <1>1, StreamDomains
<1>7. \A k \in DOMAIN streams : ToSet(streams'[k].wire) \subseteq ToSet(streams[k].wire)
  BY <1>1, <1>3
<1>8. CallsInOrder'
  BY <1>2 DEF OrderInv, CallsInOrder
<1>9. CallsAreNew'
  <2> SUFFICES ASSUME NEW c \in Calls
               PROVE  /\ c.proc = proc /\ c.id <= sentCount /\ Peer(c.dest) # Self
                      /\ \A k \in DOMAIN streams :
                           streams[k].dest = c.dest /\ streams[k].proc = proc =>
                             \A x \in ToSet(streams'[k].wire) : x.id < c.id
                      /\ \A y \in ToSet(received'[c.dest]) : y.proc = proc => y.id < c.id
    BY <1>1, <1>2, <1>6 DEF CallsAreNew, Calls
  <2>1. c.dest \in Destinations
    BY MessageTypes
  <2>2. c.dest = d /\ m.proc = proc => m.id < c.id
    BY <1>3, <1>4 DEF OrderInv, CallsAreNew
  <2> QED
    BY <1>5, <1>7, <2>1, <2>2 DEF OrderInv, CallsAreNew
<1>10. WiresInOrder'
  <2> SUFFICES ASSUME NEW k \in DOMAIN streams
               PROVE  /\ Peer(streams[k].dest) # Self
                      /\ Ascending(streams'[k].wire)
                      /\ \A x \in ToSet(streams'[k].wire) :
                           /\ x.proc = streams[k].proc /\ x.id <= sentCount
                           /\ \A y \in ToSet(received'[streams[k].dest]) : y.proc = x.proc => y.id < x.id
    BY <1>1, <1>2, <1>6 DEF WiresInOrder
  <2>1. Peer(streams[k].dest) # Self /\ Ascending(streams'[k].wire)
    BY <1>1, <1>3 DEF OrderInv, WiresInOrder
  <2>2. ASSUME NEW x \in ToSet(streams'[k].wire)
        PROVE  /\ x.proc = streams[k].proc /\ x.id <= sentCount
               /\ \A y \in ToSet(received[streams[k].dest]) : y.proc = x.proc => y.id < x.id
    BY <1>7 DEF OrderInv, WiresInOrder
  <2>3. ASSUME NEW x \in ToSet(streams'[k].wire), streams[k].dest = d, m.proc = x.proc
        PROVE  m.id < x.id
    <3>1. streams[k].proc = streams[n].proc
      BY <1>4, <2>2, <2>3
    <3>2. k = n
      BY <2>3, <3>1 DEF SenderInv, OneStreamPerDestination
    <3> QED
      BY <1>3, <2>3, <3>2
  <2> QED
    BY <1>5, <2>1, <2>2, <2>3, StreamDomains
<1>11. ReceivedWereSent'
  BY <1>2, <1>4, <1>5 DEF OrderInv, ReceivedWereSent
<1> QED
  BY <1>5, <1>8, <1>9, <1>10, <1>11 DEF OrderInv

LEMMA OrderAtRestart ==
  ASSUME TypeOK, SenderInv, OrderInv, RestartSelf
  PROVE  OrderInv'
<1>1. ~up[Self] /\ UNCHANGED <<queue, dialing, streams, sentCount, received>>
  BY DEF RestartSelf
<1>2. queue = <<>> /\ dialing = {} /\ Calls = {}
  BY <1>1, EmptyWire DEF SenderInv, NothingOutlives, Calls
<1>3. CallsAreNew'
  BY <1>1, <1>2 DEF CallsAreNew, Calls
<1> QED
  BY <1>1, <1>3 DEF OrderInv, CallsInOrder, WiresInOrder, ReceivedWereSent, ReceivedInOrder

LEMMA OrderPreserved == TypeOK /\ SenderInv /\ OrderInv /\ [Next]_vars => OrderInv'
<1> SUFFICES ASSUME TypeOK, SenderInv, OrderInv, [Next]_vars
             PROVE  OrderInv'
  OBVIOUS
<1>1. ASSUME UNCHANGED <<proc, queue, streams, sentCount, received>>, dialing' \subseteq dialing
      PROVE  OrderInv'
  <2>1. KeepsStreams
    BY <1>1 DEF KeepsStreams, TypeOK
  <2> QED
    BY <1>1, <2>1, OrderKept
<1>2. ASSUME EndOfSelf, UNCHANGED <<sentCount, received>>
      PROVE  OrderInv'
  BY <1>2, EndOfSelfEffect, OrderKept DEF KeepsStreams
<1>3. ASSUME NEW m \in dialing, DialOfReportFails(m)
      PROVE  OrderInv'
  BY <1>1, <1>3 DEF DialOfReportFails
<1>4. ASSUME NEW m \in dialing, DialOfObserveFails(m)
      PROVE  OrderInv'
  BY <1>2, <1>4 DEF DialOfObserveFails
<1>5. CASE CrashSelf
  BY <1>2, <1>5 DEF CrashSelf
<1>6. ASSUME NEW n \in DOMAIN streams, CreateInboundStream(n)
      PROVE  OrderInv'
  <2>1. \A k \in DOMAIN streams : streams'[k].wire = streams[k].wire
    BY <1>6, CreateInboundStreamEffect
  <2>2. KeepsStreams /\ UNCHANGED <<proc, queue, dialing, sentCount>>
    BY <1>6, ReceiversKeep
  <2>3. UNCHANGED received
    BY <1>6 DEF CreateInboundStream
  <2> QED
    BY <2>1, <2>2, <2>3, OrderKept
<1>7. ASSUME NEW n \in DOMAIN streams, EndInbound(n)
      PROVE  OrderInv'
  <2>1. \A k \in DOMAIN streams : streams'[k].wire \in {<<>>, streams[k].wire}
    BY <1>7, EndInboundEffect
  <2>2. KeepsStreams /\ UNCHANGED <<proc, queue, dialing, sentCount>>
    BY <1>7, ReceiversKeep
  <2>3. UNCHANGED received
    BY <1>7 DEF EndInbound
  <2> QED
    BY <2>1, <2>2, <2>3, OrderKept
<1>8. ASSUME NEW p \in Peers, CrashPeer(p)
      PROVE  OrderInv'
  <2>1. \A k \in DOMAIN streams : streams'[k].wire \in {<<>>, streams[k].wire}
    BY <1>8, CrashPeerEffect
  <2>2. KeepsStreams /\ UNCHANGED <<proc, queue, dialing, sentCount>>
    BY <1>8, ReceiversKeep
  <2>3. UNCHANGED received
    BY <1>8 DEF CrashPeer
  <2> QED
    BY <2>1, <2>2, <2>3, OrderKept
<1>9. ASSUME NEW p \in Peers, RestartPeer(p)
      PROVE  OrderInv'
  BY <1>1, <1>9 DEF RestartPeer, senderVars
<1>10. ASSUME NEW p \in Peers, LoseConnection(p)
       PROVE  OrderInv'
  <2>1. \A k \in DOMAIN streams : streams'[k].wire = streams[k].wire
    BY <1>10, LoseConnectionEffect
  <2>2. KeepsStreams /\ UNCHANGED <<proc, queue, dialing, sentCount>>
    BY <1>10, ReceiversKeep
  <2>3. UNCHANGED received
    BY <1>10 DEF LoseConnection
  <2> QED
    BY <2>1, <2>2, <2>3, OrderKept
<1>11. CASE UNCHANGED vars
  BY <1>1, <1>11 DEF vars, senderVars
<1> QED
  BY <1>3, <1>4, <1>5, <1>6, <1>7, <1>8, <1>9, <1>10, <1>11, OrderAtSend, OrderAtSendToSelf,
     OrderAtReuse, OrderAtStartDial, OrderAtDial, OrderAtReceive, OrderAtRestart DEF Next

\* What a process sends to a destination arrives in the order of the sends and
\* at most once, however streams break and are replaced.
THEOREM ReceivedAsSent == Spec => []ReceivedInOrder
<1>1. TypeOK /\ SenderInv /\ OrderInv => ReceivedInOrder
  BY DEF OrderInv
<1> QED
  BY <1>1, InitOrder, SenderInvariant, OrderPreserved, PTL DEF Spec
=============================================================================
