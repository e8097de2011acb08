------------------------------ MODULE Connection ------------------------------
(***************************************************************************)
(* Two CConnection objects (Core/src/Connection.cpp), one at each end of a  *)
(* UDP path: sequence numbers, piggybacked acknowledgements, loss by age    *)
(* and the quality estimator of FlowControl.tla.  The two programs call     *)
(* Send, Receive and Update from their main loops; here they are called in  *)
(* any order, which covers both loops.                                      *)
(*                                                                         *)
(* The path may lose, delay, reorder and duplicate datagrams: network is a  *)
(* set, a datagram that is never taken out of it is a lost one.             *)
(*                                                                         *)
(* Packets of one endpoint are told apart by their ordinal n (1 for the     *)
(* first Send), which the code does not have: it only has the id, which     *)
(* wraps.  Ordinals appear in history and never decide a step, except that  *)
(* m_out is a vector in the order of sending, hence in the order of n.      *)
(***************************************************************************)
EXTENDS SequenceNumbers, FlowControl, FiniteSets

CONSTANTS
  Endpoint,       \* the ends of the paths, two for each
  Peer,           \* Peer[e] is the other end
  BITFIELD_SIZE,  \* acknowledgement bits in a packet; 32 in the code
  MAX_RTT,        \* ticks before a packet is deemed lost; 1000 ms in the code
  MaxSends,       \* model bound: MaxSends[e] is the number of Sends of e
  MaxFailures,    \* model bound: Sends of one end that the socket refuses
  Duplication,    \* whether the path may deliver a datagram more than once
  PathCapacity,   \* model bound: datagrams on their way at one time
  MaxOut          \* model bound: packets in m_out at one time

ASSUME ConnectionAssumption ==
  /\ Peer \in [Endpoint -> Endpoint]
  /\ \A e \in Endpoint : Peer[e] # e /\ Peer[Peer[e]] = e
  /\ BITFIELD_SIZE \in Nat \ {0}
  /\ BITFIELD_SIZE <= SEQ_MOD
  /\ MAX_RTT \in Nat
  /\ MAX_AGE > MAX_RTT
  /\ MaxSends \in [Endpoint -> Nat]
  /\ MaxFailures \in Nat
  /\ Duplication \in BOOLEAN
  /\ PathCapacity \in Nat
  /\ MaxOut \in Nat

VARIABLES
  m_localSequenceNum,
  m_remoteSequenceNum,
  m_out,      \* packets sent and not settled: id, time since sent, ordinal
  m_in,       \* the ids of the packets ever received: all the code looks up
  flow,       \* the quality estimator of FlowControl
  network,    \* datagrams on their way
  \* History, read by the properties only.
  sent,       \* the number of Sends
  received,   \* ordinals of the peer's packets that were received
  acked,      \* own ordinals that were taken as acknowledged
  lost,       \* own ordinals that were deemed lost
  failed,     \* own ordinals whose socket call failed
  newest,     \* the highest ordinal received, 0 before any
  near,       \* no packet ever arrived half the number space from newest
  prompt,     \* no packet stayed in m_out, and no acknowledgement was under
              \* way, while half the number space was used
  told        \* own ordinals covered by the acknowledgements received

members == <<m_localSequenceNum, m_remoteSequenceNum, m_out, m_in, flow>>
history == <<sent, received, acked, lost, failed, newest, near, prompt, told>>
vars == <<members, network, history>>

\* Whether two ordinals are less than half the number space apart.
Near(n, m) == n - m < UINT16_HALF /\ m - n < UINT16_HALF

BitIndex == 0 .. BITFIELD_SIZE - 1

\* An element of m_out: the stored CPacket (it is erased as soon as it is
\* acknowledged, so IsAcked is false of every element).
OutPacket == [id : SeqNum, n : Nat, age : Age]

\* A datagram: the header fields Receive reads.  n, newest and covers are
\* history: the ordinal, the ordinal that ack stands for, and the packets the
\* acknowledgement was meant to cover.
Datagram ==
  [from : Endpoint, id : SeqNum, n : Nat, ack : SeqNum,
   bits : SUBSET BitIndex, newest : Nat, covers : SUBSET Nat]

Init ==
  /\ m_localSequenceNum = [e \in Endpoint |-> 0]
  /\ m_remoteSequenceNum = [e \in Endpoint |-> 0]
  /\ m_out = [e \in Endpoint |-> {}]
  /\ m_in = [e \in Endpoint |-> {}]
  /\ flow = [e \in Endpoint |-> InitFlow]
  /\ network = {}
  /\ sent = [e \in Endpoint |-> 0]
  /\ received = [e \in Endpoint |-> {}]
  /\ acked = [e \in Endpoint |-> {}]
  /\ lost = [e \in Endpoint |-> {}]
  /\ failed = [e \in Endpoint |-> {}]
  /\ newest = [e \in Endpoint |-> 0]
  /\ near = [e \in Endpoint |-> TRUE]
  /\ prompt = [e \in Endpoint |-> TRUE]
  /\ told = [e \in Endpoint |-> {}]

-----------------------------------------------------------------------------
(* Send *)

\* Bit i of a packet acknowledges the id m_remoteSequenceNum - i, when a
\* packet with that id was received.
AckBits_IgnoresInQueue(remote, in) == BitIndex
AckBits_StopsShort(remote, in) ==
  {i \in BitIndex \ {BITFIELD_SIZE - 1} : SeqSub(remote, i) \in in}

AckBits(remote, in) == {i \in BitIndex : SeqSub(remote, i) \in in}

\* The received packets such an acknowledgement is about.
Window(e) == {n \in received[e] : newest[e] - n < BITFIELD_SIZE}

\* m_localSequenceNum is incremented first, whatever becomes of the packet.
NextId(e) == SeqAdd(m_localSequenceNum[e], 1)

TakeNumber(e) ==
  /\ sent[e] < MaxSends[e]
  /\ Cardinality(m_out[e]) < MaxOut
  /\ m_localSequenceNum' = [m_localSequenceNum EXCEPT ![e] = NextId(e)]
  /\ sent' = [sent EXCEPT ![e] = @ + 1]
  /\ prompt' = [prompt EXCEPT ![e] =
                  @ /\ \A p \in m_out[e] : Near(p.n, sent[e] + 1)]

Packet(e) ==
  [from |-> e, id |-> NextId(e), n |-> sent[e] + 1,
   ack |-> m_remoteSequenceNum[e],
   bits |-> AckBits(m_remoteSequenceNum[e], m_in[e]),
   newest |-> newest[e], covers |-> Window(e)]

\* SPL simulates packet loss: the packet is kept as sent, and not sent.
Send(e, SPL) ==
  /\ TakeNumber(e)
  /\ SPL \/ Cardinality(network) < PathCapacity
  /\ network' = IF SPL THEN network ELSE network \cup {Packet(e)}
  /\ m_out' = [m_out EXCEPT ![e] =
                 @ \cup {[id |-> NextId(e), n |-> sent[e] + 1, age |-> 0]}]
  /\ UNCHANGED <<m_remoteSequenceNum, m_in, flow, received, acked, lost,
                 failed, newest, near, told>>

\* The socket refuses: the number is used up, the packet is not kept.
SendFails_KeepsPacket(e) ==
  /\ TakeNumber(e)
  /\ Cardinality(failed[e]) < MaxFailures
  /\ failed' = [failed EXCEPT ![e] = @ \cup {sent[e] + 1}]
  /\ m_out' = [m_out EXCEPT ![e] =
                 @ \cup {[id |-> NextId(e), n |-> sent[e] + 1, age |-> 0]}]
  /\ UNCHANGED <<m_remoteSequenceNum, m_in, flow, network, received,
                 acked, lost, newest, near, told>>

SendFails(e) ==
  /\ TakeNumber(e)
  /\ Cardinality(failed[e]) < MaxFailures
  /\ failed' = [failed EXCEPT ![e] = @ \cup {sent[e] + 1}]
  /\ UNCHANGED <<m_remoteSequenceNum, m_out, m_in, flow, network, received,
                 acked, lost, newest, near, told>>

-----------------------------------------------------------------------------
(* Receive *)

\* SequenceComp: the packet is the one looked for.
HasId(p, id) == p.id = id

\* find_if over m_out: the first packet with the id that bit i names, as a
\* set with at most one element.
Addressed(out, ack, i) ==
  {p \in out : /\ HasId(p, SeqSub(ack, i))
               /\ \A q \in out : q.id = p.id => p.n <= q.n}

\* The packets one acknowledgement settles.  Distinct bits name distinct ids,
\* so no bit is affected by what an earlier one erased.
AckedBy_OneOff(out, d) == UNION {Addressed(out, d.ack, i + 1) : i \in d.bits}

AckedBy(out, d) == UNION {Addressed(out, d.ack, i) : i \in d.bits}

\* What bit i of the acknowledgement does to the round trip time.
Sampled(rtt, out, d, i) ==
  LET hits == Addressed(out, d.ack, i)
  IN  IF i \in d.bits /\ hits # {}
      THEN SmoothRtt(rtt, (CHOOSE p \in hits : TRUE).age) ELSE rtt

\* The round trip time after the loop over the bits.
RttAfter_SkipsFirst(rtt, out, d) ==
  LET after[i \in 0 .. BITFIELD_SIZE] ==
        IF i <= 1 THEN rtt ELSE Sampled(after[i - 1], out, d, i - 1)
  IN  after[BITFIELD_SIZE]

RttAfter(rtt, out, d) ==
  LET after[i \in 0 .. BITFIELD_SIZE] ==
        IF i = 0 THEN rtt ELSE Sampled(after[i - 1], out, d, i - 1)
  IN  after[BITFIELD_SIZE]

\* What m_remoteSequenceNum becomes.
Further_Latest(a, b) == a

Further(a, b) == IF SequenceGreaterThan(a, b) THEN a ELSE b

\* The connection e takes the datagram in.
ReceiveAt(e, d) ==
  LET hits == AckedBy(m_out[e], d)
  IN  /\ network' = IF Duplication THEN network ELSE network \ {d}
      /\ m_in' = [m_in EXCEPT ![e] = @ \cup {d.id}]
      /\ m_remoteSequenceNum' =
           [m_remoteSequenceNum EXCEPT ![e] = Further(d.id, @)]
      /\ m_out' = [m_out EXCEPT ![e] = @ \ hits]
      /\ flow' = [flow EXCEPT ![e].m_connectionRTT = RttAfter(@, m_out[e], d)]
      /\ received' = [received EXCEPT ![e] = @ \cup {d.n}]
      /\ acked' = [acked EXCEPT ![e] = @ \cup {p.n : p \in hits}]
      /\ newest' = [newest EXCEPT ![e] = IF d.n > @ THEN d.n ELSE @]
      /\ near' = [near EXCEPT ![e] = @ /\ Near(d.n, newest[e])]
      /\ prompt' = [prompt EXCEPT ![e] = @ /\ Near(d.newest, sent[e])]
      /\ told' = [told EXCEPT ![e] = @ \cup d.covers]
      /\ UNCHANGED <<m_localSequenceNum, sent, lost, failed>>

Receive(d) == ReceiveAt(Peer[d.from], d)

-----------------------------------------------------------------------------
(* Update *)

\* DetectPacketLoss: what has been under way for longer than MAX_RTT.
Late(out) == {p \in out : p.age > MAX_RTT}

Update(e) ==
  /\ m_out' = [m_out EXCEPT ![e] = @ \ Late(@)]
  /\ lost' = [lost EXCEPT ![e] = @ \cup {p.n : p \in Late(m_out[e])}]
  /\ flow' = [flow EXCEPT ![e] = DetectFlowChange(@)]
  /\ UNCHANGED <<m_localSequenceNum, m_remoteSequenceNum, m_in, network,
                 sent, received, acked, failed, newest, near, prompt,
                 told>>

\* The clock.
Tick ==
  /\ m_out' = [e \in Endpoint |->
                 {[p EXCEPT !.age = Older(@)] : p \in m_out[e]}]
  /\ flow' = [e \in Endpoint |-> OlderFlow(flow[e])]
  /\ UNCHANGED <<m_localSequenceNum, m_remoteSequenceNum, m_in, network, history>>

-----------------------------------------------------------------------------
Next ==
  \/ \E e \in Endpoint, SPL \in BOOLEAN : Send(e, SPL)
  \/ \E e \in Endpoint : SendFails(e)
  \/ \E d \in network : Receive(d)
  \/ \E e \in Endpoint : Update(e)
  \/ Tick

Spec == Init /\ [][Next]_vars

-----------------------------------------------------------------------------
(* Properties *)

(* Type correctness.                                                        *)
TypeOK ==
  /\ m_localSequenceNum \in [Endpoint -> SeqNum]
  /\ m_remoteSequenceNum \in [Endpoint -> SeqNum]
  /\ m_out \in [Endpoint -> SUBSET OutPacket]
  /\ m_in \in [Endpoint -> SUBSET SeqNum]
  /\ flow \in [Endpoint -> FlowType]
  /\ network \subseteq Datagram
  /\ sent \in [Endpoint -> Nat]
  /\ received \in [Endpoint -> SUBSET Nat]
  /\ acked \in [Endpoint -> SUBSET Nat]
  /\ lost \in [Endpoint -> SUBSET Nat]
  /\ failed \in [Endpoint -> SUBSET Nat]
  /\ newest \in [Endpoint -> Nat]
  /\ near \in [Endpoint -> BOOLEAN]
  /\ prompt \in [Endpoint -> BOOLEAN]
  /\ told \in [Endpoint -> SUBSET Nat]

OutOrdinals(e) == {p.n : p \in m_out[e]}

(* Every packet has exactly one fate at any time: still in m_out (once),     *)
(* acknowledged, deemed lost, or never accepted by the socket.  In           *)
(* particular no packet is acknowledged after it was deemed lost, and none   *)
(* is sampled twice for the round trip time.                                *)
OneFateEach ==
  \A e \in Endpoint :
    /\ 1 .. sent[e] = OutOrdinals(e) \cup acked[e] \cup lost[e] \cup failed[e]
    /\ OutOrdinals(e) \cap (acked[e] \cup lost[e] \cup failed[e]) = {}
    /\ acked[e] \cap (lost[e] \cup failed[e]) = {}
    /\ lost[e] \cap failed[e] = {}
    /\ \A p, q \in m_out[e] : p.n = q.n => p = q

\* The ends that have used no sequence number twice.
Unambiguous == {e \in Endpoint : sent[e] < SEQ_MOD}

\* Nothing outlived the use of half the number space.
AllPrompt == \A e \in Endpoint : near[e] /\ prompt[e]

(* Acknowledgements are sound: a packet that one end took as acknowledged    *)
(* did reach the other (Connection.cpp:166).                                *)
AckSound == \A e \in Endpoint : acked[e] \subseteq received[Peer[e]]

(* ... to an end that has used no sequence number twice: loss, reordering    *)
(* and duplication alone never make an acknowledgement wrong, and neither    *)
(* does what the other end has sent.                                        *)
AckSoundUntilWrap == \A e \in Unambiguous : acked[e] \subseteq received[Peer[e]]

(* ... or, after that, as long as nothing arrives late enough to be mistaken *)
(* for something else.                                                      *)
AckSoundWhilePrompt == AllPrompt => AckSound

(* Even after wrap-around an acknowledgement names an id that the other end  *)
(* has received at some time.                                               *)
AckNamesReceivedId ==
  \A e \in Endpoint : \A n \in acked[e] : n % SEQ_MOD \in m_in[Peer[e]]

(* Acknowledgements are complete, across wrap-around: once a packet of the   *)
(* peer has arrived, all that the peer had received when it sent it, back to *)
(* BITFIELD_SIZE packets behind the newest, is settled here, whatever was    *)
(* lost or reordered on the way: a packet is deemed lost only when none of   *)
(* those acknowledgements arrived in time.  It takes that nothing reached    *)
(* the peer, or stayed here, for half the number space.                      *)
AckCompleteWhilePrompt ==
  \A e \in Endpoint :
    near[Peer[e]] /\ prompt[e] => told[e] \subseteq acked[e] \cup lost[e]

(* Whatever the order of arrival, m_remoteSequenceNum is the id of the most  *)
(* recently sent packet among those received, across wrap-around, while no   *)
(* packet arrives half the number space or more away from it.                *)
RemoteIsNewest ==
  \A e \in Endpoint : near[e] => m_remoteSequenceNum[e] = newest[e] % SEQ_MOD

(* An end that has used less than half of the numbers need not be lucky:     *)
(* however late or often packets and datagrams come, all that it was told    *)
(* is settled, and its peer knows the newest of its packets.                 *)
ExactBeforeHalf ==
  \A e \in Endpoint : sent[e] < UINT16_HALF =>
    /\ told[e] \subseteq acked[e] \cup lost[e]
    /\ m_remoteSequenceNum[Peer[e]] = newest[Peer[e]]

(* All this as a service: a packet settles at most once, and for good, as    *)
(* acknowledged or lost; what failed never arrives (Send returned false:     *)
(* Connection.cpp:203); and an end that has used no sequence number twice    *)
(* takes only what arrived as acknowledged.                                  *)
Service == INSTANCE AckService WITH
  pending <- [e \in Endpoint |-> OutOrdinals(e)],
  unambiguous <- Unambiguous

ImplementsService == Service!Spec

(* The round trip time is known from the first acknowledgement on, and not   *)
(* before: every acknowledged packet, whichever bit named it, was measured.  *)
RttMeasured ==
  \A e \in Endpoint :
    acked[e] = {} <=> flow[e].m_connectionRTT = INVALID_RTT
=============================================================================
