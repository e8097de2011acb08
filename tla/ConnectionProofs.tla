--------------------------- MODULE ConnectionProofs ---------------------------
(***************************************************************************)
(* The safety properties of Connection hold for every size of the number    *)
(* type, of the bitfield and of the bounds, and for every loss, reordering  *)
(* and duplication of datagrams.                                            *)
(*                                                                         *)
(* The invariant speaks of each end by itself, and assumes of it only what  *)
(* its own history gives: G are the ends that never started anew, and old   *)
(* is what the others received before they did.  Here nobody starts anew;   *)
(* SessionProofs uses the same lemmas where clients do.                     *)
(***************************************************************************)
EXTENDS Connection, OperatorProofs

-----------------------------------------------------------------------------
(* The inductive invariant. *)

\* All that r has received: old is what it received before it started anew.
Ever(r, old) == received[r] \cup old[r]

\* s is the id of a packet that r has received at some time.
Named(r, old, s) == \E m \in Ever(r, old) : s = m % SEQ_MOD

\* Each packet of e is in at most one place.
Fates(e) ==
  /\ OutOrdinals(e) \cup acked[e] \cup lost[e] \cup failed[e] \subseteq 1 .. sent[e]
  /\ OutOrdinals(e) \cap (acked[e] \cup lost[e] \cup failed[e]) = {}
  /\ acked[e] \cap (lost[e] \cup failed[e]) = {}
  /\ lost[e] \cap failed[e] = {}
  /\ \A p, q \in m_out[e] : p.n = q.n => p = q

\* What arrived at e was sent.
Arrivals(e, old) ==
  /\ newest[e] \in {0} \cup received[e]
  /\ \A n \in received[e] : n <= newest[e]
  /\ \A n \in Ever(e, old) : n \in 1 .. sent[Peer[e]] /\ n \notin failed[Peer[e]]

\* An end that never started anew: none of its packets is forgotten, its ids
\* are its ordinals modulo SEQ_MOD, and it measured what was acknowledged.
Numbering(e) ==
  /\ 1 .. sent[e] \subseteq OutOrdinals(e) \cup acked[e] \cup lost[e] \cup failed[e]
  /\ m_localSequenceNum[e] = sent[e] % SEQ_MOD
  /\ \A p \in m_out[e] : p.id = p.n % SEQ_MOD
  /\ prompt[e] => \A p \in m_out[e] : sent[e] - p.n < UINT16_HALF
  /\ acked[e] = {} <=> flow[e].m_connectionRTT = INVALID_RTT

\* The ids that the peer of such an end knows.
Hearing(r) ==
  /\ \A n \in received[r] : n % SEQ_MOD \in m_in[r]
  /\ \A s \in m_in[r] : \E n \in received[r] : s = n % SEQ_MOD
  /\ near[r] => m_remoteSequenceNum[r] = newest[r] % SEQ_MOD

\* What such an end learns of its packets.
Learning(e, old) ==
  /\ \A n \in acked[e] : Named(Peer[e], old, n % SEQ_MOD)
  /\ near[Peer[e]] /\ prompt[e] => told[e] \subseteq acked[e] \cup lost[e]

\* A datagram says what its sender knew when it sent it.
Truthful(d, G, old) ==
  /\ d.n \in 1 .. sent[d.from]
  /\ d.n \notin failed[d.from]
  /\ d.covers \subseteq Ever(d.from, old)
  /\ d.from \in G => d.id = d.n % SEQ_MOD
  /\ Peer[d.from] \in G =>
       /\ \A i \in d.bits : Named(d.from, old, SeqSub(d.ack, i))
       /\ near[d.from] =>
            \A n \in d.covers : \E i \in d.bits : SeqSub(d.ack, i) = n % SEQ_MOD

Inv(G, old) ==
  /\ TypeOK
  /\ G \subseteq Endpoint
  /\ old \in [Endpoint -> SUBSET Nat]
  /\ \A e \in Endpoint : Fates(e) /\ Arrivals(e, old)
  /\ \A e \in G : Numbering(e) /\ Hearing(Peer[e]) /\ Learning(e, old)
  /\ \A d \in network : Truthful(d, G, old)

(* The two ends of a path.                                                    *)
LEMMA Peers ==
  \A e \in Endpoint : Peer[e] \in Endpoint /\ Peer[Peer[e]] = e /\ Peer[e] # e
  BY ConnectionAssumption

(* The constructors establish it, for any ends that have received nothing.   *)
LEMMA InitEstablishes ==
  ASSUME Init, NEW G \in SUBSET Endpoint, NEW old \in [Endpoint -> SUBSET Nat],
         \A e \in Endpoint : old[e] = {}
  PROVE  Inv(G, old)
<1>1. 0 \in SeqNum /\ 0 % SEQ_MOD = 0
  BY SequenceAssumption DEF SeqNum
<1>2. TypeOK
  BY <1>1, InitFlowTyped DEF Init, TypeOK
<1>3. ASSUME NEW e \in Endpoint PROVE Fates(e) /\ Arrivals(e, old)
  BY DEF Init, Fates, OutOrdinals, Arrivals, Ever
<1>4. ASSUME NEW e \in G PROVE Numbering(e) /\ Hearing(Peer[e]) /\ Learning(e, old)
  <2>1. e \in Endpoint /\ Peer[e] \in Endpoint
    BY Peers
  <2> QED
    BY <1>1, <2>1 DEF Init, Numbering, Hearing, Learning, InitFlow
<1>5. network = {}
  BY DEF Init
<1> QED
  BY <1>2, <1>3, <1>4, <1>5 DEF Inv

-----------------------------------------------------------------------------
(* Names and datagrams stay good: ends only learn. *)

(* What an id stood for, it stands for.                                      *)
LEMMA NamesStay ==
  ASSUME NEW r, NEW old, received[r] \subseteq received'[r],
         NEW s, Named(r, old, s)
  PROVE  Named(r, old, s)'
  BY DEF Named, Ever

(* What a datagram says stays true while it is on its way.                   *)
LEMMA StaysTruthful ==
  ASSUME NEW G, NEW old, NEW d, Truthful(d, G, old),
         sent[d.from] \in Nat, sent'[d.from] \in Nat,
         sent[d.from] <= sent'[d.from],
         \A n \in failed'[d.from] : n \in failed[d.from] \/ n = sent[d.from] + 1,
         received[d.from] \subseteq received'[d.from],
         near'[d.from] => near[d.from]
  PROVE  Truthful(d, G, old)'
<1>1. d.n \in 1 .. sent'[d.from] /\ d.n # sent[d.from] + 1
  BY DEF Truthful
<1>2. d.n \notin failed'[d.from]
  BY <1>1 DEF Truthful
<1>3. d.covers \subseteq received'[d.from] \cup old[d.from]
  BY DEF Truthful, Ever
<1>4. d.from \in G => d.id = d.n % SEQ_MOD
  BY DEF Truthful
<1>5. ASSUME Peer[d.from] \in G
      PROVE  /\ \A i \in d.bits : Named(d.from, old, SeqSub(d.ack, i))'
             /\ near'[d.from] =>
                  \A n \in d.covers : \E i \in d.bits : SeqSub(d.ack, i) = n % SEQ_MOD
  BY <1>5, NamesStay DEF Truthful
<1> QED
  BY <1>1, <1>2, <1>3, <1>4, <1>5 DEF Truthful, Ever

-----------------------------------------------------------------------------
(* Send and SendFails. *)

(* Numbering: the id of the next packet is that of the next ordinal.         *)
LEMMA NextIdIsOrdinal ==
  ASSUME NEW G, NEW old, Inv(G, old), NEW e \in Endpoint
  PROVE  /\ NextId(e) \in SeqNum
         /\ e \in G => NextId(e) = (sent[e] + 1) % SEQ_MOD
<1>1. sent[e] \in Nat /\ m_localSequenceNum[e] \in Int
  BY DEF Inv, TypeOK, SeqNum
<1>2. e \in G => m_localSequenceNum[e] = sent[e] % SEQ_MOD
  BY DEF Inv, Numbering
<1> QED
  BY <1>1, <1>2, SeqOpsTyped, NextSequenceNumber DEF NextId

(* What the acknowledgement in a packet says is true when it is sent.        *)
LEMMA PacketIsTruthful ==
  ASSUME NEW G, NEW old, Inv(G, old), NEW e \in Endpoint, TakeNumber(e),
         failed' = failed, UNCHANGED <<received, m_in, near>>,
         NEW d, d = Packet(e)
  PROVE  d \in Datagram /\ Truthful(d, G, old)'
<1>1. /\ sent[e] \in Nat /\ newest[e] \in Nat /\ received[e] \subseteq Nat
      /\ m_in[e] \subseteq SeqNum /\ m_remoteSequenceNum[e] \in SeqNum
      /\ near[e] \in BOOLEAN
  BY DEF Inv, TypeOK
<1>2. d \in Datagram
  BY <1>1, NextIdIsOrdinal DEF Packet, Datagram, AckBits, Window
<1>3. sent'[e] = sent[e] + 1
  BY DEF Inv, TypeOK, TakeNumber
<1>4. d.n = sent[e] + 1 /\ d.from = e /\ (e \in G => d.id = d.n % SEQ_MOD)
  BY NextIdIsOrdinal DEF Packet
<1>5. d.n \notin failed[e]
  BY <1>1, <1>4 DEF Inv, Fates
<1>6. d.covers \subseteq received[e]
  BY DEF Packet, Window
<1>7. ASSUME Peer[e] \in G
      PROVE  /\ \A i \in d.bits : Named(e, old, SeqSub(d.ack, i))
             /\ near[e] => \A n \in d.covers :
                             \E i \in d.bits : SeqSub(d.ack, i) = n % SEQ_MOD
  <2>1. Hearing(e)
    BY <1>7, Peers DEF Inv
  <2>2. \A i \in d.bits : SeqSub(d.ack, i) \in m_in[e]
    BY DEF Packet, AckBits
  <2>3. ASSUME near[e], NEW n \in d.covers
        PROVE  \E i \in d.bits : SeqSub(d.ack, i) = n % SEQ_MOD
    <3> DEFINE i == newest[e] - n
    <3>1. n \in received[e] /\ i < BITFIELD_SIZE
      BY <2>3 DEF Packet, Window
    <3>2. n \in Nat /\ n <= newest[e] /\ n % SEQ_MOD \in m_in[e]
      BY <1>1, <2>1, <3>1 DEF Inv, Arrivals, Hearing
    <3>3. i \in BitIndex /\ i \in Nat /\ i <= newest[e] /\ i < SEQ_MOD /\ newest[e] - i = n
      BY <1>1, <3>1, <3>2, ConnectionAssumption, SequenceAssumption DEF BitIndex
    <3>4. d.ack = newest[e] % SEQ_MOD
      BY <2>1, <2>3 DEF Hearing, Packet
    <3> HIDE DEF i
    <3>5. SeqSub(d.ack, i) = n % SEQ_MOD
      BY <1>1, <3>3, <3>4, EarlierSequenceNumber
    <3>6. i \in d.bits
      BY <3>2, <3>3, <3>5 DEF Packet, AckBits
    <3> QED
      BY <3>5, <3>6
  <2> QED
    BY <2>1, <2>2, <2>3 DEF Hearing, Named, Ever
<1>8. d.n \in 1 .. sent'[e]
  BY <1>1, <1>3, <1>4
<1>9. Truthful(d, G, old)'
  <2>1. Peer[e] \in G => \A i \in d.bits : Named(e, old, SeqSub(d.ack, i))'
    BY <1>7 DEF Named, Ever
  <2>2. Peer[e] \in G /\ near[e] =>
          \A n \in d.covers : \E i \in d.bits : SeqSub(d.ack, i) = n % SEQ_MOD
    BY <1>7
  <2>3. d.covers \subseteq Ever(e, old)'
    BY <1>6 DEF Ever
  <2> QED
    BY <1>4, <1>5, <1>8, <2>1, <2>2, <2>3 DEF Truthful
<1> QED
  BY <1>2, <1>9

(* What Send and SendFails have in common.                                   *)
LEMMA NumberTaken ==
  ASSUME NEW G, NEW old, Inv(G, old), NEW e \in Endpoint, TakeNumber(e)
  PROVE  /\ m_localSequenceNum' \in [Endpoint -> SeqNum]
         /\ sent' \in [Endpoint -> Nat]
         /\ prompt' \in [Endpoint -> BOOLEAN]
         /\ sent'[e] = sent[e] + 1
         /\ \A x \in Endpoint : x # e =>
              sent'[x] = sent[x] /\ m_localSequenceNum'[x] = m_localSequenceNum[x]
         /\ \A x \in Endpoint : sent[x] \in Nat /\ sent[x] <= sent'[x]
         /\ e \in G => m_localSequenceNum'[e] = sent'[e] % SEQ_MOD
         /\ \A x \in Endpoint : prompt'[x] => prompt[x]
         /\ prompt'[e] => \A p \in m_out[e] : Near(p.n, sent[e] + 1)
<1>1. /\ m_localSequenceNum \in [Endpoint -> SeqNum] /\ sent \in [Endpoint -> Nat]
      /\ prompt \in [Endpoint -> BOOLEAN]
  BY DEF Inv, TypeOK
<1>2. /\ m_localSequenceNum' = [m_localSequenceNum EXCEPT ![e] = NextId(e)]
      /\ sent' = [sent EXCEPT ![e] = sent[e] + 1]
      /\ prompt' = [prompt EXCEPT ![e] =
                      prompt[e] /\ \A p \in m_out[e] : Near(p.n, sent[e] + 1)]
  BY DEF TakeNumber
<1>3. NextId(e) \in SeqNum /\ (e \in G => NextId(e) = (sent[e] + 1) % SEQ_MOD)
  BY NextIdIsOrdinal
<1>4. m_localSequenceNum' \in [Endpoint -> SeqNum] /\ m_localSequenceNum'[e] = NextId(e)
  BY <1>1, <1>2, <1>3
<1>5. sent' \in [Endpoint -> Nat] /\ sent'[e] = sent[e] + 1
  BY <1>1, <1>2
<1>6. /\ \A x \in Endpoint : sent[x] \in Nat /\ sent[x] <= sent'[x]
      /\ \A x \in Endpoint : x # e =>
           sent'[x] = sent[x] /\ m_localSequenceNum'[x] = m_localSequenceNum[x]
  BY <1>1, <1>2
<1>7. /\ prompt' \in [Endpoint -> BOOLEAN]
      /\ \A x \in Endpoint : prompt'[x] => prompt[x]
      /\ prompt'[e] => \A p \in m_out[e] : Near(p.n, sent[e] + 1)
  <2> DEFINE B == prompt[e] /\ \A p \in m_out[e] : Near(p.n, sent[e] + 1)
  <2>1. B \in BOOLEAN /\ (B => prompt[e] /\ \A p \in m_out[e] : Near(p.n, sent[e] + 1))
    OBVIOUS
  <2>2. prompt' = [prompt EXCEPT ![e] = B]
    BY <1>2
  <2> HIDE DEF B
  <2> QED
    BY <1>1, <2>1, <2>2
<1> QED
  BY <1>3, <1>4, <1>5, <1>6, <1>7

(* Everything but the packets and the numbers of the sender itself.          *)
LEMMA NumberTakenElsewhere ==
  ASSUME NEW G, NEW old, Inv(G, old), NEW e \in Endpoint, TakeNumber(e),
         UNCHANGED <<m_remoteSequenceNum, m_in, flow, received, acked, lost,
                     newest, near, told>>,
         \A x \in Endpoint : x # e => m_out'[x] = m_out[x] /\ failed'[x] = failed[x],
         \A n \in failed'[e] : n \in failed[e] \/ n = sent[e] + 1
  PROVE  /\ \A x \in Endpoint : Arrivals(x, old)'
         /\ \A x \in Endpoint : x # e => Fates(x)'
         /\ \A x \in G : x # e => Numbering(x)'
         /\ \A x \in G : Hearing(Peer[x])' /\ Learning(x, old)'
         /\ \A d \in network : Truthful(d, G, old)'
<1>1. /\ \A x \in Endpoint : sent[x] \in Nat /\ sent'[x] \in Nat /\ sent[x] <= sent'[x]
      /\ \A x \in Endpoint : prompt'[x] => prompt[x]
      /\ \A x \in Endpoint : x # e => sent'[x] = sent[x]
                               /\ m_localSequenceNum'[x] = m_localSequenceNum[x]
  BY NumberTaken
<1>2. \A x \in Endpoint : \A n \in failed'[x] : n \in failed[x] \/ n = sent[x] + 1
  OBVIOUS
<1>3. ASSUME NEW x \in Endpoint PROVE Arrivals(x, old)'
  <2>1. Arrivals(x, old) /\ Peer[x] \in Endpoint
    BY Peers DEF Inv
  <2>2. ASSUME NEW n \in Ever(x, old)
        PROVE  n \in 1 .. sent'[Peer[x]] /\ n \notin failed'[Peer[x]]
    <3>1. n \in 1 .. sent[Peer[x]] /\ n \notin failed[Peer[x]]
      BY <2>1 DEF Arrivals
    <3>2. n # sent[Peer[x]] + 1
      BY <1>1, <2>1, <3>1
    <3> QED
      BY <1>1, <1>2, <2>1, <3>1, <3>2
  <2>3. Ever(x, old)' = Ever(x, old)
    BY DEF Ever
  <2> QED
    BY <2>1, <2>2, <2>3 DEF Arrivals
<1>4. ASSUME NEW x \in Endpoint, x # e PROVE Fates(x)'
  BY <1>1, <1>4 DEF Inv, Fates, OutOrdinals
<1>5. ASSUME NEW x \in G, x # e PROVE Numbering(x)'
  <2>1. Numbering(x) /\ x \in Endpoint
    BY DEF Inv
  <2>2. /\ UNCHANGED <<sent[x], m_localSequenceNum[x], m_out[x], failed[x]>>
        /\ prompt'[x] => prompt[x]
    BY <1>1, <1>5, <2>1
  <2> QED
    BY <2>1, <2>2 DEF Numbering, OutOrdinals
<1>6. ASSUME NEW x \in G PROVE Hearing(Peer[x])' /\ Learning(x, old)'
  <2>1. Hearing(Peer[x]) /\ Learning(x, old) /\ (prompt'[x] => prompt[x])
    BY <1>1 DEF Inv
  <2>2. \A s : Named(Peer[x], old, s)' <=> Named(Peer[x], old, s)
    BY DEF Named, Ever
  <2> QED
    BY <2>1, <2>2 DEF Hearing, Learning
<1>7. ASSUME NEW d \in network PROVE Truthful(d, G, old)'
  <2>1. d.from \in Endpoint /\ Truthful(d, G, old)
    BY DEF Inv, TypeOK, Datagram
  <2> QED
    BY <1>1, <1>2, <2>1, StaysTruthful
<1> QED
  BY <1>3, <1>4, <1>5, <1>6, <1>7

(* A packet that is kept, and put on the path or dropped by SPL.             *)
LEMMA SendPreserves ==
  ASSUME NEW G, NEW old, Inv(G, old),
         NEW e \in Endpoint, NEW SPL \in BOOLEAN, Send(e, SPL)
  PROVE  Inv(G, old)'
<1> DEFINE new == [id |-> NextId(e), n |-> sent[e] + 1, age |-> 0]
<1>1. TakeNumber(e) /\ UNCHANGED <<m_remoteSequenceNum, m_in, flow, received, acked, lost,
                                   failed, newest, near, told>>
  BY DEF Send
<1>2. /\ m_out' = [m_out EXCEPT ![e] = m_out[e] \cup {new}]
      /\ \A d \in network' : d \in network \/ d = Packet(e)
  BY DEF Send
<1>3. /\ new \in OutPacket /\ new.n = sent[e] + 1
      /\ e \in G => new.id = new.n % SEQ_MOD
  <2>1. sent[e] + 1 \in Nat /\ 0 \in Age
    BY FlowAssumption DEF Inv, TypeOK, Age
  <2>2. NextId(e) \in SeqNum /\ (e \in G => NextId(e) = (sent[e] + 1) % SEQ_MOD)
    BY NextIdIsOrdinal
  <2> QED
    BY <2>1, <2>2 DEF OutPacket
<1> HIDE DEF new
<1>4. /\ m_out \in [Endpoint -> SUBSET OutPacket]
      /\ m_out'[e] = m_out[e] \cup {new}
      /\ \A x \in Endpoint : x # e => m_out'[x] = m_out[x]
  BY <1>2 DEF Inv, TypeOK
<1>5. /\ \A x \in Endpoint : Arrivals(x, old)'
      /\ \A x \in Endpoint : x # e => Fates(x)'
      /\ \A x \in G : x # e => Numbering(x)'
      /\ \A x \in G : Hearing(Peer[x])' /\ Learning(x, old)'
      /\ \A d \in network : Truthful(d, G, old)'
  BY <1>1, <1>4, NumberTakenElsewhere
<1>6. \A d \in network' : d \in Datagram /\ Truthful(d, G, old)'
  BY <1>1, <1>2, <1>5, PacketIsTruthful DEF Inv, TypeOK
<1>7. TypeOK'
  <2>1. m_out' \in [Endpoint -> SUBSET OutPacket]
    BY <1>2, <1>3, <1>4
  <2> QED
    BY <1>1, <1>6, <2>1, NumberTaken DEF Inv, TypeOK
<1>8. /\ sent[e] \in Nat /\ sent'[e] = sent[e] + 1
      /\ 1 .. sent'[e] = (1 .. sent[e]) \cup {sent[e] + 1}
      /\ sent[e] + 1 \notin 1 .. sent[e]
  BY <1>1, NumberTaken
<1>9. OutOrdinals(e)' = OutOrdinals(e) \cup {sent[e] + 1}
  BY <1>3, <1>4 DEF OutOrdinals
<1>10. Fates(e)'
  <2>1. Fates(e)
    BY DEF Inv
  <2>2. \A p \in m_out[e] : p.n # sent[e] + 1
    BY <1>8, <2>1 DEF Fates, OutOrdinals
  <2>3. \A p, q \in m_out'[e] : p.n = q.n => p = q
    BY <1>3, <1>4, <2>1, <2>2 DEF Fates
  <2>4. /\ (OutOrdinals(e)' \cup acked[e] \cup lost[e] \cup failed[e]) \subseteq 1 .. sent'[e]
        /\ OutOrdinals(e)' \cap (acked[e] \cup lost[e] \cup failed[e]) = {}
    BY <1>8, <1>9, <2>1 DEF Fates
  <2> QED
    BY <1>1, <2>1, <2>3, <2>4 DEF Fates
<1>11. ASSUME e \in G PROVE Numbering(e)'
  <2>1. Numbering(e)
    BY <1>11 DEF Inv
  <2>2. 1 .. sent'[e] \subseteq OutOrdinals(e)' \cup acked[e] \cup lost[e] \cup failed[e]
    BY <1>8, <1>9, <2>1 DEF Numbering
  <2>3. \A p \in m_out'[e] : p.id = p.n % SEQ_MOD
    BY <1>3, <1>4, <1>11, <2>1 DEF Numbering
  <2>4. ASSUME prompt'[e], NEW p \in m_out'[e] PROVE sent'[e] - p.n < UINT16_HALF
    <3>1. CASE p = new
      BY <1>3, <1>8, <3>1, SequenceAssumption
    <3>2. CASE p \in m_out[e]
      BY <1>1, <1>8, <2>4, <3>2, NumberTaken DEF Near
    <3> QED
      BY <1>4, <2>4, <3>1, <3>2
  <2>5. m_localSequenceNum'[e] = sent'[e] % SEQ_MOD
    BY <1>1, <1>11, NumberTaken
  <2> QED
    BY <1>1, <2>1, <2>2, <2>3, <2>4, <2>5 DEF Numbering
<1> QED
  BY <1>5, <1>6, <1>7, <1>10, <1>11 DEF Inv

(* A packet that the socket refuses.                                         *)
LEMMA SendFailsPreserves ==
  ASSUME NEW G, NEW old, Inv(G, old), NEW e \in Endpoint, SendFails(e)
  PROVE  Inv(G, old)'
<1>1. /\ TakeNumber(e)
      /\ UNCHANGED <<m_remoteSequenceNum, m_out, m_in, flow, network, received,
                     acked, lost, newest, near, told>>
      /\ failed' = [failed EXCEPT ![e] = failed[e] \cup {sent[e] + 1}]
  BY DEF SendFails
<1>2. /\ failed \in [Endpoint -> SUBSET Nat] /\ sent[e] \in Nat
      /\ failed' \in [Endpoint -> SUBSET Nat]
      /\ failed'[e] = failed[e] \cup {sent[e] + 1}
      /\ \A x \in Endpoint : x # e => failed'[x] = failed[x]
  <2>1. failed \in [Endpoint -> SUBSET Nat] /\ sent[e] \in Nat
    BY DEF Inv, TypeOK
  <2> QED
    BY <1>1, <2>1
<1>3. TypeOK'
  BY <1>1, <1>2, NumberTaken DEF Inv, TypeOK
<1>4. /\ \A x \in Endpoint : Arrivals(x, old)'
      /\ \A x \in Endpoint : x # e => Fates(x)'
      /\ \A x \in G : x # e => Numbering(x)'
      /\ \A x \in G : Hearing(Peer[x])' /\ Learning(x, old)'
      /\ \A d \in network : Truthful(d, G, old)'
  BY <1>1, <1>2, NumberTakenElsewhere
<1>5. /\ sent'[e] = sent[e] + 1
      /\ 1 .. sent'[e] = (1 .. sent[e]) \cup {sent[e] + 1}
      /\ sent[e] + 1 \notin 1 .. sent[e]
  BY <1>1, <1>2, NumberTaken
<1>6. OutOrdinals(e)' = OutOrdinals(e)
  BY <1>1 DEF OutOrdinals
<1>7. Fates(e)'
  <2>1. Fates(e)
    BY DEF Inv
  <2>2. /\ (OutOrdinals(e) \cup acked[e] \cup lost[e] \cup failed'[e]) \subseteq 1 .. sent'[e]
        /\ OutOrdinals(e) \cap (acked[e] \cup lost[e] \cup failed'[e]) = {}
        /\ acked[e] \cap (lost[e] \cup failed'[e]) = {}
        /\ lost[e] \cap failed'[e] = {}
    BY <1>2, <1>5, <2>1 DEF Fates
  <2> QED
    BY <1>1, <1>6, <2>1, <2>2 DEF Fates
<1>8. ASSUME e \in G PROVE Numbering(e)'
  <2>1. Numbering(e)
    BY <1>8 DEF Inv
  <2>2. 1 .. sent'[e] \subseteq OutOrdinals(e) \cup acked[e] \cup lost[e] \cup failed'[e]
    BY <1>2, <1>5, <2>1 DEF Numbering
  <2>3. prompt'[e] => \A p \in m_out[e] : sent'[e] - p.n < UINT16_HALF
    BY <1>1, <1>5, NumberTaken DEF Near
  <2>4. m_localSequenceNum'[e] = sent'[e] % SEQ_MOD
    BY <1>1, <1>8, NumberTaken
  <2> QED
    BY <1>1, <1>6, <2>1, <2>2, <2>3, <2>4 DEF Numbering
<1> QED
  BY <1>1, <1>3, <1>4, <1>7, <1>8 DEF Inv

-----------------------------------------------------------------------------
(* Removing packets from m_out: Receive and Update. *)

(* Taking packets out of m_out moves exactly their ordinals to another fate. *)
LEMMA OrdinalsRemoved ==
  ASSUME NEW out, NEW gone \in SUBSET out,
         \A p, q \in out : p.n = q.n => p = q
  PROVE  /\ {p.n : p \in out \ gone} = {p.n : p \in out} \ {p.n : p \in gone}
         /\ {p.n : p \in gone} \subseteq {p.n : p \in out}
  OBVIOUS

(* A packet settled one way or the other keeps every fate unique, and is not *)
(* forgotten.                                                                *)
LEMMA SettledOnce ==
  ASSUME NEW G, NEW old, Inv(G, old),
         NEW e \in Endpoint, NEW gone \in SUBSET m_out[e],
         m_out' = [m_out EXCEPT ![e] = @ \ gone], UNCHANGED <<sent, failed>>,
         \/ /\ acked' = [acked EXCEPT ![e] = @ \cup {p.n : p \in gone}]
            /\ lost' = lost
         \/ /\ lost' = [lost EXCEPT ![e] = @ \cup {p.n : p \in gone}]
            /\ acked' = acked
  PROVE  /\ \A x \in Endpoint : Fates(x)'
         /\ \A x \in Endpoint : /\ m_out'[x] \subseteq m_out[x]
                                /\ acked[x] \subseteq acked'[x]
                                /\ lost[x] \subseteq lost'[x]
         /\ \A x \in Endpoint : OutOrdinals(x)' \cup acked'[x] \cup lost'[x]
                              = OutOrdinals(x) \cup acked[x] \cup lost[x]
         /\ m_out' \in [Endpoint -> SUBSET OutPacket]
         /\ acked' \in [Endpoint -> SUBSET Nat]
         /\ lost' \in [Endpoint -> SUBSET Nat]
<1> DEFINE N == {p.n : p \in gone}
<1>1. /\ m_out \in [Endpoint -> SUBSET OutPacket]
      /\ acked \in [Endpoint -> SUBSET Nat] /\ lost \in [Endpoint -> SUBSET Nat]
  BY DEF Inv, TypeOK
<1>2. \A p \in gone : p.n \in Nat
  BY <1>1 DEF OutPacket
<1>3. N \in SUBSET Nat
  BY <1>2
<1>4. /\ m_out'[e] = m_out[e] \ gone
      /\ \A x \in Endpoint : x # e => m_out'[x] = m_out[x]
      /\ m_out' \in [Endpoint -> SUBSET OutPacket]
  BY <1>1
<1>5. \A x \in Endpoint : Fates(x)
  BY DEF Inv
<1>6. OutOrdinals(e)' = OutOrdinals(e) \ N /\ N \subseteq OutOrdinals(e)
  BY <1>4, <1>5, OrdinalsRemoved DEF Fates, OutOrdinals
<1>7. \A x \in Endpoint : x # e => OutOrdinals(x)' = OutOrdinals(x)
  BY <1>4 DEF OutOrdinals
<1> HIDE DEF N
<1>8. \/ /\ acked'[e] = acked[e] \cup N /\ lost'[e] = lost[e]
         /\ \A x \in Endpoint : x # e => acked'[x] = acked[x] /\ lost'[x] = lost[x]
         /\ acked' \in [Endpoint -> SUBSET Nat] /\ lost' \in [Endpoint -> SUBSET Nat]
      \/ /\ lost'[e] = lost[e] \cup N /\ acked'[e] = acked[e]
         /\ \A x \in Endpoint : x # e => acked'[x] = acked[x] /\ lost'[x] = lost[x]
         /\ acked' \in [Endpoint -> SUBSET Nat] /\ lost' \in [Endpoint -> SUBSET Nat]
  <2>1. CASE acked' = [acked EXCEPT ![e] = @ \cup N] /\ lost' = lost
    BY <1>1, <1>3, <2>1
  <2>2. CASE lost' = [lost EXCEPT ![e] = @ \cup N] /\ acked' = acked
    BY <1>1, <1>3, <2>2
  <2> QED
    BY <2>1, <2>2 DEF N
<1>9. ASSUME NEW x \in Endpoint, x # e PROVE Fates(x)'
  BY <1>4, <1>5, <1>7, <1>8, <1>9 DEF Fates
<1>10. Fates(e)'
  <2>1. Fates(e) /\ (\A p, q \in m_out'[e] : p.n = q.n => p = q)
    BY <1>4, <1>5 DEF Fates
  <2> QED
    BY <1>6, <1>8, <2>1 DEF Fates
<1>11. \A x \in Endpoint : OutOrdinals(x)' \cup acked'[x] \cup lost'[x]
                         = OutOrdinals(x) \cup acked[x] \cup lost[x]
  BY <1>6, <1>7, <1>8
<1>12. \A x \in Endpoint : /\ m_out'[x] \subseteq m_out[x]
                           /\ acked[x] \subseteq acked'[x]
                           /\ lost[x] \subseteq lost'[x]
  BY <1>4, <1>8
<1> QED
  BY <1>4, <1>8, <1>9, <1>10, <1>11, <1>12

(* DetectFlowChange and the clock leave the round trip time alone.           *)
LEMMA FlowKeepsRtt ==
  ASSUME NEW f \in FlowType
  PROVE  /\ DetectFlowChange(f).m_connectionRTT = f.m_connectionRTT
         /\ OlderFlow(f).m_connectionRTT = f.m_connectionRTT
<1>1. /\ EnterBad(f).m_connectionRTT = f.m_connectionRTT
      /\ StayBad(f).m_connectionRTT = f.m_connectionRTT
      /\ Recover(f).m_connectionRTT = f.m_connectionRTT
      /\ StayGood(f).m_connectionRTT = f.m_connectionRTT
      /\ OlderFlow(f).m_connectionRTT = f.m_connectionRTT
  BY DEF EnterBad, StayBad, Recover, StayGood, OlderFlow, FlowType
<1>2. f.m_packetFlowState \in {"GOOD", "BAD"}
  BY DEF FlowType
<1> QED
  BY <1>1, <1>2 DEF DetectFlowChange

(* Steps that neither number nor carry packets leave what is known of them.  *)
LEMMA KnowledgeKept ==
  ASSUME NEW G, NEW old, Inv(G, old),
         UNCHANGED <<m_remoteSequenceNum, m_in, sent, received, acked, failed,
                     newest, near, prompt, told>>,
         network' \subseteq network,
         \A x \in Endpoint : lost[x] \subseteq lost'[x]
  PROVE  /\ \A x \in Endpoint : Arrivals(x, old)'
         /\ \A x \in G : Hearing(Peer[x])' /\ Learning(x, old)'
         /\ \A d \in network' : Truthful(d, G, old)'
<1>1. \A r, s : Named(r, old, s)' <=> Named(r, old, s)
  BY DEF Named, Ever
<1>2. ASSUME NEW x \in Endpoint PROVE Arrivals(x, old)'
  BY DEF Inv, Arrivals, Ever
<1>3. ASSUME NEW x \in G PROVE Hearing(Peer[x])' /\ Learning(x, old)'
  <2>1. x \in Endpoint /\ Hearing(Peer[x]) /\ Learning(x, old)
    BY DEF Inv
  <2> QED
    BY <1>1, <2>1 DEF Hearing, Learning
<1>4. ASSUME NEW d \in network' PROVE Truthful(d, G, old)'
  <2>1. Truthful(d, G, old)
    BY DEF Inv
  <2> QED
    BY <1>1, <2>1 DEF Truthful, Ever
<1> QED
  BY <1>2, <1>3, <1>4

(* Update settles what is late as lost, and nothing else.                    *)
LEMMA UpdatePreserves ==
  ASSUME NEW G, NEW old, Inv(G, old), NEW e \in Endpoint, Update(e)
  PROVE  Inv(G, old)'
<1> DEFINE gone == Late(m_out[e])
<1>1. /\ m_out' = [m_out EXCEPT ![e] = @ \ gone]
      /\ lost' = [lost EXCEPT ![e] = @ \cup {p.n : p \in gone}]
      /\ flow' = [flow EXCEPT ![e] = DetectFlowChange(flow[e])]
      /\ UNCHANGED <<m_localSequenceNum, m_remoteSequenceNum, m_in, network,
                     sent, received, acked, failed, newest, near, prompt, told>>
  BY DEF Update
<1>2. gone \in SUBSET m_out[e]
  BY DEF Late
<1> HIDE DEF gone
<1>3. /\ \A x \in Endpoint : Fates(x)'
      /\ \A x \in Endpoint : m_out'[x] \subseteq m_out[x] /\ lost[x] \subseteq lost'[x]
      /\ \A x \in Endpoint : OutOrdinals(x)' \cup acked'[x] \cup lost'[x]
                           = OutOrdinals(x) \cup acked[x] \cup lost[x]
      /\ m_out' \in [Endpoint -> SUBSET OutPacket]
      /\ lost' \in [Endpoint -> SUBSET Nat]
  BY <1>1, <1>2, SettledOnce
<1>4. flow \in [Endpoint -> FlowType]
  BY DEF Inv, TypeOK
<1>5. TypeOK'
  <2>1. flow' \in [Endpoint -> FlowType]
    BY <1>1, <1>4, DetectFlowChangeTyped
  <2> QED
    BY <1>1, <1>3, <2>1 DEF Inv, TypeOK
<1>6. \A x \in Endpoint : flow'[x].m_connectionRTT = flow[x].m_connectionRTT
  BY <1>1, <1>4, FlowKeepsRtt
<1>7. ASSUME NEW x \in G PROVE Numbering(x)'
  <2>1. Numbering(x) /\ x \in Endpoint
    BY DEF Inv
  <2>2. 1 .. sent[x] \subseteq OutOrdinals(x)' \cup acked'[x] \cup lost'[x] \cup failed[x]
    BY <1>3, <2>1 DEF Numbering
  <2> QED
    BY <1>1, <1>3, <1>6, <2>1, <2>2 DEF Numbering
<1>8. /\ \A x \in Endpoint : Arrivals(x, old)'
      /\ \A x \in G : Hearing(Peer[x])' /\ Learning(x, old)'
      /\ \A d \in network' : Truthful(d, G, old)'
  BY <1>1, <1>3, KnowledgeKept
<1> QED
  BY <1>3, <1>5, <1>7, <1>8 DEF Inv

(* Time passes.                                                              *)
LEMMA TickPreserves ==
  ASSUME NEW G, NEW old, Inv(G, old), Tick
  PROVE  Inv(G, old)'
<1> DEFINE older(p) == [p EXCEPT !.age = Older(@)]
<1>1. /\ m_out' = [x \in Endpoint |-> {older(p) : p \in m_out[x]}]
      /\ flow' = [x \in Endpoint |-> OlderFlow(flow[x])]
      /\ UNCHANGED <<m_localSequenceNum, m_remoteSequenceNum, m_in, network, sent,
                     received, acked, lost, failed, newest, near, prompt, told>>
  BY DEF Tick, history
<1>2. /\ m_out \in [Endpoint -> SUBSET OutPacket] /\ flow \in [Endpoint -> FlowType]
  BY DEF Inv, TypeOK
<1>3. \A p \in OutPacket : older(p) \in OutPacket /\ older(p).n = p.n /\ older(p).id = p.id
  BY OlderTyped DEF OutPacket
<1> HIDE DEF older
<1>4. \A x \in Endpoint : m_out'[x] = {older(p) : p \in m_out[x]}
  BY <1>1
<1>5. m_out' \in [Endpoint -> SUBSET OutPacket]
  BY <1>1, <1>2, <1>3
<1>6. \A x \in Endpoint : \A r \in m_out'[x] :
        \E p \in m_out[x] : p \in OutPacket /\ r = older(p) /\ r.n = p.n /\ r.id = p.id
  BY <1>2, <1>3, <1>4
<1>7. TypeOK'
  <2>1. flow' \in [Endpoint -> FlowType]
    BY <1>1, <1>2, OlderFlowTyped
  <2> QED
    BY <1>1, <1>5, <2>1 DEF Inv, TypeOK
<1>8. \A x \in Endpoint : OutOrdinals(x)' = OutOrdinals(x)
  BY <1>2, <1>3, <1>4 DEF OutOrdinals
<1>9. ASSUME NEW x \in Endpoint PROVE Fates(x)'
  <2>1. \A r, s \in m_out'[x] : r.n = s.n => r = s
    BY <1>6 DEF Inv, Fates
  <2> QED
    BY <1>1, <1>8, <2>1 DEF Inv, Fates
<1>10. ASSUME NEW x \in G PROVE Numbering(x)'
  <2>1. Numbering(x) /\ x \in Endpoint
    BY DEF Inv
  <2>2. /\ \A r \in m_out'[x] : r.id = r.n % SEQ_MOD
        /\ prompt[x] => \A r \in m_out'[x] : sent[x] - r.n < UINT16_HALF
    BY <1>6, <2>1 DEF Numbering
  <2>3. flow'[x].m_connectionRTT = flow[x].m_connectionRTT
    BY <1>1, <1>2, <2>1, FlowKeepsRtt
  <2> QED
    BY <1>1, <1>8, <2>1, <2>2, <2>3 DEF Numbering
<1>11. /\ \A x \in Endpoint : Arrivals(x, old)'
       /\ \A x \in G : Hearing(Peer[x])' /\ Learning(x, old)'
       /\ \A d \in network' : Truthful(d, G, old)'
  BY <1>1, KnowledgeKept
<1> QED
  BY <1>7, <1>9, <1>10, <1>11 DEF Inv

-----------------------------------------------------------------------------
(* The loop of CConnection::Receive over the acknowledgement bits: it is a   *)
(* recursive function in Connection, so what it computes is shown by an      *)
(* induction over the bits, here by means of least counterexamples.         *)

\* A round trip time, or that there is none.
RttType == Age \cup {INVALID_RTT}

(* One bit keeps the type, whether or not it names a packet.                 *)
LEMMA SampledTyped ==
  ASSUME NEW out, \A p \in out : p.age \in Age, NEW d, NEW rtt \in RttType, NEW i
  PROVE  Sampled(rtt, out, d, i) \in RttType
<1> DEFINE hits == Addressed(out, d.ack, i)
<1>1. hits \subseteq out
  BY DEF Addressed, HasId
<1>2. hits # {} => (CHOOSE p \in hits : TRUE).age \in Age
  <2> HAVE hits # {}
  <2>1. (CHOOSE p \in hits : TRUE) \in hits
    OBVIOUS
  <2> QED
    BY <1>1, <2>1
<1>3. hits # {} => SmoothRtt(rtt, (CHOOSE p \in hits : TRUE).age) \in RttType
  BY <1>2, SmoothTyped DEF RttType
<1> QED
  BY <1>3 DEF Sampled

(* The loop is well defined, and keeps what every bit keeps: X[k] is what    *)
(* holds before bit k.                                                       *)
LEMMA LoopInvariant ==
  ASSUME NEW out, \A p \in out : p.age \in Age, NEW d, NEW rtt \in RttType,
         NEW X, rtt \in X[0],
         \A i \in BitIndex : \A x \in X[i] \cap RttType :
            Sampled(x, out, d, i) \in X[i + 1]
  PROVE  RttAfter(rtt, out, d) \in X[BITFIELD_SIZE] \cap RttType
<1> DEFINE B == BITFIELD_SIZE
           Step(x, i) == Sampled(x, out, d, i)
           Follows(g, k) == /\ g[0] = rtt
                            /\ \A i \in 1 .. k : g[i] = Step(g[i - 1], i - 1)
           Fns == [0 .. B -> RttType]
           T == {k \in 0 .. B : ~\E g \in Fns : Follows(g, k)}
<1>1. B \in Nat
  BY ConnectionAssumption
<1>2. \A x \in RttType : \A i : Step(x, i) \in RttType
  BY SampledTyped
<1>2a. \A i \in 0 .. B - 1 : \A x \in X[i] \cap RttType : Step(x, i) \in X[i + 1]
  BY DEF BitIndex
<1> HIDE DEF Step, B
<1>3. T = {}
  <2> SUFFICES ASSUME T # {} PROVE FALSE
    OBVIOUS
  <2>1. T \subseteq Nat
    BY <1>1
  <2>2. PICK k \in T : \A j \in T : k <= j
    BY <2>1, LeastNatural
  <2>3. k \in 0 .. B /\ ~\E g \in Fns : Follows(g, k)
    BY <2>2
  <2>4. CASE k = 0
    <3> DEFINE h == [i \in 0 .. B |-> rtt]
    <3>1. h \in Fns
      OBVIOUS
    <3>2. h[0] = rtt
      BY <1>1
    <3> HIDE DEF h
    <3>3. 1 .. k = {}
      BY <2>4
    <3> QED
      BY <2>3, <3>1, <3>2, <3>3
  <2>5. CASE k # 0
    <3>0. k \in Nat /\ k - 1 \in 0 .. B
      BY <1>1, <2>3, <2>5
    <3>1. k - 1 \notin T
      <4> HIDE DEF T
      <4> QED
        BY <2>2, <3>0
    <3>2. PICK g \in Fns : Follows(g, k - 1)
      BY <3>0, <3>1
    <3> DEFINE h == [g EXCEPT ![k] = Step(g[k - 1], k - 1)]
    <3>3. h \in Fns
      BY <1>2, <3>0
    <3>4. /\ \A i \in 0 .. k - 1 : h[i] = g[i]
          /\ h[k] = Step(g[k - 1], k - 1)
      BY <1>1, <2>3, <2>5
    <3> HIDE DEF h
    <3>5. h[0] = rtt
      BY <2>3, <2>5, <3>2, <3>4
    <3>6. ASSUME NEW i \in 1 .. k PROVE h[i] = Step(h[i - 1], i - 1)
      <4>1. CASE i = k
        BY <2>3, <3>4, <4>1
      <4>2. CASE i # k
        <5>1. i \in 1 .. k - 1 /\ i \in 0 .. k - 1 /\ i - 1 \in 0 .. k - 1
          BY <2>3, <4>2
        <5> QED
          BY <3>2, <3>4, <5>1
      <4> QED
        BY <4>1, <4>2
    <3> QED
      BY <2>3, <3>3, <3>5, <3>6
  <2> QED
    BY <2>4, <2>5
<1>4. PICK g \in Fns : Follows(g, B)
  <2>1. B \in 0 .. B
    BY <1>1
  <2>2. B \notin T
    BY <1>3, Zenon
  <2> QED
    BY <2>1, <2>2
<1> DEFINE Loop(f) == f = [i \in 0 .. B |-> IF i = 0 THEN rtt
                                          ELSE Sampled(f[i - 1], out, d, i - 1)]
           after == CHOOSE f : Loop(f)
<1>5. Loop(g)
  BY <1>1, <1>4 DEF Step
<1>6. Loop(after)
  BY <1>5
<1>7. RttAfter(rtt, out, d) = after[B]
  BY DEF RttAfter, B
<1> HIDE DEF after
<1>8. \A i \in 0 .. B : after[i] = IF i = 0 THEN rtt ELSE Step(after[i - 1], i - 1)
  BY <1>6 DEF Step
<1> DEFINE U == {k \in 0 .. B : after[k] \notin X[k] \cap RttType}
<1>9. U = {}
  <2> SUFFICES ASSUME U # {} PROVE FALSE
    OBVIOUS
  <2>1. U \subseteq Nat
    BY <1>1
  <2>2. PICK k \in U : \A j \in U : k <= j
    BY <2>1, LeastNatural
  <2>3. k \in 0 .. B /\ after[k] \notin X[k] \cap RttType
    BY <2>2
  <2>4. k # 0
    BY <1>8, <2>3
  <2>5. k \in Nat /\ k - 1 \in 0 .. B - 1 /\ (k - 1) + 1 = k
    BY <1>1, <2>3, <2>4
  <2>6. k - 1 \notin U
    <3> HIDE DEF U
    <3> QED
      BY <2>2, <2>5
  <2>7. after[k - 1] \in X[k - 1] \cap RttType
    BY <1>1, <2>5, <2>6
  <2>8. after[k] = Step(after[k - 1], k - 1)
    BY <1>8, <2>3, <2>4
  <2>9. Step(after[k - 1], k - 1) \in X[k] \cap RttType
    BY <1>2, <1>2a, <2>5, <2>7
  <2> QED
    BY <2>3, <2>8, <2>9
<1>10. after[B] \in X[B] \cap RttType
  BY <1>1, <1>9
<1> QED
  BY <1>7, <1>10 DEF B

(* The result is typed.                                                      *)
LEMMA RttAfterTyped ==
  ASSUME NEW out, \A p \in out : p.age \in Age, NEW d, NEW rtt \in RttType
  PROVE  RttAfter(rtt, out, d) \in RttType
<1> DEFINE X == [k \in 0 .. BITFIELD_SIZE |-> RttType]
<1>1. \A k \in 0 .. BITFIELD_SIZE : X[k] = RttType
  OBVIOUS
<1>2. /\ 0 \in 0 .. BITFIELD_SIZE /\ BITFIELD_SIZE \in 0 .. BITFIELD_SIZE
      /\ \A i \in BitIndex : i \in 0 .. BITFIELD_SIZE /\ i + 1 \in 0 .. BITFIELD_SIZE
  BY ConnectionAssumption DEF BitIndex
<1> HIDE DEF X
<1>3. \A i \in BitIndex : \A x \in X[i] \cap RttType : Sampled(x, out, d, i) \in X[i + 1]
  BY <1>1, <1>2, SampledTyped
<1>4. RttAfter(rtt, out, d) \in X[BITFIELD_SIZE] \cap RttType
  BY <1>1, <1>2, <1>3, LoopInvariant
<1> QED
  BY <1>4

(* The result is valid exactly when it was before or a packet was            *)
(* acknowledged.                                                             *)
LEMMA RttAfterValid ==
  ASSUME NEW out, \A p \in out : p.age \in Age, NEW d, d.bits \subseteq BitIndex,
         NEW rtt \in RttType
  PROVE  RttAfter(rtt, out, d) = INVALID_RTT
           <=> rtt = INVALID_RTT /\ AckedBy(out, d) = {}
<1> DEFINE hit(i) == i \in d.bits /\ Addressed(out, d.ack, i) # {}
           X == [k \in 0 .. BITFIELD_SIZE |->
                   IF rtt \in Age \/ \E i \in 0 .. k - 1 : hit(i)
                   THEN Age ELSE {INVALID_RTT}]
<1>1. /\ 0 \in 0 .. BITFIELD_SIZE /\ BITFIELD_SIZE \in 0 .. BITFIELD_SIZE
      /\ \A i \in BitIndex : i \in 0 .. BITFIELD_SIZE /\ i + 1 \in 0 .. BITFIELD_SIZE
                             /\ i \in Nat
      /\ BITFIELD_SIZE \in Nat
  BY ConnectionAssumption DEF BitIndex
<1>2. \A a \in Age : a # INVALID_RTT
  BY FlowAssumption DEF Age, INVALID_RTT
<1>3. \A k \in 0 .. BITFIELD_SIZE :
        X[k] = IF rtt \in Age \/ \E i \in 0 .. k - 1 : hit(i)
               THEN Age ELSE {INVALID_RTT}
  OBVIOUS
<1>4. \A i : ~hit(i) => \A x : Sampled(x, out, d, i) = x
  BY DEF Sampled
<1>5. ASSUME NEW i, hit(i), NEW x \in RttType PROVE Sampled(x, out, d, i) \in Age
  <2> DEFINE p == CHOOSE q \in Addressed(out, d.ack, i) : TRUE
  <2>1. p \in Addressed(out, d.ack, i)
    BY <1>5
  <2>2. p.age \in Age
    BY <2>1 DEF Addressed, HasId
  <2>3. Sampled(x, out, d, i) = SmoothRtt(x, p.age)
    BY <1>5 DEF Sampled
  <2> QED
    BY <2>2, <2>3, SmoothTyped DEF RttType
<1> HIDE DEF X, hit
<1>6. ASSUME NEW i \in BitIndex, NEW x \in X[i] \cap RttType
      PROVE  Sampled(x, out, d, i) \in X[i + 1]
  <2>1. CASE hit(i)
    <3>1. i \in 0 .. (i + 1) - 1
      BY <1>1
    <3>2. X[i + 1] = Age
      BY <1>1, <1>3, <2>1, <3>1
    <3> QED
      BY <1>5, <2>1, <3>2
  <2>2. CASE ~hit(i)
    <3>1. (\E j \in 0 .. (i + 1) - 1 : hit(j)) <=> (\E j \in 0 .. i - 1 : hit(j))
      <4>1. \A j \in 0 .. (i + 1) - 1 : j = i \/ j \in 0 .. i - 1
        BY <1>1
      <4>2. \A j \in 0 .. i - 1 : j \in 0 .. (i + 1) - 1
        BY <1>1
      <4> QED
        BY <2>2, <4>1, <4>2
    <3>2. X[i + 1] = X[i]
      BY <1>1, <1>3, <3>1
    <3> QED
      BY <1>4, <2>2, <3>2
  <2> QED
    BY <2>1, <2>2
<1>7. rtt \in X[0]
  <2>2. rtt \in Age => X[0] = Age
    BY <1>1, <1>3
  <2>3. rtt \notin Age => X[0] = {INVALID_RTT}
    <3>1. 0 .. 0 - 1 = {}
      OBVIOUS
    <3> QED
      BY <1>1, <1>3, <3>1
  <2> QED
    BY <2>2, <2>3 DEF RttType
<1>8. RttAfter(rtt, out, d) \in X[BITFIELD_SIZE]
  BY <1>6, <1>7, LoopInvariant
<1>9. AckedBy(out, d) = {} <=> ~\E i \in 0 .. BITFIELD_SIZE - 1 : hit(i)
  <2>1. AckedBy(out, d) # {} <=> \E i \in d.bits : Addressed(out, d.ack, i) # {}
    BY DEF AckedBy
  <2> QED
    BY <2>1 DEF hit, BitIndex
<1>10. rtt \in Age <=> rtt # INVALID_RTT
  BY <1>2 DEF RttType
<1> QED
  BY <1>1, <1>2, <1>3, <1>8, <1>9, <1>10

-----------------------------------------------------------------------------
(* Receive. *)

(* No two packets of m_out within half the number space of each other share *)
(* an id, so find_if meets the packet that an acknowledgement is about.      *)
LEMMA PromptPacketIsFound ==
  ASSUME NEW G, NEW old, Inv(G, old), NEW e \in G, prompt[e],
         NEW p \in m_out[e], NEW ack, NEW i, SeqSub(ack, i) = p.n % SEQ_MOD
  PROVE  p \in Addressed(m_out[e], ack, i)
<1>1. e \in Endpoint /\ Numbering(e) /\ Fates(e) /\ m_out[e] \subseteq OutPacket
      /\ sent[e] \in Nat
  BY DEF Inv, TypeOK
<1>2. \A q \in m_out[e] : /\ q.n \in 1 .. sent[e] /\ q.n \in Nat
                          /\ sent[e] - q.n < UINT16_HALF
                          /\ q.id = q.n % SEQ_MOD
  <2> TAKE q \in m_out[e]
  <2>1. q.n \in OutOrdinals(e)
    BY DEF OutOrdinals
  <2>2. q.n \in 1 .. sent[e]
    BY <1>1, <2>1 DEF Fates
  <2> QED
    BY <1>1, <2>2 DEF OutPacket, Numbering
<1>3. ASSUME NEW q \in m_out[e], q.id = p.id PROVE p.n <= q.n
  <2>1. q.n - p.n < SEQ_MOD /\ p.n - q.n < SEQ_MOD
    BY <1>1, <1>2, SequenceAssumption
  <2>2. q.n % SEQ_MOD = p.n % SEQ_MOD
    BY <1>2, <1>3
  <2>3. q.n = p.n
    BY <1>2, <2>1, <2>2, CloseAndEqualIds
  <2> QED
    BY <1>2, <2>3
<1> QED
  BY <1>2, <1>3 DEF Addressed, HasId

\* What Receive does at e with a datagram d that settles hits.
Taken(e, d, hits) ==
  /\ network' \subseteq network
  /\ m_in' = [m_in EXCEPT ![e] = m_in[e] \cup {d.id}]
  /\ m_remoteSequenceNum' =
       [m_remoteSequenceNum EXCEPT ![e] = Further(d.id, m_remoteSequenceNum[e])]
  /\ m_out' = [m_out EXCEPT ![e] = @ \ hits]
  /\ flow' = [flow EXCEPT ![e] = [flow[e] EXCEPT !.m_connectionRTT =
                RttAfter(flow[e].m_connectionRTT, m_out[e], d)]]
  /\ received' = [received EXCEPT ![e] = received[e] \cup {d.n}]
  /\ acked' = [acked EXCEPT ![e] = @ \cup {p.n : p \in hits}]
  /\ newest' = [newest EXCEPT ![e] = IF d.n > newest[e] THEN d.n ELSE newest[e]]
  /\ near' = [near EXCEPT ![e] = near[e] /\ Near(d.n, newest[e])]
  /\ prompt' = [prompt EXCEPT ![e] = prompt[e] /\ Near(d.newest, sent[e])]
  /\ told' = [told EXCEPT ![e] = told[e] \cup d.covers]
  /\ UNCHANGED <<m_localSequenceNum, sent, lost, failed>>

(* What that leaves of each variable.                                        *)
LEMMA TakenTyped ==
  ASSUME TypeOK, NEW e \in Endpoint, NEW d \in Datagram, NEW hits, Taken(e, d, hits)
  PROVE  /\ m_in' \in [Endpoint -> SUBSET SeqNum] /\ m_in'[e] = m_in[e] \cup {d.id}
         /\ m_remoteSequenceNum' \in [Endpoint -> SeqNum]
         /\ m_remoteSequenceNum'[e] = Further(d.id, m_remoteSequenceNum[e])
         /\ flow' \in [Endpoint -> FlowType]
         /\ flow'[e].m_connectionRTT = RttAfter(flow[e].m_connectionRTT, m_out[e], d)
         /\ received' \in [Endpoint -> SUBSET Nat] /\ received'[e] = received[e] \cup {d.n}
         /\ acked'[e] = acked[e] \cup {p.n : p \in hits}
         /\ newest' \in [Endpoint -> Nat]
         /\ newest'[e] = IF d.n > newest[e] THEN d.n ELSE newest[e]
         /\ near' \in [Endpoint -> BOOLEAN]
         /\ near'[e] => near[e] /\ Near(d.n, newest[e])
         /\ prompt' \in [Endpoint -> BOOLEAN]
         /\ prompt'[e] => prompt[e]
         /\ told' \in [Endpoint -> SUBSET Nat] /\ told'[e] = told[e] \cup d.covers
         /\ \A x \in Endpoint : x # e =>
              UNCHANGED <<m_in[x], m_remoteSequenceNum[x], m_out[x], flow[x],
                          received[x], acked[x], newest[x], near[x], prompt[x],
                          told[x]>>
<1> DEFINE rtt == RttAfter(flow[e].m_connectionRTT, m_out[e], d)
<1>1. /\ d.id \in SeqNum /\ d.n \in Nat /\ d.newest \in Nat /\ d.covers \subseteq Nat
  BY DEF Datagram
<1>2. rtt \in RttType
  <2>1. /\ \A p \in m_out[e] : p.age \in Age
        /\ flow[e].m_connectionRTT \in RttType
    BY FlowFields DEF TypeOK, OutPacket, RttType
  <2> QED
    BY <2>1, RttAfterTyped
<1>3. flow' = [flow EXCEPT ![e] = [flow[e] EXCEPT !.m_connectionRTT = rtt]]
  BY DEF Taken
<1> HIDE DEF rtt
<1>4. /\ m_in' \in [Endpoint -> SUBSET SeqNum] /\ m_in'[e] = m_in[e] \cup {d.id}
      /\ received' \in [Endpoint -> SUBSET Nat] /\ received'[e] = received[e] \cup {d.n}
      /\ told' \in [Endpoint -> SUBSET Nat] /\ told'[e] = told[e] \cup d.covers
      /\ acked'[e] = acked[e] \cup {p.n : p \in hits}
  BY <1>1 DEF Taken, TypeOK
<1>5. /\ m_remoteSequenceNum' \in [Endpoint -> SeqNum]
      /\ m_remoteSequenceNum'[e] = Further(d.id, m_remoteSequenceNum[e])
  BY <1>1 DEF Taken, TypeOK, Further
<1>6. /\ newest' \in [Endpoint -> Nat]
      /\ newest'[e] = IF d.n > newest[e] THEN d.n ELSE newest[e]
  BY <1>1 DEF Taken, TypeOK
<1>7. /\ flow' \in [Endpoint -> FlowType] /\ flow'[e].m_connectionRTT = rtt
  <2>1. flow \in [Endpoint -> FlowType] /\ flow[e] \in FlowType
    BY DEF TypeOK
  <2>2. /\ [flow[e] EXCEPT !.m_connectionRTT = rtt] \in FlowType
        /\ [flow[e] EXCEPT !.m_connectionRTT = rtt].m_connectionRTT = rtt
    BY <1>2, <2>1 DEF FlowType, RttType
  <2> QED
    BY <1>3, <2>1, <2>2
<1>8. near' \in [Endpoint -> BOOLEAN] /\ (near'[e] => near[e] /\ Near(d.n, newest[e]))
  <2> DEFINE B == near[e] /\ Near(d.n, newest[e])
  <2>1. B \in BOOLEAN /\ (B => near[e] /\ Near(d.n, newest[e]))
    BY DEF TypeOK
  <2>2. near' = [near EXCEPT ![e] = B] /\ near \in [Endpoint -> BOOLEAN]
    BY DEF Taken, TypeOK
  <2> HIDE DEF B
  <2> QED
    BY <2>1, <2>2
<1>9. prompt' \in [Endpoint -> BOOLEAN] /\ (prompt'[e] => prompt[e])
  <2> DEFINE B == prompt[e] /\ Near(d.newest, sent[e])
  <2>1. B \in BOOLEAN /\ (B => prompt[e])
    BY DEF TypeOK
  <2>2. prompt' = [prompt EXCEPT ![e] = B] /\ prompt \in [Endpoint -> BOOLEAN]
    BY DEF Taken, TypeOK
  <2> HIDE DEF B
  <2> QED
    BY <2>1, <2>2
<1>10. \A x \in Endpoint : x # e =>
         UNCHANGED <<m_in[x], m_remoteSequenceNum[x], m_out[x], flow[x],
                     received[x], acked[x], newest[x], near[x], prompt[x], told[x]>>
  BY DEF Taken, TypeOK
<1> QED
  BY <1>4, <1>5, <1>6, <1>7, <1>8, <1>9, <1>10 DEF rtt

(* Whatever arrives, and however late: the invariant holds afterwards.       *)
LEMMA ReceivePreserves ==
  ASSUME NEW G, NEW old, Inv(G, old), NEW d \in network, Receive(d)
  PROVE  Inv(G, old)'
<1> DEFINE s == d.from
           e == Peer[d.from]
           hits == AckedBy(m_out[e], d)
<1>1. Taken(e, d, hits)
  BY DEF Receive, ReceiveAt, Taken
<1>2. TypeOK /\ d \in Datagram /\ Truthful(d, G, old)
  BY DEF Inv, TypeOK
<1>3. /\ s \in Endpoint /\ e \in Endpoint /\ Peer[e] = s /\ s # e
      /\ d.id \in SeqNum /\ d.n \in Nat /\ d.covers \subseteq Nat
      /\ d.bits \subseteq BitIndex
      /\ \A x \in Endpoint : x # e => Peer[x] # s
  BY <1>2, ConnectionAssumption DEF Datagram
<1>4. hits \in SUBSET m_out[e]
  BY DEF AckedBy, Addressed, HasId
<1>5. /\ \A p \in hits : \E i \in d.bits : p.id = SeqSub(d.ack, i)
      /\ \A i \in d.bits : Addressed(m_out[e], d.ack, i) \subseteq hits
  BY DEF AckedBy, Addressed, HasId
<1>6. flow'[e].m_connectionRTT = INVALID_RTT
        <=> flow[e].m_connectionRTT = INVALID_RTT /\ hits = {}
  <2>1. /\ \A p \in m_out[e] : p.age \in Age
        /\ flow[e].m_connectionRTT \in RttType
    BY <1>2, <1>3, FlowFields DEF TypeOK, OutPacket, RttType
  <2>2. flow'[e].m_connectionRTT = RttAfter(flow[e].m_connectionRTT, m_out[e], d)
    BY <1>1, <1>2, <1>3, TakenTyped
  <2> QED
    BY <1>3, <2>1, <2>2, RttAfterValid
<1>7. /\ d.n \in 1 .. sent[s] /\ d.n \notin failed[s]
      /\ s \in G => d.id = d.n % SEQ_MOD
  BY <1>2 DEF Truthful
<1> HIDE DEF hits, e, s
<1>8. /\ m_in'[e] = m_in[e] \cup {d.id}
      /\ m_remoteSequenceNum'[e] = Further(d.id, m_remoteSequenceNum[e])
      /\ received'[e] = received[e] \cup {d.n}
      /\ acked'[e] = acked[e] \cup {p.n : p \in hits}
      /\ newest'[e] = IF d.n > newest[e] THEN d.n ELSE newest[e]
      /\ near'[e] => near[e] /\ Near(d.n, newest[e])
      /\ prompt'[e] => prompt[e]
      /\ told'[e] = told[e] \cup d.covers
  BY <1>1, <1>2, <1>3, TakenTyped
<1>9. \A x \in Endpoint : x # e =>
        UNCHANGED <<m_in[x], m_remoteSequenceNum[x], m_out[x], flow[x],
                    received[x], acked[x], newest[x], near[x], prompt[x], told[x]>>
  BY <1>1, <1>2, <1>3, TakenTyped
<1>10. network' \subseteq network /\ UNCHANGED <<m_localSequenceNum, sent, lost, failed>>
  BY <1>1 DEF Taken
<1>11. /\ \A x \in Endpoint : Fates(x)'
       /\ \A x \in Endpoint : m_out'[x] \subseteq m_out[x] /\ acked[x] \subseteq acked'[x]
       /\ \A x \in Endpoint : OutOrdinals(x)' \cup acked'[x] \cup lost'[x]
                            = OutOrdinals(x) \cup acked[x] \cup lost[x]
       /\ m_out' \in [Endpoint -> SUBSET OutPacket]
       /\ acked' \in [Endpoint -> SUBSET Nat]
  BY <1>1, <1>3, <1>4, <1>10, SettledOnce DEF Taken
<1>12. TypeOK'
  BY <1>1, <1>2, <1>3, <1>10, <1>11, TakenTyped DEF TypeOK
<1>13. \A x \in Endpoint : /\ received[x] \subseteq received'[x]
                           /\ near'[x] => near[x]
                           /\ prompt'[x] => prompt[x]
  BY <1>8, <1>9
<1>14. \A x \in Endpoint : \A i : Named(x, old, i) => Named(x, old, i)'
  BY <1>13, NamesStay
<1>15. newest[e] \in Nat /\ received[e] \subseteq Nat
  BY <1>2, <1>3 DEF TypeOK
<1>16. ASSUME NEW x \in Endpoint PROVE Arrivals(x, old)'
  <2>1. Arrivals(x, old)
    BY DEF Inv
  <2>2. CASE x # e
    BY <1>9, <1>10, <2>1, <2>2 DEF Arrivals, Ever
  <2>3. CASE x = e
    <3>1. newest'[e] \in {0} \cup received'[e]
      BY <1>8, <2>1, <2>3 DEF Arrivals
    <3>2. \A n \in received'[e] : n <= newest'[e]
      BY <1>3, <1>8, <1>15, <2>1, <2>3 DEF Arrivals
    <3>3. \A n \in Ever(e, old)' : n \in 1 .. sent[s] /\ n \notin failed[s]
      BY <1>3, <1>7, <1>8, <2>1, <2>3 DEF Arrivals, Ever
    <3> QED
      BY <1>3, <1>10, <2>3, <3>1, <3>2, <3>3 DEF Arrivals
  <2> QED
    BY <2>2, <2>3
<1>17. ASSUME NEW x \in G PROVE Numbering(x)'
  <2>1. Numbering(x) /\ x \in Endpoint
    BY DEF Inv
  <2>2. 1 .. sent[x] \subseteq OutOrdinals(x)' \cup acked'[x] \cup lost'[x] \cup failed[x]
    BY <1>11, <2>1 DEF Numbering
  <2>3. acked'[x] = {} <=> flow'[x].m_connectionRTT = INVALID_RTT
    <3>1. acked[x] = {} <=> flow[x].m_connectionRTT = INVALID_RTT
      BY <2>1 DEF Numbering
    <3>2. CASE x # e
      BY <1>9, <2>1, <3>1, <3>2
    <3>3. CASE x = e
      <4>1. acked'[e] = {} <=> acked[e] = {} /\ hits = {}
        BY <1>8
      <4> QED
        BY <1>6, <3>1, <3>3, <4>1
    <3> QED
      BY <3>2, <3>3
  <2>4. m_localSequenceNum'[x] = sent'[x] % SEQ_MOD
    BY <1>10, <2>1 DEF Numbering
  <2>5. \A p \in m_out'[x] : p.id = p.n % SEQ_MOD
    BY <1>11, <2>1 DEF Numbering
  <2>6. prompt'[x] => \A p \in m_out'[x] : sent'[x] - p.n < UINT16_HALF
    BY <1>10, <1>11, <1>13, <2>1 DEF Numbering
  <2> QED
    BY <1>10, <2>2, <2>3, <2>4, <2>5, <2>6 DEF Numbering
<1>18. ASSUME NEW x \in G PROVE Hearing(Peer[x])'
  <2>1. x \in Endpoint /\ Peer[x] \in Endpoint /\ Hearing(Peer[x])
    BY Peers DEF Inv
  <2>2. CASE x # s
    <3>1. Peer[x] # e
      BY <1>3, <2>1, <2>2, Peers
    <3> QED
      BY <1>9, <2>1, <3>1 DEF Hearing
  <2>3. CASE x = s
    <3>1. Peer[x] = e /\ Hearing(e) /\ d.id = d.n % SEQ_MOD
      BY <1>3, <1>7, <2>1, <2>3, Peers DEF e, s
    <3>2. /\ \A n \in received'[e] : n % SEQ_MOD \in m_in'[e]
          /\ \A k \in m_in'[e] : \E n \in received'[e] : k = n % SEQ_MOD
      BY <1>8, <3>1 DEF Hearing
    <3>3. ASSUME near'[e] PROVE m_remoteSequenceNum'[e] = newest'[e] % SEQ_MOD
      <4>1. d.n - newest[e] < UINT16_HALF /\ newest[e] - d.n < UINT16_HALF
        BY <1>8, <3>3 DEF Near
      <4>2. SequenceGreaterThan(d.n % SEQ_MOD, newest[e] % SEQ_MOD) <=> d.n > newest[e]
        BY <1>3, <1>15, <4>1, GreaterThanIsLaterSent
      <4>3. m_remoteSequenceNum[e] = newest[e] % SEQ_MOD
        BY <1>8, <3>1, <3>3 DEF Hearing
      <4> QED
        BY <1>8, <3>1, <4>2, <4>3 DEF Further
    <3> QED
      BY <3>1, <3>2, <3>3 DEF Hearing
  <2> QED
    BY <2>2, <2>3
<1>19. ASSUME NEW x \in G PROVE Learning(x, old)'
  <2>1. x \in Endpoint /\ Peer[x] \in Endpoint /\ Learning(x, old) /\ Numbering(x)
    BY Peers DEF Inv
  <2>2. CASE x # e
    BY <1>9, <1>10, <1>13, <1>14, <2>1, <2>2 DEF Learning
  <2>3. CASE x = e
    <3>1. /\ \A i \in d.bits : Named(s, old, SeqSub(d.ack, i))
          /\ near[s] => \A n \in d.covers :
                          \E i \in d.bits : SeqSub(d.ack, i) = n % SEQ_MOD
          /\ d.covers \subseteq Ever(s, old)
      BY <1>2, <1>3, <2>3 DEF Truthful, e, s
    <3>2. \A n \in acked'[e] : Named(s, old, n % SEQ_MOD)
      <4>1. \A n \in acked[e] : Named(s, old, n % SEQ_MOD)
        BY <1>3, <2>1, <2>3 DEF Learning
      <4>2. ASSUME NEW p \in hits PROVE Named(s, old, p.n % SEQ_MOD)
        <5>1. p.id = p.n % SEQ_MOD
          BY <1>4, <2>1, <2>3 DEF Numbering
        <5> QED
          BY <1>5, <3>1, <5>1
      <4> QED
        BY <1>8, <4>1, <4>2
    <3>3. ASSUME near'[s], prompt'[e], NEW n \in told'[e]
          PROVE  n \in acked'[e] \cup lost'[e]
      <4>1. near[s] /\ prompt[e]
        BY <1>3, <1>13, <3>3
      <4>2. CASE n \in told[e]
        BY <1>3, <1>8, <1>10, <2>1, <2>3, <4>1, <4>2 DEF Learning
      <4>3. CASE n \in d.covers
        <5>1. n \in 1 .. sent[e] /\ n \notin failed[e]
          BY <1>3, <3>1, <4>3, Peers DEF Inv, Arrivals
        <5>2. n \in OutOrdinals(e) \cup acked[e] \cup lost[e]
          BY <2>1, <2>3, <5>1 DEF Numbering
        <5>3. CASE n \in OutOrdinals(e)
          <6>1. PICK p \in m_out[e] : n = p.n
            BY <5>3 DEF OutOrdinals
          <6>2. PICK i \in d.bits : SeqSub(d.ack, i) = n % SEQ_MOD
            BY <3>1, <4>1, <4>3
          <6>3. p \in Addressed(m_out[e], d.ack, i)
            BY <2>3, <4>1, <6>1, <6>2, PromptPacketIsFound
          <6> QED
            BY <1>5, <1>8, <6>1, <6>2, <6>3
        <5> QED
          BY <1>8, <1>10, <5>2, <5>3
      <4> QED
        BY <1>8, <3>3, <4>2, <4>3
    <3> QED
      BY <1>3, <1>14, <2>3, <3>2, <3>3 DEF Learning
  <2> QED
    BY <2>2, <2>3
<1>20. ASSUME NEW b \in network' PROVE Truthful(b, G, old)'
  <2>1. Truthful(b, G, old) /\ b.from \in Endpoint
    BY <1>10 DEF Inv, TypeOK, Datagram
  <2>2. sent[b.from] \in Nat
    BY <1>2, <2>1 DEF TypeOK
  <2> QED
    BY <1>10, <1>13, <2>1, <2>2, StaysTruthful
<1> QED
  BY <1>11, <1>12, <1>16, <1>17, <1>18, <1>19, <1>20 DEF Inv

-----------------------------------------------------------------------------
(* The steps together. *)

(* So does a step that changes nothing.                                      *)
LEMMA NothingPreserves ==
  ASSUME NEW G, NEW old, Inv(G, old), UNCHANGED vars
  PROVE  Inv(G, old)'
<1>1. UNCHANGED <<m_localSequenceNum, m_remoteSequenceNum, m_out, m_in, flow, network,
                  sent, received, acked, lost, failed, newest, near, prompt, told>>
  BY DEF vars, members, history
<1>2. TypeOK'
  BY <1>1 DEF Inv, TypeOK
<1>3. \A e \in Endpoint : Fates(e)' /\ Arrivals(e, old)'
  BY <1>1 DEF Inv, Fates, OutOrdinals, Arrivals, Ever
<1>4. \A e \in G : Numbering(e)' /\ Hearing(Peer[e])' /\ Learning(e, old)'
  BY <1>1 DEF Inv, Numbering, OutOrdinals, Hearing, Learning, Named, Ever
<1>5. \A d \in network' : Truthful(d, G, old)'
  BY <1>1 DEF Inv, Truthful, Named, Ever
<1> QED
  BY <1>2, <1>3, <1>4, <1>5 DEF Inv

(* Every step of the two endpoints and of the path keeps the invariant.      *)
LEMMA NextPreserves ==
  ASSUME NEW G, NEW old, Inv(G, old), [Next]_vars
  PROVE  Inv(G, old)'
<1>1. ASSUME NEW e \in Endpoint, NEW SPL \in BOOLEAN, Send(e, SPL)
      PROVE  Inv(G, old)'
  BY <1>1, SendPreserves
<1>2. ASSUME NEW e \in Endpoint, SendFails(e) PROVE Inv(G, old)'
  BY <1>2, SendFailsPreserves
<1>3. ASSUME NEW d \in network, Receive(d) PROVE Inv(G, old)'
  BY <1>3, ReceivePreserves
<1>4. ASSUME NEW e \in Endpoint, Update(e) PROVE Inv(G, old)'
  BY <1>4, UpdatePreserves
<1>5. CASE Tick
  BY <1>5, TickPreserves
<1>6. CASE UNCHANGED vars
  BY <1>6, NothingPreserves
<1> QED
  BY <1>1, <1>2, <1>3, <1>4, <1>5, <1>6 DEF Next

(* An id of an end that has used none twice names one packet only.           *)
LEMMA NamedIsReceived ==
  ASSUME NEW G, NEW old, Inv(G, old), NEW e \in G, e \in Unambiguous,
         NEW n \in 1 .. sent[e], Named(Peer[e], old, n % SEQ_MOD)
  PROVE  n \in Ever(Peer[e], old)
<1>1. e \in Endpoint /\ Peer[e] \in Endpoint /\ Peer[Peer[e]] = e /\ sent[e] \in Nat
  BY Peers DEF Inv, TypeOK
<1>2. PICK m \in Ever(Peer[e], old) : n % SEQ_MOD = m % SEQ_MOD
  BY DEF Named
<1>3. m \in 1 .. sent[e]
  BY <1>1 DEF Inv, Arrivals
<1>4. sent[e] < SEQ_MOD /\ SEQ_MOD \in Nat
  BY SequenceAssumption DEF Unambiguous
<1>5. n \in Nat /\ m \in Nat /\ n - m < SEQ_MOD /\ m - n < SEQ_MOD
  BY <1>1, <1>3, <1>4
<1> QED
  BY <1>2, <1>5, CloseAndEqualIds

(* What such an end took as acknowledged was received, if not by this run of *)
(* the other end, by an earlier one.                                         *)
LEMMA SoundUntilWrap ==
  ASSUME NEW G, NEW old, Inv(G, old), NEW e \in G, e \in Unambiguous
  PROVE  acked[e] \subseteq Ever(Peer[e], old)
<1>1. ASSUME NEW n \in acked[e] PROVE n \in Ever(Peer[e], old)
  <2>1. n \in 1 .. sent[e] /\ Named(Peer[e], old, n % SEQ_MOD)
    BY DEF Inv, Fates, Learning
  <2> QED
    BY <2>1, NamedIsReceived
<1> QED
  BY <1>1

-----------------------------------------------------------------------------
(* The theorems. *)

\* Nobody starts anew.
NoneBefore == [e \in Endpoint |-> {}]

IInv == Inv(Endpoint, NoneBefore)

(* The invariant holds in every reachable state.                             *)
LEMMA Invariance == Spec => []IInv
<1>1. Init => IInv
  BY InitEstablishes DEF IInv, NoneBefore
<1>2. IInv /\ [Next]_vars => IInv'
  BY NextPreserves DEF IInv, NoneBefore
<1> QED
  BY <1>1, <1>2, PTL DEF Spec

(* Every member keeps to its type: no id, age or round trip time leaves its  *)
(* range, in any order of Send, Receive and Update.                          *)
THEOREM TypeCorrect == Spec => []TypeOK
<1>1. IInv => TypeOK
  BY DEF IInv, Inv
<1> QED
  BY <1>1, Invariance, PTL

(* No packet is acknowledged twice, or after it was deemed lost, and none is *)
(* forgotten.                                                                *)
THEOREM EveryPacketHasOneFate == Spec => []OneFateEach
<1>1. ASSUME IInv PROVE OneFateEach
  <2>1. \A e \in Endpoint : Fates(e) /\ Numbering(e)
    BY <1>1 DEF IInv, Inv
  <2> QED
    BY <2>1 DEF Fates, Numbering, OneFateEach
<1> QED
  BY <1>1, Invariance, PTL

(* m_remoteSequenceNum follows the newest packet through every reordering    *)
(* shorter than half the number space.                                       *)
THEOREM RemoteFollowsNewest == Spec => []RemoteIsNewest
<1>1. ASSUME IInv PROVE RemoteIsNewest
  <2>1. \A e \in Endpoint : Hearing(Peer[Peer[e]])
    BY <1>1, Peers DEF IInv, Inv
  <2> QED
    BY <2>1, Peers DEF Hearing, RemoteIsNewest
<1> QED
  BY <1>1, Invariance, PTL

(* Every acknowledged id was received by the other end at some time.         *)
THEOREM AcknowledgedIdsWereReceived == Spec => []AckNamesReceivedId
<1>1. ASSUME IInv PROVE AckNamesReceivedId
  <2>1. \A e \in Endpoint : Hearing(Peer[e]) /\ Learning(e, NoneBefore)
    BY <1>1 DEF IInv, Inv
  <2>2. \A e \in Endpoint : Ever(Peer[e], NoneBefore) = received[Peer[e]]
    BY Peers DEF Ever, NoneBefore
  <2>3. ASSUME NEW e \in Endpoint, NEW n \in acked[e]
        PROVE  n % SEQ_MOD \in m_in[Peer[e]]
    <3>1. PICK m \in received[Peer[e]] : n % SEQ_MOD = m % SEQ_MOD
      BY <2>1, <2>2 DEF Learning, Named
    <3> QED
      BY <2>1, <3>1 DEF Hearing
  <2> QED
    BY <2>3 DEF AckNamesReceivedId
<1> QED
  BY <1>1, Invariance, PTL

(* Loss, reordering and duplication alone make no acknowledgement unsound.   *)
THEOREM AcknowledgedPacketsWereReceived == Spec => []AckSoundUntilWrap
<1>1. ASSUME IInv PROVE AckSoundUntilWrap
  <2>1. \A e \in Unambiguous : acked[e] \subseteq Ever(Peer[e], NoneBefore)
    BY <1>1, SoundUntilWrap DEF IInv, Unambiguous
  <2>2. \A e \in Endpoint : Ever(Peer[e], NoneBefore) = received[Peer[e]]
    BY Peers DEF Ever, NoneBefore
  <2> QED
    BY <2>1, <2>2 DEF AckSoundUntilWrap, Unambiguous
<1> QED
  BY <1>1, Invariance, PTL

(* What an arriving acknowledgement covers is settled here, across           *)
(* wrap-around, while no packet and no datagram outlives half the numbers.   *)
THEOREM AcknowledgementsAreComplete == Spec => []AckCompleteWhilePrompt
<1>1. IInv => AckCompleteWhilePrompt
  BY DEF IInv, Inv, Learning, AckCompleteWhilePrompt
<1> QED
  BY <1>1, Invariance, PTL

(* A round trip time is known exactly when some packet was acknowledged.     *)
THEOREM RttIsMeasured == Spec => []RttMeasured
<1>1. IInv => RttMeasured
  BY DEF IInv, Inv, Numbering, RttMeasured
<1> QED
  BY <1>1, Invariance, PTL

-----------------------------------------------------------------------------
(* The first half of the numbers. *)

\* While an end has used less than half of them, nothing of it can be late.
Timely ==
  /\ \A d \in network : d.newest <= sent[Peer[d.from]]
  /\ \A e \in Endpoint : sent[e] < UINT16_HALF => near[Peer[e]] /\ prompt[e]

(* No ordinal that is heard of is beyond what was sent.                       *)
LEMMA NewestWasSent ==
  ASSUME NEW G, NEW old, Inv(G, old), NEW e \in Endpoint
  PROVE  /\ sent[e] \in Nat /\ newest[e] \in Nat
         /\ newest[e] <= sent[Peer[e]]
<1>1. newest[e] \in Nat /\ sent[e] \in Nat /\ sent[Peer[e]] \in Nat
  BY Peers DEF Inv, TypeOK
<1>2. newest[e] = 0 \/ newest[e] \in 1 .. sent[Peer[e]]
  BY DEF Inv, Arrivals, Ever
<1> QED
  BY <1>1, <1>2

(* Taking a number: a packet in m_out is no older than the first.            *)
LEMMA TakingStaysTimely ==
  ASSUME NEW G, NEW old, Inv(G, old), Timely, NEW e \in Endpoint, TakeNumber(e),
         UNCHANGED near, \A d \in network' : d \in network \/ d = Packet(e)
  PROVE  Timely'
<1>1. /\ sent \in [Endpoint -> Nat] /\ prompt \in [Endpoint -> BOOLEAN]
      /\ UINT16_HALF \in Nat
  BY SequenceAssumption DEF Inv, TypeOK
<1>2. /\ sent' = [sent EXCEPT ![e] = sent[e] + 1]
      /\ prompt' = [prompt EXCEPT ![e] =
                      prompt[e] /\ \A p \in m_out[e] : Near(p.n, sent[e] + 1)]
  BY DEF TakeNumber
<1>3. \A x \in Endpoint : sent[x] <= sent'[x] /\ sent'[x] \in Nat /\ sent[x] \in Nat
  BY <1>1, <1>2
<1>4. ASSUME NEW d \in network' PROVE d.newest <= sent'[Peer[d.from]]
  <2>1. CASE d \in network
    <3>1. d.newest \in Nat /\ Peer[d.from] \in Endpoint
      BY <2>1, Peers DEF Inv, TypeOK, Datagram
    <3> QED
      BY <1>3, <2>1, <3>1 DEF Timely
  <2>2. CASE d = Packet(e)
    <3>1. d.newest = newest[e] /\ d.from = e
      BY <2>2 DEF Packet
    <3>2. newest[e] \in Nat /\ newest[e] <= sent[Peer[e]]
      BY NewestWasSent
    <3> QED
      BY <1>3, <3>1, <3>2, Peers
  <2> QED
    BY <2>1, <2>2
<1>5. ASSUME NEW x \in Endpoint, sent'[x] < UINT16_HALF
      PROVE  near'[Peer[x]] /\ prompt'[x]
  <2>1. near[Peer[x]] /\ prompt[x] /\ sent[x] < UINT16_HALF
    BY <1>1, <1>3, <1>5 DEF Timely
  <2>2. ASSUME x = e, NEW p \in m_out[e] PROVE Near(p.n, sent[e] + 1)
    <3>1. p.n \in 1 .. sent[e] /\ sent[e] + 1 < UINT16_HALF
      BY <1>1, <1>2, <1>5, <2>2 DEF Inv, Fates, OutOrdinals
    <3> QED
      BY <1>1, <3>1 DEF Near
  <2>3. prompt'[x]
    <3> DEFINE B == \A p \in m_out[e] : Near(p.n, sent[e] + 1)
    <3>1. x = e => B
      BY <2>2
    <3> HIDE DEF B
    <3>2. prompt' = [prompt EXCEPT ![e] = prompt[e] /\ B]
      BY <1>2 DEF B
    <3> QED
      BY <1>1, <2>1, <3>1, <3>2
  <2> QED
    BY <2>1, <2>3
<1> QED
  BY <1>4, <1>5 DEF Timely

(* Receiving: ordinals that were sent are close to one another.              *)
LEMMA ReceivingStaysTimely ==
  ASSUME NEW G, NEW old, Inv(G, old), Timely, NEW d \in network, Receive(d)
  PROVE  Timely'
<1> DEFINE e == Peer[d.from]
           B == Near(d.n, newest[e])
           C == Near(d.newest, sent[e])
<1>1. /\ near \in [Endpoint -> BOOLEAN] /\ prompt \in [Endpoint -> BOOLEAN]
      /\ sent \in [Endpoint -> Nat] /\ UINT16_HALF \in Nat
      /\ d.newest \in Nat /\ d.n \in 1 .. sent[d.from]
  BY SequenceAssumption DEF Inv, TypeOK, Datagram, Truthful
<1>2. e \in Endpoint /\ Peer[e] = d.from
  BY Peers DEF Inv, TypeOK, Datagram
<1>3. /\ network' \subseteq network /\ sent' = sent
      /\ near' = [near EXCEPT ![e] = near[e] /\ B]
      /\ prompt' = [prompt EXCEPT ![e] = prompt[e] /\ C]
  BY DEF Receive, ReceiveAt
<1>4. newest[e] \in Nat /\ newest[e] <= sent[Peer[e]]
  BY <1>2, NewestWasSent
<1>5. sent[Peer[e]] < UINT16_HALF => B
  <2>1. d.from \in Endpoint
    BY DEF Inv, TypeOK, Datagram
  <2>2. sent[d.from] \in Nat /\ d.n \in 1 .. sent[d.from] /\ newest[e] <= sent[d.from]
    BY <1>1, <1>2, <1>4, <2>1
  <2> HIDE DEF e
  <2>3. sent[d.from] < UINT16_HALF => Near(d.n, newest[e])
    BY <1>1, <1>4, <2>2 DEF Near
  <2> QED
    BY <1>2, <2>3
<1>6. sent[e] < UINT16_HALF => C
  BY <1>1, <1>2 DEF Timely, Near
<1> HIDE DEF B, C, e
<1>7. ASSUME NEW x \in Endpoint, sent[x] < UINT16_HALF
      PROVE  near'[Peer[x]] /\ prompt'[x]
  <2>1. near[Peer[x]] /\ prompt[x] /\ Peer[x] \in Endpoint /\ Peer[Peer[x]] = x
    BY <1>7, Peers DEF Timely
  <2> QED
    BY <1>1, <1>2, <1>3, <1>5, <1>6, <1>7, <2>1
<1>8. \A b \in network' : b.newest <= sent'[Peer[b.from]]
  BY <1>3 DEF Timely
<1> QED
  BY <1>3, <1>7, <1>8 DEF Timely

(* However late anything comes, an end that has used less than half of its    *)
(* numbers has a complete view, and its peer knows the newest of its packets. *)
THEOREM FirstHalfIsExact == Spec => []ExactBeforeHalf
<1>1. Init => Timely
  BY Peers DEF Init, Timely
<1>2. IInv /\ Timely /\ [Next]_vars => Timely'
  <2> SUFFICES ASSUME IInv, Timely, [Next]_vars PROVE Timely'
    OBVIOUS
  <2>1. ASSUME NEW e \in Endpoint, NEW SPL \in BOOLEAN, Send(e, SPL) PROVE Timely'
    BY <2>1, TakingStaysTimely DEF Send, IInv
  <2>2. ASSUME NEW e \in Endpoint, SendFails(e) PROVE Timely'
    BY <2>2, TakingStaysTimely DEF SendFails, IInv
  <2>3. ASSUME NEW d \in network, Receive(d) PROVE Timely'
    BY <2>3, ReceivingStaysTimely DEF IInv
  <2>4. ASSUME UNCHANGED <<network, sent, near, prompt>> PROVE Timely'
    BY <2>4 DEF Timely
  <2>5. ASSUME NEW e \in Endpoint, Update(e) PROVE Timely'
    BY <2>4, <2>5 DEF Update
  <2>6. CASE Tick
    BY <2>4, <2>6 DEF Tick, history
  <2>7. CASE UNCHANGED vars
    BY <2>4, <2>7 DEF vars, history
  <2> QED
    BY <2>1, <2>2, <2>3, <2>5, <2>6, <2>7 DEF Next
<1>3. ASSUME IInv, Timely PROVE ExactBeforeHalf
  <2> SUFFICES ASSUME NEW e \in Endpoint, sent[e] < UINT16_HALF
               PROVE  /\ told[e] \subseteq acked[e] \cup lost[e]
                      /\ m_remoteSequenceNum[Peer[e]] = newest[Peer[e]]
    BY DEF ExactBeforeHalf
  <2>1. near[Peer[e]] /\ prompt[e]
    BY <1>3 DEF Timely
  <2>2. Hearing(Peer[e]) /\ Learning(e, NoneBefore)
    BY <1>3 DEF IInv, Inv
  <2>3. newest[Peer[e]] \in Nat /\ newest[Peer[e]] <= sent[e] /\ sent[e] \in Nat
    BY <1>3, Peers, NewestWasSent DEF IInv
  <2>4. newest[Peer[e]] % SEQ_MOD = newest[Peer[e]]
    BY <2>3, SequenceAssumption
  <2> QED
    BY <2>1, <2>2, <2>4 DEF Hearing, Learning
<1> QED
  BY <1>1, <1>2, <1>3, Invariance, PTL DEF Spec

-----------------------------------------------------------------------------
(* The steps as an end that only counts its packets sees them. *)

\* What pending stands for.
Pending == [x \in Endpoint |-> OutOrdinals(x)]

(* A packet that joins m_out becomes pending.                                *)
LEMMA PendingGrows ==
  ASSUME TypeOK, NEW e \in Endpoint, NEW k, NEW i,
         m_out' = [m_out EXCEPT ![e] = @ \cup {[id |-> i, n |-> k, age |-> 0]}]
  PROVE  Pending' = [Pending EXCEPT ![e] = @ \cup {k}]
<1> DEFINE new == [id |-> i, n |-> k, age |-> 0]
<1>1. m_out \in [Endpoint -> SUBSET OutPacket]
  BY DEF TypeOK
<1>2. OutOrdinals(e)' = OutOrdinals(e) \cup {k}
  <2>1. m_out'[e] = m_out[e] \cup {new} /\ new.n = k
    BY <1>1
  <2> HIDE DEF new
  <2> QED
    BY <2>1 DEF OutOrdinals
<1>3. \A x \in Endpoint : x # e => OutOrdinals(x)' = OutOrdinals(x)
  BY <1>1 DEF OutOrdinals
<1> QED
  BY <1>2, <1>3 DEF Pending

(* Packets that leave m_out cease to be pending.                             *)
LEMMA PendingShrinks ==
  ASSUME TypeOK, NEW e \in Endpoint, Fates(e), NEW gone \in SUBSET m_out[e],
         m_out' = [m_out EXCEPT ![e] = @ \ gone]
  PROVE  /\ Pending' = [Pending EXCEPT ![e] = @ \ {p.n : p \in gone}]
         /\ {p.n : p \in gone} \in SUBSET Pending[e]
<1>1. m_out \in [Endpoint -> SUBSET OutPacket]
  BY DEF TypeOK
<1>2. \A p, q \in m_out[e] : p.n = q.n => p = q
  BY DEF Fates
<1>3. m_out'[e] = m_out[e] \ gone
  BY <1>1
<1>4. OutOrdinals(e)' = OutOrdinals(e) \ {p.n : p \in gone}
      /\ {p.n : p \in gone} \subseteq OutOrdinals(e)
  BY <1>2, <1>3, OrdinalsRemoved DEF OutOrdinals
<1>5. \A x \in Endpoint : x # e => OutOrdinals(x)' = OutOrdinals(x)
  BY <1>1 DEF OutOrdinals
<1> QED
  BY <1>4, <1>5 DEF Pending

(* Sending only ever uses numbers up.                                        *)
LEMMA NumbersUsedUp ==
  ASSUME TypeOK, NEW e \in Endpoint, TakeNumber(e)
  PROVE  /\ sent' = [sent EXCEPT ![e] = @ + 1]
         /\ Unambiguous' \subseteq Unambiguous
<1>1. sent' = [sent EXCEPT ![e] = @ + 1] /\ sent \in [Endpoint -> Nat]
  BY DEF TakeNumber, TypeOK
<1>2. \A x \in Endpoint : sent[x] <= sent'[x] /\ sent'[x] \in Nat /\ sent[x] \in Nat
  BY <1>1
<1> QED
  BY <1>1, <1>2, SequenceAssumption DEF Unambiguous

(* A packet that is kept is pending.                                         *)
LEMMA SendAdds ==
  ASSUME TypeOK, NEW e \in Endpoint, NEW SPL \in BOOLEAN, Send(e, SPL)
  PROVE  /\ sent' = [sent EXCEPT ![e] = @ + 1]
         /\ Unambiguous' \subseteq Unambiguous
         /\ Pending' = [Pending EXCEPT ![e] = @ \cup {sent[e] + 1}]
         /\ UNCHANGED <<received, acked, lost, failed>>
<1>1. sent' = [sent EXCEPT ![e] = @ + 1] /\ Unambiguous' \subseteq Unambiguous
  BY NumbersUsedUp DEF Send
<1>2. Pending' = [Pending EXCEPT ![e] = @ \cup {sent[e] + 1}]
  BY PendingGrows DEF Send
<1> QED
  BY <1>1, <1>2 DEF Send

(* One that the socket refuses has failed.                                   *)
LEMMA SendFailsAdds ==
  ASSUME TypeOK, NEW e \in Endpoint, SendFails(e)
  PROVE  /\ sent' = [sent EXCEPT ![e] = @ + 1]
         /\ Unambiguous' \subseteq Unambiguous
         /\ failed' = [failed EXCEPT ![e] = @ \cup {sent[e] + 1}]
         /\ Pending' = Pending
         /\ UNCHANGED <<received, acked, lost>>
<1>1. sent' = [sent EXCEPT ![e] = @ + 1] /\ Unambiguous' \subseteq Unambiguous
  BY NumbersUsedUp DEF SendFails
<1>2. Pending' = Pending
  BY DEF SendFails, Pending, OutOrdinals
<1> QED
  BY <1>1, <1>2 DEF SendFails

(* A datagram that arrives settles packets that did arrive.                  *)
LEMMA ReceiveSettles ==
  ASSUME NEW G, NEW old, Inv(G, old), NEW d \in network, Receive(d),
         NEW e, e = Peer[d.from]
  PROVE  /\ e \in Endpoint
         /\ d.n \in 1 .. sent[Peer[e]] /\ d.n \notin failed[Peer[e]]
         /\ received' = [received EXCEPT ![e] = @ \cup {d.n}]
         /\ UNCHANGED <<sent, lost, failed, Unambiguous>>
         /\ \E S \in SUBSET Pending[e] :
              /\ Pending' = [Pending EXCEPT ![e] = @ \ S]
              /\ acked' = [acked EXCEPT ![e] = @ \cup S]
              /\ e \in G \cap Unambiguous => S \subseteq Ever(Peer[e], old)
<1> DEFINE hits == AckedBy(m_out[e], d)
           S == {p.n : p \in hits}
<1>1. /\ m_out' = [m_out EXCEPT ![e] = @ \ hits]
      /\ received' = [received EXCEPT ![e] = @ \cup {d.n}]
      /\ acked' = [acked EXCEPT ![e] = @ \cup S]
      /\ UNCHANGED <<sent, lost, failed>>
  BY DEF Receive, ReceiveAt
<1>2. TypeOK /\ d \in Datagram /\ Truthful(d, G, old)
  BY DEF Inv, TypeOK
<1>3. e \in Endpoint /\ Peer[e] = d.from /\ Fates(e)
  BY <1>2, Peers DEF Inv, Datagram
<1>4. d.n \in 1 .. sent[Peer[e]] /\ d.n \notin failed[Peer[e]]
  BY <1>2, <1>3 DEF Truthful
<1>5. /\ hits \in SUBSET m_out[e]
      /\ \A p \in hits : \E i \in d.bits : p.id = SeqSub(d.ack, i)
  BY DEF AckedBy, Addressed, HasId
<1> HIDE DEF hits
<1>6. Pending' = [Pending EXCEPT ![e] = @ \ S] /\ S \in SUBSET Pending[e]
  BY <1>1, <1>2, <1>3, <1>5, PendingShrinks
<1>7. ASSUME e \in G, e \in Unambiguous, NEW p \in hits
      PROVE  p.n \in Ever(Peer[e], old)
  <2>1. Numbering(e)
    BY <1>7 DEF Inv
  <2>2. p.id = p.n % SEQ_MOD
    BY <1>5, <2>1 DEF Numbering
  <2>3. Named(Peer[e], old, p.n % SEQ_MOD)
    BY <1>2, <1>3, <1>5, <1>7, <2>2 DEF Truthful
  <2>4. p.n \in 1 .. sent[e]
    BY <1>3, <1>5 DEF Fates, OutOrdinals
  <2> QED
    BY <1>7, <2>3, <2>4, NamedIsReceived
<1>8. e \in G \cap Unambiguous => S \subseteq Ever(Peer[e], old)
  BY <1>7
<1>9. Unambiguous' = Unambiguous
  BY <1>1 DEF Unambiguous
<1> QED
  BY <1>1, <1>3, <1>4, <1>6, <1>8, <1>9

(* An update gives packets up.                                               *)
LEMMA UpdateSettles ==
  ASSUME TypeOK, NEW e \in Endpoint, Fates(e), Update(e)
  PROVE  /\ UNCHANGED <<sent, received, acked, failed, Unambiguous>>
         /\ \E S \in SUBSET Pending[e] :
              /\ Pending' = [Pending EXCEPT ![e] = @ \ S]
              /\ lost' = [lost EXCEPT ![e] = @ \cup S]
<1> DEFINE gone == Late(m_out[e])
           S == {p.n : p \in gone}
<1>1. /\ m_out' = [m_out EXCEPT ![e] = @ \ gone]
      /\ lost' = [lost EXCEPT ![e] = @ \cup S]
      /\ UNCHANGED <<sent, received, acked, failed>>
  BY DEF Update, TypeOK
<1>2. gone \in SUBSET m_out[e]
  BY DEF Late
<1> HIDE DEF gone
<1>3. Pending' = [Pending EXCEPT ![e] = @ \ S] /\ S \in SUBSET Pending[e]
  BY <1>1, <1>2, PendingShrinks
<1>4. Unambiguous' = Unambiguous
  BY <1>1 DEF Unambiguous
<1> QED
  BY <1>1, <1>3, <1>4

(* The clock only makes packets older.                                       *)
LEMMA TickIsSilent ==
  ASSUME TypeOK, Tick
  PROVE  Pending' = Pending /\ UNCHANGED history
<1> DEFINE older(p) == [p EXCEPT !.age = Older(@)]
<1>1. \A x \in Endpoint : m_out'[x] = {older(p) : p \in m_out[x]}
  BY DEF Tick
<1>2. /\ \A x \in Endpoint : m_out[x] \subseteq OutPacket
      /\ \A p \in OutPacket : older(p).n = p.n
  BY DEF TypeOK, OutPacket
<1> HIDE DEF older
<1>3. \A x \in Endpoint : OutOrdinals(x)' = OutOrdinals(x)
  BY <1>1, <1>2 DEF OutOrdinals
<1> QED
  BY <1>3 DEF Pending, Tick

(* Connections provide the acknowledgement service: no packet settles twice  *)
(* or changes sides, none that failed arrives, and until an end uses numbers *)
(* twice only what arrived is acknowledged to it.                            *)
THEOREM ConnectionImplementsService == Spec => ImplementsService
<1>1. Init => Service!Init
  <2> SUFFICES ASSUME Init PROVE Service!Init
    OBVIOUS
  <2>1. Pending = [x \in Endpoint |-> {}]
    BY DEF Init, Pending, OutOrdinals
  <2>2. Unambiguous = Endpoint
    BY SequenceAssumption DEF Init, Unambiguous
  <2> QED
    BY <2>1, <2>2 DEF Init, Service!Init, Pending
<1>2. IInv /\ [Next]_vars => [Service!Next]_(Service!vars)
  <2> SUFFICES ASSUME IInv, [Next]_vars
               PROVE  [Service!Next]_(Service!vars)
    OBVIOUS
  <2> USE DEF Service!Next
  <2>1. TypeOK /\ \A e \in Endpoint : Fates(e)
    BY DEF IInv, Inv
  <2>2. ASSUME NEW e \in Endpoint, NEW SPL \in BOOLEAN, Send(e, SPL)
        PROVE  Service!Submit(e)
    BY <2>1, <2>2, SendAdds DEF Service!Submit, Service!Add, Pending
  <2>3. ASSUME NEW e \in Endpoint, SendFails(e) PROVE Service!Submit(e)
    BY <2>1, <2>3, SendFailsAdds DEF Service!Submit, Service!Add, Pending
  <2>4. ASSUME NEW d \in network, Receive(d)
        PROVE  Peer[d.from] \in Endpoint /\ Service!Arrive(Peer[d.from])
    <3> DEFINE e == Peer[d.from]
    <3>1. /\ e \in Endpoint
          /\ d.n \in 1 .. sent[Peer[e]] /\ d.n \notin failed[Peer[e]]
          /\ received' = [received EXCEPT ![e] = @ \cup {d.n}]
          /\ UNCHANGED <<sent, lost, failed, Unambiguous>>
          /\ \E S \in SUBSET Pending[e] :
               /\ Pending' = [Pending EXCEPT ![e] = @ \ S]
               /\ acked' = [acked EXCEPT ![e] = @ \cup S]
               /\ e \in Endpoint \cap Unambiguous => S \subseteq Ever(Peer[e], NoneBefore)
      BY <2>4, ReceiveSettles DEF IInv
    <3> HIDE DEF e
    <3>2. Ever(Peer[e], NoneBefore) = received[Peer[e]]
      BY <3>1, Peers DEF Ever, NoneBefore
    <3>3. PICK S \in SUBSET Pending[e] :
            /\ Pending' = [Pending EXCEPT ![e] = @ \ S]
            /\ acked' = [acked EXCEPT ![e] = @ \cup S]
            /\ e \in Endpoint \cap Unambiguous => S \subseteq Ever(Peer[e], NoneBefore)
      BY <3>1
    <3>4. e \in Unambiguous => S \subseteq received[Peer[e]]
      BY <3>1, <3>2, <3>3
    <3>5. Service!Arrive(e)
      BY <3>1, <3>3, <3>4 DEF Service!Arrive, Service!Add, Pending
    <3> QED
      BY <3>1, <3>5 DEF e
  <2>5. ASSUME NEW e \in Endpoint, Update(e) PROVE Service!GiveUp(e)
    <3>1. UNCHANGED <<sent, received, acked, failed, Unambiguous>>
      BY <2>1, <2>5, UpdateSettles
    <3>2. PICK S \in SUBSET Pending[e] :
            /\ Pending' = [Pending EXCEPT ![e] = @ \ S]
            /\ lost' = [lost EXCEPT ![e] = @ \cup S]
      BY <2>1, <2>5, UpdateSettles
    <3> QED
      BY <3>1, <3>2 DEF Service!GiveUp, Service!Add, Pending
  <2>6. ASSUME Pending' = Pending, UNCHANGED history PROVE UNCHANGED Service!vars
    BY <2>6 DEF Service!vars, Pending, history, Unambiguous
  <2>7. CASE Tick
    BY <2>1, <2>6, <2>7, TickIsSilent
  <2>8. CASE UNCHANGED vars
    BY <2>6, <2>8 DEF vars, members, Pending, OutOrdinals
  <2> QED
    BY <2>2, <2>3, <2>4, <2>5, <2>7, <2>8 DEF Next
<1> QED
  BY <1>1, <1>2, Invariance, PTL
  DEF Spec, ImplementsService, Service!Spec
=============================================================================
