----------------------------- MODULE SessionProofs -----------------------------
(***************************************************************************)
(* What was proved of two connections in ConnectionProofs, for the programs *)
(* around them: however often clients are killed and started again, and     *)
(* however late, repeated or mixed up the datagrams of their runs arrive.   *)
(*                                                                         *)
(* The loops only do what Connection allows, so its lemmas take care of     *)
(* every step but one; a client that starts again leaves FirstRun, and what *)
(* it had received moves to Before.                                         *)
(***************************************************************************)
EXTENDS Session, ConnectionProofs

-----------------------------------------------------------------------------
(* The inductive invariant. *)

\* The invariant of Connection, of the ends in their first run.
RunsInv == \E G, old : G = FirstRun /\ old = Before /\ Inv(G, old)

\* The datagram being handled was recorded.
AnswerInv ==
  \A d \in tempBuf :
    /\ d.from \in Client
    /\ d.from \in FirstRun => d.id = d.n % SEQ_MOD
    /\ d.id \in m_in[Peer[d.from]]
    /\ d.n \in received[Peer[d.from]]

SInv == RunsInv /\ SessionTypeOK /\ AnswerInv

(* Clients and the server's connections are different endpoints.             *)
LEMMA Ends ==
  /\ \A c \in Client : c \in Endpoint /\ Peer[c] \in Endpoint /\ Peer[c] \notin Client
  /\ \A e \in Endpoint : Peer[e] \in Endpoint /\ Peer[Peer[e]] = e
  BY ConnectionAssumption, SessionAssumption

(* Empty maps and fresh connections.                                         *)
LEMMA SessionInitEstablishes == SessionInit => SInv
<1> SUFFICES ASSUME SessionInit PROVE SInv
  OBVIOUS
<1>1. RunsInv /\ TypeOK
  <2>1. Init
    BY DEF SessionInit
  <2>2. Before \in [Endpoint -> SUBSET Nat] /\ \A e \in Endpoint : Before[e] = {}
    BY DEF SessionInit, Before
  <2>3. FirstRun \in SUBSET Endpoint
    BY DEF FirstRun
  <2>4. Inv(FirstRun, Before)
    BY <2>1, <2>2, <2>3, InitEstablishes
  <2> QED
    BY <2>4 DEF RunsInv, Inv
<1>2. UnknownAreNew
  BY Ends DEF SessionInit, Init, UnknownAreNew
<1>3. SessionTypeOK
  BY <1>1, <1>2, SessionAssumption DEF SessionInit, SessionTypeOK
<1> QED
  BY <1>1, <1>3 DEF SInv, SessionInit, AnswerInv

(* Whatever Connection allows keeps it, while nobody starts again.            *)
LEMMA RunsKept ==
  ASSUME RunsInv, [Next]_vars, UNCHANGED <<restarts, before>>
  PROVE  RunsInv' /\ TypeOK'
<1>1. PICK G, old : G = FirstRun /\ old = Before /\ Inv(G, old)
  BY DEF RunsInv
<1>2. Inv(G, old)'
  BY <1>1, NextPreserves
<1>3. FirstRun' = FirstRun /\ Before' = Before
  BY DEF FirstRun, Before
<1>4. G = FirstRun' /\ old = Before'
  BY <1>1, <1>3
<1> QED
  BY <1>2, <1>4 DEF RunsInv, Inv

(* What the server knows of a client does not depend on how often it started.*)
LEMMA RestartKeepsRuns ==
  ASSUME RunsInv, SessionTypeOK, NEW c \in Client, Restart(c)
  PROVE  RunsInv' /\ TypeOK'
<1>1. PICK G, old : G = FirstRun /\ old = Before /\ Inv(G, old)
  BY DEF RunsInv
<1>0. PICK left, new : left = G \ {c} /\ new = [old EXCEPT ![c] = @ \cup received[c]]
  OBVIOUS
<1>2. c \in Endpoint /\ Peer[c] \in Endpoint /\ Peer[c] # c /\ Peer[Peer[c]] = c
  BY Ends, Peers
<1>3. /\ m_localSequenceNum' = [m_localSequenceNum EXCEPT ![c] = 0]
      /\ m_remoteSequenceNum' = [m_remoteSequenceNum EXCEPT ![c] = 0]
      /\ m_out' = [m_out EXCEPT ![c] = {}]
      /\ m_in' = [m_in EXCEPT ![c] = {}]
      /\ flow' = [flow EXCEPT ![c] = InitFlow]
      /\ received' = [received EXCEPT ![c] = {}]
      /\ newest' = [newest EXCEPT ![c] = 0]
      /\ UNCHANGED <<network, sent, acked, lost, failed, near, prompt, told>>
  BY DEF Restart
<1>4. left = FirstRun' /\ new = Before'
  <2>1. restarts \in [Client -> 0 .. MaxRestarts] /\ before \in [Client -> SUBSET Nat]
    BY DEF SessionTypeOK
  <2>2. /\ restarts' = [restarts EXCEPT ![c] = @ + 1]
        /\ before' = [before EXCEPT ![c] = @ \cup received[c]]
    BY DEF Restart
  <2>3. restarts'[c] # 0 /\ \A x \in Client : x # c => restarts'[x] = restarts[x]
    BY <2>1, <2>2
  <2>4. left = FirstRun'
    BY <1>0, <1>1, <2>3 DEF FirstRun
  <2>5. new = Before'
    BY <1>0, <1>1, <1>2, <2>1, <2>2 DEF Before
  <2> QED
    BY <2>4, <2>5
<1>5. TypeOK /\ old \in [Endpoint -> SUBSET Nat] /\ G \subseteq Endpoint
  BY <1>1 DEF Inv
<1>6. 0 \in SeqNum /\ 0 % SEQ_MOD = 0
  BY SequenceAssumption DEF SeqNum
<1>7. TypeOK'
  BY <1>2, <1>3, <1>5, <1>6, InitFlowTyped DEF TypeOK
<1>8. /\ new \in [Endpoint -> SUBSET Nat]
      /\ new[c] = old[c] \cup received[c]
      /\ \A x \in Endpoint : x # c => new[x] = old[x]
  BY <1>0, <1>2, <1>5 DEF TypeOK
<1>9. /\ m_out'[c] = {} /\ m_in'[c] = {} /\ received'[c] = {} /\ newest'[c] = 0
      /\ m_remoteSequenceNum'[c] = 0
      /\ \A x \in Endpoint : x # c =>
           UNCHANGED <<m_localSequenceNum[x], m_remoteSequenceNum[x], m_out[x],
                       m_in[x], flow[x], received[x], newest[x]>>
  BY <1>2, <1>3, <1>5 DEF TypeOK
<1>10. \A x \in Endpoint : Ever(x, new)' = Ever(x, old)
  BY <1>8, <1>9 DEF Ever
<1>11. \A x \in Endpoint : \A s : Named(x, old, s) => Named(x, new, s)'
  BY <1>10 DEF Named
<1>12. ASSUME NEW x \in Endpoint PROVE Fates(x)' /\ Arrivals(x, new)'
  <2>1. Fates(x) /\ Arrivals(x, old)
    BY <1>1 DEF Inv
  <2>2. Fates(x)'
    BY <1>3, <1>9, <2>1 DEF Fates, OutOrdinals
  <2>3. Arrivals(x, new)'
    BY <1>3, <1>9, <1>10, <2>1 DEF Arrivals
  <2> QED
    BY <2>2, <2>3
<1>13. ASSUME NEW x \in left
       PROVE  Numbering(x)' /\ Hearing(Peer[x])' /\ Learning(x, new)'
  <2>1. /\ Numbering(x) /\ Hearing(Peer[x]) /\ Learning(x, old)
        /\ x \in Endpoint /\ x # c /\ Peer[x] \in Endpoint
    BY <1>0, <1>1, Peers DEF Inv
  <2>2. Numbering(x)'
    BY <1>3, <1>9, <2>1 DEF Numbering, OutOrdinals
  <2>3. Hearing(Peer[x])'
    BY <1>3, <1>6, <1>9, <2>1 DEF Hearing
  <2>4. Learning(x, new)'
    BY <1>3, <1>11, <2>1 DEF Learning
  <2> QED
    BY <2>2, <2>3, <2>4
<1>14. ASSUME NEW d \in network' PROVE Truthful(d, left, new)'
  <2>1. Truthful(d, G, old) /\ d.from \in Endpoint
    BY <1>1, <1>3 DEF Inv, TypeOK, Datagram
  <2>2. Ever(d.from, new)' = Ever(d.from, old)
    BY <1>10, <2>1
  <2> QED
    BY <1>0, <1>3, <1>11, <2>1, <2>2 DEF Truthful
<1>15. Inv(left, new)'
  BY <1>0, <1>5, <1>7, <1>8, <1>12, <1>13, <1>14 DEF Inv
<1> QED
  BY <1>4, <1>15 DEF RunsInv, Inv

-----------------------------------------------------------------------------
(* The map of connections. *)

(* CAddressCompare orders addresses strictly and totally, so that a std::map  *)
(* may be ordered by it, and takes two keys for one only when they are one:   *)
(* two clients on one host differ by their ports.                            *)
THEOREM AddressOrder ==
  /\ \A a \in CAddress : ~CAddressCompare(a, a)
  /\ \A a, b, c \in CAddress :
       CAddressCompare(a, b) /\ CAddressCompare(b, c) => CAddressCompare(a, c)
  /\ \A a, b \in CAddress : Equivalent(a, b) => a = b
<1>1. \A a \in CAddress : ~CAddressCompare(a, a)
  BY DEF CAddress, CAddressCompare
<1>2. \A a, b, c \in CAddress :
        CAddressCompare(a, b) /\ CAddressCompare(b, c) => CAddressCompare(a, c)
  BY DEF CAddress, CAddressCompare
<1>3. ASSUME NEW a \in CAddress, NEW b \in CAddress, Equivalent(a, b)
      PROVE  a = b
  <2>1. /\ a.address \in Nat /\ a.port \in Nat
        /\ b.address \in Nat /\ b.port \in Nat
    BY DEF CAddress
  <2>2. a.address = b.address /\ a.port = b.port
    BY <1>3, <2>1 DEF Equivalent, CAddressCompare
  <2>3. /\ a = [address |-> a.address, port |-> a.port]
        /\ b = [address |-> b.address, port |-> b.port]
    BY DEF CAddress
  <2> QED
    BY <2>2, <2>3
<1> QED
  BY <1>1, <1>2, <1>3

\* The map holds connections of clients only.
OfClients == m_connections \subseteq {Peer[c] : c \in Client}

(* What the map finds is the sender's own connection, or nothing.            *)
LEMMA FindsOwn ==
  ASSUME OfClients, NEW c \in Client, NEW e \in GetConnection(c)
  PROVE  e = Peer[c]
<1>1. PICK x \in Client : e = Peer[x]
  BY DEF OfClients, GetConnection
<1>2. Peer[e] = x
  BY <1>1, Ends
<1>3. Equivalent(AddressOf[x], AddressOf[c])
  BY <1>2 DEF GetConnection
<1>4. AddressOf[x] \in CAddress /\ AddressOf[c] \in CAddress
  BY SessionAssumption
<1>5. x = c
  BY <1>3, <1>4, AddressOrder, SessionAssumption
<1> QED
  BY <1>1, <1>5

(* So a datagram is handled by the connection of its sender.                 *)
LEMMA HandledByOwn ==
  ASSUME OfClients, NEW c \in Client
  PROVE  \A e \in ConnectionFor(c) : e = Peer[c]
BY FindsOwn DEF ConnectionFor

(* Taking a datagram is a Receive, and puts that connection in the map.      *)
LEMMA ServerReceives ==
  ASSUME OfClients, NEW d, ServerReceive(d)
  PROVE  /\ d.from \in Client
         /\ Receive(d)
         /\ m_connections' = m_connections \cup {Peer[d.from]}
         /\ tempBuf' = {d}
         /\ UNCHANGED <<toUpdate, clientVars>>
<1>1. PICK e \in ConnectionFor(d.from) :
        ReceiveAt(e, d) /\ m_connections' = m_connections \cup {e}
  BY DEF ServerReceive
<1>2. d.from \in Client /\ e = Peer[d.from]
  BY HandledByOwn DEF ServerReceive
<1> QED
  BY <1>1, <1>2 DEF ServerReceive, Receive

(* A reply is a Send of the connection of the datagram's sender.             *)
LEMMA ServerReplies ==
  ASSUME OfClients, \A d \in tempBuf : d.from \in Client, ServerReply
  PROVE  \E d \in tempBuf : Send(Peer[d.from], FALSE) \/ SendFails(Peer[d.from])
BY FindsOwn DEF ServerReply

(* Send and SendFails touch only the connection they are called on.          *)
LEMMA SendTouchesOwn ==
  ASSUME TypeOK, NEW e \in Endpoint, Send(e, FALSE) \/ SendFails(e),
         NEW x \in Endpoint, x # e
  PROVE  UNCHANGED <<sent[x], received[x], m_remoteSequenceNum[x], m_in[x], m_out[x]>>
<1>1. CASE Send(e, FALSE)
  BY <1>1 DEF Send, TakeNumber, TypeOK
<1>2. CASE SendFails(e)
  BY <1>2 DEF SendFails, TakeNumber, TypeOK
<1> QED
  BY <1>1, <1>2

-----------------------------------------------------------------------------
(* The server's steps. *)

\* A step of the connections while nobody starts again.
Calls == [Next]_vars /\ UNCHANGED <<restarts, before>>

(* Receive of a known or unknown client, and the connection in the map.       *)
LEMMA ServerReceiveStep ==
  ASSUME SInv, NEW d \in network, ServerReceive(d)
  PROVE  Calls /\ SInv'
<1> DEFINE e == Peer[d.from]
<1>1. /\ d.from \in Client
      /\ Receive(d)
      /\ m_connections' = m_connections \cup {e}
      /\ tempBuf' = {d}
      /\ UNCHANGED <<toUpdate, clientPc, count, restarts, before>>
  BY ServerReceives DEF OfClients, SInv, SessionTypeOK, clientVars
<1>2. Calls
  BY <1>1 DEF Calls, Next
<1>3. RunsInv' /\ TypeOK' /\ FirstRun' = FirstRun
  BY <1>1, <1>2, RunsKept DEF Calls, SInv, FirstRun
<1>4. d \in Datagram /\ (d.from \in FirstRun => d.id = d.n % SEQ_MOD)
  BY DEF SInv, RunsInv, Inv, TypeOK, Truthful
<1>5. e \in Endpoint /\ e \notin Client
  BY <1>1, Ends
<1>6. /\ m_in' = [m_in EXCEPT ![e] = @ \cup {d.id}]
      /\ received' = [received EXCEPT ![e] = @ \cup {d.n}]
      /\ \A x \in Endpoint : x # e =>
           /\ sent'[x] = sent[x]
           /\ m_remoteSequenceNum'[x] = m_remoteSequenceNum[x]
           /\ m_in'[x] = m_in[x]
           /\ m_out'[x] = m_out[x]
  BY <1>1 DEF Receive, ReceiveAt, SInv, SessionTypeOK, TypeOK
<1>7. UnknownAreNew'
  BY <1>1, <1>6, Ends DEF SInv, SessionTypeOK, UnknownAreNew
<1>8. SessionTypeOK'
  BY <1>1, <1>3, <1>4, <1>7 DEF SInv, SessionTypeOK
<1>9. d.id \in m_in'[e] /\ d.n \in received'[e]
  BY <1>5, <1>6 DEF SInv, SessionTypeOK, TypeOK
<1>10. AnswerInv'
  BY <1>1, <1>3, <1>4, <1>9 DEF AnswerInv
<1> QED
  BY <1>2, <1>3, <1>8, <1>10 DEF SInv

(* The reply leaves the connection of the map, taken or refused.             *)
LEMMA ServerReplyStep ==
  ASSUME SInv, ServerReply
  PROVE  Calls /\ SInv'
<1>1. PICK d \in tempBuf : Send(Peer[d.from], FALSE) \/ SendFails(Peer[d.from])
  BY ServerReplies DEF OfClients, SInv, SessionTypeOK, AnswerInv
<1> DEFINE e == Peer[d.from]
<1>2. e \in Endpoint /\ e \in m_connections
  BY Ends DEF SInv, AnswerInv, SessionTypeOK
<1>3. UNCHANGED <<m_connections, clientPc, count, restarts, before>>
  BY DEF ServerReply, clientVars
<1>4. Calls
  BY <1>1, <1>2, <1>3 DEF Calls, Next
<1>5. RunsInv' /\ TypeOK'
  BY <1>4, RunsKept DEF Calls, SInv
<1>6. \A x \in Endpoint : x # e =>
        /\ sent'[x] = sent[x]
        /\ m_remoteSequenceNum'[x] = m_remoteSequenceNum[x]
        /\ m_in'[x] = m_in[x]
        /\ m_out'[x] = m_out[x]
  BY <1>1, <1>2, SendTouchesOwn DEF SInv, SessionTypeOK
<1>7. UnknownAreNew'
  BY <1>2, <1>3, <1>6, Ends DEF SInv, SessionTypeOK, UnknownAreNew
<1>8. SessionTypeOK'
  BY <1>3, <1>5, <1>7 DEF ServerReply, ToUpdate, SInv, SessionTypeOK
<1> QED
  BY <1>4, <1>5, <1>8 DEF SInv, AnswerInv, ServerReply

(* Nothing to receive: only the walk over the map begins.                    *)
LEMMA ServerNoDataStep ==
  ASSUME SInv, ServerNoData
  PROVE  Calls /\ SInv'
<1>1. Calls /\ UNCHANGED <<m_connections, tempBuf, clientPc, count, restarts, before>>
  BY DEF ServerNoData, clientVars, Calls
<1>2. RunsInv' /\ TypeOK'
  BY <1>1, RunsKept DEF Calls, SInv
<1>3. UNCHANGED <<sent, received, m_in, m_out, m_remoteSequenceNum>>
  BY DEF ServerNoData, vars, members, history
<1>4. UnknownAreNew'
  BY <1>1, <1>3 DEF SInv, SessionTypeOK, UnknownAreNew
<1>5. SessionTypeOK'
  BY <1>1, <1>2, <1>4 DEF ServerNoData, ToUpdate, SInv, SessionTypeOK
<1>6. AnswerInv'
  BY <1>1, <1>3 DEF SInv, AnswerInv, FirstRun
<1> QED
  BY <1>1, <1>2, <1>5, <1>6 DEF SInv

(* One connection of the map is updated.                                     *)
LEMMA ServerUpdateStep ==
  ASSUME SInv, NEW e \in toUpdate, ServerUpdate(e)
  PROVE  Calls /\ SInv'
<1>1. e \in m_connections /\ e \in Endpoint
  BY Ends DEF SInv, SessionTypeOK
<1>2. UNCHANGED <<m_connections, tempBuf, clientPc, count, restarts, before>>
  BY DEF ServerUpdate, clientVars
<1>3. Calls
  BY <1>1, <1>2 DEF ServerUpdate, Next, Calls
<1>4. RunsInv' /\ TypeOK'
  BY <1>3, RunsKept DEF Calls, SInv
<1>5. /\ UNCHANGED <<sent, received, m_in, m_remoteSequenceNum>>
      /\ \A x \in Endpoint : x # e => m_out'[x] = m_out[x]
  BY DEF ServerUpdate, Update, SInv, SessionTypeOK, TypeOK
<1>6. UnknownAreNew'
  BY <1>1, <1>2, <1>5, Ends DEF SInv, SessionTypeOK, UnknownAreNew
<1>7. SessionTypeOK'
  BY <1>2, <1>4, <1>6 DEF ServerUpdate, SInv, SessionTypeOK
<1>8. AnswerInv'
  BY <1>2, <1>5 DEF SInv, AnswerInv, FirstRun
<1> QED
  BY <1>3, <1>4, <1>7, <1>8 DEF SInv

-----------------------------------------------------------------------------
(* The clients' steps. *)

(* What a client does leaves the server's connections alone.                 *)
LEMMA ClientLeavesServer ==
  ASSUME SInv, NEW c \in Client, RunsInv', TypeOK',
         \A x \in Endpoint : x # c =>
            /\ sent'[x] = sent[x]
            /\ received'[x] = received[x]
            /\ m_remoteSequenceNum'[x] = m_remoteSequenceNum[x]
            /\ m_in'[x] = m_in[x]
            /\ m_out'[x] = m_out[x],
         UNCHANGED serverVars,
         FirstRun' \subseteq FirstRun,
         restarts' \in [Client -> 0 .. MaxRestarts],
         before' \in [Client -> SUBSET Nat],
         clientPc' \in [Client -> {"update", "receive", "send", "ended"}],
         count' \in [Client -> Nat]
  PROVE  SInv'
<1>1. UNCHANGED <<m_connections, tempBuf, toUpdate>>
  BY DEF serverVars
<1>2. UnknownAreNew'
  <2>1. UnknownAreNew
    BY DEF SInv, SessionTypeOK
  <2>2. \A x \in Client : Peer[x] \in Endpoint /\ Peer[x] # c
    BY Ends
  <2> QED
    BY <1>1, <2>1, <2>2 DEF UnknownAreNew
<1>3. SessionTypeOK'
  BY <1>1, <1>2 DEF SInv, SessionTypeOK
<1>4. AnswerInv'
  BY <1>1, Ends DEF SInv, AnswerInv
<1> QED
  BY <1>3, <1>4 DEF SInv

(* A client's loop calls Update, Receive and Send of its own connection.     *)
LEMMA ClientSteps ==
  ASSUME SInv, NEW c \in Client, ClientStep(c)
  PROVE  Calls /\ SInv'
<1> DEFINE Pc == {"update", "receive", "send", "ended"}
<1>1. c \in Endpoint /\ Peer[c] \in Endpoint /\ Peer[Peer[c]] = c
  BY Ends
<1>2. /\ clientPc \in [Client -> Pc] /\ count \in [Client -> Nat]
      /\ restarts \in [Client -> 0 .. MaxRestarts] /\ before \in [Client -> SUBSET Nat]
  BY DEF SInv, SessionTypeOK
<1>3. UNCHANGED <<restarts, before>> /\ UNCHANGED serverVars /\ FirstRun' = FirstRun
  BY DEF ClientStep, ClientProceeds, ClientUpdate, ClientReceive, ClientNoData,
         ClientSend, ClientEnd, FirstRun
<1>4. clientPc' \in [Client -> Pc] /\ count' \in [Client -> Nat]
  <2>1. \E from, to \in Pc : GoTo(c, from, to)
    BY DEF ClientStep, ClientProceeds, ClientUpdate, ClientReceive, ClientNoData,
           ClientSend, ClientEnd
  <2>2. clientPc' \in [Client -> Pc]
    BY <1>2, <2>1 DEF GoTo
  <2>3. count' = count \/ count' = [count EXCEPT ![c] = @ + 1]
    BY DEF ClientStep, ClientProceeds, ClientUpdate, ClientReceive, ClientNoData,
           ClientSend, ClientEnd
  <2> QED
    BY <1>2, <2>2, <2>3
<1>5. \/ Update(c)
      \/ \E d \in network : d.from = Peer[c] /\ Receive(d)
      \/ UNCHANGED vars
      \/ Send(c, FALSE) \/ SendFails(c)
  BY DEF ClientStep, ClientProceeds, ClientUpdate, ClientReceive, ClientNoData,
         ClientSend, ClientEnd
<1>6. Calls
  BY <1>1, <1>3, <1>5 DEF Calls, Next
<1>7. RunsInv' /\ TypeOK'
  BY <1>6, RunsKept DEF Calls, SInv
<1>8. \A x \in Endpoint : x # c =>
        /\ sent'[x] = sent[x]
        /\ received'[x] = received[x]
        /\ m_remoteSequenceNum'[x] = m_remoteSequenceNum[x]
        /\ m_in'[x] = m_in[x]
        /\ m_out'[x] = m_out[x]
  <2> USE DEF SInv, SessionTypeOK, TypeOK
  <2>1. CASE Update(c)
    BY <2>1 DEF Update
  <2>2. CASE \E d \in network : d.from = Peer[c] /\ Receive(d)
    BY <1>1, <2>2 DEF Receive, ReceiveAt
  <2>3. CASE UNCHANGED vars
    BY <2>3 DEF vars, members, history
  <2>4. CASE Send(c, FALSE) \/ SendFails(c)
    BY <1>1, <2>4, SendTouchesOwn
  <2> QED
    BY <1>5, <2>1, <2>2, <2>3, <2>4
<1>9. SInv'
  BY <1>2, <1>3, <1>4, <1>7, <1>8, ClientLeavesServer
<1> QED
  BY <1>6, <1>9

(* Ends leave FirstRun for good.                                             *)
LEMMA RestartLeavesFirstRun ==
  ASSUME SessionTypeOK, NEW c \in Client, Restart(c)
  PROVE  FirstRun' \subseteq FirstRun
<1>1. restarts \in [Client -> 0 .. MaxRestarts] /\ restarts' = [restarts EXCEPT ![c] = @ + 1]
  BY DEF SessionTypeOK, Restart
<1>2. \A x \in Client : restarts'[x] = 0 => restarts[x] = 0
  BY <1>1
<1> QED
  BY <1>2 DEF FirstRun

(* A client that starts again finds the server as the last run left it.       *)
LEMMA RestartStep ==
  ASSUME SInv, NEW c \in Client, Restart(c)
  PROVE  SInv'
<1>1. RunsInv' /\ TypeOK'
  BY RestartKeepsRuns DEF SInv
<1>2. /\ restarts \in [Client -> 0 .. MaxRestarts] /\ before \in [Client -> SUBSET Nat]
      /\ received \in [Endpoint -> SUBSET Nat] /\ c \in Endpoint
      /\ clientPc \in [Client -> {"update", "receive", "send", "ended"}]
      /\ count \in [Client -> Nat]
  BY Ends DEF SInv, SessionTypeOK, TypeOK
<1>3. /\ restarts' \in [Client -> 0 .. MaxRestarts]
      /\ before' \in [Client -> SUBSET Nat]
      /\ clientPc' \in [Client -> {"update", "receive", "send", "ended"}]
      /\ count' \in [Client -> Nat]
      /\ UNCHANGED serverVars
  BY <1>2, SessionAssumption DEF Restart
<1>4. FirstRun' \subseteq FirstRun
  BY RestartLeavesFirstRun DEF SInv
<1>5. \A x \in Endpoint : x # c =>
        /\ sent'[x] = sent[x]
        /\ received'[x] = received[x]
        /\ m_remoteSequenceNum'[x] = m_remoteSequenceNum[x]
        /\ m_in'[x] = m_in[x]
        /\ m_out'[x] = m_out[x]
  BY DEF Restart, SInv, SessionTypeOK, TypeOK
<1> QED
  BY <1>1, <1>3, <1>4, <1>5, ClientLeavesServer

-----------------------------------------------------------------------------
(* The theorems. *)

(* Every step of the programs, the path and the clock is one of Connection,  *)
(* none, or a restart, and keeps the invariant.                              *)
LEMMA SessionNextPreserves ==
  ASSUME SInv, [SessionNext]_sessionVars
  PROVE  (Calls \/ \E c \in Client : Restart(c)) /\ SInv'
<1>1. CASE ServerStep
  BY <1>1, ServerReceiveStep, ServerReplyStep, ServerNoDataStep,
     ServerUpdateStep DEF ServerStep, ServerProceeds
<1>2. ASSUME NEW c \in Client, ClientStep(c) PROVE Calls /\ SInv'
  BY <1>2, ClientSteps
<1>3. ASSUME NEW c \in Client, Restart(c) PROVE SInv'
  BY <1>3, RestartStep
<1>4. CASE TickStep
  <2>1. UNCHANGED <<m_connections, tempBuf, toUpdate, clientPc, count, restarts, before>>
    BY <1>4 DEF TickStep, serverVars, clientVars
  <2>2. Calls
    BY <1>4, <2>1 DEF TickStep, Next, Calls
  <2>3. RunsInv' /\ TypeOK'
    BY <2>2, RunsKept DEF Calls, SInv
  <2>4. /\ UNCHANGED <<sent, received, m_in, m_remoteSequenceNum>>
        /\ \A x \in Endpoint : m_out[x] = {} => m_out'[x] = {}
    BY <1>4 DEF TickStep, Tick, history
  <2>5. UnknownAreNew'
    BY <2>1, <2>4, Ends DEF SInv, SessionTypeOK, UnknownAreNew
  <2>6. SessionTypeOK'
    BY <2>1, <2>3, <2>5 DEF SInv, SessionTypeOK
  <2>7. AnswerInv'
    BY <2>1, <2>4 DEF SInv, AnswerInv, FirstRun
  <2> QED
    BY <2>2, <2>3, <2>6, <2>7 DEF SInv
<1>5. CASE UNCHANGED sessionVars
  <2>1. /\ UNCHANGED <<m_connections, tempBuf, toUpdate, clientPc, count, restarts, before>>
        /\ UNCHANGED <<sent, received, m_remoteSequenceNum, m_in, m_out>>
        /\ UNCHANGED vars
    BY <1>5 DEF sessionVars, vars, members, history, serverVars, clientVars
  <2>2. Calls
    BY <2>1 DEF Calls
  <2>3. RunsInv' /\ TypeOK'
    BY <2>2, RunsKept DEF Calls, SInv
  <2>4. SessionTypeOK' /\ AnswerInv'
    BY <2>1, <2>3 DEF SInv, SessionTypeOK, UnknownAreNew, AnswerInv, FirstRun
  <2> QED
    BY <2>2, <2>3, <2>4 DEF SInv
<1> QED
  BY <1>1, <1>2, <1>3, <1>4, <1>5 DEF SessionNext

(* The invariant of the programs.                                            *)
LEMMA SessionInvariance == SessionSpec => []SInv
<1>1. SessionInit => SInv
  BY SessionInitEstablishes
<1>2. SInv /\ [SessionNext]_sessionVars => SInv'
  BY SessionNextPreserves
<1> QED
  BY <1>1, <1>2, PTL DEF SessionSpec

(* The loops of the server and of its clients implement Connection: what was *)
(* proved of it in any order of calls holds of the programs.                 *)
THEOREM LoopsImplementConnection ==
  ASSUME MaxRestarts = 0
  PROVE  SessionSpec => ImplementsConnection
<1>1. SessionInit => Init
  BY DEF SessionInit
<1>2. SInv /\ [SessionNext]_sessionVars => [Next]_vars
  <2> SUFFICES ASSUME SInv, [SessionNext]_sessionVars PROVE [Next]_vars
    OBVIOUS
  <2>1. ASSUME NEW c \in Client, Restart(c) PROVE FALSE
    <3>1. restarts[c] \in 0 .. 0 /\ restarts[c] < 0
      BY <2>1 DEF Restart, SInv, SessionTypeOK
    <3> QED
      BY <3>1
  <2> QED
    BY <2>1, SessionNextPreserves DEF Calls
<1> QED
  BY <1>1, <1>2, SessionInvariance, PTL DEF SessionSpec, ImplementsConnection, Spec

(* The server handles one datagram at a time, keeps its map and its walk     *)
(* over it consistent, and has no state for unknown addresses.               *)
THEOREM SessionTypeCorrect == SessionSpec => []SessionTypeOK
<1>1. SInv => SessionTypeOK
  BY DEF SInv
<1> QED
  BY <1>1, SessionInvariance, PTL

(* An end that was not started again has a sound view of its packets.        *)
THEOREM FirstRunsAreSound == SessionSpec => []AckSoundInFirstRun
<1>1. ASSUME SInv PROVE AckSoundInFirstRun
  <2>1. Inv(FirstRun, Before)
    BY <1>1 DEF SInv, RunsInv
  <2>2. \A e \in FirstRun \cap Unambiguous : acked[e] \subseteq Ever(Peer[e], Before)
    BY <2>1, SoundUntilWrap
  <2> QED
    BY <2>2 DEF AckSoundInFirstRun, Ever, EverReceived
<1> QED
  BY <1>1, SessionInvariance, PTL

(* ... and a complete one.                                                   *)
THEOREM FirstRunsAreComplete == SessionSpec => []AckCompleteInFirstRun
<1>1. ASSUME SInv PROVE AckCompleteInFirstRun
  <2>1. \A e \in FirstRun : Learning(e, Before)
    BY <1>1 DEF SInv, RunsInv, Inv
  <2> QED
    BY <2>1 DEF Learning, AckCompleteInFirstRun
<1> QED
  BY <1>1, SessionInvariance, PTL

(* A reply acknowledges the datagram it answers, unless that fell out of the *)
(* bitfield, for every length of the bitfield and number of clients.         *)
THEOREM EveryReplyAcknowledges == SessionSpec => RepliesAcknowledge
<1> DEFINE Goal ==
      \A d \in tempBuf : \A r \in network' \ network :
        /\ d.from \in FirstRun
        /\ r.from = Peer[d.from]
        /\ InWindow(r.from, d.n)
        => Acknowledges(r, d.id)
<1>1. ASSUME SInv, SessionNext PROVE Goal
  <2> SUFFICES ASSUME NEW d \in tempBuf, NEW r \in network' \ network,
                      d.from \in FirstRun, r.from = Peer[d.from], InWindow(r.from, d.n)
               PROVE  Acknowledges(r, d.id)
    OBVIOUS
  <2> DEFINE e == Peer[d.from]
             i == newest[e] - d.n
  <2>1. e \in Endpoint /\ e \notin Client /\ TypeOK /\ Arrivals(e, Before) /\ Hearing(e)
    <3>1. e \in Endpoint /\ e \notin Client /\ e = Peer[d.from] /\ d.from \in FirstRun
      BY <1>1, Ends DEF SInv, AnswerInv
    <3>2. Inv(FirstRun, Before)
      BY <1>1 DEF SInv, RunsInv
    <3> QED
      BY <3>1, <3>2 DEF Inv
  <2>2. r = Packet(e)
    <3>1. ASSUME NEW x \in Endpoint, Send(x, FALSE) PROVE r = Packet(x)
      BY <3>1 DEF Send
    <3>2. Packet(e).from = e /\ \A x \in Endpoint : Packet(x).from = x
      BY DEF Packet
    <3>3. \E x \in Endpoint : Send(x, FALSE)
      <4>1. ASSUME NEW x, SendFails(x) PROVE FALSE
        BY <4>1 DEF SendFails
      <4>2. ASSUME NEW x, Update(x) PROVE FALSE
        BY <4>2 DEF Update
      <4>3. ASSUME NEW x \in network, Receive(x) PROVE FALSE
        BY <4>3 DEF Receive, ReceiveAt
      <4>4. ASSUME UNCHANGED vars PROVE FALSE
        BY <4>4 DEF vars
      <4>5. CASE ServerStep
        <5>1. /\ OfClients
              /\ \A x \in tempBuf : x.from \in Client /\ Peer[x.from] \in Endpoint
          BY <1>1, Ends DEF OfClients, SInv, SessionTypeOK, AnswerInv
        <5>2. ASSUME NEW x \in network, ServerReceive(x) PROVE FALSE
          BY <4>3, <5>1, <5>2, ServerReceives
        <5>3. CASE ServerReply
          BY <4>1, <5>1, <5>3, ServerReplies
        <5>4. CASE ServerNoData
          BY <4>4, <5>4 DEF ServerNoData
        <5>5. ASSUME NEW x, ServerUpdate(x) PROVE FALSE
          BY <4>2, <5>5 DEF ServerUpdate
        <5> QED
          BY <4>5, <5>2, <5>3, <5>4, <5>5 DEF ServerStep, ServerProceeds
      <4>6. ASSUME NEW c \in Client, ClientStep(c) PROVE \E x \in Endpoint : Send(x, FALSE)
        BY <4>1, <4>2, <4>3, <4>4, <4>6, Ends
           DEF ClientStep, ClientProceeds, ClientUpdate, ClientReceive,
               ClientNoData, ClientSend, ClientEnd
      <4>7. ASSUME NEW c \in Client, Restart(c) PROVE FALSE
        BY <4>7 DEF Restart
      <4>8. CASE TickStep
        BY <4>8 DEF TickStep, Tick
      <4> QED
        BY <1>1, <4>5, <4>6, <4>7, <4>8 DEF SessionNext
    <3> QED
      BY <3>1, <3>2, <3>3
  <2>3. /\ newest[e] \in Nat /\ d.n \in Nat /\ d.n <= newest[e] /\ i < BITFIELD_SIZE
        /\ d.id = d.n % SEQ_MOD /\ d.id \in m_in[e]
    BY <1>1, <2>1 DEF SInv, AnswerInv, TypeOK, Arrivals, InWindow
  <2>4. i \in BitIndex /\ i \in Nat /\ i <= newest[e] /\ i < SEQ_MOD /\ newest[e] - i = d.n
    BY <2>3, ConnectionAssumption, SequenceAssumption DEF BitIndex
  <2>5. m_remoteSequenceNum[e] = newest[e] % SEQ_MOD
    BY <2>1 DEF Hearing, InWindow
  <2> HIDE DEF i
  <2>6. SeqSub(m_remoteSequenceNum[e], i) = d.id
    BY <2>3, <2>4, <2>5, EarlierSequenceNumber
  <2>7. r.ack = m_remoteSequenceNum[e] /\ i \in r.bits
    BY <2>2, <2>3, <2>4, <2>6 DEF Packet, AckBits
  <2> QED
    BY <2>6, <2>7 DEF Acknowledges
<1>2. ASSUME UNCHANGED sessionVars PROVE Goal
  BY <1>2 DEF sessionVars, vars
<1>3. SInv /\ [SessionNext]_sessionVars => [Goal]_sessionVars
  BY <1>1, <1>2
<1> QED
  BY <1>3, SessionInvariance, PTL DEF SessionSpec, RepliesAcknowledge

-----------------------------------------------------------------------------
(* The service through restarts. *)

\* What the variables of the service stand for, besides Pending.
Given == [e \in Endpoint |-> GivenUp(e)]
EverIn == [e \in Endpoint |-> EverReceived(e)]

(* A packet that is taken and settled another way is not given up.            *)
LEMMA GivenUpKept ==
  ASSUME NEW e, sent[e] \in Nat,
         \/ /\ sent'[e] = sent[e]
            /\ OutOrdinals(e)' \cup acked'[e] \cup failed'[e]
                 = OutOrdinals(e) \cup acked[e] \cup failed[e]
         \/ /\ sent'[e] = sent[e] + 1
            /\ OutOrdinals(e)' \cup acked'[e] \cup failed'[e]
                 = (OutOrdinals(e) \cup acked[e] \cup failed[e]) \cup {sent[e] + 1}
  PROVE  GivenUp(e)' = GivenUp(e)
<1>1. 1 .. (sent[e] + 1) = 1 .. sent[e] \cup {sent[e] + 1}
  OBVIOUS
<1>2. CASE sent'[e] = sent[e]
  BY <1>2 DEF GivenUp
<1>3. CASE sent'[e] = sent[e] + 1
  <2>1. sent[e] + 1 \notin 1 .. sent[e]
    OBVIOUS
  <2> QED
    BY <1>1, <1>3, <2>1 DEF GivenUp
<1> QED
  BY <1>2, <1>3

(* What leaves m_out unacknowledged is given up.                             *)
LEMMA GivenUpGrows ==
  ASSUME NEW e, Fates(e), NEW S \in SUBSET OutOrdinals(e),
         UNCHANGED <<sent[e], acked[e], failed[e]>>,
         OutOrdinals(e)' = OutOrdinals(e) \ S
  PROVE  GivenUp(e)' = GivenUp(e) \cup S
  BY DEF GivenUp, Fates

(* A step of one end that settles S, seen from all ends.                     *)
LEMMA GivenUpBy ==
  ASSUME TypeOK, NEW e \in Endpoint, Fates(e), NEW S \in SUBSET Pending[e],
         Pending' = [Pending EXCEPT ![e] = @ \ S],
         UNCHANGED <<sent, acked, failed>>
  PROVE  Given' = [Given EXCEPT ![e] = @ \cup S]
<1>1. \A x \in Endpoint : OutOrdinals(x)' = IF x = e THEN OutOrdinals(x) \ S
                                                     ELSE OutOrdinals(x)
  BY DEF Pending
<1>2. GivenUp(e)' = GivenUp(e) \cup S
  BY <1>1, GivenUpGrows DEF Pending
<1>3. \A x \in Endpoint : x # e => GivenUp(x)' = GivenUp(x)
  BY <1>1 DEF GivenUp
<1> QED
  BY <1>2, <1>3 DEF Given

(* The programs provide the acknowledgement service, and restarts only give  *)
(* packets up: no packet settles twice or changes sides, none that failed    *)
(* arrives, and until an end that was not started again uses numbers twice   *)
(* only what arrived at some run of the other is acknowledged to it.         *)
THEOREM RunsImplementService == SessionSpec => ProgramsImplementService
<1> USE DEF ServiceAcrossRuns!Add
<1>1. SessionInit => ServiceAcrossRuns!Init
  <2> SUFFICES ASSUME SessionInit PROVE ServiceAcrossRuns!Init
    OBVIOUS
  <2>1. /\ Pending = [x \in Endpoint |-> {}]
        /\ Given = [x \in Endpoint |-> {}]
        /\ EverIn = [x \in Endpoint |-> {}]
    BY DEF SessionInit, Init, Pending, OutOrdinals, Given, GivenUp, EverIn,
           EverReceived, Before
  <2>2. FirstRun \cap Unambiguous = Endpoint
    BY SequenceAssumption DEF SessionInit, Init, FirstRun, Unambiguous
  <2> QED
    BY <2>1, <2>2 DEF SessionInit, Init, ServiceAcrossRuns!Init, Pending, Given, EverIn
<1>2. SInv /\ [SessionNext]_sessionVars
        => [ServiceAcrossRuns!Next]_(ServiceAcrossRuns!vars)
  <2> SUFFICES ASSUME SInv, [SessionNext]_sessionVars
               PROVE  [ServiceAcrossRuns!Next]_(ServiceAcrossRuns!vars)
    OBVIOUS
  <2> USE DEF ServiceAcrossRuns!Next
  <2>1. TypeOK /\ Inv(FirstRun, Before) /\ \A e \in Endpoint : Fates(e)
    BY DEF SInv, RunsInv, Inv
  <2>2. ASSUME UNCHANGED <<restarts, before>>
        PROVE  FirstRun' = FirstRun /\ Before' = Before
    BY <2>2 DEF FirstRun, Before
  <2>3. ASSUME NEW e \in Endpoint, NEW SPL \in BOOLEAN, Send(e, SPL),
               UNCHANGED <<restarts, before>>
        PROVE  ServiceAcrossRuns!Submit(e)
    <3>1. /\ sent' = [sent EXCEPT ![e] = @ + 1]
          /\ Unambiguous' \subseteq Unambiguous
          /\ Pending' = [Pending EXCEPT ![e] = @ \cup {sent[e] + 1}]
          /\ UNCHANGED <<received, acked, lost, failed>>
      BY <2>1, <2>3, SendAdds
    <3>2. Given' = Given
      <4>1. /\ sent'[e] = sent[e] + 1
            /\ OutOrdinals(e)' = OutOrdinals(e) \cup {sent[e] + 1}
            /\ \A x \in Endpoint : x # e => sent'[x] = sent[x]
                                     /\ OutOrdinals(x)' = OutOrdinals(x)
        BY <2>1, <3>1 DEF Pending, TypeOK
      <4>2. \A x \in Endpoint : GivenUp(x)' = GivenUp(x)
        BY <2>1, <3>1, <4>1, GivenUpKept DEF TypeOK
      <4> QED
        BY <4>2 DEF Given
    <3>3. EverIn' = EverIn /\ FirstRun' = FirstRun
      BY <2>2, <2>3, <3>1 DEF EverIn, EverReceived
    <3> QED
      BY <3>1, <3>2, <3>3 DEF ServiceAcrossRuns!Submit, Pending, Given, EverIn
  <2>4. ASSUME NEW e \in Endpoint, SendFails(e), UNCHANGED <<restarts, before>>
        PROVE  ServiceAcrossRuns!Submit(e)
    <3>1. /\ sent' = [sent EXCEPT ![e] = @ + 1]
          /\ Unambiguous' \subseteq Unambiguous
          /\ failed' = [failed EXCEPT ![e] = @ \cup {sent[e] + 1}]
          /\ Pending' = Pending
          /\ UNCHANGED <<received, acked, lost>>
      BY <2>1, <2>4, SendFailsAdds
    <3>2. Given' = Given
      <4>1. /\ sent'[e] = sent[e] + 1
            /\ failed'[e] = failed[e] \cup {sent[e] + 1}
            /\ \A x \in Endpoint : OutOrdinals(x)' = OutOrdinals(x)
            /\ \A x \in Endpoint : x # e => sent'[x] = sent[x] /\ failed'[x] = failed[x]
        BY <2>1, <3>1 DEF Pending, TypeOK
      <4>2. \A x \in Endpoint : GivenUp(x)' = GivenUp(x)
        BY <2>1, <3>1, <4>1, GivenUpKept DEF TypeOK
      <4> QED
        BY <4>2 DEF Given
    <3>3. EverIn' = EverIn /\ FirstRun' = FirstRun
      BY <2>2, <2>4, <3>1 DEF EverIn, EverReceived
    <3> QED
      BY <3>1, <3>2, <3>3 DEF ServiceAcrossRuns!Submit, Pending, Given, EverIn
  <2>5. ASSUME NEW d \in network, Receive(d), UNCHANGED <<restarts, before>>
        PROVE  Peer[d.from] \in Endpoint /\ ServiceAcrossRuns!Arrive(Peer[d.from])
    <3> DEFINE e == Peer[d.from]
    <3>1. /\ e \in Endpoint
          /\ d.n \in 1 .. sent[Peer[e]] /\ d.n \notin failed[Peer[e]]
          /\ received' = [received EXCEPT ![e] = @ \cup {d.n}]
          /\ UNCHANGED <<sent, lost, failed, Unambiguous>>
          /\ \E S \in SUBSET Pending[e] :
               /\ Pending' = [Pending EXCEPT ![e] = @ \ S]
               /\ acked' = [acked EXCEPT ![e] = @ \cup S]
               /\ e \in FirstRun \cap Unambiguous => S \subseteq Ever(Peer[e], Before)
      BY <2>1, <2>5, ReceiveSettles
    <3> HIDE DEF e
    <3>2. PICK S \in SUBSET Pending[e] :
            /\ Pending' = [Pending EXCEPT ![e] = @ \ S]
            /\ acked' = [acked EXCEPT ![e] = @ \cup S]
            /\ e \in FirstRun \cap Unambiguous => S \subseteq Ever(Peer[e], Before)
      BY <3>1
    <3>3. e \in FirstRun \cap Unambiguous => S \subseteq EverIn[Peer[e]]
      BY <3>1, <3>2, Peers DEF EverIn, EverReceived, Ever
    <3>4. EverIn' = [EverIn EXCEPT ![e] = @ \cup {d.n}] /\ FirstRun' = FirstRun
      <4>1. received \in [Endpoint -> SUBSET Nat] /\ FirstRun' = FirstRun /\ Before' = Before
        BY <2>1, <2>2, <2>5 DEF TypeOK
      <4> QED
        BY <3>1, <4>1 DEF EverIn, EverReceived
    <3>5. Given' = Given
      <4>1. /\ OutOrdinals(e)' \cup acked'[e] = OutOrdinals(e) \cup acked[e]
            /\ \A x \in Endpoint : x # e => OutOrdinals(x)' = OutOrdinals(x)
                                     /\ acked'[x] = acked[x]
        BY <2>1, <3>1, <3>2 DEF Pending, TypeOK
      <4>2. \A x \in Endpoint : GivenUp(x)' = GivenUp(x)
        BY <2>1, <3>1, <4>1, GivenUpKept DEF TypeOK
      <4> QED
        BY <4>2 DEF Given
    <3>6. ServiceAcrossRuns!Arrive(e)
      BY <3>1, <3>2, <3>3, <3>4, <3>5
         DEF ServiceAcrossRuns!Arrive, Pending, Given, EverIn
    <3> QED
      BY <3>1, <3>6 DEF e
  <2>6. ASSUME NEW e \in Endpoint, Update(e), UNCHANGED <<restarts, before>>
        PROVE  ServiceAcrossRuns!GiveUp(e)
    <3>1. UNCHANGED <<sent, received, acked, failed, Unambiguous>>
      BY <2>1, <2>6, UpdateSettles
    <3>2. PICK S \in SUBSET Pending[e] : Pending' = [Pending EXCEPT ![e] = @ \ S]
      BY <2>1, <2>6, UpdateSettles
    <3>3. Given' = [Given EXCEPT ![e] = @ \cup S]
      BY <2>1, <3>1, <3>2, GivenUpBy
    <3>4. EverIn' = EverIn /\ FirstRun' = FirstRun
      BY <2>2, <2>6, <3>1 DEF EverIn, EverReceived
    <3> QED
      BY <3>1, <3>2, <3>3, <3>4 DEF ServiceAcrossRuns!GiveUp, Pending, Given, EverIn
  <2>7. ASSUME NEW c \in Client, Restart(c)
        PROVE  c \in Endpoint /\ ServiceAcrossRuns!GiveUp(c)
    <3>1. /\ c \in Endpoint
          /\ UNCHANGED <<sent, acked, failed>>
          /\ m_out' = [m_out EXCEPT ![c] = {}]
          /\ received' = [received EXCEPT ![c] = {}]
          /\ before' = [before EXCEPT ![c] = @ \cup received[c]]
      BY <2>7, Ends DEF Restart
    <3>2. /\ Pending' = [Pending EXCEPT ![c] = @ \ Pending[c]]
          /\ Pending[c] \in SUBSET Pending[c]
      BY <2>1, <3>1 DEF Pending, OutOrdinals, TypeOK
    <3>3. Given' = [Given EXCEPT ![c] = @ \cup Pending[c]]
      BY <2>1, <3>1, <3>2, GivenUpBy
    <3>4. EverIn' = EverIn
      BY <2>1, <3>1 DEF EverIn, EverReceived, Before, TypeOK, SInv, SessionTypeOK
    <3>5. FirstRun' \subseteq FirstRun /\ Unambiguous' = Unambiguous
      BY <2>7, <3>1, RestartLeavesFirstRun DEF SInv, Unambiguous
    <3> QED
      BY <3>1, <3>2, <3>3, <3>4, <3>5
         DEF ServiceAcrossRuns!GiveUp, Pending, Given, EverIn
  <2>8. ASSUME Pending' = Pending, UNCHANGED history, UNCHANGED <<restarts, before>>
        PROVE  UNCHANGED ServiceAcrossRuns!vars
    <3>1. UNCHANGED <<sent, acked, failed, received>>
      BY <2>8 DEF history
    <3>2. \A x \in Endpoint : OutOrdinals(x)' = OutOrdinals(x)
      BY <2>8 DEF Pending
    <3>3. Given' = Given
      BY <3>1, <3>2 DEF Given, GivenUp
    <3>4. EverIn' = EverIn /\ FirstRun' = FirstRun /\ Unambiguous' = Unambiguous
      BY <2>2, <2>8, <3>1 DEF EverIn, EverReceived, Unambiguous
    <3> QED
      BY <2>8, <3>1, <3>3, <3>4 DEF ServiceAcrossRuns!vars, Pending, Given, EverIn
  <2>9. CASE Calls
    <3>1. CASE Tick
      BY <2>1, <2>8, <2>9, <3>1, TickIsSilent DEF Calls
    <3>2. CASE UNCHANGED vars
      BY <2>8, <2>9, <3>2 DEF vars, members, Pending, OutOrdinals, Calls
    <3> QED
      BY <2>3, <2>4, <2>5, <2>6, <2>9, <3>1, <3>2 DEF Next, Calls
  <2> QED
    BY <2>7, <2>9, SessionNextPreserves
<1> QED
  BY <1>1, <1>2, SessionInvariance, PTL
  DEF SessionSpec, ProgramsImplementService, ServiceAcrossRuns!Spec
=============================================================================
