-------------------------------- MODULE Session --------------------------------
(***************************************************************************)
(* The two programs around Connection: the server's loop with its map of    *)
(* connections (ConnectionManager.cpp:39-147) and the clients' loops        *)
(* (Client/src/Main.cpp:72-139).  Each program has one thread, so its loop  *)
(* fixes the order of the calls it makes; one call is one step, and the     *)
(* steps of different programs, the path and the clock interleave.          *)
(*                                                                         *)
(* A client stands for its address.  Its peer in Connection is the          *)
(* CConnection that the server makes for that address, and finds again by   *)
(* the order of addresses of its std::map.  That object keeps a reference   *)
(* to the loop-local variable from, which is constructed anew in the same   *)
(* place in every iteration: when Send dereferences it, it is the sender of *)
(* the datagram being answered, which is the address the object was looked  *)
(* up by.                                                                   *)
(*                                                                         *)
(* A client may be killed at any time and started again on the same port,   *)
(* with a new CConnection.  Its ordinals go on, its ids start again.        *)
(***************************************************************************)
EXTENDS Connection, Address

CONSTANTS
  Client,       \* the clients
  AddressOf,    \* AddressOf[c] is the address and the port c sends from
  Blocking,     \* clients whose Open returned before it made the socket
                \* non-blocking, though usable: bind or ioctlsocket failed
  Unbound,      \* those of them that bind refused
  ServerBlocks, \* whether ioctlsocket failed for the server
  Lines,        \* Lines[c] is the number of lines of c's input.txt
  MaxRestarts   \* model bound: how often one client is started again

ASSUME SessionAssumption ==
  /\ Client \subseteq Endpoint
  /\ \A e \in Endpoint : e \in Client <=> Peer[e] \notin Client
  /\ AddressOf \in [Client -> CAddress]
  /\ \A c, d \in Client : AddressOf[c] = AddressOf[d] => c = d
  /\ Blocking \subseteq Client
  /\ Unbound \subseteq Blocking
  /\ ServerBlocks \in BOOLEAN
  /\ Lines \in [Client -> Nat]
  /\ MaxRestarts \in Nat

\* The bounds of Connection never stop a client.
ASSUME RoomAssumption ==
  /\ \A c \in Client : Lines[c] * (MaxRestarts + 1) <= MaxSends[c]
  /\ \A e \in Endpoint : MaxSends[e] <= MaxOut
  /\ Cardinality(UNION {{e} \X (1 .. MaxSends[e]) : e \in Endpoint})
       <= PathCapacity

VARIABLES
  m_connections,  \* the server's map: its connections
  tempBuf,        \* the server's: the datagram being handled, if any
  toUpdate,       \* the connections UpdateConnections has still to visit
  clientPc,       \* where each client is in its loop
  count,          \* the lines each client has read in its present run
  restarts,       \* how often each client was started again
  before          \* history: ordinals that earlier runs of a client received

serverVars == <<m_connections, tempBuf, toUpdate>>
clientVars == <<clientPc, count, restarts, before>>
sessionVars == <<vars, serverVars, clientVars>>

SessionInit ==
  /\ Init
  /\ m_connections = {}
  /\ tempBuf = {}
  /\ toUpdate = {}
  /\ clientPc = [c \in Client |-> "update"]
  /\ count = [c \in Client |-> 0]
  /\ restarts = [c \in Client |-> 0]
  /\ before = [c \in Client |-> {}]

-----------------------------------------------------------------------------
(* The server.  An iteration: at most one datagram, its reply, all updates. *)

AtTop == tempBuf = {} /\ toUpdate = {}

\* Model bound: every datagram the server takes can be answered.
RoomToReply(e) ==
  sent[e] < MaxSends[e] /\ Cardinality(m_out[e]) < MaxOut

\* GetConnection: what the map finds under the sender's address.
GetConnection(c) ==
  {e \in m_connections : Equivalent(AddressOf[Peer[e]], AddressOf[c])}

\* Where nothing is found a new CConnection is made.  It has the values Init
\* gives the members (see UnknownAreNew).
ConnectionFor(c) ==
  IF GetConnection(c) # {} THEN GetConnection(c) ELSE {Peer[c]}

\* Receive of a new connection never fails, so that it is always inserted.
ServerReceive_ForgetsInsert(d) ==
  /\ AtTop
  /\ d.from \in Client
  /\ \E e \in ConnectionFor(d.from) : RoomToReply(e) /\ ReceiveAt(e, d)
  /\ tempBuf' = {d}
  /\ UNCHANGED <<m_connections, toUpdate, clientVars>>

ServerReceive(d) ==
  /\ AtTop
  /\ d.from \in Client
  /\ \E e \in ConnectionFor(d.from) :
       /\ RoomToReply(e)
       /\ ReceiveAt(e, d)
       /\ m_connections' = m_connections \cup {e}
  /\ tempBuf' = {d}
  /\ UNCHANGED <<toUpdate, clientVars>>

\* UpdateConnections walks the whole map.
ToUpdate_OnlyAnswered == {Peer[d.from] : d \in tempBuf}

ToUpdate == m_connections

\* The reply, whether the socket takes it or not; then tempBuf is cleared.
ServerReply ==
  /\ \E d \in tempBuf : \E e \in GetConnection(d.from) :
       Send(e, FALSE) \/ SendFails(e)
  /\ tempBuf' = {}
  /\ toUpdate' = ToUpdate
  /\ UNCHANGED <<m_connections, clientVars>>

\* The socket has nothing, or none was bound: recvfrom returns, unless
\* ioctlsocket failed, and the iteration goes on.
ServerNoData ==
  /\ AtTop
  /\ ~ServerBlocks
  /\ toUpdate' = ToUpdate
  /\ UNCHANGED <<vars, m_connections, tempBuf, clientVars>>

ServerUpdate(e) ==
  /\ e \in toUpdate
  /\ Update(e)
  /\ toUpdate' = toUpdate \ {e}
  /\ UNCHANGED <<m_connections, tempBuf, clientVars>>

ServerProceeds ==
  \/ ServerReply
  \/ ServerNoData
  \/ \E e \in toUpdate : ServerUpdate(e)

ServerStep == ServerProceeds \/ \E d \in network : ServerReceive(d)

-----------------------------------------------------------------------------
(* A client.  Every iteration updates; when the random pacing time is over,  *)
(* it also takes at most one datagram and sends one line.                    *)

GoTo(c, from, to) ==
  /\ clientPc[c] = from
  /\ clientPc' = [clientPc EXCEPT ![c] = to]

ClientUpdate(c) ==
  /\ \E next \in {"receive", "update"} : GoTo(c, "update", next)
  /\ Update(c)
  /\ UNCHANGED <<serverVars, count, restarts, before>>

ClientReceive(c) ==
  /\ GoTo(c, "receive", "send")
  /\ \E d \in network : d.from = Peer[c] /\ Receive(d)
  /\ UNCHANGED <<serverVars, count, restarts, before>>

\* recvfrom of a blocking socket waits for a datagram.  One that bind refused is
\* bound by the first sendto that succeeds; until then recvfrom fails at once.
Waits(c) == c \in Blocking /\ (c \in Unbound => 1 .. sent[c] # failed[c])

\* recvfrom found nothing: the buffer is not looked at.
ClientNoData_WaitsForReply(c) ==
  /\ GoTo(c, "receive", "send")
  /\ count[c] = 0
  /\ UNCHANGED <<vars, serverVars, count, restarts, before>>

ClientNoData(c) ==
  /\ GoTo(c, "receive", "send")
  /\ ~Waits(c)
  /\ UNCHANGED <<vars, serverVars, count, restarts, before>>

\* One line, one packet; the result of Send is not looked at.
ClientSend(c) ==
  /\ GoTo(c, "send", "update")
  /\ count[c] < Lines[c]
  /\ Send(c, FALSE) \/ SendFails(c)
  /\ count' = [count EXCEPT ![c] = @ + 1]
  /\ UNCHANGED <<serverVars, restarts, before>>

\* No line is left: the loop ends, whatever is still in m_out.
ClientEnd(c) ==
  /\ GoTo(c, "send", "ended")
  /\ count[c] = Lines[c]
  /\ UNCHANGED <<vars, serverVars, count, restarts, before>>

ClientProceeds(c) ==
  \/ ClientUpdate(c)
  \/ ClientNoData(c)
  \/ ClientSend(c)
  \/ ClientEnd(c)

ClientStep(c) == ClientProceeds(c) \/ ClientReceive(c)

\* The program ends or is killed, and is started again on its port.  Its Open
\* does what it did before.  (A client that bind refused has no port of its own
\* and would be a different client.)
Restart(c) ==
  /\ c \notin Unbound
  /\ restarts[c] < MaxRestarts
  /\ restarts' = [restarts EXCEPT ![c] = @ + 1]
  /\ clientPc' = [clientPc EXCEPT ![c] = "update"]
  /\ count' = [count EXCEPT ![c] = 0]
  /\ before' = [before EXCEPT ![c] = @ \cup received[c]]
  /\ m_localSequenceNum' = [m_localSequenceNum EXCEPT ![c] = 0]
  /\ m_remoteSequenceNum' = [m_remoteSequenceNum EXCEPT ![c] = 0]
  /\ m_out' = [m_out EXCEPT ![c] = {}]
  /\ m_in' = [m_in EXCEPT ![c] = {}]
  /\ flow' = [flow EXCEPT ![c] = InitFlow]
  /\ received' = [received EXCEPT ![c] = {}]
  /\ newest' = [newest EXCEPT ![c] = 0]
  /\ UNCHANGED <<network, sent, acked, lost, failed, near, prompt, told,
                 serverVars>>

-----------------------------------------------------------------------------
TickStep == Tick /\ UNCHANGED <<serverVars, clientVars>>

SessionNext ==
  \/ ServerStep
  \/ \E c \in Client : ClientStep(c)
  \/ \E c \in Client : Restart(c)
  \/ TickStep

SessionSpec == SessionInit /\ [][SessionNext]_sessionVars

\* Each loop runs, and so does the clock.  Nothing is assumed of the path: no
\* step that takes a datagram has to happen, so a client whose recvfrom waits
\* may wait for ever.
SessionFairness ==
  /\ WF_sessionVars(ServerProceeds)
  /\ \A c \in Client : WF_sessionVars(ClientProceeds(c))
  /\ WF_sessionVars(TickStep)

FairSessionSpec == SessionSpec /\ SessionFairness

-----------------------------------------------------------------------------
(* Properties *)

\* The server has no state for an address it never heard from.
UnknownAreNew ==
  \A c \in Client : Peer[c] \notin m_connections =>
    /\ sent[Peer[c]] = 0
    /\ m_remoteSequenceNum[Peer[c]] = 0
    /\ m_in[Peer[c]] = {}
    /\ m_out[Peer[c]] = {}

(* Type correctness: the server handles one datagram at a time, of a client *)
(* whose connection is in the map, updates only connections of the map, and *)
(* has no state for any other.                                              *)
SessionTypeOK ==
  /\ TypeOK
  /\ m_connections \subseteq {Peer[c] : c \in Client}
  /\ tempBuf \subseteq Datagram
  /\ \A d, r \in tempBuf : d = r
  /\ \A d \in tempBuf : Peer[d.from] \in m_connections
  /\ toUpdate \subseteq m_connections
  /\ clientPc \in [Client -> {"update", "receive", "send", "ended"}]
  /\ count \in [Client -> Nat]
  /\ restarts \in [Client -> 0 .. MaxRestarts]
  /\ before \in [Client -> SUBSET Nat]
  /\ UnknownAreNew

(* While no client is started again, the two loops only do what Connection   *)
(* allows, so that all that was shown of Connection is true of the programs. *)
ImplementsConnection == Spec

\* Whether a datagram acknowledges an id.
Acknowledges(r, id) == \E i \in r.bits : SeqSub(r.ack, i) = id

\* Whether the bitfield of connection e reaches back to the ordinal n.
InWindow(e, n) == near[e] /\ newest[e] - n < BITFIELD_SIZE

\* The ends of which one CConnection is all there ever was.
FirstRun == {e \in Endpoint : e \in Client => restarts[e] = 0}

(* A reply acknowledges the very datagram it answers, however late, repeated *)
(* or overtaken that was, unless it fell out of the bitfield: no client in   *)
(* its first run waits for a later request to learn that this one arrived.   *)
RepliesAcknowledge ==
  [][\A d \in tempBuf : \A r \in network' \ network :
       /\ d.from \in FirstRun
       /\ r.from = Peer[d.from]
       /\ InWindow(r.from, d.n)
       => Acknowledges(r, d.id)]_sessionVars

\* All that an end has received in all its runs.
Before == [e \in Endpoint |-> IF e \in Client THEN before[e] ELSE {}]

EverReceived(e) == received[e] \cup Before[e]

(* An end that was never started again has a sound view, whatever the other  *)
(* does: what it takes as acknowledged did reach some run of the other.      *)
AckSoundInFirstRun ==
  \A e \in FirstRun \cap Unambiguous : acked[e] \subseteq EverReceived(Peer[e])

(* ... and a complete one: what any run of the other has told it is settled. *)
AckCompleteInFirstRun ==
  \A e \in FirstRun :
    near[Peer[e]] /\ prompt[e] => told[e] \subseteq acked[e] \cup lost[e]

(* The view of a client that was, as Connection.cpp:166 states it: a packet  *)
(* that any run of it takes as acknowledged did reach the server.            *)
ClientAckSound ==
  \A c \in Client \cap Unambiguous : acked[c] \subseteq received[Peer[c]]

\* What a run of a client left in m_out is given up when it ends.
GivenUp(e) == (1 .. sent[e]) \ (OutOrdinals(e) \cup acked[e] \cup failed[e])

(* The programs provide the acknowledgement service through every restart of *)
(* the clients: no packet settles twice or changes sides, and none that      *)
(* failed arrives.  Only a client that starts anew may be told of packets    *)
(* that did not arrive.                                                      *)
ServiceAcrossRuns == INSTANCE AckService WITH
  pending <- [e \in Endpoint |-> OutOrdinals(e)],
  lost <- [e \in Endpoint |-> GivenUp(e)],
  received <- [e \in Endpoint |-> EverReceived(e)],
  unambiguous <- FirstRun \cap Unambiguous

ProgramsImplementService == ServiceAcrossRuns!Spec

(* The server gets rid of every reply, acknowledged or lost, though its      *)
(* client ended, was killed or never answers again: the loop updates all     *)
(* connections of the map in every iteration, unless recvfrom waits in it.   *)
RepliesSettle ==
  ~ServerBlocks => \A c \in Client : \A n \in 1 .. MaxSends[Peer[c]] :
    n \in OutOrdinals(Peer[c]) ~> n \in acked[Peer[c]] \cup lost[Peer[c]]

(* So does a client whose socket does not block, as long as it runs.         *)
RequestsSettle ==
  \A c \in Client \ Blocking : \A n \in 1 .. MaxSends[c] :
    n \in OutOrdinals(c) ~> n \notin OutOrdinals(c) \/ clientPc[c] = "ended"
=============================================================================
