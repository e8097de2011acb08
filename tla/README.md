# A verification development for UDP-Protocol

UDP-Protocol is a small C++ protocol over UDP: packets carry 16 bit sequence
numbers and piggybacked acknowledgements, each end finds out which of its
packets arrived, deems the others lost by their age, and watches the round trip
time to judge the connection GOOD or BAD.  This directory holds TLA+ modules
that model that code, TLC configurations that check them on small instances, and
TLAPS proofs that hold for every value of the constants.  `PROJECT.json` lists
the components, the runs, the source lines behind each definition, the hazards
and the theorems.  All paths below are relative to `src/`.

## 1. Inventory

| component | state | operations | correct when | here |
|---|---|---|---|---|
| **Connection** `Core/src/Connection.*` | `m_localSequenceNum`, `m_remoteSequenceNum`, `m_out` (sent, not settled), `m_in` (every packet received) | `Send`, `Receive`, `Update` (`DetectPacketLoss`) | each packet has one fate; what is acknowledged was received; what was reported received is settled; `m_remoteSequenceNum` follows the newest packet through reordering and wrap-around; nothing stays in `m_out` | `Connection` |
| **Quality estimator** `Connection.cpp:97-126, 267-332` | `m_connectionRTT`, flow state, three time points, `m_packetStabilizationDelta` | a sample in `Receive`; `DetectFlowChange` in `Update` | no early trust, a relapse is punished, the penalty decays, values stay in range | `FlowControl`, `FlowMonitor` |
| **Packet** `Core/src/Packet.*` | header fields, sent time, acked flag | `Serialize` | the fields survive the trip | `Connection`; its fields are bits fields of `Streams` |
| **Session**: `Server/src/ConnectionManager.*`, `Client/src/Main.cpp` | map from address to connection, the socket; the client's one connection and its pacing | server: receive, look up or create, reply, update all; client: update, receive, send | each datagram reaches the connection of its sender, each reply its addressee and acknowledges what it answers; a client that starts again is served; nothing stays in `m_out` because a client is gone | `Session` |
| **Bit packing** `Core/src/Bit*` | buffer, word index, 64 bit scratch word and its bit count, byte/bit counters | `WriteBits`, `FlushScratch`, `ReadBits` | what is written is read back; nothing is touched beyond the buffer; the traps stop nothing that fits | `BitPacker`, implementing `BitQueue` |
| **Streams, messages** `Core/src/Stream/*`, `Core/src/Message/*` | none of their own; the number of a message | `serialize_int`, `serialize_bits`, `Flush`; `Serialize`, `CreateMessage` | a valid value survives the trip; a short buffer refuses an integer; the packer is given only data it can hold | `Streams`, `SelfTest` |
| **SequenceBuffer** `Core/src/Util/SequenceBuffer.h` | array of entries, array of their sequence numbers | `Insert`, `Remove`, `Reset`, `Find`, `Exists`, `Available` | what is found under a number was filled in under it; close numbers do not disturb each other | `SequenceBuffer`, implementing `SlidingWindow` |
| **Address**, **Comparators** `Core/src/Address.*`, `Core/src/Comparators.h` | address, port | comparison; search by id | `CAddressCompare` is a strict order whose equivalence is equality | `Address`, `Session`; `HasId` in `Connection` |
| **Socket** `Core/src/Socket.*` | one handle | `Open`, `Close`, `Send`, `Receive` | a program gets on with a socket that refuses to send, or that `Open` left half made | `SendFails` in `Connection`; `Blocking`, `Waits` in `Session` |
| **Server main** `Server/src/Main.cpp` | loop counter, buffer, message | self test of streams and messages, then the server | every int passes; the self test ends (it does not) | `SelfTest` |
| IConnection, logging and singletons, platform macros, window | - | - | - | not modelled (section 8) |

How they interact.  A main loop owns a `CSocket` and one or several
`CConnection`s that refer to it.  `CConnection::Send` numbers a packet, adds the
acknowledgements, serializes header and message through a `CWriteStream` (a
`CBitWriter` underneath) into the packet's buffer and calls `CSocket::Send`.  A
loop that got a datagram from `CSocket::Receive` hands the buffer to
`CConnection::Receive`, which reads it through a `CReadStream`.  Both loops call
`Update` in every iteration.  There is one thread per program; everything that
runs concurrently is the other program and the network.

What is hard here:

- **Unreliable delivery.**  Datagrams are lost, delayed, reordered and repeated,
  and with them the acknowledgements they carry.  An acknowledgement is repeated
  in up to 32 packets and races the one second after which `Update` gives up.
- **Wrap-around.**  Sequence numbers have 16 bits, comparisons are modular, the
  queues are searched by id alone, and `m_in` is never pruned.
- **Partial failure.**  A `Send` takes its number before the socket call that may
  fail.
- **Timers.**  Three time points set in different branches of `DetectFlowChange`
  decide about doubling, halving and trusting again; the loop calls it at any
  distance.
- **Sessions.**  Connections live as long as the server, clients do not; a
  restarted client has the same address and starts again at sequence number 1.
- **Boundaries** of the bit packer: full words, the last word, full-width
  integers.
- **Stale slots**: the sequence buffer hands a slot on with what is in it, the self
  test uses one buffer for every int.

## 2. The modules

| module | models | state and actions |
|---|---|---|
| `SequenceNumbers` | `SequenceGreaterThan`, arithmetic of `uint16_t` | operators |
| `FlowControl` | `Connection.cpp:97-126, 267-332`, `Connection.h` constants | one record with the six members; operators named for the branches of `DetectFlowChange` |
| `FlowMonitor` | one estimator under every schedule | `flow` and history; `Sample` (an acknowledgement taken by `Receive`), `Update`, `Tick` |
| `Connection` | two `CConnection`s over a UDP path | the members of both ends, `network`, history; `Send`, `SendFails`, `Receive`, `Update`, `Tick` |
| `BitPacker` | `CBitWriter` and `CBitReader` over one buffer | the members of both, the buffer, `flushed`, `trapped`, history; `WriteBits`, `FlushScratch`, `ReadBits` |
| `Session` | the loops of the server and of several clients | the variables of `Connection`, the server's map, the datagram it handles, the connections it has still to update, each client's place in its loop; `ServerReceive`, `ServerReply`, `ServerNoData`, `ServerUpdate`, `ClientUpdate`, `ClientReceive`, `ClientNoData`, `ClientSend`, `ClientEnd`, `Restart` |
| `Streams` | `serialize_int`, `serialize_bits` | the variables of `BitPacker`, `outcome`, history; `WriteField`, `Flush`, `ReadField` |
| `SequenceBuffer` | `CSequenceBuffer` | its size and two arrays; `Insert`, `Fill` (the caller, through the pointer it got), `Remove`, `Reset` |
| `SelfTest` | the server program's `main` | the variables of `Streams`, the counter, the place in the loop, the message received; `SendType`, `SendMessage`, `FlushStream`, `ReceiveType`, `ReceiveMessage`, `NextInt` |
| `Address` | `CAddressCompare` | operators |
| `AckService` | what a pair of connections promises | the packets pending, acknowledged, lost, failed, received; `Submit`, `Arrive`, `GiveUp` |
| `BitQueue` | what the bit packer promises: a queue of bits | the queue, the last result; `Put`, `Get` |
| `SlidingWindow` | what a sequence buffer promises: a map that forgets only what is far from the number at hand | the map; `Insert`, `Fill`, `Remove`, `Reset` |
| `MCConnection`, `MCFlowMonitor`, `MCSession`, `MCStreams`, `MCSequenceBuffer`, `MCSelfTest` | instances for TLC | values of constants |
| `OperatorProofs`, `FlowMonitorProofs`, `ConnectionProofs`, `SessionProofs`, `BitPackerProofs`, `StreamsProofs`, `SelfTestProofs`, `SequenceBufferProofs` | proofs | section 6 |

`Connection` and `FlowMonitor` both extend `FlowControl`; `Connection` also
extends `SequenceNumbers`, and `Session` extends `Connection` and `Address`.  `SelfTest`
extends `Streams`, which extends `BitPacker`.  Three modules are specifications of what a
component promises, and the detailed modules are shown to implement them: `Connection`
implements `AckService`, `BitPacker` implements `BitQueue`, `SequenceBuffer` implements
`SlidingWindow`; `Session` implements `Connection`, and, through restarts, `AckService`; `Streams`
implements `BitPacker`.

**State.**  Variables keep the names of the members.  `m_out` is a vector in the
code and a set of records here: its order is the order of sending, which is the
order of the ordinal `n` in each record.  `Addressed` uses that order, because
`find_if` takes the first match.  An element of `m_out` is never acked (it is
erased in the same iteration, `Connection.cpp:95-129`), so `IsAcked` is left out.
`m_in` is reduced to the ids in it: the code looks up nothing else
(`Connection.cpp:161`).

**History.**  `sent`, `received`, `acked`, `lost`, `failed`, `newest`, `near`,
`prompt`, `told` and the fields `n`, `newest`, `covers` of a datagram record what
happened.  No guard and no member depends on them, except that `MaxSends` and
`MaxFailures` bound the model through `sent` and `failed`, that `n` stands for the
position in `m_out`, and that `Waits` in `Session` reads off them whether the socket has
taken a packet.

**Actions** are whole handlers.  `Send` is `CConnection::Send` with its
acknowledgement loop; its `SPL` argument is the code's simulated packet loss.
`SendFails` is the early return at `Connection.cpp:200-204`, where the number stays
taken.  The early return at line 185 cannot be taken (the constructor makes the
two ids equal).  `Receive` takes the packet, moves `m_remoteSequenceNum` and runs the
loop over the bits.  `Update` is `DetectPacketLoss` and `DetectFlowChange`.  The
clock is the action `Tick`.

**The path** is a set of datagrams.  `Receive(d)` may take any of them (delay,
reordering), need not take one (loss), and with `Duplication` leaves it there to
be taken again.  A UDP path can do all of this, and the code handles it.

**Time.**  A time point is only ever used as `now - t`, so the model keeps that
difference: assigning `now` assigns 0, `Tick` adds 1.  Differences stop at
`MAX_AGE`, beyond every threshold they are compared with (`AgeAssumption`), so
every comparison comes out as it would without the cap.

**Bits.**  In `BitPacker` a word is a function from bit positions to bits, so `^`, `<<`,
`>>` and the masks keep their meaning and their width, and the sizes of a byte and a
word are parameters.  The model covers the life of one buffer: a writer of any
fields, one flush, then a reader that asks for any widths, also for more than was
written.  The buffer starts with arbitrary words, as the array in `CPacket` does.  A
`UDP_TRAP` whose condition fails loops for ever (`Platform.h`), so `trapped` ends the
behaviour.

**Sessions.**  Each program has one thread; one call that it makes is one step, and the
steps of the programs, the path and the clock interleave.  `tempBuf` holds the datagram
the server is handling and `toUpdate` what `UpdateConnections` has still to visit; when
both are empty, the server is at the top of its loop.  `clientPc` is the same for a
client; the pacing time is random, so each iteration may or may not reach the receive.
A client has an address and a port (`AddressOf`), and its peer is the `CConnection` the
server makes for it.  `GetConnection` finds that again through the order of the map: what
is equivalent under `CAddressCompare`.  A client takes any datagram that arrives for
the connection's: it does not compare `from` (`Client/src/Main.cpp:84`), and in the
model only the server writes to it.
That object keeps a reference to `from`, a variable of the loop's body
(`ConnectionManager.cpp:78, 101`).  After the iteration the reference dangles: using it is
undefined behaviour.  Log lines show the address (`Connection.cpp:90, 252, 364`), which the
model leaves out; otherwise it is used in `Send` only (line 200), where the loop of the
same call has constructed a new `from` in the same stack slot and filled it with the sender of the
datagram being answered.  A compiler gives a variable of a loop's body one place in the
frame, and `ServerReply` sends to the address found there.  A datagram of the model has
no destination of its own: that a reply goes to the peer of its connection is this
argument, and not something a run could find out.
A client in `Blocking` has a socket that works and blocks, since `Open` returned before it
made it non-blocking and `main` does not look at the result.  Either its port was taken
(`Unbound`, `Socket.cpp:40`): then `recvfrom` fails until the first `sendto` has bound the
socket, and waits from then on.  Or `ioctlsocket` failed (line 50): then `recvfrom` waits
from the start, and the client sends nothing before something arrives.  The same failure of
the server is `ServerBlocks`; it reports it and goes on (`ConnectionManager.cpp:52`).
`Restart` is a client that ended or was killed, at any point, and starts again on its port with a new
`CConnection`; the server and the path know nothing of it.  Ordinals go on, so packets
of different runs are told apart by history, while their ids are the same.  The
model starts where `StartUp` enters its loop.  As the program stands it never gets
there: `main` calls `StartUp` after a self test whose loop has no last iteration
(`Server/src/Main.cpp:39`, run `self_test`).  `Session` is the server without that
block.  A server whose socket could not be made or bound (`ConnectionManager.cpp:52`) is one to
which no datagram ever gets, which is among the behaviours of `Session`.

**Streams.**  A field is a range (`serialize_int`) or a width (`serialize_bits`).  `WriteField`
takes any value of the field's type, so that the traps of the macro are reached;
`outcome` says how a macro ended, `trapped` is the packer's.  The reader asks for any
fields, those that were written or others.  `bitsRequired` is given by what it computes,
the position of the highest bit; conversions between signed and unsigned wrap.

**Self test.**  The two macros in `main` return from it when they refuse, `Serialize` returns
false to a caller that does not look; a message that was refused keeps the
uninitialized number it was constructed with, which is any.  The buffer goes on from one
int to the next as it was left, while writer and reader are constructed anew.  Counting
below `INT_MIN` is undefined; the compiler of the project makes `i >= INT_MIN` true, and
the model wraps.

**Sequence buffer.**  `Insert` and `Find` return a pointer, and the caller writes the entry
through it: `Fill`.  A caller that keeps a pointer beyond the next `Insert` would write to
another number's entry; no code does, as no code uses the class.  The entries
of a new buffer are what `malloc` leaves.

**Wrong variants.**  A definition `Name_Variant` is a plausible wrong version of
`Name`.  No specification uses it; put in the place of `Name` it makes a property
fail, which is how each property is known to depend on the code.

## 3. The runs

Run a configuration with `tlc -workers 2 -config X.cfg M`.

| run | module, cfg | question and result |
|---|---|---|
| `connection` | `MCConnection`, `MCConnection.cfg` | With loss, reordering, duplication and refused sends in any order: every packet has exactly one fate (`OneFateEach`), acknowledgements are sound (`AckSoundUntilWrap`) and, in the first half of the numbers, complete without further ado (`ExactBeforeHalf`), the round trip time is valid exactly from the first acknowledgement on (`RttMeasured`), the pair implements `AckService` (`ImplementsService`).  Holds; about 525 000 states. |
| `connection_wrap` | `MCConnection`, `MCConnectionWrap.cfg` | Seven packets with six numbers: `m_remoteSequenceNum` is the newest packet's id (`RemoteIsNewest`), acknowledgements name received ids (`AckNamesReceivedId`) and stay complete while nothing is late (`AckCompleteWhilePrompt`).  Holds; about 2.2 million states. |
| `ack_after_wrap` | `MCConnection`, `MCAckAfterWrap.cfg` | `Connection.cpp:166` says that a set bit means "packet ... has been recieved".  `AckSoundWhilePrompt` says so for ever, as long as nothing is late.  Violated: section 7. |
| `flow` | `MCFlowMonitor`, `MCFlowMonitor.cfg` | Under every schedule of samples and Updates: the estimate lies within the samples (`RttWithinSamples`), trust needs a full delta without a slow Update (`NoEarlyRecovery`), a relapse doubles the delta (`RelapseDoubles`), reductions are spaced (`ReductionsSpaced`), and the back-off limits itself (`DeltaStaysModest`); a connection that stays fast ends up GOOD for ever (`RecoversWhenFast`) with the smallest delta (`PenaltyDecays`), under fairness.  Holds; about 253 000 states. |
| `flow_short_good` | `MCFlowMonitor`, `MCFlowShortGood.cfg` | "If the time in GOOD <= 10s" (`Connection.cpp:285`), as `ShortGoodIsPunished`.  Violated: section 7. |
| `session` | `MCSession`, `MCSession.cfg` | Server, a client with two lines and one with one line that blocks, on one host: the loops make only steps of `Connection`, each datagram going to the connection of its sender (`ImplementsConnection`), the server has state only for clients in its map (`SessionTypeOK`), each reply acknowledges the datagram it answers (`RepliesAcknowledge`).  Holds; about 535 000 states. |
| `session_live` | `MCSession`, `MCSessionLive.cfg` | A client that starts again at any point, over a path that repeats datagrams: an end in its first run has a sound and complete view (`AckSoundInFirstRun`, `AckCompleteInFirstRun`), the programs implement `AckService` (`ProgramsImplementService`), every reply is settled whatever the client does (`RepliesSettle`), every request while the client runs (`RequestsSettle`).  Holds under fairness; about 101 000 states. |
| `ack_after_restart` | `MCSession`, `MCAckAfterRestart.cfg` | `Connection.cpp:166` again, for a client that starts again (`ClientAckSound`).  Violated: section 7. |
| `streams` | `MCStreams`, `MCStreams.cfg` | Up to three fields with any values, read back as the same or other fields: valid values survive (`RoundTrip`), accepted ones are in range (`StreamTypeOK`), integers never trap the reader (`ShortIntegersAreRefused`), the packer is used as it allows (`ImplementsPacker`), never touches a word outside the buffer (`BufferNotOverrun`), traps for exactly what does not fit (`TrapsExactlyTheOversized`) and implements `BitQueue` (`ReadsWhatWasWritten`).  Holds; about 334 000 states. |
| `sequence_buffer` | `MCSequenceBuffer`, `MCSequenceBuffer.cfg` | Sizes 1, 4 (divide the eight numbers) and 3 (does not): the buffer implements `SlidingWindow` (`ImplementsWindow`), a number is only in its own slot (`TypeOK`), inserting what is available displaces nothing (`AvailableIsSafe`).  Holds; 1698 states. |
| `self_test` | `MCSelfTest`, `MCSelfTest.cfg` | With an int of four bits: no int is refused, mistaken or passed over (`EveryIntPasses`), though most are outside the range documented for a message (section 7), and every int is tested again and again (`NoLastInt`), so the server is never started.  Holds under fairness; about 1100 states. |
| `flow_reduction` | `MCFlowMonitor`, `MCFlowReduction.cfg` | "every 10 seconds while in GOOD" (`Connection.cpp:319`), as `ReductionFollowsGoodTime`.  Violated: section 7. |

Properties and what they are for:

- `OneFateEach` covers the race of a late acknowledgement with loss detection, the
  packet the socket refused, and the double erase or double sample that a repeated
  acknowledgement could cause.
- `AckSoundUntilWrap`, `AckNamesReceivedId`, `AckSoundWhilePrompt` are three
  answers to "is an acknowledged packet a received packet?": yes until a number
  is used twice; for ever, if a packet is only its id; no, after wrap-around.
- `AckCompleteWhilePrompt` is the other direction: when a packet arrives,
  everything its sender had received, back to the length of the bitfield, is
  settled.  `near` and `prompt` say that nothing survived the use of half the
  number space, which for 16 bits and a one second timeout the code relies on.
- No property compares packets exactly half the numbers apart: `near` excludes it.  What
  `SequenceGreaterThan` does there is the theorem `GreaterThanDecides`.
- `ExactBeforeHalf` has no such condition: until an end has used half of the numbers
  nothing can be late enough to matter, however late it is.  It is about each end by
  itself, so an end that sends much does not spoil the view of one that sends little.
- `DeltaStaysModest` explains why the 60 s cap (`Connection.cpp:291`) is never used
  with the values of `Connection.h`: only a relapse within 10 s doubles the delta, and
  a delta of more than 10 s makes such a relapse impossible, so 20 s is the most.
- `TrapsExactlyTheOversized` is about the tests at the word boundary: the writer
  empties its scratch word only when it holds more than a word (`BitWriter.cpp:91`),
  so that a full last word is left to the flush, and counts bytes before that flush
  only.  One bit too strict and a message that fits is stopped; one too lax and the
  word after the buffer is written.
- `ReadsWhatWasWritten` needs the reader to put each word above what is left of the
  last one, at any of the offsets a sequence of fields can leave, and to shift what
  it returned out again.

- `ImplementsConnection` says that the order of calls in the two loops, the map and
  the addressing never leave what `Connection` allows; for one, that no buffer is taken
  apart that was not received.  With it all invariants of `Connection` hold of
  the programs, for any number of clients.
- `RepliesAcknowledge` depends on the server taking the datagram into `m_in` before it
  writes the reply, and on the bitfield reaching back far enough for a datagram that
  was overtaken.
- `AckSoundInFirstRun` and `AckCompleteInFirstRun` are about the ends that were never started
  again: the server's connections and the first run of each client.  They are safe,
  whatever their peers do: their own numbers go on, so an id in their `m_out` names one
  packet.  `ClientAckSound` says the same of later runs, and is false.
- `ProgramsImplementService` is what is left of `AckService` when clients start again: a restart
  gives up what was in `m_out`, and nothing else; a packet of an earlier run never
  settles again, though its id is used again.
- `RepliesSettle` is about clients that ended or were killed: only the sweep over
  the whole map settles what was sent to them.
- `ImplementsService` puts the fates together: whatever the order of calls and of datagrams,
  a packet settles once, as what it was told to be, and nothing that was refused ever arrives.
- `ImplementsWindow` says how far the sequence buffer may be trusted: two numbers less than the
  size apart never share a slot, across the wrap-around only if the size divides 65536;
  a number further away may displace a newer one, and removing it removes that one.
- `EveryIntPasses` is what the self test is there to find out.  It holds of numbers that
  a message does not have by its comment (`SimpleMessage.h:28`): it is true of the code
  because line 33 does not keep to the comment (section 7).  That it also holds on a buffer
  full of the last int is why the flush has to write whole words.
- `RoundTrip` includes the range of the whole type, where both the shift to unsigned
  and the shift back overflow.  `ImplementsPacker` is where `bitsRequired` is checked:
  `WriteBits` does not mask its data, so a width that is one too small corrupts the next
  field.

## 4. Bounds, and why they are enough

| constant | code | in the runs | why |
|---|---|---|---|
| `SEQ_MOD`, `UINT16_HALF` | 65536, 32768 | 6 and 3, 8 and 4 | the comparison only depends on distances relative to half the space; the theorems treat every value |
| `BITFIELD_SIZE` | 32 | 2 | the newest packet and one behind it: holes, repeats, and a packet that falls out of the window all occur |
| `MaxSends` | unbounded | 3+2, 7+1, 8+1; in the sessions what the clients' lines need (`RoomAssumption`) | two packets in one direction can be reordered, three lose one in the middle; seven and eight pass the wrap of six numbers |
| `MaxFailures` | unbounded | 6 (not a bound), 0 in the wrap runs and the sessions | a refused send only leaves a gap, like a lost packet; the theorems about `Session` hold with any number of them |
| `PathCapacity`, `MaxOut` | unbounded | 6 (not a bound); 2 and 1 in the wrap runs | two datagrams on the way are enough to overtake |
| `Client`, `Lines` | any, `input.txt` | 2 clients with 2+1 lines; 1 client with 1 line | clients share only the server's loop, so two show what one does to the other; two requests can overtake each other |
| `Blocking`, `Unbound`, `ServerBlocks` | any | the second client of `session` in both, else none | one client waits while the other goes on; a program that waits from the start (`ioctlsocket`) is left to the proofs, which are for any values: it sends nothing |
| `MaxRestarts` | any | 0 or 1 | one restart meets all there is: an old connection, old datagrams, old ids |
| `MAX_RTT` | 1000 ms | 0 or 1 tick | lost after more than that; packets on both sides of the limit occur |
| `MAX_AGE` | unbounded | 1 to 15 ticks | just beyond the largest threshold, see Time above |
| `Samples` | any | two or three values | one well below the limit, one above, one between after averaging |
| word and byte of the packer | 32 and 8 bits | 4 and 2 bits | every offset of a field in a word occurs, and every pair of offsets of the two sides |
| `BufferWords` | 64 (a packet), 4 (the self test) | 2, 4 in `self_test` | one boundary between words, one at the end |
| `Sizes`, `Entry` of the sequence buffer | any positive int, any | 1, 3 and 4 with eight numbers; two entries | one size that divides the numbers, one that does not, and the degenerate one |
| int of the self test | 32 bits | 4 bits | the type takes two bits and the number a whole word, so that they straddle words as in the code |
| `Garbage` | any word | all bits clear, all bits set | every bit that shows through differs from the written one in one of them |
| `Field`, `MaxFields` | those of header and messages, any number | full range, two ranges with unused codes, two bits; 3 | fields straddle the words, and three of them exceed the buffer |
| thresholds of the estimator | 250 ms, 5, 60, 1, 10 s | 1 tick, 2, 7 (5), 1, 3 | same order: minimum < default < required time < maximum |

The bounds sit in the guards of `TakeNumber`, `Send` and `SendFails`; no run may
stop except `streams` and `self_test`, where a failed trap or a refusal is the end; in
the others the clock always runs, or calls go on.

## 5. Fairness

`session_live` assumes weak fairness of the server's loop (`ServerProceeds`), of each
client's loop (`ClientProceeds`) and of the clock.  The loops have no other thread to wait
for, and a call that finds no datagram returns at once.  The steps that take a datagram
are in neither: nothing is assumed about the network, so a datagram need not
arrive, and a client whose `recvfrom` waits may wait for ever, which is why
`RequestsSettle` leaves such clients out and `RepliesSettle` a server with
`ServerBlocks`.  The server's loop ends only at a key press
(`ConnectionManager.cpp:75`); the properties are about a server that runs.  Clients end
when they have no lines left; what is then in their `m_out` stays there.

`flow` assumes weak fairness of `Update` and of `Tick`: both loops call `Update` in
every iteration, the client before anything that can skip the rest
(`Client/src/Main.cpp:78`), the server after every datagram it does not reject
(`ConnectionManager.cpp:121`; `Receive` never returns false, so it rejects none).

`self_test` assumes that the program's one thread runs.

## 6. The proofs

Check a module with `tlapm M.tla`.  All hold for every value of the constants
that satisfies the named assumptions: `SequenceAssumption` (the number space is
twice a positive half), `FlowAssumption` (the limits are ordered, and twice the
largest delta fits the `uint8_t` it is stored in, as twice 60 does: nothing here says what
would happen with a cap above 127), `AgeAssumption` (the cap on time
differences lies beyond the thresholds), `SamplesAssumption`,
`ConnectionAssumption` (two ends that are each other's peers; a bitfield no longer
than the number space; the bounds are naturals), `PackerAssumption` (a word is a
positive number of bytes, a buffer a positive number of words),
`SessionAssumption` (of two peers exactly one is a client, no two clients have the
same address, and a client that could not bind blocks), `RoomAssumption` (the model bounds of `Connection` leave room for what
the clients send), `StreamAssumption` (a field is a width up to a word or a range of
int32_t), `SelfTestAssumption` (the two fields of the self test, and a buffer of at least two
words) and `BufferAssumption` (sizes are positive; the mark of an empty slot is no
sequence number).  The values of the code satisfy them.

| theorem | statement |
|---|---|
| `GreaterThanDecides` | of two different numbers exactly one is more recent, at half the space too |
| `GreaterThanIsLaterSent` | for packets less than half the space apart, comparing ids is comparing the order of sending |
| `FlowMonitorProofs!TypeCorrect` | `Spec => []TypeOK` |
| `RttIsWithinSamples`, `DeltaIsModest` | the invariants of the `flow` run |
| `RecoveryIsNotEarly`, `RelapsesDouble`, `ReductionsAreSpaced` | the action properties of the `flow` run |
| `ConnectionProofs!TypeCorrect`, `EveryPacketHasOneFate`, `RttIsMeasured` | the invariants of the `connection` run |
| `RemoteFollowsNewest`, `AcknowledgedIdsWereReceived`, `AcknowledgedPacketsWereReceived`, `AcknowledgementsAreComplete`, `FirstHalfIsExact` | the invariants of `connection` and `connection_wrap` |
| `ConnectionImplementsService` | `Spec => ImplementsService`: every step of `Connection` is a `Submit`, `Arrive`, `GiveUp` or a stutter of `AckService` |
| `AddressOrder` | `CAddressCompare` is irreflexive, transitive and total, so that its equivalence is equality |
| `LoopsImplementConnection` | `SessionSpec => ImplementsConnection`, for any number of clients that are not started again (`MaxRestarts = 0`) |
| `SessionTypeCorrect`, `EveryReplyAcknowledges` | the other properties of the `session` run, for any number of clients and restarts |
| `FirstRunsAreSound`, `FirstRunsAreComplete` | the invariants of the `session_live` run, for any number of clients and restarts |
| `RunsImplementService` | `SessionSpec => ProgramsImplementService`: the programs implement `AckService` through any number of restarts |
| `BitPackerProofs!TypeCorrect`, `StaysInTheBuffer`, `TrapsAreExact` | the invariants of the packer in the `streams` run |
| `ImplementsQueue` | `Spec => Queue!Spec`: the bit packer is a queue of bits |
| `StreamsImplementPacker` | `StreamSpec => Spec` of `BitPacker`: so all of the above holds of the streams |
| `StreamsTypeCorrect`, `IntegersNeverTrap`, `WrittenIsReadBack` | the invariants of `Streams` in the `streams` run |
| `EveryIntIsPassed` | `SelfTestSpec => []EveryIntPasses` |
| `SequenceBufferProofs!TypeCorrect`, `BufferImplementsWindow`, `AvailableNeverDisplaces` | the properties of the `sequence_buffer` run |

**The argument for Connection.**  None of the properties is inductive alone.  The
invariant of `ConnectionProofs` has five parts, and speaks of each end by itself.
`Fates`: each packet is in at most one place.  `Arrivals`: what was received was sent.
`Numbering`: the local number is `sent % SEQ_MOD`, and the id of everything in `m_out` is its
ordinal modulo `SEQ_MOD`; this links ids, which the code has, to ordinals, which the
properties speak of.  `Hearing`: `m_in` is the ids of `received`, and `m_remoteSequenceNum` that
of `newest` while nothing was late.  `Learning`: what is acknowledged was named, and what
was told is settled.  `Truthful` says of each datagram that whatever it says was
true when it was written; it stays true, since `m_in`, `received` and `newest` only grow.
Acknowledgements thus stay sound however late, often or disordered they arrive.
Completeness follows because, while an end is `prompt`, everything in its `m_out` is
within half the space of the packets being named, so the search finds each by the bit
that stands for it (`PromptPacketIsFound`), and soundness because two ordinals below the
wrap with equal ids are equal (`SoundUntilWrap`).

The invariant has two parameters, `Inv(G, old)`: the ends `G` whose numbers go on from the
first to the last, and what each end had received before it started anew.  Only the ends
in `G` have `Numbering`, `Hearing` and `Learning`, and what was received is always `received`
together with `old`.  In `Connection` these are all ends and nothing (`IInv`); `Session` puts in what
it needs, and each step of `Connection` is shown to preserve the invariant once
(`NextPreserves`).

`FirstHalfIsExact` adds `Timely`: an end with fewer than `UINT16_HALF` packets has met no
packet that was late, and neither has its peer.  That is not implied by the definitions of
`near` and `prompt`, which look at one arrival at a time: it takes that no datagram
on its way claims to have heard of a packet that was not sent.

The loop over the bits (`RttAfter`) is a recursive function.
`OperatorProofs` shows that it is defined at every index and stays in
range.  Inductions there are by the least counterexample, from the
well-foundedness of `<` on the naturals, because the induction rules with an
operator parameter are not available to the installed provers.

For `ConnectionImplementsService` the invariant is enough: what a `Receive` takes as
acknowledged is a subset of `m_out` and, until ids repeat, of what the peer received.

**The argument for Session.**  Each step of `SessionNext` but `Restart` contains a step of
`Connection` or leaves its variables alone; what has to be shown is that the
datagram being answered belongs to a connection in the map, and that connections
outside it are still as `Init` made them, since that is what the constructor makes.

A client that starts again has a new `CConnection`, and the invariant of `Connection` is
false of it and stays false: its ids repeat, and old datagrams speak of packets of its
past.  But nothing of this reaches the ends that never started again.  `RunsInv` is
`Inv(FirstRun, Before)`: a restart takes the client out of `FirstRun` and moves what it had
received to `Before`, so that what its peer was told remains true (`RestartKeepsRuns`).
All other steps are those of `Connection`, of which `NextPreserves` says
that they keep the invariant for any `G` and `old`.  The theorems on soundness, completeness and the
service therefore hold for any number of restarts; and nothing about a first run is
weaker than what is proved without restarts.

For `EveryReplyAcknowledges` the invariant says that the datagram in `tempBuf` is in the
`received` of its connection and its id in `m_in`, and that `m_remoteSequenceNum` is the newest
id, so the loop over the bitfield meets the id at the distance of the two ordinals.  That
is true of datagrams of first runs; a later run's ordinals go on while its ids start
again, so ordinal and id no longer belong together.  `LoopsImplementConnection` is
the one theorem that needs `MaxRestarts = 0`: `Connection` has no action that forgets.

**The argument for FlowMonitor.**  `DeltaInv` and `ClockInv` relate the three time
points of the code to the history clocks: `m_lastThresholdPass` is never older than
the last slow Update, `m_goodStateTracker` is no older than the last reduction and
the last GOOD -> BAD transition, `m_lastGoodToBadTransition` is no older than
`sinceBad`.  The action properties are consequences.  `ModestInv` adds the link between
delta and time: in GOOD the delta is at most its default or the time since the last
GOOD -> BAD transition, and in BAD `m_lastThresholdPass` is no older than that
transition.  So a delta above the minimum time means that the next relapse cannot
come within it.

**The argument for BitPacker.**  The counters alone say how far writer and reader
got: `Len(written)` is the bits of the words already stored plus those in the
scratch word, and what was asked of the reader plus the bits in its scratch word is
the bits of the words it loaded.  With these the byte comparisons of the traps are
comparisons of word indexes (`IndexBelowEnd`), and both trap properties follow.  For
the refinement the invariant adds what the words hold: the stored words are the
written bits at their places (`WordsHold`), the scratch word the bits after them and
zeros above (`Holds`; the zeros are why `^` appends), after the flush the buffer holds
all that was written (`BufferHolds`), and the reader's scratch word the bits that come
next (`HoldsNext`).  One lemma per operation carries these over a step; the
refinement theorem only reads off `Put` and `Get`.

**The argument for Streams.**  The bits handed to the packer must fit the width it is
given.  For a range that means `max - min < 2 ^ bitsRequired(min, max)` (`RangeBits`), which
rests on the position of the highest bit being well defined (`Log2Position`) and on the
powers growing (`PowersGrow`), and that the shift to unsigned does not leave the range
(`ShiftAndBack`).  Then every step of `Streams` is one of `BitPacker`, and the packer's
invariant is available.  The round trip needs to know where each field lies: `InPlace` says
that there are positions, one behind the other, such that the bits of `written` between
two of them are those of the value (`Lies`), and that a reader that asked for the same
fields so far stands at the end of the last one.  The packer then returns those bits
(`ReadReturns`), their number is the shifted value (`WordOf`), and shifting back gives the
value.  `Pow2` and the number of a sequence of bits are recursive functions; that they
are what their definitions say (`Powers`, `NumberTops`) is proved by constructing the
course of the loop step by step (`Course`), again by the least counterexample.

**The argument for SelfTest.**  `Progress` says what was written and asked for at each place of the
loop.  The invariant of the streams (`Running`) holds of a new writer and reader on any buffer
(`FreshEstablishes`), so that the next int finds nothing of the last one.  Both fields
fit the buffer (`BothFit`), so no trap fails while they are written (`Untrapped`); what was
written comes back (`ReadInPlace`), so the type is accepted, the message created and
its number the counter.  The range of the number is that of the type, not that of its comment, so no counter is
refused, and `Decremented` never leaves it.

**The argument for SequenceBuffer.**  A number is only ever in the slot of its index, so two
numbers in one slot differ by a multiple of the size, and numbers that are close do
not (`SequenceBufferProofs`).  The refinement mapping is the function from the numbers
that `Exists` to what `Find` points to.

**Only model-checked:** the liveness properties (`RepliesSettle`, `RequestsSettle`,
`RecoversWhenFast`, `PenaltyDecays`, `NoLastInt`), since temporal reasoning under
fairness is out of this prover's reach; and the four refuted statements, which cannot be
proved.  Every invariant, action property and refinement of the runs is a theorem.

## 7. Where the code and its comments differ

- **Acknowledged, but never received** (`ack_after_wrap`).  Nothing leaves `m_in`
  (`Connection.cpp:52`), and `Send` looks an id up in all of it (line 161).  When the 16
  bit numbers come round, the bit of an id that arrived 65536 packets ago is set
  although the packet that bears it now was lost.  No lateness is involved.
- **Acknowledged in the name of an earlier run** (`ack_after_restart`).  A client that is
  started again numbers from 1 (`Connection.cpp:10`).  A reply to its earlier run that is
  still on its way names id 1, and the new client takes its own packet 1 as
  acknowledged although it was lost.  Nothing in a packet tells the runs apart.
- **The time compared is not the time in GOOD** (`flow_short_good`).
  `durationInGood` (line 283) counts from the last GOOD -> BAD transition, the time in
  BAD included.  After a long time in BAD, a short time in GOOD is not punished.
- **The reduction timer runs while BAD** (`flow_reduction`).  `m_goodStateTracker` is
  set when the connection goes BAD (line 297) and not when it becomes GOOD, so the
  first Update in GOOD may halve the delta.

Three more, which no run is there to refute:

- **A message outside its range.**  The comment on `m_message` says "min = 0, max = 1000"
  (`SimpleMessage.h:28`); `SerializeInternal` serializes it with `INT_MIN` and `INT_MAX` (line
  33), nothing else keeps it in a smaller range, and the self test sends every int through
  it (`Server/src/Main.cpp:39`).  `self_test` and the theorem `EveryIntIsPassed` are about the
  code: that they hold does not confirm the comment, it shows that the ints which the
  comment excludes get through as well, and `NoLastInt` that each of them is sent.  Were
  the comment right about the range and line 33 to follow it, the trap in `serialize_int`
  (`Stream.h:26`) would stop the self test at its first int.
- `BitReader.cpp:92-103` says that a read takes the most significant bits of the scratch
  word, shifting it right by what is left.  Line 105 takes the least significant ones
  (`m_scratch & mask`), which is what fits the writer, and what `Low` and `Taken` model.
- `Stream.h:12-14` quotes that the serialize macros return false on error.  A field of bits
  beyond the end is stopped by a trap of the reader instead (`BitReader.cpp:22, 44`;
  `SerializeBits` always returns true, `ReadStream.cpp:26-30`), and so is an invalid value
  on the writing side (`Stream.h:21, 25, 26, 51`).  `ShortIntegersAreRefused` is therefore
  about integers only.

## 8. Not modelled, and why

- Payloads, log lines, `m_lastSentPacket` and `m_lastRecievedPacket`: no decision of the
  protocol depends on them (`Update` uses `m_lastSentPacket` for a line of output).
- The protocol id: `Receive` reads it and does nothing with the result
  (`Connection.cpp:46-49`).
- `IConnection.*`: a sketch that no file includes and that does not compile: it has
  no behaviour to be faithful to.
- The end of the server at a key press, `SendPacket` (which no code calls), and the
  start and the end of Winsock.
- `serialize_float`, which copies 32 bits and which no message uses, and
  `CreateMessageInternal` and `CVec3Message`, which nothing calls or constructs.
- The text of an address.  `SetAddress` does not touch the bytes it is built from
  (`Address.h:46`), so the log shows 127.0.0.1 for every peer.
- `m_sequence` of the sequence buffer, which nothing updates or reads (`SequenceBuffer.h:88`),
  and the release of its memory.
- How long `m_in` and the server's map get.  Nothing is ever removed from either
  (`Connection.cpp:52`, `ConnectionManager.cpp:112`), which is plain in the code and
  needs no property.
- Second flushes and writes after a flush (`BitWriter.cpp:46`): no caller does either.
- `CSocket::Close`, which no program calls, and the return codes of Winsock beyond
  accepted and refused.
- Logging, singletons, platform macros, exceptions, the client's window: no state
  of the protocol.

## 9. Plan

Done, in this order: `SequenceNumbers`, `FlowControl`, `FlowMonitor`, `Connection`;
`BitPacker` and `BitQueue`; `Session`; `Streams`; `SequenceBuffer` and `SlidingWindow`;
`Address`; `AckService`; `SelfTest`; each with its run and its proofs.  The proofs
about `Connection` were then restated for each end by itself, so that they hold of the
programs through restarts.

Left: the estimator inside `Connection` is not stated to be an instance of `FlowMonitor`.
Both use the operators of `FlowControl`, but a `Receive` may take several samples in one
step where `Sample` takes one, so the theorems on back-off and recovery are about the estimator alone.
And a model of `IConnection` once it is code.
