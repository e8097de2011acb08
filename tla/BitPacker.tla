------------------------------ MODULE BitPacker ------------------------------
(***************************************************************************)
(* CBitWriter and CBitReader (Core/src/BitWriter.cpp, BitReader.cpp): a     *)
(* writer fills a buffer through a scratch word twice as wide as a word,    *)
(* the buffer travels, a reader of its own takes it apart again.            *)
(*                                                                         *)
(* The callers are CConnection::Send, which serializes at least a packet    *)
(* header and flushes once, and CConnection::Receive.  They pass widths     *)
(* from 1 to a word, and data that fits the width: a header field has the   *)
(* width of its type, an integer the bits of the range it is checked for.   *)
(*                                                                         *)
(* Words are functions from bit positions, the least significant at 0, so   *)
(* shifts, ^ and & keep the width they have in the code.  A UDP_TRAP that   *)
(* fails never returns (Platform.h): trapped ends the behaviour.            *)
(***************************************************************************)
EXTENDS Integers, Sequences

CONSTANTS
  BITS_PER_BYTE,        \* 8
  WORD_SIZE_IN_BYTES,   \* 4 in the code
  WORD_SIZE_IN_BITS,    \* 32 in the code
  BufferWords,          \* the length of the buffer in words; 64 for a packet
  Garbage               \* what a word of an uninitialized buffer may hold

Bit == {0, 1}
Offset == 0 .. WORD_SIZE_IN_BITS - 1
WideOffset == 0 .. 2 * WORD_SIZE_IN_BITS - 1

Word == [Offset -> Bit]           \* uint32_t
Wide == [WideOffset -> Bit]       \* uint64_t

ASSUME PackerAssumption ==
  /\ BITS_PER_BYTE \in Nat \ {0}
  /\ WORD_SIZE_IN_BYTES \in Nat \ {0}
  /\ WORD_SIZE_IN_BITS = BITS_PER_BYTE * WORD_SIZE_IN_BYTES
  /\ BufferWords \in Nat \ {0}
  /\ Garbage \subseteq Word

\* A whole number of words, as the trap in the constructor requires.
m_bufferLen == WORD_SIZE_IN_BYTES * BufferWords
m_totalBits == m_bufferLen * BITS_PER_BYTE

WordIndex == 0 .. BufferWords - 1

VARIABLES
  m_buffer,   \* the words of the buffer
  writer,     \* the members of CBitWriter
  reader,     \* the members of CBitReader
  flushed,    \* whether the writer is done and the reader may start
  trapped,    \* whether a UDP_TRAP failed
  \* History, read by the properties only.
  written,    \* the bits handed to WriteBits
  output,     \* the bits the last ReadBits returned
  asked,      \* the number of bits asked of ReadBits
  touched     \* the indexes of the words accessed

history == <<written, output, asked, touched>>
vars == <<m_buffer, writer, reader, flushed, trapped, history>>

-----------------------------------------------------------------------------
(* Words. *)

Zero == [j \in WideOffset |-> 0]
Widen(w) == [j \in WideOffset |-> IF j \in Offset THEN w[j] ELSE 0]
Narrow(x) == [j \in Offset |-> x[j]]
ShiftLeft(x, k) == [j \in WideOffset |-> IF j >= k THEN x[j - k] ELSE 0]
ShiftRight(x, k) ==
  [j \in WideOffset |-> IF j + k \in WideOffset THEN x[j + k] ELSE 0]
Xor(x, y) == [j \in WideOffset |-> (x[j] + y[j]) % 2]

\* The low bits of a word, as a sequence.
Low(x, bits) == [i \in 1 .. bits |-> x[i - 1]]

\* The data of a given width.
Data(bits) == {w \in Word : \A j \in Offset : j >= bits => w[j] = 0}

-----------------------------------------------------------------------------
NewWriter ==
  [m_scratch |-> Zero, m_scratchBits |-> 0, m_wordIndex |-> 0, m_numBytesWritten |-> 0]

NewReader ==
  [m_scratch |-> Zero, m_scratchBits |-> 0, m_wordIndex |-> 0, m_numBytesRead |-> 0,
   m_numBitsRead |-> 0]

Init ==
  /\ m_buffer \in [WordIndex -> Garbage]
  /\ writer = NewWriter
  /\ reader = NewReader
  /\ flushed = FALSE
  /\ trapped = FALSE
  /\ written = <<>>
  /\ output = <<>>
  /\ asked = 0
  /\ touched = {}

-----------------------------------------------------------------------------
(* CBitWriter *)

\* The scratch word with the new bits above those it holds.
Added(data, bits) ==
  [writer EXCEPT !.m_scratch = Xor(@, ShiftLeft(Widen(data), writer.m_scratchBits)),
                 !.m_scratchBits = @ + bits]

\* The scratch word once its low word has gone to the buffer.
Overflowed_CountsWords(w) ==
  [m_scratch |-> ShiftRight(w.m_scratch, WORD_SIZE_IN_BITS),
   m_scratchBits |-> w.m_scratchBits - WORD_SIZE_IN_BITS,
   m_wordIndex |-> w.m_wordIndex + 1,
   m_numBytesWritten |-> w.m_numBytesWritten + 1]

Overflowed(w) ==
  [m_scratch |-> ShiftRight(w.m_scratch, WORD_SIZE_IN_BITS),
   m_scratchBits |-> w.m_scratchBits - WORD_SIZE_IN_BITS,
   m_wordIndex |-> w.m_wordIndex + 1,
   m_numBytesWritten |-> w.m_numBytesWritten + WORD_SIZE_IN_BYTES]

\* Whether the low word has to go: only when the scratch word holds more.
Overflows_AtWord(w) == w.m_scratchBits >= WORD_SIZE_IN_BITS

Overflows(w) == w.m_scratchBits > WORD_SIZE_IN_BITS

WriterHasRoom == writer.m_numBytesWritten < m_bufferLen

Store(scratch) ==
  /\ m_buffer' = [m_buffer EXCEPT ![writer.m_wordIndex] = Narrow(scratch)]
  /\ touched' = touched \cup {writer.m_wordIndex}

WriteBits(data, bits) ==
  LET w == Added(data, bits)
  IN  /\ ~flushed /\ ~trapped
      /\ written' = written \o Low(data, bits)
      /\ \/ /\ ~Overflows(w)
            /\ writer' = w
            /\ UNCHANGED <<m_buffer, trapped, touched>>
         \/ /\ Overflows(w) /\ WriterHasRoom
            /\ Store(w.m_scratch)
            /\ writer' = Overflowed(w)
            /\ UNCHANGED trapped
         \/ /\ Overflows(w) /\ ~WriterHasRoom
            /\ writer' = w
            /\ trapped' = TRUE
            /\ UNCHANGED <<m_buffer, touched>>
      /\ UNCHANGED <<reader, flushed, output, asked>>

CanFlush ==
  /\ WriterHasRoom
  /\ writer.m_scratchBits <= WORD_SIZE_IN_BITS
  /\ writer.m_scratchBits > 0

\* Called once, after at least one WriteBits.
FlushScratch ==
  /\ ~flushed /\ ~trapped
  /\ written # <<>>
  /\ \/ /\ CanFlush
        /\ Store(writer.m_scratch)
        /\ writer' = [writer EXCEPT !.m_wordIndex = @ + 1]
        /\ flushed' = TRUE
        /\ UNCHANGED trapped
     \/ /\ ~CanFlush
        /\ trapped' = TRUE
        /\ UNCHANGED <<m_buffer, writer, flushed, touched>>
  /\ UNCHANGED <<reader, written, output, asked>>

-----------------------------------------------------------------------------
(* CBitReader *)

\* Whether the scratch word holds too few bits, so that a word is loaded.
MustLoad(bits) == bits > reader.m_scratchBits

Loaded_NoShift ==
  [m_scratch |-> Xor(reader.m_scratch, Widen(m_buffer[reader.m_wordIndex])),
   m_scratchBits |-> reader.m_scratchBits + WORD_SIZE_IN_BITS,
   m_wordIndex |-> reader.m_wordIndex + 1,
   m_numBytesRead |-> reader.m_numBytesRead + WORD_SIZE_IN_BYTES,
   m_numBitsRead |-> reader.m_numBitsRead]

Loaded ==
  [m_scratch |-> Xor(reader.m_scratch,
                    ShiftLeft(Widen(m_buffer[reader.m_wordIndex]), reader.m_scratchBits)),
   m_scratchBits |-> reader.m_scratchBits + WORD_SIZE_IN_BITS,
   m_wordIndex |-> reader.m_wordIndex + 1,
   m_numBytesRead |-> reader.m_numBytesRead + WORD_SIZE_IN_BYTES,
   m_numBitsRead |-> reader.m_numBitsRead]

\* The reader with enough bits in its scratch word.
Ready(bits) == IF MustLoad(bits) THEN Loaded ELSE reader

\* The reader once the bits it returns are gone from its scratch word.
Taken(r, bits) ==
  [m_scratch |-> ShiftRight(r.m_scratch, bits),
   m_scratchBits |-> r.m_scratchBits - bits,
   m_wordIndex |-> r.m_wordIndex,
   m_numBytesRead |-> r.m_numBytesRead,
   m_numBitsRead |-> r.m_numBitsRead + bits]

CanRead(bits) ==
  /\ reader.m_numBitsRead < m_totalBits
  /\ MustLoad(bits) => reader.m_numBytesRead < m_bufferLen

ReadBits(bits) ==
  LET r == Ready(bits)
  IN  /\ flushed /\ ~trapped
      /\ asked' = asked + bits
      /\ \/ /\ CanRead(bits)
            /\ output' = Low(r.m_scratch, bits)
            /\ reader' = Taken(r, bits)
            /\ touched' = IF MustLoad(bits)
                          THEN touched \cup {reader.m_wordIndex} ELSE touched
            /\ UNCHANGED trapped
         \/ /\ ~CanRead(bits)
            /\ trapped' = TRUE
            /\ UNCHANGED <<reader, output, touched>>
      /\ UNCHANGED <<m_buffer, writer, flushed, written>>

-----------------------------------------------------------------------------
Width == 1 .. WORD_SIZE_IN_BITS

Next ==
  \/ \E bits \in Width : \E data \in Data(bits) : WriteBits(data, bits)
  \/ FlushScratch
  \/ \E bits \in Width : ReadBits(bits)

Spec == Init /\ [][Next]_vars

-----------------------------------------------------------------------------
(* Properties *)

WriterType ==
  [m_scratch : Wide, m_scratchBits : 0 .. 2 * WORD_SIZE_IN_BITS,
   m_wordIndex : 0 .. BufferWords, m_numBytesWritten : 0 .. m_bufferLen]

ReaderType ==
  [m_scratch : Wide, m_scratchBits : Offset,
   m_wordIndex : 0 .. BufferWords, m_numBytesRead : 0 .. m_bufferLen,
   m_numBitsRead : 0 .. m_totalBits]

(* Type correctness.  The bit count of the reader's scratch word stays       *)
(* below a word between calls, the writer's within the scratch word.         *)
TypeOK ==
  /\ m_buffer \in [WordIndex -> Word]
  /\ writer \in WriterType
  /\ reader \in ReaderType
  /\ flushed \in BOOLEAN
  /\ trapped \in BOOLEAN
  /\ written \in Seq(Bit)
  /\ output \in Seq(Bit)
  /\ asked \in Nat
  /\ touched \subseteq Int

(* No call touches memory outside the buffer, whatever the widths and        *)
(* however much is written or read (the traps of BitWriter.cpp:33, 94 and    *)
(* BitReader.cpp:44 come before the accesses they guard).                    *)
BufferNotOverrun == touched \subseteq WordIndex

(* The traps are hit by what does not fit the buffer, and by nothing else:   *)
(* a program whose fields fit is never stopped, at no boundary between       *)
(* words, and one whose fields do not fit never gets as far as a datagram    *)
(* or a value.                                                               *)
TrapsExactlyTheOversized ==
  /\ trapped => Len(written) > m_totalBits \/ asked > m_totalBits
  /\ flushed => Len(written) <= m_totalBits
  /\ flushed /\ ~trapped => asked <= m_totalBits

(* What was written is read back, bit for bit, in whatever portions the two  *)
(* sides work; bits of the uninitialized buffer are never read in their      *)
(* place.  The queue is what was written and not yet read.                   *)
Queue == INSTANCE BitQueue WITH
  MaxBits <- WORD_SIZE_IN_BITS,
  queue <- SubSeq(written, reader.m_numBitsRead + 1, Len(written)),
  result <- output

ReadsWhatWasWritten == Queue!Spec
=============================================================================
