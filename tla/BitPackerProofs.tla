--------------------------- MODULE BitPackerProofs ---------------------------
(***************************************************************************)
(* For every word size, every buffer and every sequence of widths: the bit  *)
(* packer stays inside its buffer, stops exactly what does not fit, and     *)
(* reads back what was written.                                             *)
(***************************************************************************)
EXTENDS BitPacker, SequenceTheorems, TLAPS

W == WORD_SIZE_IN_BITS

\* The scratch word x holds the n bits of s after its first base bits, and
\* nothing else.
Holds(x, n, s, base) ==
  \A j \in WideOffset : x[j] = IF j < n THEN s[base + j + 1] ELSE 0

\* It holds n bits, those of them that s has are the ones after its first base.
HoldsNext(x, n, s, base) ==
  \A j \in WideOffset :
    IF j < n THEN base + j + 1 <= Len(s) => x[j] = s[base + j + 1] ELSE x[j] = 0

\* The first c words of the buffer hold what s has at their places.
WordsHold(buffer, c, s) ==
  \A k \in WordIndex, j \in Offset : k < c => buffer[k][j] = s[W * k + j + 1]

\* The buffer holds all of s.
BufferHolds(buffer, s) ==
  \A k \in WordIndex, j \in Offset :
    W * k + j + 1 <= Len(s) => buffer[k][j] = s[W * k + j + 1]

\* The writer's counters count what was written.
WriterCounts ==
  ~flushed =>
    /\ writer.m_numBytesWritten = WORD_SIZE_IN_BYTES * writer.m_wordIndex
    /\ Len(written) = W * writer.m_wordIndex + writer.m_scratchBits
    /\ written # <<>> => writer.m_scratchBits > 0
    /\ ~trapped => writer.m_scratchBits <= W

\* Before the flush the written bits are in the buffer, then in the scratch
\* word, and nothing else is in the scratch word.
WriterBits ==
  ~flushed =>
    /\ WordsHold(m_buffer, writer.m_wordIndex, written)
    /\ Holds(writer.m_scratch, writer.m_scratchBits, written, W * writer.m_wordIndex)

\* After it they are all in the buffer.
BufferBits == flushed => BufferHolds(m_buffer, written)

\* The reader's counters count what was read.
ReaderCounts ==
  /\ reader.m_numBytesRead = WORD_SIZE_IN_BYTES * reader.m_wordIndex
  /\ reader.m_numBitsRead + reader.m_scratchBits = W * reader.m_wordIndex
  /\ ~trapped => asked = reader.m_numBitsRead
  /\ ~flushed => reader.m_numBitsRead = 0 /\ reader.m_scratchBits = 0

\* Its scratch word holds the bits that come next.
ReaderBits ==
  HoldsNext(reader.m_scratch, reader.m_scratchBits, written, reader.m_numBitsRead)

IInv ==
  /\ TypeOK
  /\ WriterCounts
  /\ WriterBits
  /\ BufferBits
  /\ ReaderCounts
  /\ ReaderBits
  /\ TrapsExactlyTheOversized
  /\ BufferNotOverrun

-----------------------------------------------------------------------------
(* Multiples of a size keep the order of their factors.                      *)
LEMMA Multiples ==
  ASSUME NEW d \in Nat \ {0}, NEW x \in Nat, NEW y \in Nat
  PROVE  /\ d * x \in Nat /\ d * y \in Nat
         /\ d * (x + 1) = d * x + d
         /\ x < y <=> d * x < d * y
         /\ x < y <=> d * x + d <= d * y
<1>1. d * x \in Nat /\ d * y \in Nat /\ d * (x + 1) = d * x + d
  OBVIOUS
<1>2. ASSUME NEW a \in Nat, NEW c \in Nat PROVE d * (a + c) = d * a + d * c
                                               /\ d * a \in Nat /\ d * c \in Nat
  OBVIOUS
<1>3. ASSUME x < y PROVE d * x + d <= d * y
  <2>1. y - x - 1 \in Nat /\ y = (x + 1) + (y - x - 1)
    BY <1>3
  <2>2. d * y = d * (x + 1) + d * (y - x - 1) /\ d * (y - x - 1) \in Nat
    BY <2>1, <1>2
  <2> QED
    BY <1>1, <2>2
<1>4. ASSUME y <= x PROVE d * y <= d * x
  <2>1. x - y \in Nat /\ x = y + (x - y)
    BY <1>4
  <2>2. d * x = d * y + d * (x - y) /\ d * (x - y) \in Nat
    BY <2>1, <1>2
  <2> QED
    BY <1>1, <2>2
<1> QED
  BY <1>1, <1>3, <1>4

(* The buffer's length in bytes, in bits and in words.                       *)
LEMMA Sizes ==
  /\ W \in Nat \ {0} /\ WORD_SIZE_IN_BYTES \in Nat \ {0} /\ BufferWords \in Nat \ {0}
  /\ m_bufferLen = WORD_SIZE_IN_BYTES * BufferWords
  /\ m_totalBits = W * BufferWords
  /\ m_bufferLen \in Nat /\ m_totalBits \in Nat
<1>1. /\ WORD_SIZE_IN_BYTES \in Nat \ {0} /\ BITS_PER_BYTE \in Nat \ {0}
      /\ BufferWords \in Nat \ {0} /\ W = BITS_PER_BYTE * WORD_SIZE_IN_BYTES
  BY PackerAssumption DEF W
<1>2. W \in Nat \ {0}
  BY <1>1
<1>3. (WORD_SIZE_IN_BYTES * BufferWords) * BITS_PER_BYTE
        = (BITS_PER_BYTE * WORD_SIZE_IN_BYTES) * BufferWords
  BY <1>1
<1> QED
  BY <1>1, <1>2, <1>3 DEF m_bufferLen, m_totalBits

(* A word index is below the end exactly when its byte or bit count is.      *)
LEMMA IndexBelowEnd ==
  ASSUME NEW k \in Nat
  PROVE  /\ WORD_SIZE_IN_BYTES * k \in Nat /\ W * k \in Nat
         /\ WORD_SIZE_IN_BYTES * k < m_bufferLen <=> k < BufferWords
         /\ k < BufferWords => W * k + W <= m_totalBits
         /\ k >= BufferWords => W * k >= m_totalBits
BY Sizes, Multiples

-----------------------------------------------------------------------------
(* The words are closed under the operators of the code.                     *)
LEMMA WordsTyped ==
  /\ Zero \in Wide
  /\ \A w \in Word : Widen(w) \in Wide
  /\ \A x \in Wide : Narrow(x) \in Word
  /\ \A x \in Wide, k \in Nat : ShiftLeft(x, k) \in Wide /\ ShiftRight(x, k) \in Wide
  /\ \A x, y \in Wide : Xor(x, y) \in Wide
<1>1. W \in Nat \ {0} /\ W = WORD_SIZE_IN_BITS
  BY Sizes DEF W
<1>2. Offset \subseteq WideOffset
  BY <1>1 DEF Offset, WideOffset
<1>3. Zero \in Wide /\ \A w \in Word : Widen(w) \in Wide
  BY DEF Zero, Wide, Word, Widen, Bit
<1>4. \A x \in Wide : Narrow(x) \in Word
  BY <1>2 DEF Narrow, Wide, Word
<1>5. ASSUME NEW x \in Wide, NEW k \in Nat
      PROVE ShiftLeft(x, k) \in Wide /\ ShiftRight(x, k) \in Wide
  <2>1. \A j \in WideOffset : j >= k => j - k \in WideOffset
    BY <1>1 DEF WideOffset
  <2> QED
    BY <2>1 DEF ShiftLeft, ShiftRight, Wide, Bit
<1>6. ASSUME NEW x \in Wide, NEW y \in Wide PROVE Xor(x, y) \in Wide
  <2>1. \A j \in WideOffset : x[j] \in {0, 1} /\ y[j] \in {0, 1}
    BY DEF Wide, Bit
  <2>2. \A j \in WideOffset : (x[j] + y[j]) % 2 \in {0, 1}
    BY <2>1
  <2> QED
    BY <2>2 DEF Xor, Wide, Bit
<1> QED
  BY <1>3, <1>4, <1>5, <1>6

(* ^ with a shifted word appends its bits above those already held.          *)
LEMMA XorAppends ==
  ASSUME NEW x \in Wide, NEW w \in Word, NEW n \in 0 .. W,
         \A j \in WideOffset : j >= n => x[j] = 0,
         NEW j \in WideOffset
  PROVE  Xor(x, ShiftLeft(Widen(w), n))[j] =
           IF j < n THEN x[j] ELSE IF j - n \in Offset THEN w[j - n] ELSE 0
<1>1. W \in Nat \ {0} /\ W = WORD_SIZE_IN_BITS /\ j \in Int /\ x[j] \in {0, 1}
  BY Sizes DEF W, WideOffset, Wide, Bit
<1>2. CASE j < n
  <2>1. ShiftLeft(Widen(w), n)[j] = 0
    BY <1>1, <1>2 DEF ShiftLeft
  <2> QED
    BY <1>1, <1>2, <2>1 DEF Xor
<1>3. CASE j >= n
  <2>1. j - n \in WideOffset
    BY <1>1, <1>3 DEF WideOffset
  <2>2. ShiftLeft(Widen(w), n)[j] = IF j - n \in Offset THEN w[j - n] ELSE 0
    BY <1>3, <2>1 DEF ShiftLeft, Widen
  <2>3. j - n \in Offset => w[j - n] \in {0, 1}
    BY DEF Word, Bit
  <2>4. x[j] = 0
    BY <1>3
  <2> QED
    BY <1>1, <1>3, <2>2, <2>3, <2>4 DEF Xor
<1> QED
  BY <1>1, <1>2, <1>3

(* Taking low bits off a word moves the others down.                         *)
LEMMA ShiftRightAt ==
  ASSUME NEW x \in Wide, NEW k \in Nat, NEW j \in WideOffset
  PROVE  ShiftRight(x, k)[j] = IF j + k \in WideOffset THEN x[j + k] ELSE 0
BY DEF ShiftRight

(* The low bits of a word are a sequence of bits.                            *)
LEMMA LowIsSeq ==
  ASSUME NEW n \in Nat, NEW x, \A i \in 1 .. n : x[i - 1] \in Bit
  PROVE  /\ Low(x, n) \in Seq(Bit)
         /\ Len(Low(x, n)) = n
         /\ \A i \in 1 .. n : Low(x, n)[i] = x[i - 1]
<1>1. Low(x, n) \in [1 .. n -> Bit]
  BY DEF Low
<1>2. Low(x, n) \in Seq(Bit)
  BY <1>1, SeqDef
<1>3. DOMAIN Low(x, n) = 1 .. n /\ DOMAIN Low(x, n) = 1 .. Len(Low(x, n))
      /\ Len(Low(x, n)) \in Nat
  BY <1>2, LenProperties DEF Low
<1>4. Len(Low(x, n)) = n
  BY <1>3
<1> QED
  BY <1>2, <1>4 DEF Low

(* What a sequence of bits holds once another was appended.                  *)
LEMMA AppendedSeq ==
  ASSUME NEW s \in Seq(Bit), NEW u \in Seq(Bit)
  PROVE  /\ s \o u \in Seq(Bit) /\ Len(s \o u) = Len(s) + Len(u)
         /\ \A i \in 1 .. Len(s) : (s \o u)[i] = s[i]
         /\ \A i \in 1 .. Len(u) : (s \o u)[Len(s) + i] = u[i]
<1>1. Len(s) \in Nat /\ Len(u) \in Nat
  BY LenProperties
<1> QED
  BY <1>1, ConcatProperties

(* What it holds once data was appended.                                     *)
LEMMA AppendedData ==
  ASSUME NEW s \in Seq(Bit), NEW w \in Word, NEW bits \in 1 .. W
  PROVE  /\ s \o Low(w, bits) \in Seq(Bit)
         /\ Len(s \o Low(w, bits)) = Len(s) + bits
         /\ \A i \in 1 .. Len(s) : (s \o Low(w, bits))[i] = s[i]
         /\ \A i \in 1 .. bits : (s \o Low(w, bits))[Len(s) + i] = w[i - 1]
<1>1. bits \in Nat /\ \A i \in 1 .. bits : w[i - 1] \in Bit
  BY Sizes DEF W, Word, Offset
<1>2. PICK u \in Seq(Bit) : u = Low(w, bits)
  BY <1>1, LowIsSeq
<1>3. Len(u) = bits /\ \A i \in 1 .. bits : u[i] = w[i - 1]
  BY <1>1, <1>2, LowIsSeq
<1>4. /\ s \o u \in Seq(Bit) /\ Len(s \o u) = Len(s) + bits
      /\ \A i \in 1 .. Len(s) : (s \o u)[i] = s[i]
      /\ \A i \in 1 .. bits : (s \o u)[Len(s) + i] = w[i - 1]
  BY <1>3, AppendedSeq
<1> QED
  BY <1>2, <1>4

(* Appending data to the sequence and to a word that holds its last bits.     *)
LEMMA AppendedHolds ==
  ASSUME NEW x \in Wide, NEW n \in 0 .. W, NEW bits \in 1 .. W,
         NEW w \in Data(bits),
         NEW s \in Seq(Bit), NEW base \in Nat, Len(s) = base + n,
         Holds(x, n, s, base),
         NEW t \in Seq(Bit), t = s \o Low(w, bits)
  PROVE  Holds(Xor(x, ShiftLeft(Widen(w), n)), n + bits, t, base)
<1> w \in Word /\ \A j \in Offset : j >= bits => w[j] = 0
  BY DEF Data
<1>1. W \in Nat \ {0} /\ W = WORD_SIZE_IN_BITS /\ bits \in Nat /\ n \in Nat
  BY Sizes DEF W
<1>2. /\ \A i \in 1 .. Len(s) : t[i] = s[i]
      /\ \A i \in 1 .. bits : t[Len(s) + i] = w[i - 1]
  BY AppendedData, Zenon
<1>4. ASSUME NEW j \in WideOffset
      PROVE Xor(x, ShiftLeft(Widen(w), n))[j] =
              IF j < n + bits THEN t[base + j + 1] ELSE 0
  <2>1. j \in Nat
    BY DEF WideOffset
  <2>2. Xor(x, ShiftLeft(Widen(w), n))[j] =
          IF j < n THEN x[j] ELSE IF j - n \in Offset THEN w[j - n] ELSE 0
    <3>1. \A i \in WideOffset : i >= n => x[i] = 0
      BY <1>1 DEF WideOffset, Holds
    <3> QED
      BY <3>1, XorAppends
  <2>3. CASE j < n
    <3>1. base + j + 1 \in 1 .. Len(s)
      BY <1>1, <2>1, <2>3
    <3>2. t[base + j + 1] = s[base + j + 1] /\ x[j] = s[base + j + 1]
      BY <1>2, <2>3, <3>1 DEF Holds
    <3> QED
      BY <1>1, <2>1, <2>2, <2>3, <3>2
  <2>4. CASE j >= n /\ j < n + bits
    <3>1. PICK m \in Nat : m = j - n
      BY <1>1, <2>1, <2>4
    <3>2. j = n + m /\ m < bits
      BY <1>1, <2>1, <2>4, <3>1
    <3>3. m \in Offset /\ m + 1 \in 1 .. bits
      BY <1>1, <3>2 DEF Offset
    <3>4. base + j + 1 = Len(s) + (m + 1)
      BY <1>1, <2>1, <3>2
    <3>5. (m + 1) - 1 = m
      BY <3>1
    <3>6. t[base + j + 1] = w[m]
      BY <1>2, <3>3, <3>4, <3>5
    <3>7. Xor(x, ShiftLeft(Widen(w), n))[j] = w[m]
      BY <1>1, <2>1, <2>2, <2>4, <3>1, <3>3
    <3> QED
      BY <2>4, <3>6, <3>7
  <2>5. CASE j >= n + bits
    <3>1. j - n \in Offset => j - n >= bits /\ w[j - n] = 0
      BY <1>1, <2>1, <2>5 DEF Offset
    <3>2. ~(j < n) /\ ~(j < n + bits)
      BY <1>1, <2>1, <2>5
    <3> QED
      BY <2>2, <3>1, <3>2
  <2>6. j < n \/ (j >= n /\ j < n + bits) \/ j >= n + bits
    BY <1>1, <2>1
  <2> QED
    BY <2>3, <2>4, <2>5, <2>6
<1> QED
  BY <1>4 DEF Holds

-----------------------------------------------------------------------------
(* What the words hold, step by step.                                        *)

(* The end of a word is the start of the next.                               *)
LEMMA NextWord ==
  ASSUME NEW c \in Nat
  PROVE  W * c \in Nat /\ W * (c + 1) \in Nat /\ W * (c + 1) = W * c + W
BY Sizes, Multiples

(* A bit of an earlier word comes before any of a later one.                 *)
LEMMA EarlierWord ==
  ASSUME NEW k \in Nat, NEW c \in Nat, k < c, NEW j \in Offset
  PROVE  W * k + j + 1 \in Nat /\ W * k + j + 1 >= 1 /\ W * k + j + 1 <= W * c
<1>1. W \in Nat \ {0} /\ W = WORD_SIZE_IN_BITS /\ j \in Nat /\ j < W
  BY Sizes DEF W, Offset
<1>2. W * k + W <= W * c /\ W * k \in Nat /\ W * c \in Nat
  BY <1>1, Multiples
<1> QED
  BY <1>1, <1>2

(* The words of the buffer are not affected by what is written later.        *)
LEMMA WordsHoldMore ==
  ASSUME NEW buffer, NEW c \in Nat, NEW s \in Seq(Bit), NEW t \in Seq(Bit),
         W * c <= Len(s), \A i \in 1 .. Len(s) : t[i] = s[i],
         WordsHold(buffer, c, s)
  PROVE  WordsHold(buffer, c, t)
<1> SUFFICES ASSUME NEW k \in WordIndex, NEW j \in Offset, k < c
             PROVE buffer[k][j] = t[W * k + j + 1]
  BY DEF WordsHold
<1>1. k \in Nat
  BY DEF WordIndex
<1>2. PICK i \in Nat : i = W * k + j + 1 /\ i >= 1 /\ i <= W * c
  BY <1>1, EarlierWord
<1>3. i \in 1 .. Len(s)
  BY <1>2, LenProperties, NextWord
<1>4. t[i] = s[i]
  BY <1>3
<1>5. buffer[k][j] = s[W * k + j + 1]
  BY DEF WordsHold
<1> QED
  BY <1>2, <1>4, <1>5

(* Storing the low word of a scratch word that holds at least a word.        *)
LEMMA StoredHolds ==
  ASSUME NEW buffer \in [WordIndex -> Word], NEW c \in WordIndex, NEW x \in Wide,
         NEW n \in 0 .. 2 * W, n >= W, NEW s \in Seq(Bit),
         WordsHold(buffer, c, s), Holds(x, n, s, W * c),
         NEW b, b = [buffer EXCEPT ![c] = Narrow(x)]
  PROVE  WordsHold(b, c + 1, s) /\ Holds(ShiftRight(x, W), n - W, s, W * (c + 1))
<1>1. W \in Nat \ {0} /\ W = WORD_SIZE_IN_BITS /\ c \in Nat /\ n \in Nat
  BY Sizes DEF W, WordIndex
<1>2. ASSUME NEW k \in WordIndex, NEW j \in Offset, k < c + 1
      PROVE b[k][j] = s[W * k + j + 1]
  <2>1. CASE k = c
    <3>1. b[k][j] = x[j] /\ j \in WideOffset /\ j < n
      BY <1>1, <2>1 DEF Narrow, Offset, WideOffset
    <3> QED
      BY <2>1, <3>1 DEF Holds
  <2>2. CASE k # c
    <3>1. k < c /\ b[k] = buffer[k]
      BY <1>1, <1>2, <2>2 DEF WordIndex
    <3> QED
      BY <3>1 DEF WordsHold
  <2> QED
    BY <2>1, <2>2
<1>3. ASSUME NEW j \in WideOffset
      PROVE ShiftRight(x, W)[j] = IF j < n - W THEN s[W * (c + 1) + j + 1] ELSE 0
  <2>1. j \in Nat
    BY DEF WideOffset
  <2>2. CASE j < n - W
    <3>1. PICK m \in WideOffset : m = j + W
      BY <1>1, <2>1, <2>2 DEF WideOffset
    <3>2. ShiftRight(x, W)[j] = x[m]
      BY <3>1 DEF ShiftRight
    <3>3. x[m] = s[W * c + m + 1]
      <4>1. m < n
        BY <1>1, <2>1, <2>2, <3>1
      <4> QED
        BY <4>1 DEF Holds
    <3>4. W * c + m + 1 = W * (c + 1) + j + 1
      BY <1>1, <2>1, <3>1, NextWord
    <3> QED
      BY <2>2, <3>2, <3>3, <3>4
  <2>3. CASE ~(j < n - W)
    <3>1. \A m \in WideOffset : m = j + W => ~(m < n)
      BY <1>1, <2>1, <2>3
    <3>2. ShiftRight(x, W)[j] = IF j + W \in WideOffset THEN x[j + W] ELSE 0
      BY DEF ShiftRight
    <3>3. j + W \in WideOffset => x[j + W] = 0
      BY <3>1 DEF Holds
    <3> QED
      BY <2>3, <3>2, <3>3
  <2> QED
    BY <2>2, <2>3
<1> QED
  BY <1>2, <1>3 DEF WordsHold, Holds

(* Storing a scratch word that holds the rest.                               *)
LEMMA FlushedHolds ==
  ASSUME NEW buffer \in [WordIndex -> Word], NEW c \in WordIndex, NEW x \in Wide,
         NEW n \in 0 .. W, NEW s \in Seq(Bit), Len(s) = W * c + n,
         WordsHold(buffer, c, s), Holds(x, n, s, W * c),
         NEW b, b = [buffer EXCEPT ![c] = Narrow(x)]
  PROVE  BufferHolds(b, s)
<1>1. W \in Nat \ {0} /\ W = WORD_SIZE_IN_BITS /\ c \in Nat /\ n \in Nat
  BY Sizes DEF W, WordIndex
<1>2. SUFFICES ASSUME NEW k \in WordIndex, NEW j \in Offset, W * k + j + 1 <= Len(s)
               PROVE b[k][j] = s[W * k + j + 1]
  BY DEF BufferHolds
<1>3. k \in Nat /\ j \in Nat /\ j \in WideOffset
  BY <1>1 DEF WordIndex, Offset, WideOffset
<1>4. CASE k = c
  <2>1. b[k][j] = x[j]
    BY <1>4 DEF Narrow
  <2>2. j < n
    BY <1>1, <1>2, <1>3, <1>4, NextWord
  <2> QED
    BY <1>3, <1>4, <2>1, <2>2 DEF Holds
<1>5. CASE k < c
  <2>1. b[k] = buffer[k]
    BY <1>1, <1>5
  <2> QED
    BY <1>5, <2>1 DEF WordsHold
<1>6. CASE c < k
  <2>1. W * c + W <= W * k /\ W * c \in Nat /\ W * k \in Nat
    BY <1>1, <1>3, <1>6, Multiples
  <2> QED
    BY <1>1, <1>2, <1>3, <2>1
<1> QED
  BY <1>1, <1>3, <1>4, <1>5, <1>6

(* Loading the next word of the buffer into the reader's scratch word.       *)
LEMMA LoadedHolds ==
  ASSUME NEW buffer \in [WordIndex -> Word], NEW c \in WordIndex, NEW x \in Wide,
         NEW n \in 0 .. W, NEW s \in Seq(Bit), NEW base \in Nat, base + n = W * c,
         BufferHolds(buffer, s), HoldsNext(x, n, s, base)
  PROVE  HoldsNext(Xor(x, ShiftLeft(Widen(buffer[c]), n)), n + W, s, base)
<1>1. W \in Nat \ {0} /\ W = WORD_SIZE_IN_BITS /\ c \in Nat /\ n \in Nat
  BY Sizes DEF W, WordIndex
<1>2. PICK w \in Word : w = buffer[c]
  OBVIOUS
<1>3. SUFFICES ASSUME NEW j \in WideOffset, NEW y,
                      y = Xor(x, ShiftLeft(Widen(w), n))[j]
               PROVE IF j < n + W
                     THEN base + j + 1 <= Len(s) => y = s[base + j + 1]
                     ELSE y = 0
  BY <1>2 DEF HoldsNext
<1>4. j \in Nat
  BY DEF WideOffset
<1>5. y = IF j < n THEN x[j] ELSE IF j - n \in Offset THEN w[j - n] ELSE 0
  <2>1. \A i \in WideOffset : i >= n => x[i] = 0
    BY <1>1 DEF WideOffset, HoldsNext
  <2> QED
    BY <1>3, <2>1, XorAppends
<1>6. CASE j < n
  <2>1. j < n + W
    BY <1>1, <1>4, <1>6
  <2> QED
    BY <1>5, <1>6, <2>1 DEF HoldsNext
<1>7. CASE ~(j < n) /\ j < n + W
  <2>1. PICK m \in Offset : m = j - n
    BY <1>1, <1>4, <1>7 DEF Offset
  <2>2. y = w[m]
    BY <1>5, <1>7, <2>1
  <2>3. W * c + m + 1 = base + j + 1
    BY <1>1, <1>4, <2>1, NextWord
  <2>4. W * c + m + 1 <= Len(s) => w[m] = s[W * c + m + 1]
    BY <1>2 DEF BufferHolds
  <2> QED
    BY <1>7, <2>2, <2>3, <2>4
<1>8. CASE ~(j < n + W)
  <2>1. ~(j < n) /\ ~(j - n \in Offset)
    BY <1>1, <1>4, <1>8 DEF Offset
  <2> QED
    BY <1>5, <1>8, <2>1
<1> QED
  BY <1>6, <1>7, <1>8

(* Taking bits off the reader's scratch word.                                *)
LEMMA TakenHolds ==
  ASSUME NEW x \in Wide, NEW n \in 0 .. 2 * W, NEW bits \in 0 .. n,
         NEW s \in Seq(Bit), NEW base \in Nat, HoldsNext(x, n, s, base)
  PROVE  /\ HoldsNext(ShiftRight(x, bits), n - bits, s, base + bits)
         /\ Low(x, bits) \in [1 .. bits -> Bit]
         /\ Low(x, bits) \in Seq(Bit)
         /\ \A i \in 1 .. bits : base + i <= Len(s) => Low(x, bits)[i] = s[base + i]
<1>1. W \in Nat \ {0} /\ W = WORD_SIZE_IN_BITS /\ n \in Nat /\ bits \in Nat
  BY Sizes DEF W
<1>2. ASSUME NEW j \in WideOffset
      PROVE IF j < n - bits
            THEN base + bits + j + 1 <= Len(s)
                   => ShiftRight(x, bits)[j] = s[base + bits + j + 1]
            ELSE ShiftRight(x, bits)[j] = 0
  <2>1. j \in Nat
    BY DEF WideOffset
  <2>2. ShiftRight(x, bits)[j] = IF j + bits \in WideOffset THEN x[j + bits] ELSE 0
    BY DEF ShiftRight
  <2>3. CASE j < n - bits
    <3>1. PICK m \in WideOffset : m = j + bits /\ m < n
      BY <1>1, <2>1, <2>3 DEF WideOffset
    <3>2. base + m + 1 <= Len(s) => x[m] = s[base + m + 1]
      BY <3>1 DEF HoldsNext
    <3>3. base + m + 1 = base + bits + j + 1
      BY <1>1, <2>1, <3>1
    <3> QED
      BY <2>2, <2>3, <3>1, <3>2, <3>3
  <2>4. CASE ~(j < n - bits)
    <3>1. \A m \in WideOffset : m = j + bits => ~(m < n)
      BY <1>1, <2>1, <2>4
    <3>2. j + bits \in WideOffset => x[j + bits] = 0
      BY <3>1 DEF HoldsNext
    <3> QED
      BY <2>2, <2>4, <3>2
  <2> QED
    BY <2>3, <2>4
<1>3. \A i \in 1 .. bits : i - 1 \in WideOffset /\ i - 1 < n /\ base + (i - 1) + 1 = base + i
  BY <1>1 DEF WideOffset
<1>4. \A i \in 1 .. bits : x[i - 1] \in Bit
  BY <1>3 DEF Wide
<1>5. /\ Low(x, bits) \in Seq(Bit) /\ Low(x, bits) \in [1 .. bits -> Bit]
      /\ \A i \in 1 .. bits : Low(x, bits)[i] = x[i - 1]
  BY <1>1, <1>4, LowIsSeq DEF Low
<1>6. \A i \in 1 .. bits : base + i <= Len(s) => x[i - 1] = s[base + i]
  BY <1>3 DEF HoldsNext
<1> QED
  BY <1>2, <1>5, <1>6 DEF HoldsNext

-----------------------------------------------------------------------------
\* Writer and reader are new; the buffer may hold anything.
Fresh ==
  /\ m_buffer \in [WordIndex -> Word]
  /\ writer = NewWriter /\ reader = NewReader
  /\ flushed = FALSE /\ trapped = FALSE
  /\ written = <<>> /\ output = <<>>
  /\ asked = 0 /\ touched = {}

(* The invariant holds of new streams, whatever is left in the buffer.       *)
LEMMA FreshEstablishes == Fresh => IInv
<1> SUFFICES ASSUME Fresh PROVE IInv
  OBVIOUS
<1>1. /\ W \in Nat \ {0} /\ W = WORD_SIZE_IN_BITS /\ BufferWords \in Nat \ {0}
      /\ WORD_SIZE_IN_BYTES \in Nat \ {0} /\ m_bufferLen \in Nat /\ m_totalBits \in Nat
  BY Sizes DEF W
<1>2. /\ <<>> \in Seq(Bit) /\ Len(<<>>) = 0
  BY EmptySeq
<1>3. WORD_SIZE_IN_BYTES * 0 = 0 /\ W * 0 = 0
  BY <1>1
<1>4. TypeOK
  <2>1. m_buffer \in [WordIndex -> Word]
    BY DEF Fresh
  <2>2. writer \in WriterType
    BY <1>1, WordsTyped DEF Fresh, NewWriter, NewReader, WriterType, WideOffset
  <2>3. reader \in ReaderType
    BY <1>1, WordsTyped DEF Fresh, NewWriter, NewReader, ReaderType, Offset
  <2> QED
    BY <1>2, <2>1, <2>2, <2>3 DEF Fresh, NewWriter, NewReader, TypeOK
<1>5. \A j \in WideOffset : Zero[j] = 0
  BY DEF Zero
<1>6. \A k \in WordIndex : ~(k < 0)
  BY DEF WordIndex
<1>7. \A j \in WideOffset : ~(j < 0)
  BY DEF WideOffset
<1>8. WriterCounts /\ WriterBits
  BY <1>1, <1>2, <1>3, <1>5, <1>6, <1>7 DEF Fresh, NewWriter, NewReader, WriterCounts, WriterBits, Holds, WordsHold
<1>9. BufferBits /\ ReaderCounts /\ ReaderBits
  BY <1>1, <1>3, <1>5, <1>7 DEF Fresh, NewWriter, NewReader, BufferBits, ReaderCounts, ReaderBits, HoldsNext
<1>10. TrapsExactlyTheOversized /\ BufferNotOverrun
  BY DEF Fresh, NewWriter, NewReader, TrapsExactlyTheOversized, BufferNotOverrun
<1> QED
  BY <1>4, <1>8, <1>9, <1>10 DEF IInv

LEMMA InitEstablishes == Init => IInv
<1>1. Init => Fresh
  BY PackerAssumption DEF Init, Fresh
<1> QED
  BY <1>1, FreshEstablishes

-----------------------------------------------------------------------------
(* The writer's scratch word after the new bits were added.                  *)
LEMMA AddedHolds ==
  ASSUME IInv, NEW bits \in Width, NEW data \in Data(bits), ~flushed, ~trapped,
         NEW w, w = Added(data, bits), NEW wr, wr = written \o Low(data, bits)
  PROVE  /\ w \in WriterType
         /\ w.m_scratchBits = writer.m_scratchBits + bits
         /\ w.m_wordIndex = writer.m_wordIndex
         /\ w.m_numBytesWritten = writer.m_numBytesWritten
         /\ wr \in Seq(Bit)
         /\ Len(wr) = Len(written) + bits
         /\ \A i \in 1 .. Len(written) : wr[i] = written[i]
         /\ Holds(w.m_scratch, w.m_scratchBits, wr, W * w.m_wordIndex)
<1>1. W \in Nat \ {0} /\ W = WORD_SIZE_IN_BITS /\ bits \in 1 .. W
  BY Sizes DEF W, Width
<1>2. /\ data \in Word /\ \A j \in Offset : j >= bits => data[j] = 0
  BY DEF Data
<1>3. writer \in WriterType /\ written \in Seq(Bit)
  BY DEF IInv, TypeOK
<1>4. PICK n \in 0 .. W : n = writer.m_scratchBits
  BY <1>1 DEF IInv, TypeOK, WriterCounts, WriterType
<1>5. PICK base \in Nat : base = W * writer.m_wordIndex /\ Len(written) = base + n
  BY <1>1, <1>3, <1>4, IndexBelowEnd DEF IInv, WriterCounts, WriterType
<1>6. PICK x \in Wide : x = writer.m_scratch
  BY <1>3 DEF WriterType
<1>7. w = [m_scratch |-> Xor(x, ShiftLeft(Widen(data), n)),
            m_scratchBits |-> n + bits,
            m_wordIndex |-> writer.m_wordIndex,
            m_numBytesWritten |-> writer.m_numBytesWritten]
  BY <1>3, <1>4, <1>6 DEF Added, WriterType
<1>8. /\ w \in WriterType
      /\ w.m_scratchBits = n + bits
      /\ w.m_wordIndex = writer.m_wordIndex
      /\ w.m_numBytesWritten = writer.m_numBytesWritten
      /\ w.m_scratch = Xor(x, ShiftLeft(Widen(data), n))
  <2>1. Xor(x, ShiftLeft(Widen(data), n)) \in Wide
    <3>1. ShiftLeft(Widen(data), n) \in Wide
      BY <1>1, <1>2, WordsTyped
    <3> QED
      BY <3>1, WordsTyped
  <2>2. n + bits \in 0 .. 2 * WORD_SIZE_IN_BITS
    BY <1>1
  <2>3. writer.m_wordIndex \in 0 .. BufferWords
        /\ writer.m_numBytesWritten \in 0 .. m_bufferLen
    BY <1>3 DEF WriterType
  <2>4. ASSUME NEW y \in Wide,
               NEW c \in 0 .. 2 * WORD_SIZE_IN_BITS,
               NEW k \in 0 .. BufferWords, NEW b \in 0 .. m_bufferLen
        PROVE [m_scratch |-> y, m_scratchBits |-> c, m_wordIndex |-> k,
               m_numBytesWritten |-> b] \in WriterType
    BY DEF WriterType
  <2>5. w \in WriterType
    BY <1>7, <2>1, <2>2, <2>3, <2>4
  <2> QED
    BY <1>7, <2>5
<1>9. Holds(x, n, written, base)
  BY <1>4, <1>5, <1>6 DEF IInv, WriterBits
<1>10. /\ wr \in Seq(Bit) /\ Len(wr) = Len(written) + bits
       /\ \A i \in 1 .. Len(written) : wr[i] = written[i]
  BY <1>1, <1>2, <1>3, AppendedData
<1>11. Holds(Xor(x, ShiftLeft(Widen(data), n)), n + bits, wr, base)
  BY <1>1, <1>2, <1>3, <1>5, <1>9, <1>10, AppendedHolds
<1> QED
  BY <1>4, <1>5, <1>8, <1>10, <1>11

(* WriteBits keeps the invariant while the new bits fit the scratch word.    *)
LEMMA WriteFits ==
  ASSUME IInv, NEW bits \in Width, NEW data \in Data(bits),
         WriteBits(data, bits), ~Overflows(Added(data, bits)),
         writer' = Added(data, bits), UNCHANGED <<m_buffer, trapped, touched>>
  PROVE  IInv'
<1>1. /\ ~flushed /\ ~trapped /\ written' = written \o Low(data, bits)
      /\ UNCHANGED <<m_buffer, trapped, touched, reader, flushed, output, asked>>
  BY DEF WriteBits
<1>2. /\ writer' \in WriterType
      /\ writer'.m_scratchBits = writer.m_scratchBits + bits
      /\ writer'.m_wordIndex = writer.m_wordIndex
      /\ writer'.m_numBytesWritten = writer.m_numBytesWritten
      /\ written' \in Seq(Bit) /\ Len(written') = Len(written) + bits
      /\ \A i \in 1 .. Len(written) : written'[i] = written[i]
      /\ Holds(writer'.m_scratch, writer'.m_scratchBits, written',
               W * writer'.m_wordIndex)
  BY <1>1, AddedHolds
<1>3. PICK n \in Nat, c \in Nat : n = writer.m_scratchBits /\ c = writer.m_wordIndex
  BY DEF IInv, TypeOK, WriterType
<1>4. W \in Nat \ {0} /\ W = WORD_SIZE_IN_BITS /\ bits \in Nat /\ bits >= 1
      /\ W * c \in Nat
  BY Sizes, NextWord DEF W, Width
<1>5. TypeOK'
  BY <1>1, <1>2 DEF IInv, TypeOK
<1>6. WriterCounts'
  <2>1. /\ writer'.m_scratchBits = n + bits /\ writer'.m_wordIndex = c
        /\ writer'.m_numBytesWritten = WORD_SIZE_IN_BYTES * c
        /\ Len(written') = Len(written) + bits /\ Len(written) = W * c + n
    BY <1>1, <1>2, <1>3 DEF IInv, WriterCounts
  <2>2. Len(written') = W * c + (n + bits) /\ n + bits > 0
    BY <1>4, <2>1
  <2>3. n + bits <= W
    BY <1>4, <2>1 DEF Overflows
  <2> QED
    BY <2>1, <2>2, <2>3 DEF WriterCounts
<1>7. WriterBits'
  <2>1. WordsHold(m_buffer, c, written) /\ Len(written) = W * c + n
        /\ written \in Seq(Bit)
    BY <1>1, <1>3 DEF IInv, TypeOK, WriterBits, WriterCounts
  <2>2. W * c <= Len(written)
    BY <1>4, <2>1
  <2>3. WordsHold(m_buffer, c, written')
    BY <1>2, <2>1, <2>2, WordsHoldMore
  <2> QED
    BY <1>1, <1>2, <1>3, <2>3 DEF WriterBits
<1>8. BufferBits' /\ ReaderCounts'
  BY <1>1 DEF IInv, BufferBits, ReaderCounts
<1>9. ReaderBits'
  BY <1>1 DEF IInv, ReaderBits, ReaderCounts, HoldsNext, WideOffset
<1>10. TrapsExactlyTheOversized' /\ BufferNotOverrun'
  BY <1>1 DEF IInv, TrapsExactlyTheOversized, BufferNotOverrun
<1> QED
  BY <1>5, <1>6, <1>7, <1>8, <1>9, <1>10 DEF IInv

(* WriteBits keeps it when the low word goes to the buffer.                  *)
LEMMA WriteStores ==
  ASSUME IInv, NEW bits \in Width, NEW data \in Data(bits),
         WriteBits(data, bits), Overflows(Added(data, bits)), WriterHasRoom,
         Store(Added(data, bits).m_scratch),
         writer' = Overflowed(Added(data, bits)), UNCHANGED trapped
  PROVE  IInv'
<1>1. /\ ~flushed /\ ~trapped /\ written' = written \o Low(data, bits)
      /\ UNCHANGED <<trapped, reader, flushed, output, asked>>
  BY DEF WriteBits
<1>2. PICK w : w = Added(data, bits)
  OBVIOUS
<1>3. /\ w \in WriterType
      /\ w.m_scratchBits = writer.m_scratchBits + bits
      /\ w.m_wordIndex = writer.m_wordIndex
      /\ w.m_numBytesWritten = writer.m_numBytesWritten
      /\ written' \in Seq(Bit) /\ Len(written') = Len(written) + bits
      /\ \A i \in 1 .. Len(written) : written'[i] = written[i]
      /\ Holds(w.m_scratch, w.m_scratchBits, written', W * w.m_wordIndex)
  BY <1>1, <1>2, AddedHolds
<1>4. /\ W \in Nat \ {0} /\ W = WORD_SIZE_IN_BITS /\ bits \in 1 .. W
      /\ WORD_SIZE_IN_BYTES \in Nat \ {0}
  BY Sizes DEF W, Width
<1>5. PICK c \in Nat : /\ c = writer.m_wordIndex
                      /\ writer.m_numBytesWritten = WORD_SIZE_IN_BYTES * c
  BY <1>1 DEF IInv, TypeOK, WriterType, WriterCounts
<1>6. PICK n \in 0 .. W : n = writer.m_scratchBits /\ Len(written) = W * c + n
  BY <1>1, <1>4, <1>5 DEF IInv, TypeOK, WriterType, WriterCounts
<1>7. /\ c < BufferWords /\ c \in WordIndex /\ W * c \in Nat
      /\ W * (c + 1) = W * c + W
      /\ WORD_SIZE_IN_BYTES * (c + 1) = WORD_SIZE_IN_BYTES * c + WORD_SIZE_IN_BYTES
      /\ WORD_SIZE_IN_BYTES * c + WORD_SIZE_IN_BYTES \in 0 .. m_bufferLen
  <2>1. WORD_SIZE_IN_BYTES * c < m_bufferLen
    BY <1>5 DEF WriterHasRoom
  <2>2. c < BufferWords /\ W * c \in Nat
    BY <2>1, IndexBelowEnd
  <2>3. WORD_SIZE_IN_BYTES * c + WORD_SIZE_IN_BYTES <= m_bufferLen
        /\ WORD_SIZE_IN_BYTES * c \in Nat
    BY <2>2, Sizes, Multiples
  <2>4. WORD_SIZE_IN_BYTES * (c + 1) = WORD_SIZE_IN_BYTES * c + WORD_SIZE_IN_BYTES
    BY <1>4, Multiples
  <2>5. W * (c + 1) = W * c + W
    BY NextWord
  <2> QED
    BY <1>4, <2>2, <2>3, <2>4, <2>5, Sizes DEF WordIndex
<1>8. PICK x \in Wide : x = w.m_scratch
  BY <1>3 DEF WriterType
<1>9. PICK m \in 0 .. 2 * W : m = n + bits /\ m > W
  BY <1>2, <1>3, <1>4, <1>6 DEF Overflows
<1>10. writer' = [m_scratch |-> ShiftRight(x, W), m_scratchBits |-> m - W,
                  m_wordIndex |-> c + 1,
                  m_numBytesWritten |-> WORD_SIZE_IN_BYTES * c + WORD_SIZE_IN_BYTES]
  <2>1. w.m_scratchBits = m /\ w.m_wordIndex = c
        /\ w.m_numBytesWritten = WORD_SIZE_IN_BYTES * c
    BY <1>3, <1>5, <1>6, <1>9
  <2> QED
    BY <1>2, <1>4, <1>8, <2>1 DEF Overflowed
<1>11. /\ writer'.m_scratch = ShiftRight(x, W)
       /\ writer'.m_scratchBits = m - W
       /\ writer'.m_wordIndex = c + 1
       /\ writer'.m_numBytesWritten = WORD_SIZE_IN_BYTES * (c + 1)
  BY <1>7, <1>10
<1>12. /\ m_buffer' = [m_buffer EXCEPT ![c] = Narrow(x)]
       /\ touched' = touched \cup {c}
  BY <1>2, <1>5, <1>8 DEF Store
<1>13. TypeOK'
  <2>1. m_buffer' \in [WordIndex -> Word]
    BY <1>12, WordsTyped DEF IInv, TypeOK
  <2>2. writer' \in WriterType
    <3>1. ShiftRight(x, W) \in Wide
      BY <1>4, WordsTyped
    <3>2. m - W \in 0 .. 2 * WORD_SIZE_IN_BITS /\ c + 1 \in 0 .. BufferWords
      BY <1>4, <1>7, <1>9, Sizes
    <3>3. ASSUME NEW y \in Wide, NEW d \in 0 .. 2 * WORD_SIZE_IN_BITS,
                 NEW k \in 0 .. BufferWords, NEW b \in 0 .. m_bufferLen
          PROVE [m_scratch |-> y, m_scratchBits |-> d, m_wordIndex |-> k,
                 m_numBytesWritten |-> b] \in WriterType
      BY DEF WriterType
    <3> QED
      BY <1>7, <1>10, <3>1, <3>2, <3>3
  <2>3. touched' \subseteq Int
    BY <1>12 DEF IInv, TypeOK
  <2> QED
    BY <1>1, <1>3, <2>1, <2>2, <2>3 DEF IInv, TypeOK
<1>14. WriterCounts'
  <2>1. Len(written') = Len(written) + bits
    BY <1>3
  <2>2. PICK base \in Nat : base = W * c /\ W * (c + 1) = base + W
    BY <1>7
  <2>3. Len(written') = W * (c + 1) + (m - W)
    BY <1>4, <1>6, <1>9, <2>1, <2>2
  <2>4. m - W > 0 /\ m - W <= W
    BY <1>4, <1>9
  <2> QED
    BY <1>11, <2>3, <2>4 DEF WriterCounts
<1>15. WriterBits'
  <2>1. WordsHold(m_buffer, c, written) /\ written \in Seq(Bit)
        /\ m_buffer \in [WordIndex -> Word]
    BY <1>1, <1>5 DEF IInv, TypeOK, WriterBits
  <2>2. W * c <= Len(written)
    BY <1>6, <1>7
  <2>3. WordsHold(m_buffer, c, written')
    BY <1>3, <2>1, <2>2, WordsHoldMore
  <2>4. Holds(x, m, written', W * c)
    BY <1>3, <1>5, <1>6, <1>8, <1>9
  <2>5. m >= W
    BY <1>4, <1>9
  <2>6. WordsHold(m_buffer', c + 1, written')
        /\ Holds(ShiftRight(x, W), m - W, written', W * (c + 1))
    BY <1>3, <1>7, <1>12, <2>1, <2>3, <2>4, <2>5, StoredHolds
  <2> QED
    BY <1>1, <1>11, <2>6 DEF WriterBits
<1>16. BufferBits' /\ ReaderCounts'
  BY <1>1 DEF IInv, BufferBits, ReaderCounts
<1>17. ReaderBits'
  BY <1>1 DEF IInv, ReaderBits, ReaderCounts, HoldsNext, WideOffset
<1>18. TrapsExactlyTheOversized' /\ BufferNotOverrun'
  BY <1>1, <1>7, <1>12 DEF IInv, TrapsExactlyTheOversized, BufferNotOverrun
<1> QED
  BY <1>13, <1>14, <1>15, <1>16, <1>17, <1>18 DEF IInv

(* WriteBits keeps it when the buffer is full: what was written is too long. *)
LEMMA WriteTraps ==
  ASSUME IInv, NEW bits \in Width, NEW data \in Data(bits),
         WriteBits(data, bits), Overflows(Added(data, bits)), ~WriterHasRoom,
         writer' = Added(data, bits), trapped', UNCHANGED <<m_buffer, touched>>
  PROVE  IInv'
<1>1. /\ ~flushed /\ ~trapped /\ written' = written \o Low(data, bits)
      /\ UNCHANGED <<m_buffer, touched, reader, flushed, output, asked>>
  BY DEF WriteBits
<1>2. /\ writer' \in WriterType
      /\ writer'.m_scratchBits = writer.m_scratchBits + bits
      /\ writer'.m_wordIndex = writer.m_wordIndex
      /\ writer'.m_numBytesWritten = writer.m_numBytesWritten
      /\ written' \in Seq(Bit) /\ Len(written') = Len(written) + bits
      /\ \A i \in 1 .. Len(written) : written'[i] = written[i]
      /\ Holds(writer'.m_scratch, writer'.m_scratchBits, written',
               W * writer'.m_wordIndex)
  BY <1>1, AddedHolds
<1>3. PICK n \in Nat, c \in Nat : n = writer.m_scratchBits /\ c = writer.m_wordIndex
  BY DEF IInv, TypeOK, WriterType
<1>4. W \in Nat \ {0} /\ W = WORD_SIZE_IN_BITS /\ bits \in Nat /\ bits >= 1
      /\ W * c \in Nat
  BY Sizes, NextWord DEF W, Width
<1>5. Len(written) = W * c + n /\ writer.m_numBytesWritten = WORD_SIZE_IN_BYTES * c
  BY <1>1, <1>3 DEF IInv, WriterCounts
<1>6. TypeOK'
  BY <1>1, <1>2 DEF IInv, TypeOK
<1>7. WriterCounts'
  <2>1. /\ writer'.m_scratchBits = n + bits /\ writer'.m_wordIndex = c
        /\ writer'.m_numBytesWritten = WORD_SIZE_IN_BYTES * c
        /\ Len(written') = Len(written) + bits
    BY <1>2, <1>3, <1>5
  <2>2. Len(written') = W * c + (n + bits) /\ n + bits > 0
    BY <1>4, <1>5, <2>1
  <2> QED
    BY <2>1, <2>2 DEF WriterCounts
<1>8. WriterBits'
  <2>1. WordsHold(m_buffer, c, written) /\ written \in Seq(Bit)
    BY <1>1, <1>3 DEF IInv, TypeOK, WriterBits
  <2>2. W * c <= Len(written)
    BY <1>4, <1>5
  <2>3. WordsHold(m_buffer, c, written')
    BY <1>2, <2>1, <2>2, WordsHoldMore
  <2> QED
    BY <1>1, <1>2, <1>3, <2>3 DEF WriterBits
<1>9. BufferBits' /\ ReaderCounts'
  BY <1>1 DEF IInv, BufferBits, ReaderCounts
<1>10. ReaderBits'
  BY <1>1 DEF IInv, ReaderBits, ReaderCounts, HoldsNext, WideOffset
<1>11. Len(written') > m_totalBits
  <2>1. W * c >= m_totalBits
    <3>1. ~(WORD_SIZE_IN_BYTES * c < m_bufferLen)
      BY <1>5 DEF WriterHasRoom
    <3>2. ~(c < BufferWords)
      BY <3>1, IndexBelowEnd
    <3> QED
      BY <3>2, Sizes, IndexBelowEnd
  <2>2. n + bits > W
    BY <1>2, <1>3, <1>4 DEF Overflows
  <2>3. Len(written') = W * c + n + bits
    BY <1>2, <1>4, <1>5
  <2> QED
    BY <1>4, <2>1, <2>2, <2>3, Sizes
<1>12. TrapsExactlyTheOversized' /\ BufferNotOverrun'
  <2>1. m_totalBits' = m_totalBits
    BY DEF m_totalBits, m_bufferLen
  <2> QED
    BY <1>1, <1>11, <2>1 DEF IInv, TrapsExactlyTheOversized, BufferNotOverrun
<1> QED
  BY <1>6, <1>7, <1>8, <1>9, <1>10, <1>12 DEF IInv

(* FlushScratch keeps the invariant: the rest of the bits reaches the        *)
(* buffer, or there is no room for them.                                     *)
LEMMA FlushKeeps ==
  ASSUME IInv, FlushScratch
  PROVE  IInv'
<1>1. /\ ~flushed /\ ~trapped /\ written # <<>>
      /\ UNCHANGED <<reader, written, output, asked>>
  BY DEF FlushScratch
<1>2. /\ W \in Nat \ {0} /\ W = WORD_SIZE_IN_BITS
      /\ WORD_SIZE_IN_BYTES \in Nat \ {0} /\ m_totalBits \in Nat
  BY Sizes DEF W
<1>3. PICK c \in Nat : /\ c = writer.m_wordIndex
                      /\ writer.m_numBytesWritten = WORD_SIZE_IN_BYTES * c
  BY <1>1 DEF IInv, TypeOK, WriterType, WriterCounts
<1>4. PICK n \in 0 .. W : /\ n = writer.m_scratchBits /\ n > 0
                         /\ Len(written) = W * c + n
  BY <1>1, <1>2, <1>3 DEF IInv, TypeOK, WriterType, WriterCounts
<1>5. W * c \in Nat /\ CanFlush <=> c < BufferWords
  <2>1. WriterHasRoom <=> c < BufferWords
    BY <1>3, IndexBelowEnd DEF WriterHasRoom
  <2> QED
    BY <1>2, <1>4, <2>1, NextWord DEF CanFlush
<1>6. writer \in WriterType /\ written \in Seq(Bit) /\ Len(written) \in Nat
  BY LenProperties DEF IInv, TypeOK
<1>7. ReaderCounts /\ ReaderBits /\ reader.m_numBitsRead = 0 /\ asked = 0
  BY <1>1 DEF IInv, ReaderCounts
<1>8. CASE CanFlush
  <2>1. /\ Store(writer.m_scratch)
        /\ writer' = [writer EXCEPT !.m_wordIndex = @ + 1]
        /\ flushed' = TRUE /\ trapped' = trapped
    BY <1>8 DEF FlushScratch
  <2>2. c \in WordIndex /\ c + 1 \in 0 .. BufferWords
    BY <1>5, <1>8, Sizes DEF WordIndex
  <2>3. PICK x \in Wide : x = writer.m_scratch
    BY <1>6 DEF WriterType
  <2>4. /\ m_buffer' = [m_buffer EXCEPT ![c] = Narrow(x)]
        /\ touched' = touched \cup {c}
    BY <1>3, <2>1, <2>3 DEF Store
  <2>5. TypeOK'
    <3>1. m_buffer' \in [WordIndex -> Word]
      BY <2>4, WordsTyped DEF IInv, TypeOK
    <3>2. writer' \in WriterType
      BY <1>3, <1>6, <2>1, <2>2 DEF WriterType
    <3>3. touched' \subseteq Int
      BY <2>4 DEF IInv, TypeOK
    <3> QED
      BY <1>1, <2>1, <3>1, <3>2, <3>3 DEF IInv, TypeOK
  <2>6. BufferBits'
    <3>1. /\ WordsHold(m_buffer, c, written) /\ Holds(x, n, written, W * c)
          /\ m_buffer \in [WordIndex -> Word]
      BY <1>1, <1>3, <1>4, <2>3 DEF IInv, TypeOK, WriterBits
    <3>2. BufferHolds(m_buffer', written)
      BY <1>4, <1>6, <2>2, <2>4, <3>1, FlushedHolds
    <3> QED
      BY <1>1, <3>2 DEF BufferBits
  <2>7. WriterCounts' /\ WriterBits'
    BY <2>1 DEF WriterCounts, WriterBits
  <2>8. ReaderCounts' /\ ReaderBits'
    BY <1>1, <1>7, <2>1 DEF ReaderCounts, ReaderBits
  <2>9. Len(written) <= m_totalBits
    <3>1. W * c + W <= m_totalBits
      BY <1>5, <1>8, IndexBelowEnd
    <3> QED
      BY <1>2, <1>4, <1>5, <3>1
  <2>10. TrapsExactlyTheOversized'
    <3>1. m_totalBits' = m_totalBits
      BY DEF m_totalBits, m_bufferLen
    <3> QED
      BY <1>1, <1>2, <1>7, <2>1, <2>9, <3>1 DEF TrapsExactlyTheOversized
  <2>11. BufferNotOverrun'
    BY <2>2, <2>4 DEF IInv, BufferNotOverrun
  <2> QED
    BY <2>5, <2>6, <2>7, <2>8, <2>10, <2>11 DEF IInv
<1>9. CASE ~CanFlush
  <2>1. trapped' /\ UNCHANGED <<m_buffer, writer, flushed, touched>>
    BY <1>9 DEF FlushScratch
  <2>2. Len(written) > m_totalBits
    <3>1. W * c >= m_totalBits
      BY <1>5, <1>9, Sizes, IndexBelowEnd
    <3> QED
      BY <1>2, <1>4, <1>5, <3>1
  <2>3. TypeOK'
    BY <1>1, <1>9 DEF IInv, TypeOK, FlushScratch
  <2>4. WriterCounts'
    BY <1>1, <2>1 DEF IInv, WriterCounts
  <2>5. WriterBits' /\ BufferBits'
    BY <1>1, <2>1 DEF IInv, WriterBits, BufferBits
  <2>6. ReaderCounts' /\ ReaderBits'
    BY <1>1, <1>7, <2>1 DEF ReaderCounts, ReaderBits
  <2>7. TrapsExactlyTheOversized' /\ BufferNotOverrun'
    <3>1. m_totalBits' = m_totalBits
      BY DEF m_totalBits, m_bufferLen
    <3> QED
      BY <1>1, <2>1, <2>2, <3>1 DEF IInv, TrapsExactlyTheOversized, BufferNotOverrun
  <2> QED
    BY <2>3, <2>4, <2>5, <2>6, <2>7 DEF IInv
<1> QED
  BY <1>8, <1>9

-----------------------------------------------------------------------------
(* The reader's scratch word holds enough bits once a word was loaded.       *)
LEMMA ReadyHolds ==
  ASSUME IInv, flushed, ~trapped, NEW bits \in Width, CanRead(bits),
         NEW r, r = Ready(bits)
  PROVE  /\ r.m_scratch \in Wide
         /\ r.m_scratchBits \in 0 .. 2 * W
         /\ bits <= r.m_scratchBits /\ r.m_scratchBits - bits \in Offset
         /\ r.m_wordIndex \in 0 .. BufferWords
         /\ r.m_numBytesRead = WORD_SIZE_IN_BYTES * r.m_wordIndex
         /\ r.m_numBitsRead = reader.m_numBitsRead
         /\ r.m_numBitsRead + r.m_scratchBits = W * r.m_wordIndex
         /\ HoldsNext(r.m_scratch, r.m_scratchBits, written, r.m_numBitsRead)
         /\ MustLoad(bits) => reader.m_wordIndex \in WordIndex
<1>1. /\ W \in Nat \ {0} /\ W = WORD_SIZE_IN_BITS /\ bits \in 1 .. W
      /\ WORD_SIZE_IN_BYTES \in Nat \ {0}
  BY Sizes DEF W, Width
<1>2. reader \in ReaderType /\ m_buffer \in [WordIndex -> Word] /\ written \in Seq(Bit)
  BY DEF IInv, TypeOK
<1>3. PICK c \in Nat : /\ c = reader.m_wordIndex /\ c <= BufferWords
                      /\ reader.m_numBytesRead = WORD_SIZE_IN_BYTES * c
  BY <1>2, Sizes DEF IInv, ReaderType, ReaderCounts
<1>4. PICK n \in 0 .. W, base \in Nat :
        /\ n = reader.m_scratchBits /\ n < W
        /\ base = reader.m_numBitsRead /\ base + n = W * c
  BY <1>1, <1>2, <1>3 DEF IInv, ReaderType, ReaderCounts, Offset
<1>5. PICK x \in Wide : x = reader.m_scratch
  BY <1>2 DEF ReaderType
<1>6. HoldsNext(x, n, written, base)
  BY <1>4, <1>5 DEF IInv, ReaderBits
<1>7. CASE MustLoad(bits)
  <2>1. c < BufferWords /\ c \in WordIndex
    <3>1. WORD_SIZE_IN_BYTES * c < m_bufferLen
      BY <1>3, <1>7 DEF CanRead
    <3>2. c < BufferWords
      BY <3>1, IndexBelowEnd
    <3> QED
      BY <3>2, Sizes DEF WordIndex
  <2>2. PICK y : y = Xor(x, ShiftLeft(Widen(m_buffer[c]), n))
    OBVIOUS
  <2>3. r = [m_scratch |-> y, m_scratchBits |-> n + W, m_wordIndex |-> c + 1,
             m_numBytesRead |-> WORD_SIZE_IN_BYTES * c + WORD_SIZE_IN_BYTES,
             m_numBitsRead |-> base]
    BY <1>1, <1>3, <1>4, <1>5, <1>7, <2>2 DEF Ready, Loaded
  <2>4. y \in Wide
    <3>1. m_buffer[c] \in Word
      BY <1>2, <2>1
    <3>2. ShiftLeft(Widen(m_buffer[c]), n) \in Wide
      BY <1>1, <3>1, WordsTyped
    <3> QED
      BY <2>2, <3>2, WordsTyped
  <2>5. HoldsNext(y, n + W, written, base)
    <3>1. BufferHolds(m_buffer, written)
      BY DEF IInv, BufferBits
    <3> QED
      BY <1>2, <1>4, <1>6, <2>1, <2>2, <3>1, LoadedHolds
  <2>6. bits > n
    BY <1>4, <1>7 DEF MustLoad
  <2>7. /\ n + W \in 0 .. 2 * W /\ bits <= n + W /\ n + W - bits \in Offset
        /\ c + 1 \in 0 .. BufferWords
    BY <1>1, <1>4, <2>1, <2>6, Sizes DEF Offset
  <2>8. /\ WORD_SIZE_IN_BYTES * c + WORD_SIZE_IN_BYTES = WORD_SIZE_IN_BYTES * (c + 1)
        /\ base + (n + W) = W * (c + 1)
    <3>1. WORD_SIZE_IN_BYTES * (c + 1) = WORD_SIZE_IN_BYTES * c + WORD_SIZE_IN_BYTES
      BY <1>1, Multiples
    <3>2. PICK e \in Nat : e = W * c /\ W * (c + 1) = e + W
      BY NextWord
    <3> QED
      BY <1>1, <1>4, <3>1, <3>2
  <2>9. PICK m \in 0 .. 2 * W, k \in 0 .. BufferWords : m = n + W /\ k = c + 1
    BY <2>7
  <2>10. /\ bits <= m /\ m - bits \in Offset /\ base + m = W * k
         /\ HoldsNext(y, m, written, base)
    <3>1. bits <= m /\ m - bits \in Offset
      BY <1>1, <2>7, <2>9
    <3>2. base + m = W * k
      BY <2>8, <2>9
    <3>3. HoldsNext(y, m, written, base)
      BY <2>5, <2>9
    <3> QED
      BY <3>1, <3>2, <3>3
  <2>11. /\ r.m_scratch = y /\ r.m_scratchBits = m /\ r.m_wordIndex = k
         /\ r.m_numBytesRead = WORD_SIZE_IN_BYTES * k
         /\ r.m_numBitsRead = base
    BY <2>3, <2>8, <2>9
  <2> QED
    BY <1>3, <1>4, <2>1, <2>4, <2>10, <2>11
<1>8. CASE ~MustLoad(bits)
  <2>1. r = reader
    BY <1>8 DEF Ready
  <2>2. bits <= n
    BY <1>1, <1>4, <1>8 DEF MustLoad
  <2>3. n \in 0 .. 2 * W /\ n - bits \in Offset /\ c \in 0 .. BufferWords
    BY <1>1, <1>3, <1>4, <2>2, Sizes DEF Offset
  <2> QED
    BY <1>3, <1>4, <1>5, <1>6, <1>8, <2>1, <2>2, <2>3
<1> QED
  BY <1>7, <1>8

(* ReadBits keeps the invariant.                                             *)
LEMMA ReadKeeps ==
  ASSUME IInv, NEW bits \in Width, ReadBits(bits)
  PROVE  IInv'
<1>1. /\ flushed /\ ~trapped /\ asked' = asked + bits
      /\ UNCHANGED <<m_buffer, writer, flushed, written>>
  BY DEF ReadBits
<1>2. /\ W \in Nat \ {0} /\ W = WORD_SIZE_IN_BITS /\ bits \in 1 .. W /\ bits \in Nat
      /\ m_totalBits \in Nat
  BY Sizes DEF W, Width
<1>3. m_totalBits' = m_totalBits
  BY DEF m_totalBits, m_bufferLen
<1>4. WriterCounts' /\ WriterBits'
  BY <1>1 DEF WriterCounts, WriterBits
<1>5. BufferBits'
  BY <1>1 DEF IInv, BufferBits
<1>6. Len(written) <= m_totalBits /\ asked = reader.m_numBitsRead /\ asked \in Nat
  BY <1>1 DEF IInv, TypeOK, TrapsExactlyTheOversized, ReaderCounts
<1>7. asked' = reader.m_numBitsRead + bits /\ asked' \in Nat
  BY <1>1, <1>2, <1>6
<1>8. CASE CanRead(bits)
  <2> DEFINE r == Ready(bits)
  <2>1. PICK k \in 0 .. BufferWords, m \in 0 .. 2 * W, base \in Nat, x \in Wide :
          /\ k = r.m_wordIndex /\ m = r.m_scratchBits
          /\ base = r.m_numBitsRead /\ base = reader.m_numBitsRead
          /\ x = r.m_scratch
          /\ bits <= m /\ m - bits \in Offset
          /\ r.m_numBytesRead = WORD_SIZE_IN_BYTES * k
          /\ base + m = W * k
          /\ HoldsNext(x, m, written, base)
          /\ MustLoad(bits) => reader.m_wordIndex \in WordIndex
    <3>1. reader.m_numBitsRead \in Nat
      BY <1>6
    <3> QED
      BY <1>1, <1>8, <3>1, ReadyHolds
  <2>2. /\ output' = Low(x, bits)
        /\ reader' = Taken(r, bits)
        /\ touched' = IF MustLoad(bits)
                      THEN touched \cup {reader.m_wordIndex} ELSE touched
        /\ trapped' = trapped
    BY <1>8, <2>1 DEF ReadBits
  <2>3. /\ reader' = [m_scratch |-> ShiftRight(x, bits), m_scratchBits |-> m - bits,
                      m_wordIndex |-> k, m_numBytesRead |-> WORD_SIZE_IN_BYTES * k,
                      m_numBitsRead |-> base + bits]
    BY <2>1, <2>2 DEF Taken
  <2>4. /\ reader'.m_scratch = ShiftRight(x, bits)
        /\ reader'.m_scratchBits = m - bits
        /\ reader'.m_wordIndex = k
        /\ reader'.m_numBytesRead = WORD_SIZE_IN_BYTES * k
        /\ reader'.m_numBitsRead = base + bits
    BY <2>3
  <2>5. /\ HoldsNext(ShiftRight(x, bits), m - bits, written, base + bits)
        /\ output' \in Seq(Bit)
    <3>1. bits \in 0 .. m /\ written \in Seq(Bit)
      BY <1>2, <2>1 DEF IInv, TypeOK
    <3> QED
      BY <2>1, <2>2, <3>1, TakenHolds
  <2>6. W * k \in Nat /\ W * k <= m_totalBits
        /\ WORD_SIZE_IN_BYTES * k \in 0 .. m_bufferLen
    <3>1. k \in Nat /\ ~(BufferWords < k)
      BY <2>1, Sizes
    <3> QED
      BY <3>1, Sizes, Multiples
  <2>7. base + bits \in Nat /\ base + bits <= m_totalBits
        /\ (base + bits) + (m - bits) = W * k
    BY <1>2, <2>1, <2>6
  <2>8. TypeOK'
    <3>1. ShiftRight(x, bits) \in Wide
      BY <1>2, <2>1, WordsTyped
    <3>2. ASSUME NEW y \in Wide, NEW n \in Offset, NEW c \in 0 .. BufferWords,
                 NEW b \in 0 .. m_bufferLen, NEW d \in 0 .. m_totalBits
          PROVE [m_scratch |-> y, m_scratchBits |-> n, m_wordIndex |-> c,
                 m_numBytesRead |-> b, m_numBitsRead |-> d] \in ReaderType
      BY DEF ReaderType
    <3>3. base + bits \in 0 .. m_totalBits
      BY <1>2, <2>7
    <3>4. PICK n \in Offset, d \in 0 .. m_totalBits : n = m - bits /\ d = base + bits
      BY <2>1, <3>3
    <3>5. reader' = [m_scratch |-> ShiftRight(x, bits), m_scratchBits |-> n,
                     m_wordIndex |-> k, m_numBytesRead |-> WORD_SIZE_IN_BYTES * k,
                     m_numBitsRead |-> d]
      BY <2>3, <3>4
    <3>6. reader' \in ReaderType
      BY <2>6, <3>1, <3>2, <3>5
    <3>7. touched' \subseteq Int
      <4>1. touched \subseteq Int /\ WordIndex \subseteq Int
        BY DEF IInv, TypeOK, WordIndex
      <4>2. touched' = touched \/ touched' \subseteq touched \cup WordIndex
        BY <2>1, <2>2
      <4> QED
        BY <4>1, <4>2
    <3> QED
      BY <1>1, <1>7, <2>2, <2>5, <3>6, <3>7 DEF IInv, TypeOK
  <2>9. ReaderCounts'
    BY <1>1, <1>7, <2>1, <2>4, <2>7 DEF ReaderCounts
  <2>10. ReaderBits'
    BY <1>1, <2>4, <2>5 DEF ReaderBits
  <2>11. TrapsExactlyTheOversized'
    BY <1>1, <1>3, <1>6, <1>7, <2>1, <2>2, <2>7 DEF TrapsExactlyTheOversized
  <2>12. BufferNotOverrun'
    BY <2>1, <2>2 DEF IInv, BufferNotOverrun
  <2> QED
    BY <1>4, <1>5, <2>8, <2>9, <2>10, <2>11, <2>12 DEF IInv
<1>9. CASE ~CanRead(bits)
  <2>1. trapped' /\ UNCHANGED <<reader, output, touched>>
    BY <1>9 DEF ReadBits
  <2>2. asked' > m_totalBits
    <3>1. PICK c \in Nat, n \in Nat, base \in Nat :
            /\ c = reader.m_wordIndex /\ n = reader.m_scratchBits
            /\ base = reader.m_numBitsRead /\ base + n = W * c
            /\ reader.m_numBytesRead = WORD_SIZE_IN_BYTES * c
      BY <1>6 DEF IInv, TypeOK, ReaderType, ReaderCounts, Offset
    <3>2. CASE ~(base < m_totalBits)
      BY <1>2, <1>7, <3>1, <3>2
    <3>3. CASE MustLoad(bits) /\ ~(WORD_SIZE_IN_BYTES * c < m_bufferLen)
      <4>1. bits > n
        BY <3>1, <3>3 DEF MustLoad
      <4>2. W * c >= m_totalBits /\ W * c \in Nat
        BY <3>3, Sizes, IndexBelowEnd
      <4> QED
        BY <1>2, <1>7, <3>1, <4>1, <4>2
    <3> QED
      BY <1>9, <3>1, <3>2, <3>3 DEF CanRead
  <2>3. TypeOK'
    BY <1>1, <1>7, <1>9 DEF IInv, TypeOK, ReadBits
  <2>4. ReaderCounts'
    BY <1>1, <2>1 DEF IInv, ReaderCounts
  <2>5. ReaderBits'
    BY <1>1, <2>1 DEF IInv, ReaderBits
  <2>6. TrapsExactlyTheOversized' /\ BufferNotOverrun'
    BY <1>1, <1>3, <1>6, <2>1, <2>2
       DEF IInv, TrapsExactlyTheOversized, BufferNotOverrun
  <2> QED
    BY <1>4, <1>5, <2>3, <2>4, <2>5, <2>6 DEF IInv
<1> QED
  BY <1>8, <1>9

-----------------------------------------------------------------------------
(* Every step keeps the invariant.                                           *)
LEMMA NextPreserves == IInv /\ [Next]_vars => IInv'
<1> SUFFICES ASSUME IInv, [Next]_vars PROVE IInv'
  OBVIOUS
<1>1. ASSUME NEW bits \in Width, NEW data \in Data(bits), WriteBits(data, bits)
      PROVE IInv'
  <2> DEFINE w == Added(data, bits)
  <2>1. \/ ~Overflows(w) /\ writer' = w /\ UNCHANGED <<m_buffer, trapped, touched>>
        \/ /\ Overflows(w) /\ WriterHasRoom /\ Store(w.m_scratch)
           /\ writer' = Overflowed(w) /\ UNCHANGED trapped
        \/ /\ Overflows(w) /\ ~WriterHasRoom /\ writer' = w /\ trapped'
           /\ UNCHANGED <<m_buffer, touched>>
    BY <1>1 DEF WriteBits
  <2> QED
    BY <1>1, <2>1, WriteFits, WriteStores, WriteTraps
<1>2. ASSUME FlushScratch PROVE IInv'
  BY <1>2, FlushKeeps
<1>3. ASSUME NEW bits \in Width, ReadBits(bits) PROVE IInv'
  BY <1>3, ReadKeeps
<1>4. CASE UNCHANGED vars
  BY <1>4 DEF IInv, TypeOK, WriterCounts, WriterBits, BufferBits, ReaderCounts,
              ReaderBits, TrapsExactlyTheOversized, BufferNotOverrun, vars, history
<1> QED
  BY <1>1, <1>2, <1>3, <1>4 DEF Next

THEOREM Invariance == Spec => []IInv
<1>1. Init => IInv
  BY InitEstablishes
<1>2. IInv /\ [Next]_vars => IInv'
  BY NextPreserves
<1> QED
  BY <1>1, <1>2, PTL DEF Spec

(* The bit packer's types hold for every word size and every buffer: the     *)
(* scratch words never have to hold more than two words.                     *)
THEOREM TypeCorrect == Spec => []TypeOK
<1>1. IInv => TypeOK
  BY DEF IInv
<1> QED
  BY <1>1, Invariance, PTL

(* No WriteBits, FlushScratch or ReadBits touches memory outside the buffer. *)
THEOREM StaysInTheBuffer == Spec => []BufferNotOverrun
<1>1. IInv => BufferNotOverrun
  BY DEF IInv
<1> QED
  BY <1>1, Invariance, PTL

(* The traps stop what does not fit the buffer and nothing else.             *)
THEOREM TrapsAreExact == Spec => []TrapsExactlyTheOversized
<1>1. IInv => TrapsExactlyTheOversized
  BY DEF IInv
<1> QED
  BY <1>1, Invariance, PTL

-----------------------------------------------------------------------------
(* What is left of a sequence without its first bits.                        *)
Rest(s, a) == SubSeq(s, a + 1, Len(s))

LEMMA RestProperties ==
  ASSUME NEW s \in Seq(Bit), NEW a \in Nat
  PROVE  /\ Rest(s, a) \in Seq(Bit) /\ Len(s) \in Nat
         /\ Len(Rest(s, a)) = IF a <= Len(s) THEN Len(s) - a ELSE 0
         /\ \A i \in 1 .. Len(Rest(s, a)) : a + i \in 1 .. Len(s)
                                          /\ Rest(s, a)[i] = s[a + i]
<1>1. Len(s) \in Nat /\ s \in [1 .. Len(s) -> Bit]
  BY LenProperties
<1>2. a + 1 \in Int /\ \A i \in (a + 1) .. Len(s) : s[i] \in Bit
  BY <1>1
<1>3. PICK len \in Nat : len = Len(s)
  BY <1>1
<1>4. PICK q : q = Rest(s, a)
  OBVIOUS
<1>5. /\ q \in Seq(Bit)
      /\ Len(q) = IF a + 1 <= len THEN len - (a + 1) + 1 ELSE 0
      /\ \A i \in 1 .. len - (a + 1) + 1 : q[i] = s[(a + 1) + i - 1]
  BY <1>1, <1>2, <1>3, <1>4, SubSeqProperties DEF Rest
<1>6. Len(q) = IF a <= len THEN len - a ELSE 0
  <2>1. len - (a + 1) + 1 = len - a
    OBVIOUS
  <2>2. a + 1 <= len => Len(q) = len - a /\ a <= len
    BY <1>5, <2>1
  <2>3. ~(a + 1 <= len) => Len(q) = 0 /\ (a <= len => len - a = 0)
    BY <1>5
  <2> QED
    BY <2>2, <2>3
<1>7. ASSUME NEW i \in 1 .. Len(q)
      PROVE a + i \in 1 .. len /\ q[i] = s[a + i]
  <2>1. Len(q) \in Nat
    BY <1>5, LenProperties
  <2>2. a <= len /\ i \in 1 .. len - a
    BY <1>6, <2>1
  <2>3. i \in 1 .. len - (a + 1) + 1
    BY <2>2
  <2>4. (a + 1) + i - 1 = a + i /\ a + i \in 1 .. len
    BY <2>2
  <2>5. q[i] = s[(a + 1) + i - 1]
    BY <1>5, <2>3
  <2> QED
    BY <2>4, <2>5
<1> QED
  BY <1>3, <1>4, <1>5, <1>6, <1>7

(* Taking bits off in two portions.                                          *)
LEMMA RestOfRest ==
  ASSUME NEW s \in Seq(Bit), NEW a \in Nat, NEW n \in Nat
  PROVE  Rest(Rest(s, a), n) = Rest(s, a + n)
<1>1. PICK q \in Seq(Bit) : q = Rest(s, a)
  BY RestProperties
<1>2. PICK r \in Seq(Bit) : r = Rest(q, n)
  BY RestProperties
<1>3. PICK t \in Seq(Bit) : t = Rest(s, a + n)
  BY RestProperties
<1>4. /\ Len(s) \in Nat /\ Len(q) \in Nat
      /\ Len(q) = IF a <= Len(s) THEN Len(s) - a ELSE 0
      /\ Len(r) = IF n <= Len(q) THEN Len(q) - n ELSE 0
      /\ Len(t) = IF a + n <= Len(s) THEN Len(s) - (a + n) ELSE 0
  <2>1. Len(s) \in Nat /\ Len(q) \in Nat
    BY LenProperties
  <2>2. Len(q) = IF a <= Len(s) THEN Len(s) - a ELSE 0
    BY <1>1, RestProperties
  <2>3. Len(r) = IF n <= Len(q) THEN Len(q) - n ELSE 0
    BY <1>2, RestProperties
  <2>4. Len(t) = IF a + n <= Len(s) THEN Len(s) - (a + n) ELSE 0
    <3>1. a + n \in Nat
      OBVIOUS
    <3> QED
      BY <1>3, <3>1, RestProperties
  <2> QED
    BY <2>1, <2>2, <2>3, <2>4
<1>5. Len(r) = Len(t)
  BY <1>4
<1>6. ASSUME NEW i \in 1 .. Len(r) PROVE r[i] = t[i]
  <2>1. n + i \in 1 .. Len(q) /\ r[i] = q[n + i]
    BY <1>2, RestProperties
  <2>2. q[n + i] = s[a + (n + i)]
    BY <1>1, <2>1, RestProperties
  <2>3. t[i] = s[(a + n) + i]
    BY <1>3, <1>5, RestProperties
  <2>4. i \in Int /\ a + (n + i) = (a + n) + i
    BY <1>4
  <2> QED
    BY <2>1, <2>2, <2>3, <2>4
<1>7. r = t
  BY <1>5, <1>6, SeqEqual
<1> QED
  BY <1>1, <1>2, <1>3, <1>7

-----------------------------------------------------------------------------
(* The bit packer is a queue of bits: every WriteBits puts its bits, every   *)
(* ReadBits that returns gets the next ones, everything else is a stutter.   *)
THEOREM ImplementsQueue == Spec => ReadsWhatWasWritten
<1> DEFINE queue == Rest(written, reader.m_numBitsRead)
<1>1. Init => Queue!Init
  <2> SUFFICES ASSUME Init PROVE Queue!Init
    OBVIOUS
  <2>1. <<>> \in Seq(Bit) /\ Len(<<>>) = 0
    BY EmptySeq
  <2>2. SubSeq(<<>>, 0 + 1, 0) = <<>>
    BY SubSeqEmpty
  <2>3. written = <<>> /\ output = <<>> /\ reader.m_numBitsRead = 0
    BY DEF Init, NewWriter, NewReader
  <2> QED
    BY <2>1, <2>2, <2>3 DEF Queue!Init
<1>2. ASSUME IInv, [Next]_vars
      PROVE  Queue!Next \/ UNCHANGED <<queue, output>>
  <2>1. ASSUME NEW bits \in Width, NEW data \in Data(bits), WriteBits(data, bits)
        PROVE  Queue!Next
    <3>1. /\ ~flushed /\ written' = written \o Low(data, bits)
          /\ UNCHANGED <<reader, output>>
      BY <2>1 DEF WriteBits
    <3>2. reader.m_numBitsRead = 0 /\ written \in Seq(Bit)
      BY <1>2, <3>1 DEF IInv, TypeOK, ReaderCounts
    <3>3. bits \in 1 .. W /\ data \in Word
      BY DEF Width, W, Data
    <3>4. written' \in Seq(Bit)
      BY <3>1, <3>2, <3>3, AppendedData
    <3>5. queue = written /\ queue' = written'
      BY <3>1, <3>2, <3>4, SubSeqFull DEF Rest
    <3>6. Low(data, bits) \in Queue!Bits(bits)
      <4>1. \A i \in 1 .. bits : data[i - 1] \in Bit
        BY <3>3, Sizes DEF W, Word, Offset
      <4> QED
        BY <4>1 DEF Low, Bit, Queue!Bits
    <3>7. Queue!Put(Low(data, bits))
      BY <3>1, <3>5 DEF Queue!Put, Rest
    <3> QED
      BY <3>6, <3>7 DEF Queue!Next, Width
  <2>2. ASSUME FlushScratch PROVE UNCHANGED <<queue, output>>
    BY <2>2 DEF FlushScratch, Rest
  <2>3. ASSUME NEW bits \in Width, ReadBits(bits), CanRead(bits)
        PROVE  Queue!Next
    <3>1. /\ flushed /\ ~trapped /\ written' = written
          /\ output' = Low(Ready(bits).m_scratch, bits)
          /\ reader' = Taken(Ready(bits), bits)
      BY <2>3 DEF ReadBits
    <3>2. PICK r : r = Ready(bits)
      OBVIOUS
    <3>3. /\ r.m_scratch \in Wide /\ r.m_scratchBits \in 0 .. 2 * W
          /\ bits <= r.m_scratchBits /\ r.m_numBitsRead = reader.m_numBitsRead
          /\ HoldsNext(r.m_scratch, r.m_scratchBits, written, r.m_numBitsRead)
      BY <1>2, <2>3, <3>1, <3>2, ReadyHolds
    <3>4. PICK base \in Nat, x \in Wide, m \in 0 .. 2 * W :
            /\ base = reader.m_numBitsRead /\ base = r.m_numBitsRead
            /\ x = r.m_scratch /\ m = r.m_scratchBits
      BY <1>2, <3>3 DEF IInv, TypeOK, ReaderType
    <3>5. written \in Seq(Bit) /\ bits \in Nat /\ bits \in 0 .. m
      BY <1>2, <3>3, <3>4, Sizes DEF IInv, TypeOK, Width, W
    <3>6. HoldsNext(x, m, written, base)
      BY <3>3, <3>4
    <3>7. /\ Low(x, bits) \in [1 .. bits -> Bit]
          /\ \A i \in 1 .. bits : base + i <= Len(written)
                                 => Low(x, bits)[i] = written[base + i]
      BY <3>5, <3>6, TakenHolds
    <3>8. output' = Low(x, bits) /\ reader'.m_numBitsRead = base + bits
      BY <3>1, <3>2, <3>4 DEF Taken
    <3>9. \A i \in 1 .. bits : i <= Len(queue) => output'[i] = queue[i]
      <4> SUFFICES ASSUME NEW i \in 1 .. bits, i <= Len(queue)
                   PROVE output'[i] = queue[i]
        OBVIOUS
      <4>1. i \in 1 .. Len(Rest(written, base))
        BY <3>4, <3>5, RestProperties
      <4>2. base + i \in 1 .. Len(written) /\ Rest(written, base)[i] = written[base + i]
        BY <3>5, <4>1, RestProperties
      <4>3. Low(x, bits)[i] = written[base + i]
        BY <3>7, <4>2
      <4> QED
        BY <3>4, <3>8, <4>2, <4>3
    <3>10. queue' = Rest(queue, bits)
      BY <3>1, <3>4, <3>5, <3>8, RestOfRest
    <3>11. Queue!Get(bits)
      BY <3>7, <3>8, <3>9, <3>10 DEF Queue!Get, Queue!Bits, Bit, Rest
    <3> QED
      BY <3>11 DEF Queue!Next, Width
  <2>4. ASSUME NEW bits \in Width, ReadBits(bits), ~CanRead(bits)
        PROVE  UNCHANGED <<queue, output>>
    BY <2>4 DEF ReadBits, Rest
  <2>5. CASE UNCHANGED vars
    BY <2>5 DEF vars, history, Rest
  <2> QED
    BY <1>2, <2>1, <2>2, <2>3, <2>4, <2>5 DEF Next
<1>3. IInv /\ [Next]_vars
        => [Queue!Next]_<<SubSeq(written, reader.m_numBitsRead + 1, Len(written)), output>>
  BY <1>2 DEF Rest
<1> QED
  BY <1>1, <1>3, Invariance, PTL DEF Spec, ReadsWhatWasWritten, Queue!Spec
=============================================================================
