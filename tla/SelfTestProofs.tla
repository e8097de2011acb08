----------------------------- MODULE SelfTestProofs -----------------------------
(***************************************************************************)
(* For every word size, every type and every buffer with room for the two   *)
(* fields: the loop before the server starts passes every int, whatever the *)
(* message before it left in the buffer.                                    *)
(***************************************************************************)
EXTENDS SelfTest, StreamsProofs

\* What is proved of the streams of one iteration, and that they run.
Running == Shape /\ IInv /\ InPlace /\ Returned /\ outcome = "running" /\ ~trapped

BothWritten ==
  fields = <<TypeField, MessageField>> /\ values = <<SIMPLE_MESSAGE, i>>

\* What was written and asked for when main is at pc.
Progress ==
  \/ pc = "type" /\ ~flushed /\ fields = <<>> /\ values = <<>>
  \/ pc = "message" /\ ~flushed /\ fields = <<TypeField>> /\ values = <<SIMPLE_MESSAGE>>
  \/ pc = "flush" /\ ~flushed /\ BothWritten
  \/ pc = "receive" /\ flushed /\ BothWritten /\ wanted = <<>>
  \/ pc = "body" /\ flushed /\ BothWritten /\ wanted = <<TypeField>>
  \/ pc = "passed" /\ msgRecv = i

TInv == Running /\ i \in int32 /\ Progress

-----------------------------------------------------------------------------
(* Type and number are in the ranges they are checked for, and together they *)
(* fit the buffer.                                                           *)
LEMMA BothFit ==
  /\ TypeField \in Field /\ MessageField \in Field
  /\ SIMPLE_MESSAGE \in Value(TypeField) /\ InRange(TypeField, SIMPLE_MESSAGE)
  /\ \A n \in int32 : n \in Value(MessageField) /\ InRange(MessageField, n)
  /\ INT_MAX \in int32 /\ \A n \in int32 : n >= INT_MIN
  /\ Bits(TypeField) \in Nat /\ Bits(MessageField) \in Nat
  /\ Bits(TypeField) + Bits(MessageField) <= m_totalBits /\ m_totalBits \in Nat
<1>1. PICK h \in Nat \ {0} : /\ UINT32_MOD = 2 * h /\ UINT32_MOD \div 2 = h
                             /\ int32 = -h .. h - 1
  BY Halves
<1>2. INT_MIN = -h /\ INT_MAX = h - 1
  BY <1>1 DEF INT_MIN, INT_MAX
<1>3. TypeField \in Field /\ MessageField \in Field
  BY SelfTestAssumption
<1>4. SIMPLE_MESSAGE \in int32 /\ 0 <= SIMPLE_MESSAGE /\ SIMPLE_MESSAGE <= LENGTH
  BY <1>1, <1>2, SelfTestAssumption
<1>5. SIMPLE_MESSAGE \in Value(TypeField) /\ InRange(TypeField, SIMPLE_MESSAGE)
  BY <1>4 DEF TypeField, Value, InRange
<1>6. \A n \in int32 : n \in Value(MessageField) /\ InRange(MessageField, n)
  BY <1>1, <1>2 DEF MessageField, Value, InRange
<1>7. PICK t \in 1 .. W, m \in 1 .. W : t = Bits(TypeField) /\ m = Bits(MessageField)
  BY <1>3, FieldFits
<1>8. W * 2 <= W * BufferWords
  <2>1. PICK w \in Nat \ {0}, b \in Nat : w = W /\ b = BufferWords /\ b >= 2
    BY Sizes, SelfTestAssumption
  <2>2. b = 2 \/ 2 < b
    BY <2>1
  <2>3. w * 2 \in Nat /\ w * b \in Nat /\ (2 < b <=> w * 2 < w * b)
    BY <2>1, Multiples
  <2> QED
    BY <2>1, <2>2, <2>3
<1>9. t + m <= m_totalBits /\ t \in Nat /\ m \in Nat
  BY <1>7, <1>8, Sizes
<1> QED
  BY <1>1, <1>2, <1>3, <1>5, <1>6, <1>7, <1>9, Sizes

(* How many bits were written follows from the fields.                       *)
LEMMA LengthWritten ==
  ASSUME InPlace
  PROVE  /\ fields = <<>> => Len(written) = 0
         /\ fields = <<TypeField>> => Len(written) = Bits(TypeField)
         /\ fields = <<TypeField, MessageField>> =>
              Len(written) = Bits(TypeField) + Bits(MessageField)
<1>1. PICK pos : Placed(pos)
  BY DEF InPlace
<1>2. /\ pos \in [0 .. Len(fields) -> Nat] /\ pos[0] = 0
      /\ Len(written) = pos[Len(fields)]
      /\ \A k \in 1 .. Len(fields) : pos[k] = pos[k - 1] + Bits(fields[k])
  BY <1>1 DEF Placed, Lies
<1>3. CASE fields = <<>>
  BY <1>2, <1>3
<1>4. CASE fields = <<TypeField>>
  <2>1. Len(fields) = 1 /\ fields[1] = TypeField
    BY <1>4
  <2> QED
    BY <1>2, <1>4, <2>1, BothFit
<1>5. CASE fields = <<TypeField, MessageField>>
  <2>1. Len(fields) = 2 /\ fields[1] = TypeField /\ fields[2] = MessageField
    BY <1>5
  <2>2. pos[1] = pos[0] + Bits(TypeField)
    BY <1>2, <2>1
  <2>3. pos[2] = pos[1] + Bits(MessageField)
    BY <1>2, <2>1
  <2> QED
    BY <1>2, <1>5, <2>1, <2>2, <2>3, BothFit
<1>6. <<TypeField, MessageField>> # <<TypeField>> /\ <<TypeField>> # <<>>
      /\ <<TypeField, MessageField>> # <<>>
  OBVIOUS
<1> QED
  BY <1>3, <1>4, <1>5, <1>6

\* What the writer has been given at one time or another.
Portions == {<<>>, <<TypeField>>, <<TypeField, MessageField>>}

\* Nothing else was written yet, and nothing asked for.
Pending == fields \in Portions /\ asked = 0

(* The two fields fit, so nothing traps before the reader is asked for more. *)
LEMMA Untrapped == IInv /\ InPlace /\ Pending => ~trapped
<1> SUFFICES ASSUME IInv, InPlace, Pending PROVE ~trapped
  OBVIOUS
<1>1. Len(written) <= m_totalBits /\ m_totalBits \in Nat /\ Len(written) \in Nat
  BY LengthWritten, BothFit DEF Pending, Portions
<1>2. ~(asked > m_totalBits)
  BY <1>1 DEF Pending
<1> QED
  BY <1>1, <1>2 DEF IInv, TrapsExactlyTheOversized

LEMMA UntrappedNext == IInv' /\ InPlace' /\ Pending' => ~trapped'
BY Untrapped, PTL

(* Appending to a sequence of one element.                                   *)
LEMMA AppendToOne ==
  ASSUME NEW S, NEW a \in S, NEW b \in S
  PROVE  Append(<<a>>, b) = <<a, b>>
<1> DEFINE s == <<a>>
           t == <<a, b>>
<1>1. s \in Seq(S) /\ Len(s) = 1 /\ s[1] = a
  OBVIOUS
<1>2. t \in Seq(S) /\ Len(t) = 2 /\ t[1] = a /\ t[2] = b
  OBVIOUS
<1> HIDE DEF s, t
<1>3. /\ Append(s, b) \in Seq(S) /\ Len(Append(s, b)) = 2
      /\ Append(s, b)[1] = a /\ Append(s, b)[2] = b
  <2>1. Append(s, b) \in Seq(S) /\ Len(Append(s, b)) = Len(s) + 1
    BY <1>1, AppendProperties
  <2>2. \A k \in 1 .. Len(s) : Append(s, b)[k] = s[k]
    BY <1>1, AppendProperties
  <2>3. Append(s, b)[Len(s) + 1] = b
    BY <1>1, AppendProperties
  <2> QED
    BY <1>1, <2>1, <2>2, <2>3
<1>4. Append(s, b) = t
  BY <1>2, <1>3, SeqEqual
<1> QED
  BY <1>4 DEF s, t

(* i-- is an int again.                                                      *)
LEMMA DecrementedIsInt ==
  ASSUME NEW n \in int32
  PROVE  Decremented(n) \in int32
<1>1. PICK h \in Nat \ {0} : /\ UINT32_MOD = 2 * h /\ UINT32_MOD \div 2 = h
                             /\ int32 = -h .. h - 1
  BY Halves
<1>2. PICK u \in 0 .. 2 * h - 1 : u = ToUnsigned(n - 1)
  <2>1. n - 1 \in Int
    BY <1>1
  <2> QED
    BY <1>1, <2>1 DEF ToUnsigned
<1> QED
  BY <1>1, <1>2 DEF Decremented, ToSigned

-----------------------------------------------------------------------------
(* A step of the streams keeps what is proved of them.                       *)
LEMMA StreamsKeep ==
  ASSUME Running, StreamNext
  PROVE  Shape' /\ IInv' /\ InPlace' /\ Returned'
<1>1. [Next]_vars
  BY StepsOfThePacker
<1>2. IInv'
  BY <1>1, NextPreserves DEF Running
<1>3. Shape'
  BY NextShape DEF Running
<1>4. InPlace' /\ Returned'
  BY WriteInPlace, FlushInPlace, ReadInPlace DEF StreamNext, Running
<1> QED
  BY <1>2, <1>3, <1>4

(* A value in its range is written, and nothing traps.                       *)
LEMMA WriteRuns ==
  ASSUME Running, ~flushed, NEW f \in Field, NEW value \in Value(f), InRange(f, value),
         WriteField(f, value), Append(fields, f) \in Portions
  PROVE  /\ Running' /\ ~flushed'
         /\ fields' = Append(fields, f) /\ values' = Append(values, value)
<1>1. Shape' /\ IInv' /\ InPlace' /\ Returned'
  BY StreamsKeep DEF StreamNext
<1>2. /\ WriteBits(ToWord(Shifted(f, value)), Bits(f))
      /\ fields' = Append(fields, f) /\ values' = Append(values, value)
      /\ outcome' = outcome
  BY DEF WriteField
<1>3. asked = 0
  BY DEF Running, IInv, ReaderCounts
<1>4. asked' = 0 /\ ~flushed'
  BY <1>2, <1>3 DEF WriteBits
<1>5. ~trapped'
  BY <1>1, <1>2, <1>4, UntrappedNext DEF Pending
<1> QED
  BY <1>1, <1>2, <1>4, <1>5 DEF Running

(* The flush succeeds.                                                       *)
LEMMA FlushRuns ==
  ASSUME Running, fields \in Portions, Flush
  PROVE  Running' /\ flushed' /\ wanted' = <<>> /\ UNCHANGED <<fields, values>>
<1>1. Shape' /\ IInv' /\ InPlace' /\ Returned'
  BY StreamsKeep DEF StreamNext
<1>2. /\ ~flushed /\ UNCHANGED <<outcome, fields, values, wanted, asked>>
      /\ flushed' \/ trapped'
  BY DEF Flush, FlushScratch
<1>3. asked = 0 /\ wanted = <<>>
  BY <1>2 DEF Running, IInv, ReaderCounts, Shape
<1>4. ~trapped'
  BY <1>1, <1>2, <1>3, UntrappedNext DEF Pending
<1> QED
  BY <1>1, <1>2, <1>3, <1>4 DEF Running

(* The next of the fields written is received.                               *)
LEMMA ReadRuns ==
  ASSUME Running, BothWritten, NEW f \in Field, ReadField(f),
         \/ f = TypeField /\ wanted = <<>>
         \/ f = MessageField /\ wanted = <<TypeField>>
  PROVE  /\ Running' /\ flushed' /\ UNCHANGED <<fields, values>>
         /\ wanted' = Append(wanted, f)
         /\ Len(got') = Len(wanted')
         /\ \A k \in 1 .. Len(wanted') : got'[k] = values[k]
<1>1. Shape' /\ IInv' /\ InPlace' /\ Returned'
  BY StreamsKeep DEF StreamNext
<1>2. /\ flushed /\ UNCHANGED <<fields, values, flushed>>
      /\ wanted' = Append(wanted, f)
  BY ReadFates DEF Running
<1>3. wanted' = <<TypeField>> \/ wanted' = <<TypeField, MessageField>>
  <2>1. CASE wanted = <<>> /\ f = TypeField
    BY <1>2, <2>1
  <2>2. CASE wanted = <<TypeField>> /\ f = MessageField
    BY <1>2, <2>2, BothFit, AppendToOne
  <2> QED
    BY <2>1, <2>2
<1>4. /\ Len(wanted') <= Len(fields')
      /\ \A k \in 1 .. Len(wanted') : wanted'[k] = fields'[k]
  BY <1>2, <1>3 DEF BothWritten
<1>5. Agrees'
  BY <1>4 DEF Agrees
<1>6. /\ outcome' = "running" /\ ~trapped'
      /\ \A k \in 1 .. Len(wanted') : got'[k] = values'[k]
  BY <1>1, <1>2, <1>5 DEF Returned
<1>7. Len(got') = Len(wanted')
  BY <1>1, <1>6 DEF Shape
<1> QED
  BY <1>1, <1>2, <1>6, <1>7 DEF Running

(* New streams run, on whatever buffer.                                      *)
LEMMA FreshRuns == StreamFresh => Running
<1>1. StreamFresh => IInv
  BY FreshEstablishes DEF StreamFresh
<1> QED
  BY <1>1, InitShape, InitInPlace DEF StreamFresh, Fresh, Running

LEMMA FreshRunsNext == StreamFresh' => Running'
BY FreshRuns, PTL

-----------------------------------------------------------------------------
LEMMA SelfTestInitEstablishes == SelfTestInit => TInv
<1> SUFFICES ASSUME SelfTestInit PROVE TInv
  OBVIOUS
<1>1. StreamFresh
  BY InitIsFresh DEF SelfTestInit
<1> QED
  BY <1>1, FreshRuns, BothFit DEF SelfTestInit, TInv, Progress, StreamFresh, Fresh

LEMMA SelfTestNextPreserves == TInv /\ [SelfTestNext]_selfTestVars => TInv'
<1> SUFFICES ASSUME TInv, [SelfTestNext]_selfTestVars PROVE TInv'
  OBVIOUS
<1>0. Running /\ i \in int32
  BY DEF TInv
<1>1. CASE SendType
  <2>1. ~flushed /\ fields = <<>> /\ values = <<>>
    BY <1>1 DEF TInv, Progress, SendType, GoTo
  <2>2. /\ Append(fields, TypeField) = <<TypeField>>
        /\ Append(values, SIMPLE_MESSAGE) = <<SIMPLE_MESSAGE>>
    BY <2>1
  <2>3. /\ Running' /\ ~flushed'
        /\ fields' = <<TypeField>> /\ values' = <<SIMPLE_MESSAGE>>
    <3>1. Append(fields, TypeField) \in Portions
      BY <2>2 DEF Portions
    <3> QED
      BY <1>0, <1>1, <2>1, <2>2, <3>1, BothFit, WriteRuns DEF SendType
  <2> QED
    BY <1>0, <1>1, <2>3 DEF SendType, GoTo, TInv, Progress
<1>2. CASE SendMessage
  <2>1. ~flushed /\ fields = <<TypeField>> /\ values = <<SIMPLE_MESSAGE>>
    BY <1>2 DEF TInv, Progress, SendMessage, GoTo
  <2>2. /\ Append(fields, MessageField) = <<TypeField, MessageField>>
        /\ Append(values, i) = <<SIMPLE_MESSAGE, i>>
    <3>1. TypeField \in Field /\ MessageField \in Field
      BY BothFit
    <3>2. SIMPLE_MESSAGE \in Int /\ i \in Int
      BY <1>0, SelfTestAssumption, Halves
    <3> QED
      BY <2>1, <3>1, <3>2, AppendToOne
  <2>3. /\ Running' /\ ~flushed'
        /\ fields' = <<TypeField, MessageField>> /\ values' = <<SIMPLE_MESSAGE, i>>
    <3>1. Append(fields, MessageField) \in Portions
      BY <2>2 DEF Portions
    <3> QED
      BY <1>0, <1>2, <2>1, <2>2, <3>1, BothFit, WriteRuns DEF SendMessage
  <2> QED
    BY <1>0, <1>2, <2>3 DEF SendMessage, GoTo, TInv, Progress, BothWritten
<1>3. CASE FlushStream
  <2>1. BothWritten /\ fields \in Portions
    BY <1>3 DEF TInv, Progress, FlushStream, GoTo, BothWritten, Portions
  <2>2. Running' /\ flushed' /\ wanted' = <<>> /\ UNCHANGED <<fields, values>>
    BY <1>0, <1>3, <2>1, FlushRuns DEF FlushStream
  <2> QED
    BY <1>0, <1>3, <2>1, <2>2 DEF FlushStream, GoTo, TInv, Progress, BothWritten
<1>4. CASE ReceiveType
  <2>1. BothWritten /\ wanted = <<>>
    BY <1>4 DEF TInv, Progress, ReceiveType, GoTo
  <2>2. /\ Running' /\ flushed' /\ UNCHANGED <<fields, values>>
        /\ wanted' = Append(wanted, TypeField)
        /\ \A k \in 1 .. Len(wanted') : got'[k] = values[k]
    BY <1>0, <1>4, <2>1, BothFit, ReadRuns DEF ReceiveType
  <2>3. wanted' = <<TypeField>> /\ got'[1] = SIMPLE_MESSAGE
    BY <2>1, <2>2 DEF BothWritten
  <2>4. pc' = "body"
    BY <1>4, <2>2, <2>3 DEF ReceiveType, GoTo, Creates, Running
  <2> QED
    BY <1>0, <1>4, <2>1, <2>2, <2>3, <2>4 DEF ReceiveType, TInv, Progress, BothWritten
<1>5. CASE ReceiveMessage
  <2>1. BothWritten /\ wanted = <<TypeField>>
    BY <1>5 DEF TInv, Progress, ReceiveMessage, GoTo
  <2>2. /\ Running' /\ wanted' = Append(wanted, MessageField)
        /\ Len(got') = Len(wanted')
        /\ \A k \in 1 .. Len(wanted') : got'[k] = values[k]
    BY <1>0, <1>5, <2>1, BothFit, ReadRuns DEF ReceiveMessage
  <2>3. Len(got') = 2 /\ got'[2] = i
    BY <2>1, <2>2 DEF BothWritten
  <2>4. msgRecv' = i /\ pc' = "passed" /\ i' = i
    BY <1>5, <2>2, <2>3 DEF ReceiveMessage, GoTo, Running
  <2> QED
    BY <1>0, <2>2, <2>4 DEF TInv, Progress
<1>6. CASE NextInt
  <2>1. StreamFresh'
    BY <1>0, <1>6 DEF NextInt, StreamFresh, Fresh, Running, IInv, TypeOK
  <2>2. Running'
    BY <2>1, FreshRunsNext
  <2>3. i' \in int32 /\ pc' = "type"
    BY <1>0, <1>6, DecrementedIsInt, BothFit DEF NextInt
  <2> QED
    BY <1>6, <2>2, <2>3 DEF NextInt, TInv, Progress
<1>7. CASE UNCHANGED selfTestVars
  BY <1>7 DEF selfTestVars, streamVars, vars, history, TInv, Running, Shape, IInv, TypeOK,
              WriterCounts, WriterBits, BufferBits, ReaderCounts, ReaderBits,
              TrapsExactlyTheOversized, BufferNotOverrun, InPlace, Placed, Agrees,
              Returned, Progress, BothWritten
<1> QED
  BY <1>1, <1>2, <1>3, <1>4, <1>5, <1>6, <1>7 DEF SelfTestNext

(* No int is refused, mistaken for another or passed over, and no trap       *)
(* fails, whatever the word size and whatever the message before it left in  *)
(* the buffer.                                                               *)
THEOREM EveryIntIsPassed == SelfTestSpec => []EveryIntPasses
<1>1. TInv => EveryIntPasses
  BY DEF TInv, Running, Progress, EveryIntPasses
<1> QED
  BY <1>1, SelfTestInitEstablishes, SelfTestNextPreserves, PTL DEF SelfTestSpec
=============================================================================
