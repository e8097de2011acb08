-------------------------------- MODULE Streams --------------------------------
(***************************************************************************)
(* serialize_int and serialize_bits (Core/src/Stream): the fields of packet *)
(* header and message, on top of the bit packer.  One template serializes a *)
(* packet in both directions, so a reader normally asks for the fields that *)
(* were written; but the protocol id decides nothing, so datagrams of other *)
(* programs are taken apart too, and here the reader asks for any fields.   *)
(*                                                                         *)
(* Integers have WORD_SIZE_IN_BITS bits and wrap.  So do val - min and      *)
(* (int32_t) uval + min, whose overflow C++ leaves undefined, in what the   *)
(* compiler of this project (MSVC) makes of them.                           *)
(***************************************************************************)
EXTENDS BitPacker

CONSTANTS
  Field,       \* the fields that programs serialize
  MaxFields    \* model bound: fields of one packet, on either side

\* The powers of two, up to the first that a word does not hold.
Pow2[k \in 0 .. WORD_SIZE_IN_BITS] == IF k = 0 THEN 1 ELSE 2 * Pow2[k - 1]

UINT32_MOD == Pow2[WORD_SIZE_IN_BITS]
int32 == -(UINT32_MOD \div 2) .. UINT32_MOD \div 2 - 1

\* serialize_bits serves unsigned members in the width of their type,
\* serialize_int signed ones of a range, by default that of the type.
BitsField == [kind : {"bits"}, bits : Width]
IntField == {f \in [kind : {"int"}, min : int32, max : int32] : f.min < f.max}

ASSUME StreamAssumption ==
  /\ Field \subseteq BitsField \cup IntField
  /\ MaxFields \in Nat

VARIABLES
  outcome,    \* "running", "refused" (a macro returned false) or "trapped" (a
              \* UDP_TRAP of a macro failed; those of the packer set trapped)
  \* History, read by the properties and the bound only.
  fields,     \* the fields written, and
  values,     \*   their values
  wanted,     \* the fields asked for by the reader, and
  got         \*   the values accepted for them

streamVars == <<vars, outcome, fields, values, wanted, got>>

-----------------------------------------------------------------------------
(* Numbers. *)

ToUnsigned(x) == x % UINT32_MOD
ToSigned(u) == IF u < UINT32_MOD \div 2 THEN u ELSE u - UINT32_MOD

ToWord(u) == [j \in Offset |-> (u \div Pow2[j]) % 2]

\* The number that a sequence of bits stands for, the lowest bit first.
Number(bits) ==
  LET top[i \in 0 .. Len(bits)] ==
        IF i = 0 THEN 0 ELSE 2 * top[i - 1] + bits[Len(bits) + 1 - i]
  IN  top[Len(bits)]

\* The position of the highest bit set: the code sets all bits below it and
\* counts them.
Log2(x) == CHOOSE k \in Offset : Pow2[k] <= x /\ x < Pow2[k + 1]

\* The arguments arrive as uint32_t.
bitsRequired_Values(min, max) ==
  IF ToUnsigned(max - min) = 1 THEN 1 ELSE Log2(ToUnsigned(max - min) - 1) + 1

bitsRequired(min, max) ==
  IF min = max THEN 0 ELSE Log2(ToUnsigned(max - min)) + 1

Bits(f) == IF f.kind = "int" THEN bitsRequired(f.min, f.max) ELSE f.bits

\* The values a member of the field's type can have.
Value(f) == IF f.kind = "int" THEN int32 ELSE 0 .. Pow2[f.bits] - 1

\* The range check, a trap when writing and a refusal when reading.
InRange_FromMin(f, value) == f.kind = "int" => value >= f.min

InRange(f, value) == f.kind = "int" => f.min <= value /\ value <= f.max

-----------------------------------------------------------------------------
StreamInit ==
  /\ Init
  /\ outcome = "running"
  /\ fields = <<>> /\ values = <<>>
  /\ wanted = <<>> /\ got = <<>>

(* Writing. *)

Shifted(f, value) ==
  IF f.kind = "int" THEN ToUnsigned(value - f.min) ELSE value

WriteField(f, value) ==
  /\ outcome = "running"
  /\ Len(fields) < MaxFields
  /\ \/ /\ InRange(f, value)
        /\ WriteBits(ToWord(Shifted(f, value)), Bits(f))
        /\ fields' = Append(fields, f)
        /\ values' = Append(values, value)
        /\ UNCHANGED outcome
     \/ /\ ~InRange(f, value)
        /\ ~flushed /\ ~trapped
        /\ outcome' = "trapped"
        /\ UNCHANGED <<vars, fields, values>>
  /\ UNCHANGED <<wanted, got>>

Flush ==
  /\ outcome = "running"
  /\ FlushScratch
  /\ UNCHANGED <<outcome, fields, values, wanted, got>>

-----------------------------------------------------------------------------
(* Reading. *)

WouldReadPastEnd_AtEnd(bits) == reader.m_numBitsRead >= m_totalBits

WouldReadPastEnd(bits) == reader.m_numBitsRead + bits > m_totalBits

\* Only SerializeInteger asks whether the bits are there; SerializeBits goes
\* straight to the packer.
Refuses(f) == f.kind = "int" /\ WouldReadPastEnd(Bits(f))

\* The value that was read, shifted back.
ShiftedBack_Widened(f, u) == IF f.kind = "int" THEN ToSigned(u) + f.min ELSE u

ShiftedBack(f, u) ==
  IF f.kind = "int" THEN ToSigned(ToUnsigned(ToSigned(u) + f.min)) ELSE u

\* What becomes of it.
Conclude(f, value) ==
  \/ /\ InRange(f, value)
     /\ got' = Append(got, value)
     /\ UNCHANGED outcome
  \/ /\ ~InRange(f, value)
     /\ outcome' = "refused"
     /\ UNCHANGED got

ReadField(f) ==
  /\ outcome = "running"
  /\ flushed /\ ~trapped
  /\ Len(wanted) < MaxFields
  /\ wanted' = Append(wanted, f)
  /\ \/ /\ Refuses(f)
        /\ outcome' = "refused"
        /\ UNCHANGED <<vars, got>>
     \/ /\ ~Refuses(f)
        /\ ReadBits(Bits(f))
        /\ IF trapped' THEN UNCHANGED <<outcome, got>>
           ELSE Conclude(f, ShiftedBack(f, Number(output')))
  /\ UNCHANGED <<fields, values>>

-----------------------------------------------------------------------------
StreamNext ==
  \/ \E f \in Field : \E value \in Value(f) : WriteField(f, value)
  \/ Flush
  \/ \E f \in Field : ReadField(f)

StreamSpec == StreamInit /\ [][StreamNext]_streamVars

-----------------------------------------------------------------------------
(* Properties *)

(* Type correctness.  A value that the reader accepts lies in the range of   *)
(* its field, whatever bits arrived.                                         *)
StreamTypeOK ==
  /\ TypeOK
  /\ outcome \in {"running", "refused", "trapped"}
  /\ fields \in Seq(Field) /\ wanted \in Seq(Field)
  /\ Len(values) = Len(fields)
  /\ Len(got) <= Len(wanted)
  /\ \A i \in 1 .. Len(got) :
       LET f == wanted[i]
       IN  got[i] \in IF f.kind = "int" THEN f.min .. f.max ELSE Value(f)

(* The streams keep to what the packer relies on, which has no check for it: *)
(* data that fits its width, a width from 1 to a word, one flush after a     *)
(* write.  So everything shown of BitPacker holds of the streams.            *)
ImplementsPacker == Spec

\* The reader has asked for what was written, and no more.
Follows ==
  /\ Len(wanted) <= Len(fields)
  /\ wanted = SubSeq(fields, 1, Len(wanted))

(* A reader that asks for the fields that were written gets the values that  *)
(* were written, and is neither refused nor trapped: any range, the full     *)
(* range of the type included, survives the shift to unsigned and back.      *)
RoundTrip ==
  flushed /\ Follows =>
    outcome = "running" /\ ~trapped /\ got = SubSeq(values, 1, Len(wanted))

(* However short the buffer, serialize_int returns false and never gets as   *)
(* far as a trap of the reader, which would stop the program (Stream.h:10).  *)
ShortIntegersAreRefused ==
  flushed /\ trapped => wanted[Len(wanted)].kind = "bits"
=============================================================================
