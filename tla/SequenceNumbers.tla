--------------------------- MODULE SequenceNumbers ---------------------------
(***************************************************************************)
(* Packet sequence numbers of CConnection (Core/src/Connection.h): unsigned *)
(* integers that wrap, compared with SequenceGreaterThan.  In the code     *)
(* SEQ_MOD is 2^16 (uint16_t) and UINT16_HALF is 32768.                    *)
(*                                                                         *)
(* Here and in the other modules, Name_Variant is a plausible wrong version *)
(* of the definition Name that follows it.  No specification uses one: with *)
(* Name so replaced, TLC finds a property violated, which shows that the    *)
(* property depends on what Name says.                                      *)
(***************************************************************************)
EXTENDS Integers

CONSTANTS SEQ_MOD,      \* the number of values of the sequence number type
          UINT16_HALF   \* the literal of Connection.h:15

ASSUME SequenceAssumption ==
  /\ UINT16_HALF \in Nat \ {0}
  /\ SEQ_MOD = 2 * UINT16_HALF

SeqNum == 0 .. SEQ_MOD - 1

\* Unsigned addition and subtraction of the type.
SeqAdd(s, k) == (s + k) % SEQ_MOD
SeqSub(s, k) == (s - k) % SEQ_MOD

\* "s1 is more recent than s2", with wrap-around.
SequenceGreaterThan_Plain(s1, s2) == s1 > s2

SequenceGreaterThan(s1, s2) ==
  \/ s1 > s2 /\ s1 - s2 <= UINT16_HALF
  \/ s1 < s2 /\ s2 - s1 > UINT16_HALF
=============================================================================
