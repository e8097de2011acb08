------------------------------- MODULE MCStreams -------------------------------
(* A small instance of Streams for TLC: words of four bits in bytes of two,  *)
(* so that an int32_t lies between -8 and 7.                                 *)
EXTENDS Streams

\* An uninitialized word: all bits clear or all bits set, so that every bit
\* that shows through is seen in one of them.
Uniform == {[j \in Offset |-> b] : b \in Bit}

IntRange(min, max) == [kind |-> "int", min |-> min, max |-> max]

\* The full range, a range around zero that leaves codes unused, one at the
\* upper end of the type, and bits.
Fields4 == {IntRange(-8, 7), IntRange(-2, 3), IntRange(3, 7), [kind |-> "bits", bits |-> 2]}
=============================================================================
