------------------------------ MODULE MCSelfTest ------------------------------
(* SelfTest for TLC with an int of four bits and a buffer of four words, as *)
(* in the code: type and message fill one word and part of the next.       *)
EXTENDS SelfTest

\* An uninitialized word: all bits clear or all bits set.
Uniform == {[j \in Offset |-> b] : b \in Bit}

FieldsSent == {TypeField, MessageField}
=============================================================================
