------------------------------- MODULE BitQueue -------------------------------
(***************************************************************************)
(* What the bit packer promises its callers: bits come out in the order in  *)
(* which they went in, in whatever portions they are put and asked for.     *)
(* Nothing is promised about bits that were never put.                      *)
(***************************************************************************)
EXTENDS Integers, Sequences

CONSTANT MaxBits    \* the most bits that one operation moves

VARIABLES
  queue,    \* the bits put and not yet got
  result    \* what the last Get returned

Bits(n) == [1 .. n -> {0, 1}]

Init ==
  /\ queue = <<>>
  /\ result = <<>>

Put(bits) ==
  /\ queue' = queue \o bits
  /\ UNCHANGED result

Get(n) ==
  /\ result' \in Bits(n)
  /\ \A i \in 1 .. n : i <= Len(queue) => result'[i] = queue[i]
  /\ queue' = SubSeq(queue, n + 1, Len(queue))

Next ==
  \E n \in 1 .. MaxBits :
    \/ \E bits \in Bits(n) : Put(bits)
    \/ Get(n)

Spec == Init /\ [][Next]_<<queue, result>>
=============================================================================
