----------------------------- MODULE SlidingWindow -----------------------------
(***************************************************************************)
(* What a sequence buffer promises: a map from sequence numbers to entries  *)
(* that may forget, but never a number close to the one it is asked to      *)
(* insert or to remove.                                                     *)
(***************************************************************************)
EXTENDS SequenceNumbers

CONSTANTS
  Sizes,    \* the sizes a window may have
  Entry     \* the entries

VARIABLES
  size,     \* the size of the window
  entries   \* a function from the numbers it remembers

Init ==
  /\ size \in Sizes
  /\ entries = <<>>

\* Whether two numbers are less than the size apart; across the wrap-around
\* this only counts when the size divides the number space.
Close(s, t) ==
  LET apart == IF s < t THEN t - s ELSE s - t
  IN  \/ apart < size
      \/ SEQ_MOD % size = 0 /\ SEQ_MOD - apart < size

\* The map without the numbers of gone.
Without(gone) == [t \in DOMAIN entries \ gone |-> entries[t]]

\* What an operation on the number s may forget besides.
Forgettable(s) == {t \in DOMAIN entries \ {s} : ~Close(s, t)}

\* The entry of a number just inserted is anything, until it is filled in.
Insert(s) ==
  \E gone \in SUBSET Forgettable(s) : \E e \in Entry :
    entries' = [t \in (DOMAIN entries \ gone) \cup {s} |->
                  IF t = s THEN e ELSE entries[t]]

Fill(s, e) ==
  /\ s \in DOMAIN entries
  /\ entries' = [entries EXCEPT ![s] = e]

Remove(s) ==
  \E gone \in SUBSET Forgettable(s) : entries' = Without(gone \cup {s})

Reset == entries' = <<>>

Next ==
  /\ \/ \E s \in SeqNum : Insert(s) \/ Remove(s)
     \/ \E s \in SeqNum, e \in Entry : Fill(s, e)
     \/ Reset
  /\ UNCHANGED size

Spec == Init /\ [][Next]_<<size, entries>>
=============================================================================
