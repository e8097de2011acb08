----------------------------- MODULE SequenceBuffer -----------------------------
(***************************************************************************)
(* CSequenceBuffer (Core/src/Util/SequenceBuffer.h): entries kept under     *)
(* their sequence numbers, in an array indexed by sequence % m_bufferSize.  *)
(* Insert takes the slot whatever is in it, and hands it out as it is: the  *)
(* caller fills the entry in through the pointer that Insert or Find        *)
(* returned.  No program calls it yet; each call is one step.               *)
(*                                                                         *)
(* m_sequence is left out: the constructor and Reset set it to 0, nothing   *)
(* else writes it and nothing reads it.                                     *)
(***************************************************************************)
EXTENDS SequenceNumbers

CONSTANTS
  Sizes,                  \* the sizes a buffer may be constructed with
  Entry,                  \* the values of T, whatever malloc leaves included
  EMPTY_SEQUENCE_ENTRY    \* 0xFFFFFFFF: a uint32_t, and no sequence number

ASSUME BufferAssumption ==
  /\ Sizes \subseteq Nat \ {0}
  /\ EMPTY_SEQUENCE_ENTRY \notin SeqNum

VARIABLES
  m_bufferSize,
  m_entrySequence,   \* for each slot the number of its entry, or that it is empty
  m_buffer           \* for each slot its entry

vars == <<m_bufferSize, m_entrySequence, m_buffer>>

Slot == 0 .. m_bufferSize - 1

\* malloc leaves the entries as they are, and Reset clears their numbers only.
Cleared == [i \in Slot |-> EMPTY_SEQUENCE_ENTRY]

Init ==
  /\ m_bufferSize \in Sizes
  /\ m_entrySequence = Cleared
  /\ m_buffer \in [Slot -> Entry]

-----------------------------------------------------------------------------
(* The queries. *)

GetIndex(sequence) == sequence % m_bufferSize

Exists_AnyEntry(sequence) ==
  m_entrySequence[GetIndex(sequence)] # EMPTY_SEQUENCE_ENTRY

Exists(sequence) == m_entrySequence[GetIndex(sequence)] = sequence

Available_ForeignEntry(sequence) == ~Exists(sequence)

Available(sequence) ==
  m_entrySequence[GetIndex(sequence)] = EMPTY_SEQUENCE_ENTRY

\* What the pointer returned for a number that exists points to.
Find(sequence) == m_buffer[GetIndex(sequence)]

-----------------------------------------------------------------------------
(* The operations. *)

Reset ==
  /\ m_entrySequence' = Cleared
  /\ UNCHANGED <<m_bufferSize, m_buffer>>

Insert_NextIndex(sequence) ==
  /\ m_entrySequence' =
       [m_entrySequence EXCEPT ![(sequence + 1) % m_bufferSize] = sequence]
  /\ UNCHANGED <<m_bufferSize, m_buffer>>

Insert(sequence) ==
  /\ m_entrySequence' = [m_entrySequence EXCEPT ![GetIndex(sequence)] = sequence]
  /\ UNCHANGED <<m_bufferSize, m_buffer>>

\* The caller, through the pointer it was given for a number that exists.
Fill(sequence, entry) ==
  /\ Exists(sequence)
  /\ m_buffer' = [m_buffer EXCEPT ![GetIndex(sequence)] = entry]
  /\ UNCHANGED <<m_bufferSize, m_entrySequence>>

\* Whatever number the slot holds.
Remove(sequence) ==
  /\ m_entrySequence' =
       [m_entrySequence EXCEPT ![GetIndex(sequence)] = EMPTY_SEQUENCE_ENTRY]
  /\ UNCHANGED <<m_bufferSize, m_buffer>>

Next ==
  \/ \E sequence \in SeqNum : Insert(sequence) \/ Remove(sequence)
  \/ \E sequence \in SeqNum, entry \in Entry : Fill(sequence, entry)
  \/ Reset

Spec == Init /\ [][Next]_vars

-----------------------------------------------------------------------------
(* Properties *)

(* Type correctness; a number is only ever in the slot of its index.         *)
TypeOK ==
  /\ m_bufferSize \in Sizes
  /\ m_entrySequence \in [Slot -> SeqNum \cup {EMPTY_SEQUENCE_ENTRY}]
  /\ m_buffer \in [Slot -> Entry]
  /\ \A i \in Slot :
       m_entrySequence[i] \in SeqNum => GetIndex(m_entrySequence[i]) = i

(* What is found under a number is what was filled in under it, never the    *)
(* entry of a number that shares its slot; and an operation on one number    *)
(* leaves every other within the size of it alone, however the numbers come  *)
(* and wrap.  What lies further away may be displaced, newer or not, and     *)
(* where the size does not divide the number space, so may the neighbours    *)
(* across the wrap-around.                                                   *)
Window == INSTANCE SlidingWindow WITH
  size <- m_bufferSize,
  entries <- [s \in {t \in SeqNum : Exists(t)} |-> Find(s)]

ImplementsWindow == Window!Spec

(* A caller that inserts only what Available allows never loses an entry: a  *)
(* slot that another number holds is not available.                          *)
AvailableIsSafe ==
  [][\A s \in SeqNum : Available(s) /\ Insert(s) =>
       \A t \in SeqNum : Exists(t) => Exists(t)' /\ Find(t)' = Find(t)]_vars
=============================================================================
