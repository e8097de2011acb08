-------------------------- MODULE SequenceBufferProofs --------------------------
(***************************************************************************)
(* CSequenceBuffer keeps what SlidingWindow promises, for every size of the *)
(* buffer and of the number space.  The one arithmetic fact is that two     *)
(* numbers that share a slot are not close; the rest is about functions.    *)
(***************************************************************************)
EXTENDS SequenceBuffer, TLAPS

(* What the divisions of the code are: quotient and remainder.               *)
LEMMA Remainder ==
  ASSUME NEW n \in Nat, NEW k \in Nat \ {0}
  PROVE  /\ n % k \in 0 .. k - 1
         /\ n \div k \in Nat
         /\ n = k * (n \div k) + (n % k)
  OBVIOUS

(* Products of naturals by a positive factor are apart by at least it.       *)
LEMMA Multiples ==
  ASSUME NEW k \in Nat \ {0}, NEW p \in Nat, NEW q \in Nat, p > q
  PROVE  k * p >= k * q + k
<1>1. PICK c \in Nat : p = q + 1 + c
  <2> WITNESS p - q - 1 \in Nat
  <2> QED OBVIOUS
<1>2. k * p = k * q + k + k * c
  BY <1>1
<1>3. k * c >= 0
  OBVIOUS
<1> QED
  BY <1>2, <1>3

(* Different numbers with the same remainder are at least a divisor apart.   *)
LEMMA SharedRemainder ==
  ASSUME NEW k \in Nat \ {0}, NEW m \in Nat, NEW n \in Nat,
         n > m, n % k = m % k
  PROVE  n - m >= k
<1> DEFINE p == n \div k
           q == m \div k
           r == m % k
<1>1. p \in Nat /\ q \in Nat /\ r \in 0 .. k - 1 /\ n = k * p + r /\ m = k * q + r
  BY Remainder
<1> HIDE DEF p, q, r
<1>2. k * p \in Nat /\ k * q \in Nat
  BY <1>1
<1>3. ~(p <= q)
  <2> SUFFICES ASSUME p <= q PROVE FALSE
    OBVIOUS
  <2>1. CASE p = q
    BY <2>1, <1>1, <1>2
  <2>2. CASE q > p
    BY <2>2, <1>1, <1>2, Multiples
  <2> QED
    BY <2>1, <2>2, <1>1
<1>4. k * p >= k * q + k
  BY <1>1, <1>3, Multiples
<1> QED
  BY <1>1, <1>2, <1>4

(* ... and the same holds round the other way, when the divisor divides the  *)
(* whole number space.                                                       *)
LEMMA SharedRemainderAround ==
  ASSUME NEW k \in Nat \ {0}, NEW m \in SeqNum, NEW n \in SeqNum,
         n > m, n % k = m % k, SEQ_MOD % k = 0
  PROVE  SEQ_MOD - (n - m) >= k
<1>0. SEQ_MOD \in Nat \ {0} /\ m \in Nat /\ n \in Nat
  BY SequenceAssumption DEF SeqNum
<1> DEFINE p == n \div k
           q == m \div k
           r == m % k
           z == SEQ_MOD \div k
<1>1. p \in Nat /\ q \in Nat /\ r \in 0 .. k - 1 /\ n = k * p + r /\ m = k * q + r
  BY Remainder, <1>0
<1>2. z \in Nat /\ SEQ_MOD = k * z
  <2>1. z \in Nat /\ SEQ_MOD = k * z + (SEQ_MOD % k)
    BY Remainder, <1>0
  <2> HIDE DEF z
  <2>2. k * z \in Nat
    BY <2>1
  <2> QED
    BY <2>1, <2>2
<1> HIDE DEF p, q, r, z
<1>3. k * p \in Nat /\ k * q \in Nat /\ k * z \in Nat /\ k * (z + q) = k * z + k * q
  BY <1>1, <1>2
<1>4. k * p < k * z + k * q
  BY <1>0, <1>1, <1>2, <1>3 DEF SeqNum
<1>5. ~(p >= z + q)
  <2> SUFFICES ASSUME p >= z + q PROVE FALSE
    OBVIOUS
  <2>1. CASE p = z + q
    BY <2>1, <1>3, <1>4
  <2>2. CASE p > z + q
    <3>1. k * p >= k * (z + q) + k
      BY <2>2, <1>1, <1>2, Multiples
    <3> QED
      BY <3>1, <1>3, <1>4
  <2> QED
    BY <2>1, <2>2, <1>1, <1>2
<1>6. k * (z + q) >= k * p + k
  BY <1>1, <1>2, <1>5, Multiples
<1> QED
  BY <1>0, <1>1, <1>2, <1>3, <1>6

-----------------------------------------------------------------------------
(* The state. *)

(* Every number has a slot.                                                  *)
LEMMA IndexTyped ==
  ASSUME m_bufferSize \in Sizes, NEW s \in SeqNum
  PROVE  GetIndex(s) \in Slot
<1>1. m_bufferSize \in Nat \ {0} /\ s \in Nat
  BY BufferAssumption, SequenceAssumption DEF SeqNum
<1> QED
  BY <1>1, Remainder DEF GetIndex, Slot

(* Two numbers that share a slot are not close (SequenceBuffer.h:76).        *)
LEMMA SharedSlotsAreApart ==
  ASSUME m_bufferSize \in Sizes, NEW s \in SeqNum, NEW t \in SeqNum,
         s # t, GetIndex(s) = GetIndex(t)
  PROVE  ~Window!Close(s, t)
<1>1. m_bufferSize \in Nat \ {0}
  BY BufferAssumption
<1>2. s \in Nat /\ t \in Nat /\ SEQ_MOD \in Nat \ {0}
  BY SequenceAssumption DEF SeqNum
<1>3. CASE s < t
  <2>1. t - s >= m_bufferSize
    BY <1>1, <1>2, <1>3, SharedRemainder DEF GetIndex
  <2>2. SEQ_MOD % m_bufferSize = 0 => SEQ_MOD - (t - s) >= m_bufferSize
    BY <1>1, <1>2, <1>3, SharedRemainderAround DEF GetIndex
  <2> QED
    BY <1>1, <1>2, <1>3, <2>1, <2>2 DEF Window!Close
<1>4. CASE t < s
  <2>1. s - t >= m_bufferSize
    BY <1>1, <1>2, <1>4, SharedRemainder DEF GetIndex
  <2>2. SEQ_MOD % m_bufferSize = 0 => SEQ_MOD - (s - t) >= m_bufferSize
    BY <1>1, <1>2, <1>4, SharedRemainderAround DEF GetIndex
  <2> QED
    BY <1>1, <1>2, <1>4, <2>1, <2>2 DEF Window!Close
<1> QED
  BY <1>2, <1>3, <1>4

(* The two types of values that a slot number can have do not meet.          *)
LEMMA EmptyIsNoNumber == \A s \in SeqNum : s # EMPTY_SEQUENCE_ENTRY
  BY BufferAssumption

(* Type correctness.                                                         *)
LEMMA InitTyped == Init => TypeOK
<1> SUFFICES ASSUME Init PROVE TypeOK
  OBVIOUS
<1> QED
  BY EmptyIsNoNumber DEF Init, TypeOK, Cleared, Slot, GetIndex

LEMMA NextTyped == TypeOK /\ [Next]_vars => TypeOK'
<1> SUFFICES ASSUME TypeOK, [Next]_vars PROVE TypeOK'
  OBVIOUS
<1> USE DEF TypeOK, Slot, GetIndex
<1>1. ASSUME NEW s \in SeqNum, Insert(s) PROVE TypeOK'
  <2>1. GetIndex(s) \in Slot
    BY IndexTyped
  <2> QED
    BY <1>1, <2>1, EmptyIsNoNumber DEF Insert
<1>2. ASSUME NEW s \in SeqNum, Remove(s) PROVE TypeOK'
  <2>1. GetIndex(s) \in Slot
    BY IndexTyped
  <2> QED
    BY <1>2, <2>1, EmptyIsNoNumber DEF Remove
<1>3. ASSUME NEW s \in SeqNum, NEW e \in Entry, Fill(s, e) PROVE TypeOK'
  <2>1. GetIndex(s) \in Slot
    BY IndexTyped
  <2> QED
    BY <1>3, <2>1 DEF Fill
<1>4. CASE Reset
  BY <1>4, EmptyIsNoNumber DEF Reset, Cleared
<1>5. CASE UNCHANGED vars
  BY <1>5 DEF vars
<1> QED
  BY <1>1, <1>2, <1>3, <1>4, <1>5 DEF Next

(* Type correctness of CSequenceBuffer; a number is only ever in its slot.   *)
THEOREM TypeCorrect == Spec => []TypeOK
<1> QED
  BY InitTyped, NextTyped, PTL DEF Spec

-----------------------------------------------------------------------------
(* The refinement. *)

\* The numbers that exist, and the map they make.
Numbers == {t \in SeqNum : Exists(t)}
Map == [s \in Numbers |-> Find(s)]

(* What an operation on the slot of one number leaves of the others.         *)
LEMMA OthersStay ==
  ASSUME TypeOK, NEW s \in SeqNum, m_bufferSize' = m_bufferSize,
         NEW v,
         m_entrySequence' = [m_entrySequence EXCEPT ![GetIndex(s)] = v]
  PROVE  \A t \in SeqNum : Exists(t)' <=>
           IF GetIndex(t) = GetIndex(s) THEN t = v ELSE Exists(t)
<1>1. \A t \in SeqNum : GetIndex(t) \in Slot /\ GetIndex(t)' = GetIndex(t)
  BY IndexTyped DEF TypeOK, GetIndex
<1> QED
  BY <1>1 DEF TypeOK, Exists

LEMMA InsertStep ==
  ASSUME TypeOK, NEW s \in SeqNum, Insert(s)
  PROVE  Window!Insert(s)
<1> DEFINE gone == {t \in Numbers : t # s /\ GetIndex(t) = GetIndex(s)}
<1>1. m_bufferSize' = m_bufferSize /\ m_buffer' = m_buffer
  BY DEF Insert
<1>2. \A t \in SeqNum : Exists(t)' <=>
        IF GetIndex(t) = GetIndex(s) THEN t = s ELSE Exists(t)
  BY <1>1, OthersStay DEF Insert
<1>3. Numbers' = (Numbers \ gone) \cup {s}
  BY <1>2 DEF Numbers
<1>4. gone \in SUBSET {t \in Numbers \ {s} : ~Window!Close(s, t)}
  <2>1. \A t \in gone : ~Window!Close(s, t)
    BY SharedSlotsAreApart DEF TypeOK, Numbers
  <2> QED
    BY <2>1
<1>5. \A t \in SeqNum : Find(t)' = Find(t)
  BY <1>1 DEF Find, GetIndex
<1>6. Find(s) \in Entry
  BY IndexTyped DEF Find, TypeOK
<1>7. Map' = [t \in (Numbers \ gone) \cup {s} |->
                IF t = s THEN Find(s) ELSE Map[t]]
  <2> HIDE DEF gone
  <2>1. Map' = [t \in (Numbers \ gone) \cup {s} |-> Find(t)']
    BY <1>3 DEF Map
  <2>2. \A t \in (Numbers \ gone) \cup {s} :
          Find(t)' = IF t = s THEN Find(s) ELSE Map[t]
    BY <1>5 DEF Map, Numbers
  <2> QED
    BY <2>1, <2>2
<1>8. DOMAIN Map = Numbers
  BY DEF Map
<1> HIDE DEF gone
<1> QED
  BY <1>4, <1>6, <1>7, <1>8 DEF Window!Insert, Window!Forgettable, Map, Numbers
LEMMA RemoveStep ==
  ASSUME TypeOK, NEW s \in SeqNum, Remove(s)
  PROVE  Window!Remove(s)
<1> DEFINE gone == {t \in Numbers : t # s /\ GetIndex(t) = GetIndex(s)}
<1>1. m_bufferSize' = m_bufferSize /\ m_buffer' = m_buffer
  BY DEF Remove
<1>2. \A t \in SeqNum : Exists(t)' <=> GetIndex(t) # GetIndex(s) /\ Exists(t)
  BY <1>1, OthersStay, EmptyIsNoNumber DEF Remove
<1>3. Numbers' = Numbers \ (gone \cup {s})
  BY <1>2 DEF Numbers
<1>4. gone \in SUBSET {t \in Numbers \ {s} : ~Window!Close(s, t)}
  <2>1. \A t \in gone : ~Window!Close(s, t)
    BY SharedSlotsAreApart DEF TypeOK, Numbers
  <2> QED
    BY <2>1
<1>5. \A t \in SeqNum : Find(t)' = Find(t)
  BY <1>1 DEF Find, GetIndex
<1>6. Map' = [t \in Numbers \ (gone \cup {s}) |-> Map[t]]
  <2> HIDE DEF gone
  <2>1. Map' = [t \in Numbers \ (gone \cup {s}) |-> Find(t)']
    BY <1>3 DEF Map
  <2>2. \A t \in Numbers \ (gone \cup {s}) : Find(t)' = Map[t]
    BY <1>5 DEF Map, Numbers
  <2> QED
    BY <2>1, <2>2
<1>7. DOMAIN Map = Numbers
  BY DEF Map
<1> HIDE DEF gone
<1> QED
  BY <1>4, <1>6, <1>7
  DEF Window!Remove, Window!Without, Window!Forgettable, Map, Numbers

LEMMA FillStep ==
  ASSUME TypeOK, NEW s \in SeqNum, NEW e \in Entry, Fill(s, e)
  PROVE  Window!Fill(s, e)
<1>1. m_bufferSize' = m_bufferSize /\ m_entrySequence' = m_entrySequence
  BY DEF Fill
<1>2. Numbers' = Numbers
  BY <1>1 DEF Numbers, Exists, GetIndex
<1>3. s \in Numbers
  BY DEF Fill, Numbers
<1>4. \A t \in Numbers : Find(t)' = IF t = s THEN e ELSE Find(t)
  <2> SUFFICES ASSUME NEW t \in Numbers
               PROVE  Find(t)' = IF t = s THEN e ELSE Find(t)
    OBVIOUS
  <2>1. GetIndex(t) \in Slot /\ GetIndex(s) \in Slot /\ GetIndex(t)' = GetIndex(t)
    BY <1>1, IndexTyped DEF TypeOK, Numbers, GetIndex
  <2>2. GetIndex(t) = GetIndex(s) => t = s
    BY <1>3 DEF Numbers, Exists
  <2> QED
    BY <2>1, <2>2 DEF Fill, Find, TypeOK
<1>5. Map' = [Map EXCEPT ![s] = e]
  BY <1>2, <1>3, <1>4 DEF Map
<1> QED
  BY <1>3, <1>5 DEF Window!Fill, Map, Numbers

LEMMA NothingExists ==
  ASSUME m_bufferSize \in Sizes, m_entrySequence = Cleared
  PROVE  Numbers = {}
  BY IndexTyped, EmptyIsNoNumber DEF Numbers, Exists, Cleared

LEMMA ResetStep ==
  ASSUME TypeOK, Reset
  PROVE  Window!Reset
<1>1. Numbers' = {}
  <2>1. m_bufferSize' = m_bufferSize /\ m_entrySequence' = Cleared
    BY DEF Reset
  <2>2. \A t \in SeqNum : ~Exists(t)'
    BY <2>1, IndexTyped, EmptyIsNoNumber DEF TypeOK, Exists, GetIndex, Cleared
  <2> QED
    BY <2>2 DEF Numbers
<1>2. Map' = <<>>
  BY <1>1 DEF Map
<1> QED
  BY <1>2 DEF Window!Reset, Map, Numbers

(* A sequence buffer keeps every entry under its own number, and forgets     *)
(* only numbers that are not close to the one it inserts or removes.         *)
THEOREM BufferImplementsWindow == Spec => ImplementsWindow
<1>1. Init => Window!Init
  <2> SUFFICES ASSUME Init PROVE Window!Init
    OBVIOUS
  <2>1. m_bufferSize \in Sizes /\ Numbers = {}
    BY NothingExists DEF Init
  <2>2. Map = <<>>
    BY <2>1 DEF Map
  <2> QED
    BY <2>1, <2>2 DEF Window!Init, Map, Numbers
<1>2. TypeOK /\ [Next]_vars =>
        [Window!Next]_<<m_bufferSize, [s \in {t \in SeqNum : Exists(t)} |-> Find(s)]>>
  <2> SUFFICES ASSUME TypeOK, [Next]_vars
               PROVE  [Window!Next]_<<m_bufferSize, Map>>
    BY DEF Map, Numbers
  <2>1. CASE Next
    <3>1. m_bufferSize' = m_bufferSize
      BY <2>1 DEF Next, Insert, Remove, Fill, Reset
    <3>2. ASSUME NEW s \in SeqNum, Insert(s) PROVE Window!Insert(s)
      BY <3>2, InsertStep
    <3>3. ASSUME NEW s \in SeqNum, Remove(s) PROVE Window!Remove(s)
      BY <3>3, RemoveStep
    <3>4. ASSUME NEW s \in SeqNum, NEW e \in Entry, Fill(s, e)
          PROVE  Window!Fill(s, e)
      BY <3>4, FillStep
    <3>5. Reset => Window!Reset
      BY ResetStep
    <3> QED
      BY <2>1, <3>1, <3>2, <3>3, <3>4, <3>5
      DEF Next, Window!Next, SeqNum, Window!SeqNum
  <2>2. CASE UNCHANGED vars
    BY <2>2 DEF vars, Map, Numbers, Exists, Find, GetIndex
  <2> QED
    BY <2>1, <2>2
<1> QED
  BY <1>1, <1>2, TypeCorrect, PTL DEF Spec, ImplementsWindow, Window!Spec

(* What Available allows displaces nothing.                                  *)
THEOREM AvailableNeverDisplaces == Spec => AvailableIsSafe
<1> DEFINE Safe == \A s \in SeqNum : Available(s) /\ Insert(s) =>
                     \A t \in SeqNum : Exists(t) => Exists(t)' /\ Find(t)' = Find(t)
<1>1. TypeOK => Safe
  <2> SUFFICES ASSUME TypeOK, NEW s \in SeqNum, Available(s), Insert(s),
                      NEW t \in SeqNum, Exists(t)
               PROVE  Exists(t)' /\ Find(t)' = Find(t)
    OBVIOUS
  <2>1. GetIndex(t) # GetIndex(s)
    BY EmptyIsNoNumber DEF Available, Exists
  <2>2. m_bufferSize' = m_bufferSize /\ m_buffer' = m_buffer
    BY DEF Insert
  <2>3. Exists(t)'
    BY <2>1, <2>2, OthersStay DEF Insert
  <2> QED
    BY <2>2, <2>3 DEF Find, GetIndex
<1> HIDE DEF Safe
<1>2. Spec => [][Safe]_vars
  BY <1>1, TypeCorrect, PTL DEF Spec
<1> QED
  BY <1>2 DEF Safe, AvailableIsSafe
=============================================================================
