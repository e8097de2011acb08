---------------------------- MODULE OperatorProofs ----------------------------
(***************************************************************************)
(* What the operators that the models share return: the comparison of       *)
(* sequence numbers, for every even size of the number type, and the        *)
(* smoothing, back-off and flow state of FlowControl, for every value of    *)
(* the thresholds.  The proofs about FlowMonitor, Connection and Session    *)
(* rest on these lemmas.                                                    *)
(***************************************************************************)
EXTENDS SequenceNumbers, FlowControl, WellFoundedInduction, TLAPS

-----------------------------------------------------------------------------
(* Products and quotients of naturals. *)

(* Multiplying by the same natural keeps the order.                          *)
LEMMA ProductMonotone ==
  ASSUME NEW d \in Nat, NEW x \in Nat, NEW y \in Nat, x <= y
  PROVE  /\ d * x \in Nat /\ d * y \in Nat
         /\ d * x <= d * y
         /\ x < y => d * x + d <= d * y
<1>1. PICK c \in Nat : y = x + c
  <2> WITNESS y - x \in Nat
  <2> QED OBVIOUS
<1>2. d * y = d * x + d * c /\ d * c \in Nat /\ d * x \in Nat
  BY <1>1
<1>3. x < y => d * c >= d
  <2> HAVE x < y
  <2>1. PICK b \in Nat : c = b + 1
    <3>1. c - 1 \in Nat /\ c = (c - 1) + 1
      BY <1>1
    <3> QED
      BY <3>1
  <2>2. d * c = d * b + d /\ d * b \in Nat
    BY <2>1
  <2> QED
    BY <2>2
<1> QED
  BY <1>2, <1>3

\* The quotient of a number between two multiples of d.
LEMMA QuotientBetween ==
  ASSUME NEW d \in Nat \ {0}, NEW x \in Nat, NEW lo \in Nat, NEW hi \in Nat,
         d * lo <= x, x < d * hi + d
  PROVE  x \div d \in lo .. hi
<1> DEFINE y == x \div d
<1>1. y \in Nat /\ d * y <= x /\ x < d * y + d
  OBVIOUS
<1> HIDE DEF y
<1>2. d * lo \in Nat /\ d * hi \in Nat /\ d * y \in Nat
  BY <1>1
<1>3. ~(y < lo)
  BY <1>1, <1>2, ProductMonotone
<1>4. ~(hi < y)
  BY <1>1, <1>2, ProductMonotone
<1> QED
  BY <1>1, <1>3, <1>4 DEF y

(* A set of naturals has a least element.                                    *)
LEMMA LeastNatural ==
  ASSUME NEW T, T \subseteq Nat, T # {}
  PROVE  \E x \in T : \A y \in T : x <= y
<1> DEFINE R == {ss \in Nat \X Nat : ss[1] < ss[2]}
<1>1. IsWellFoundedOn(R, Nat)
  BY NatLessThanWellFounded, Zenon DEF OpToRel
<1> HIDE DEF R
<1>2. \E x \in T : \A y \in T : <<y, x>> \notin R
  BY <1>1, WFMin, Zenon
<1>3. \A x, y \in Nat : <<y, x>> \notin R => x <= y
  BY DEF R
<1> QED
  BY <1>2, <1>3

-----------------------------------------------------------------------------
(* Sequence numbers. *)

(* A natural number is a multiple of SEQ_MOD plus its sequence number.      *)
LEMMA Decomposition ==
  ASSUME NEW n \in Nat
  PROVE  /\ n % SEQ_MOD \in SeqNum
         /\ n \div SEQ_MOD \in Nat
         /\ n = SEQ_MOD * (n \div SEQ_MOD) + (n % SEQ_MOD)
  BY SequenceAssumption DEF SeqNum

(* A number below SEQ_MOD is its own sequence number.                       *)
LEMMA SmallIsItself ==
  ASSUME NEW n \in SeqNum
  PROVE  n % SEQ_MOD = n
  BY SequenceAssumption DEF SeqNum

(* Unsigned addition and subtraction stay in the type.                      *)
LEMMA SeqOpsTyped ==
  ASSUME NEW s \in Int, NEW k \in Int
  PROVE  SeqAdd(s, k) \in SeqNum /\ SeqSub(s, k) \in SeqNum
  BY SequenceAssumption DEF SeqNum, SeqAdd, SeqSub

(* Where unsigned addition of one and subtraction wrap.                      *)
LEMMA WrapPoints ==
  ASSUME NEW r \in SeqNum, NEW k \in SeqNum
  PROVE  /\ SeqAdd(r, 1) = IF r + 1 = SEQ_MOD THEN 0 ELSE r + 1
         /\ SeqSub(r, k) = IF r - k < 0 THEN r - k + SEQ_MOD ELSE r - k
  BY SequenceAssumption DEF SeqNum, SeqAdd, SeqSub

(* Quotients of naturals less than SEQ_MOD apart differ by at most one.     *)
LEMMA CloseQuotients ==
  ASSUME NEW q \in Nat, NEW p \in Nat, NEW r \in SeqNum, NEW s \in SeqNum,
         (SEQ_MOD * q + r) - (SEQ_MOD * p + s) < SEQ_MOD,
         (SEQ_MOD * p + s) - (SEQ_MOD * q + r) < SEQ_MOD
  PROVE  q = p \/ q = p + 1 \/ p = q + 1
<1>1. SEQ_MOD \in Nat \ {0}
  BY SequenceAssumption
<1>2. \A a, b \in Nat : a >= b + 2 => SEQ_MOD * a >= SEQ_MOD * b + 2 * SEQ_MOD
  <2> TAKE a, b \in Nat
  <2> HAVE a >= b + 2
  <2>1. PICK c \in Nat : a = b + 2 + c
    <3> WITNESS a - b - 2 \in Nat
    <3> QED OBVIOUS
  <2>2. SEQ_MOD * a = SEQ_MOD * b + 2 * SEQ_MOD + SEQ_MOD * c
    BY <1>1, <2>1
  <2>3. SEQ_MOD * c >= 0
    BY <1>1
  <2> QED
    BY <1>1, <2>2, <2>3
<1>3. SEQ_MOD * q \in Nat /\ SEQ_MOD * p \in Nat
  BY <1>1
<1>4. ~(q >= p + 2)
  BY <1>1, <1>2, <1>3 DEF SeqNum
<1>5. ~(p >= q + 2)
  BY <1>1, <1>2, <1>3 DEF SeqNum
<1> QED
  BY <1>4, <1>5

(* Two naturals less than SEQ_MOD apart with one sequence number are equal. *)
LEMMA CloseAndEqualIds ==
  ASSUME NEW n \in Nat, NEW m \in Nat,
         n - m < SEQ_MOD, m - n < SEQ_MOD, n % SEQ_MOD = m % SEQ_MOD
  PROVE  n = m
<1> DEFINE q == n \div SEQ_MOD
           p == m \div SEQ_MOD
           r == n % SEQ_MOD
<1>1. SEQ_MOD \in Nat \ {0}
  BY SequenceAssumption
<1>2. q \in Nat /\ p \in Nat /\ r \in SeqNum
      /\ n = SEQ_MOD * q + r /\ m = SEQ_MOD * p + r
  BY Decomposition
<1> HIDE DEF q, p, r
<1>3. q = p \/ q = p + 1 \/ p = q + 1
  BY <1>2, CloseQuotients
<1>4. \A a \in Nat : SEQ_MOD * (a + 1) = SEQ_MOD * a + SEQ_MOD
  BY <1>1
<1> QED
  BY <1>1, <1>2, <1>3, <1>4 DEF SeqNum

(* The number after one that wraps: id arithmetic follows the ordinals.     *)
LEMMA NextSequenceNumber ==
  ASSUME NEW n \in Nat
  PROVE  SeqAdd(n % SEQ_MOD, 1) = (n + 1) % SEQ_MOD
<1> DEFINE q == n \div SEQ_MOD
           r == n % SEQ_MOD
           u == (n + 1) \div SEQ_MOD
           v == (n + 1) % SEQ_MOD
<1>1. SEQ_MOD \in Nat \ {0}
  BY SequenceAssumption
<1>2. q \in Nat /\ r \in SeqNum /\ n = SEQ_MOD * q + r
  BY Decomposition
<1>3. u \in Nat /\ v \in SeqNum /\ n + 1 = SEQ_MOD * u + v
  BY Decomposition
<1>4. SeqAdd(r, 1) = IF r + 1 = SEQ_MOD THEN 0 ELSE r + 1
  BY <1>2, WrapPoints
<1> HIDE DEF q, r, u, v
<1>5. SEQ_MOD >= 2
  BY SequenceAssumption
<1>6. u = q \/ u = q + 1 \/ q = u + 1
  BY <1>1, <1>2, <1>3, <1>5, CloseQuotients
<1>7. \A a \in Nat : SEQ_MOD * (a + 1) = SEQ_MOD * a + SEQ_MOD
  BY <1>1
<1>8. SEQ_MOD * q \in Nat
  BY <1>1, <1>2
<1>9. v = IF r + 1 = SEQ_MOD THEN 0 ELSE r + 1
  BY <1>1, <1>2, <1>3, <1>6, <1>7, <1>8 DEF SeqNum
<1> QED
  BY <1>4, <1>9 DEF r, v

(* The number k behind: as long as it is not behind the beginning.           *)
LEMMA EarlierSequenceNumber ==
  ASSUME NEW n \in Nat, NEW k \in Nat, k <= n, k < SEQ_MOD
  PROVE  SeqSub(n % SEQ_MOD, k) = (n - k) % SEQ_MOD
<1> DEFINE q == n \div SEQ_MOD
           r == n % SEQ_MOD
           u == (n - k) \div SEQ_MOD
           v == (n - k) % SEQ_MOD
<1>1. SEQ_MOD \in Nat \ {0}
  BY SequenceAssumption
<1>2. q \in Nat /\ r \in SeqNum /\ n = SEQ_MOD * q + r
  BY Decomposition
<1>3. u \in Nat /\ v \in SeqNum /\ n - k = SEQ_MOD * u + v
  BY Decomposition
<1>0. k \in SeqNum
  BY <1>1 DEF SeqNum
<1>4. SeqSub(r, k) = IF r - k < 0 THEN r - k + SEQ_MOD ELSE r - k
  BY <1>2, <1>0, WrapPoints
<1> HIDE DEF q, r, u, v
<1>5. u = q \/ u = q + 1 \/ q = u + 1
  BY <1>1, <1>2, <1>3, CloseQuotients
<1>6. \A a \in Nat : SEQ_MOD * (a + 1) = SEQ_MOD * a + SEQ_MOD
  BY <1>1
<1>7. SEQ_MOD * q \in Nat
  BY <1>1, <1>2
<1>8. v = IF r - k < 0 THEN r - k + SEQ_MOD ELSE r - k
  BY <1>1, <1>2, <1>3, <1>5, <1>6, <1>7 DEF SeqNum
<1> QED
  BY <1>4, <1>8 DEF r, v

(* SequenceGreaterThan is a tournament: of two different sequence numbers,  *)
(* exactly one is the more recent, also when they are half the number space *)
(* apart; no number is more recent than itself.                             *)
THEOREM GreaterThanDecides ==
  ASSUME NEW s \in SeqNum, NEW t \in SeqNum
  PROVE  /\ s # t => (SequenceGreaterThan(s, t) <=> ~SequenceGreaterThan(t, s))
         /\ ~SequenceGreaterThan(s, s)
  BY SequenceAssumption DEF SeqNum, SequenceGreaterThan

(* While two packets are less than half the number space apart,             *)
(* SequenceGreaterThan compares their ids as the order of sending does,     *)
(* whatever wrapped in between.                                             *)
THEOREM GreaterThanIsLaterSent ==
  ASSUME NEW n \in Nat, NEW m \in Nat,
         n - m < UINT16_HALF, m - n < UINT16_HALF
  PROVE  SequenceGreaterThan(n % SEQ_MOD, m % SEQ_MOD) <=> n > m
<1> DEFINE q == n \div SEQ_MOD
           p == m \div SEQ_MOD
           r == n % SEQ_MOD
           s == m % SEQ_MOD
<1>1. /\ SEQ_MOD \in Nat \ {0} /\ UINT16_HALF \in Nat \ {0}
      /\ SEQ_MOD = UINT16_HALF + UINT16_HALF
  BY SequenceAssumption
<1>2. /\ q \in Nat /\ r \in SeqNum /\ n = SEQ_MOD * q + r
      /\ p \in Nat /\ s \in SeqNum /\ m = SEQ_MOD * p + s
  BY Decomposition
<1>3. SequenceGreaterThan(r, s) <=> \/ r > s /\ r - s <= UINT16_HALF
                                    \/ r < s /\ s - r > UINT16_HALF
  BY DEF SequenceGreaterThan
<1> HIDE DEF q, p, r, s
<1>4. q = p \/ q = p + 1 \/ p = q + 1
  BY <1>1, <1>2, CloseQuotients
<1>5. \A a \in Nat : SEQ_MOD * (a + 1) = SEQ_MOD * a + SEQ_MOD
  BY <1>1
<1>6. SEQ_MOD * q \in Nat /\ SEQ_MOD * p \in Nat
  BY <1>1, <1>2
<1>7. (\/ r > s /\ r - s <= UINT16_HALF
       \/ r < s /\ s - r > UINT16_HALF) <=> n > m
  <2>1. CASE q = p
    BY <1>1, <1>2, <1>6, <2>1 DEF SeqNum
  <2>2. CASE q = p + 1
    BY <1>1, <1>2, <1>5, <1>6, <2>2 DEF SeqNum
  <2>3. CASE p = q + 1
    BY <1>1, <1>2, <1>5, <1>6, <2>3 DEF SeqNum
  <2> QED
    BY <1>4, <2>1, <2>2, <2>3
<1> QED
  BY <1>3, <1>7 DEF r, s

-----------------------------------------------------------------------------
(* The operators of FlowControl. *)

(* Comparing capped ages in seconds respects their order.                    *)
LEMMA SecondsMonotone ==
  ASSUME NEW a \in Nat, NEW b \in Nat, a <= b
  PROVE  /\ Seconds(a) \in Nat
         /\ Seconds(b) \in Nat
         /\ Seconds(a) <= Seconds(b)
<1> DEFINE T == TICKS_PER_SECOND
<1>1. T \in Nat \ {0}
  BY FlowAssumption
<1> HIDE DEF T
<1> DEFINE q == a \div T
           p == b \div T
<1>2. q \in Nat /\ p \in Nat /\ T * q <= a /\ b < T * p + T
  BY <1>1
<1> HIDE DEF q, p
<1>3. p \in q .. p
  <2>1. b \div T \in q .. p
    <3>1. T * q <= b
      BY <1>1, <1>2
    <3> QED
      BY <1>1, <1>2, <3>1, QuotientBetween
  <2> QED
    BY <2>1 DEF p
<1> QED
  BY <1>2, <1>3 DEF Seconds, q, p, T

(* Time passes, and every recorded difference with it, in step.              *)
LEMMA OlderTyped ==
  ASSUME NEW a \in Age, NEW b \in Age
  PROVE  /\ Older(a) \in Age
         /\ a <= Older(a)
         /\ a <= b => Older(a) <= Older(b)
  BY FlowAssumption DEF Older, Age

(* Doubling in a uint8_t does not overflow and stays within the limits.      *)
LEMMA BackoffTyped ==
  ASSUME NEW d \in StabilizationDelta
  PROVE  Backoff(d) \in StabilizationDelta /\ d <= Backoff(d)
<1>1. d \in Nat /\ 2 * d < 256
  BY FlowAssumption DEF StabilizationDelta, UINT8_MOD
<1>2. (2 * d) % 256 = 2 * d
  BY <1>1
<1> QED
  BY <1>1, <1>2, FlowAssumption DEF Backoff, StabilizationDelta, UINT8_MOD

(* ... and never more than doubles.                                          *)
LEMMA BackoffDoubles ==
  ASSUME NEW d \in StabilizationDelta
  PROVE  Backoff(d) <= 2 * d
<1>1. d \in Nat /\ 2 * d < 256
  BY FlowAssumption DEF StabilizationDelta, UINT8_MOD
<1>2. (2 * d) % 256 = 2 * d
  BY <1>1
<1> QED
  BY <1>1, <1>2, FlowAssumption DEF Backoff, UINT8_MOD

(* Halving stays within the limits.                                          *)
LEMMA ReduceTyped ==
  ASSUME NEW d \in StabilizationDelta
  PROVE  Reduce(d) \in StabilizationDelta /\ Reduce(d) <= d
  BY FlowAssumption DEF Reduce, StabilizationDelta

(* The smoothed value lies between the estimate and the sample: the          *)
(* truncation never takes it below the smaller of the two.                   *)
LEMMA SmoothBetween ==
  ASSUME NEW lo \in Nat, NEW hi \in Nat, NEW rtt \in Nat, NEW sample \in Nat,
         lo <= rtt, rtt <= hi, lo <= sample, sample <= hi
  PROVE  SmoothRtt(rtt, sample) \in lo .. hi
<1> DEFINE D == RTT_SMOOTH_DIVISOR
           c == D - 1
           x == c * rtt + sample
<1>1. D \in Nat \ {0} /\ c \in Nat /\ D = c + 1
  BY FlowAssumption
<1>2. SmoothRtt(rtt, sample) = x \div D
  BY DEF SmoothRtt, INVALID_RTT
<1> HIDE DEF D, c
<1>3. /\ c * lo <= c * rtt /\ c * rtt <= c * hi
      /\ c * lo \in Nat /\ c * rtt \in Nat /\ c * hi \in Nat
  BY <1>1, ProductMonotone
<1>4. D * lo = c * lo + lo /\ D * hi = c * hi + hi
  BY <1>1
<1>5. x \in Nat /\ D * lo <= x /\ x < D * hi + D
  BY <1>1, <1>3, <1>4
<1> HIDE DEF x
<1> QED
  BY <1>1, <1>2, <1>5, QuotientBetween

(* ... and a first or later sample leaves a valid round trip time.           *)
LEMMA SmoothTyped ==
  ASSUME NEW rtt \in Age \cup {INVALID_RTT}, NEW sample \in Age
  PROVE  SmoothRtt(rtt, sample) \in Age
<1>1. CASE rtt = INVALID_RTT
  BY <1>1 DEF SmoothRtt, INVALID_RTT
<1>2. CASE rtt \in Age
  <2>1. /\ 0 \in Nat /\ MAX_AGE \in Nat /\ rtt \in Nat /\ sample \in Nat
        /\ 0 <= rtt /\ rtt <= MAX_AGE /\ 0 <= sample /\ sample <= MAX_AGE
    BY <1>2, FlowAssumption DEF Age
  <2>2. SmoothRtt(rtt, sample) \in 0 .. MAX_AGE
    BY <2>1, SmoothBetween
  <2> QED
    BY <2>2 DEF Age
<1> QED
  BY <1>1, <1>2

(* The fields of an estimator, each in its range.                            *)
LEMMA FlowFields ==
  ASSUME NEW f \in FlowType
  PROVE  /\ f.m_connectionRTT \in Age \cup {INVALID_RTT}
         /\ f.m_packetFlowState \in {"GOOD", "BAD"}
         /\ f.m_lastThresholdPass \in Age
         /\ f.m_lastGoodToBadTransition \in Age
         /\ f.m_goodStateTracker \in Age
         /\ f.m_packetStabilizationDelta \in StabilizationDelta
  BY DEF FlowType

(* What the constructor sets.                                                *)
LEMMA InitFlowTyped == InitFlow \in FlowType
<1>1. 0 \in Age /\ DEFAULT_PACKET_STABILIZATION_DELTA \in StabilizationDelta
  BY FlowAssumption DEF Age, StabilizationDelta
<1> QED
  BY <1>1 DEF InitFlow, FlowType

(* The clock keeps the estimator's type.                                     *)
LEMMA OlderFlowTyped ==
  ASSUME NEW f \in FlowType
  PROVE  OlderFlow(f) \in FlowType
  BY FlowFields, OlderTyped DEF OlderFlow, FlowType

(* DetectFlowChange keeps the estimator's type, whichever branch it takes.   *)
LEMMA DetectFlowChangeTyped ==
  ASSUME NEW f \in FlowType
  PROVE  DetectFlowChange(f) \in FlowType
<1>0. 0 \in Age
  BY FlowAssumption DEF Age
<1>1. EnterBad(f) \in FlowType
  BY <1>0, FlowFields, BackoffTyped DEF EnterBad, FlowType
<1>2. StayBad(f) \in FlowType
  BY <1>0, FlowFields DEF StayBad, FlowType
<1>3. Recover(f) \in FlowType
  BY <1>0, FlowFields DEF Recover, FlowType
<1>4. StayGood(f) \in FlowType
  BY <1>0, FlowFields, ReduceTyped DEF StayGood, FlowType
<1>5. f.m_packetFlowState = "GOOD" \/ f.m_packetFlowState = "BAD"
  BY FlowFields
<1> QED
  BY <1>1, <1>2, <1>3, <1>4, <1>5 DEF DetectFlowChange
=============================================================================
