----------------------------- MODULE FlowControl -----------------------------
(***************************************************************************)
(* The connection quality estimator of CConnection: the smoothed round     *)
(* trip time kept by Receive (Connection.cpp:97-126) and the good/bad flow *)
(* state kept by DetectFlowChange (Connection.cpp:267-332).                *)
(*                                                                         *)
(* The six members involved form one record.  A steady_clock time point is *)
(* only ever used as now - t, so the model keeps that difference, in       *)
(* clock ticks: assigning STEADY_CLOCK_NOW is assigning 0, and the passing *)
(* of time adds 1 to it.  The differences stop at MAX_AGE, which lies      *)
(* beyond every threshold they are compared with, so a capped difference   *)
(* decides every comparison as the true one would.  One call of a handler  *)
(* takes no time: the successive clock reads of one DetectFlowChange agree. *)
(***************************************************************************)
EXTENDS Integers

CONSTANTS
  MAX_PACKET_FLOW_RATE,               \* ticks; 250 ms in the code
  DEFAULT_PACKET_STABILIZATION_DELTA, \* seconds; 5 in the code
  MAX_PACKET_STABILZATION_DELTA,      \* seconds; 60 in the code
  MIN_PACKET_STABILZATION_DELTA,      \* seconds; 1 in the code
  MINIMUM_REQUIRED_PACKET_STABILIZATION_TIME, \* seconds; 10 in the code
  RTT_SMOOTH_DIVISOR,                 \* 1 / RTT_SMOOTH_FACTOR; 10 in the code
  TICKS_PER_SECOND,                   \* 1000 when a tick is a millisecond
  MAX_AGE                             \* model bound: time differences stop here

UINT8_MOD == 256

ASSUME FlowAssumption ==
  /\ MAX_PACKET_FLOW_RATE \in Nat
  /\ MIN_PACKET_STABILZATION_DELTA \in Nat \ {0}
  /\ DEFAULT_PACKET_STABILIZATION_DELTA \in Nat
  /\ MAX_PACKET_STABILZATION_DELTA \in Nat
  /\ MIN_PACKET_STABILZATION_DELTA <= DEFAULT_PACKET_STABILIZATION_DELTA
  /\ DEFAULT_PACKET_STABILIZATION_DELTA <= MAX_PACKET_STABILZATION_DELTA
  /\ 2 * MAX_PACKET_STABILZATION_DELTA < UINT8_MOD
  /\ MINIMUM_REQUIRED_PACKET_STABILIZATION_TIME \in Nat
  /\ RTT_SMOOTH_DIVISOR \in Nat \ {0}
  /\ TICKS_PER_SECOND \in Nat \ {0}
  /\ MAX_AGE \in Nat

\* The cap on time differences lies beyond every threshold.
ASSUME AgeAssumption ==
  /\ MAX_AGE > MAX_PACKET_FLOW_RATE
  /\ MAX_AGE \div TICKS_PER_SECOND >= MAX_PACKET_STABILZATION_DELTA
  /\ MAX_AGE \div TICKS_PER_SECOND > MINIMUM_REQUIRED_PACKET_STABILIZATION_TIME

-----------------------------------------------------------------------------
(* Time differences. *)

Age == 0 .. MAX_AGE

Older(age) == IF age < MAX_AGE THEN age + 1 ELSE age

\* duration_cast<seconds> truncates.
Seconds(age) == age \div TICKS_PER_SECOND

-----------------------------------------------------------------------------
(* The estimator's members. *)

INVALID_RTT == -1

StabilizationDelta ==
  MIN_PACKET_STABILZATION_DELTA .. MAX_PACKET_STABILZATION_DELTA

FlowType ==
  [m_connectionRTT : Age \cup {INVALID_RTT},
   m_packetFlowState : {"GOOD", "BAD"},
   m_lastThresholdPass : Age,
   m_lastGoodToBadTransition : Age,
   m_goodStateTracker : Age,
   m_packetStabilizationDelta : StabilizationDelta]

InitFlow ==
  [m_connectionRTT |-> INVALID_RTT,
   m_packetFlowState |-> "GOOD",
   m_lastThresholdPass |-> 0,
   m_lastGoodToBadTransition |-> 0,
   m_goodStateTracker |-> 0,
   m_packetStabilizationDelta |-> DEFAULT_PACKET_STABILIZATION_DELTA]

OlderFlow(f) ==
  [f EXCEPT !.m_lastThresholdPass = Older(@),
            !.m_lastGoodToBadTransition = Older(@),
            !.m_goodStateTracker = Older(@)]

-----------------------------------------------------------------------------
(* The round trip time. *)

\* The first sample is taken as it is; a later one moves the estimate by a
\* tenth of the difference.  The sum is computed in floating point and cut
\* to an integer, which for a non-negative sum is its integer part.
SmoothRtt_FirstSampleAveraged(rtt, sample) ==
  ((RTT_SMOOTH_DIVISOR - 1) * rtt + sample) \div RTT_SMOOTH_DIVISOR

SmoothRtt(rtt, sample) ==
  IF rtt <= INVALID_RTT
  THEN sample
  ELSE ((RTT_SMOOTH_DIVISOR - 1) * rtt + sample) \div RTT_SMOOTH_DIVISOR

-----------------------------------------------------------------------------
(* The flow state.  The stabilization delta is the number of seconds the    *)
(* connection has to behave before it is trusted again.                     *)

\* The product is stored in a uint8_t before it is compared.
Backoff(delta) ==
  LET val == (2 * delta) % UINT8_MOD
  IN  IF val > MAX_PACKET_STABILZATION_DELTA
      THEN MAX_PACKET_STABILZATION_DELTA ELSE val

Reduce_NoFloor(delta) == delta \div 2

Reduce(delta) ==
  LET val == delta \div 2
  IN  IF val < MIN_PACKET_STABILZATION_DELTA
      THEN MIN_PACKET_STABILZATION_DELTA ELSE val

Slow(f) == f.m_connectionRTT > MAX_PACKET_FLOW_RATE

\* Slow while GOOD: the GOOD -> BAD transition.
EnterBad_KeepsTransitionTime(f) ==
  [f EXCEPT !.m_packetFlowState = "BAD",
            !.m_lastThresholdPass = 0,
            !.m_packetStabilizationDelta =
              IF Seconds(f.m_lastGoodToBadTransition)
                   <= MINIMUM_REQUIRED_PACKET_STABILIZATION_TIME
              THEN Backoff(@) ELSE @,
            !.m_goodStateTracker = 0]

EnterBad_AlwaysBacksOff(f) ==
  [f EXCEPT !.m_packetFlowState = "BAD",
            !.m_lastThresholdPass = 0,
            !.m_packetStabilizationDelta = Backoff(@),
            !.m_lastGoodToBadTransition = 0,
            !.m_goodStateTracker = 0]

EnterBad(f) ==
  [f EXCEPT !.m_packetFlowState = "BAD",
            !.m_lastThresholdPass = 0,
            !.m_packetStabilizationDelta =
              IF Seconds(f.m_lastGoodToBadTransition)
                   <= MINIMUM_REQUIRED_PACKET_STABILIZATION_TIME
              THEN Backoff(@) ELSE @,
            !.m_lastGoodToBadTransition = 0,
            !.m_goodStateTracker = 0]

\* Slow while BAD.
StayBad_KeepsThresholdTime(f) == f

StayBad(f) == [f EXCEPT !.m_lastThresholdPass = 0]

\* Fast enough while BAD: the BAD -> GOOD transition once it has lasted.
Recover_Never(f) == f

Recover(f) ==
  IF Seconds(f.m_lastThresholdPass) >= f.m_packetStabilizationDelta
  THEN [f EXCEPT !.m_packetFlowState = "GOOD"]
  ELSE f

\* Fast enough while GOOD: the delta is halved at intervals.
StayGood_AlwaysResets(f) ==
  [f EXCEPT !.m_packetStabilizationDelta =
              IF Seconds(f.m_goodStateTracker)
                   >= MINIMUM_REQUIRED_PACKET_STABILIZATION_TIME
              THEN Reduce(@) ELSE @,
            !.m_goodStateTracker = 0]

StayGood_KeepsTracker(f) ==
  IF Seconds(f.m_goodStateTracker) >= MINIMUM_REQUIRED_PACKET_STABILIZATION_TIME
  THEN [f EXCEPT !.m_packetStabilizationDelta = Reduce(@)]
  ELSE f

StayGood(f) ==
  IF Seconds(f.m_goodStateTracker) >= MINIMUM_REQUIRED_PACKET_STABILIZATION_TIME
  THEN [f EXCEPT !.m_packetStabilizationDelta = Reduce(@),
                 !.m_goodStateTracker = 0]
  ELSE f

DetectFlowChange(f) ==
  CASE Slow(f) /\ f.m_packetFlowState = "GOOD" -> EnterBad(f)
    [] Slow(f) /\ f.m_packetFlowState = "BAD" -> StayBad(f)
    [] ~Slow(f) /\ f.m_packetFlowState = "BAD" -> Recover(f)
    [] ~Slow(f) /\ f.m_packetFlowState = "GOOD" -> StayGood(f)
=============================================================================
