----------------------------- MODULE FlowMonitor -----------------------------
(***************************************************************************)
(* The quality estimator of one CConnection as a state machine: round trip  *)
(* samples arrive (an acknowledgement taken by Receive), Update runs        *)
(* DetectFlowChange, and time passes, in any order.  This is the estimator  *)
(* under every schedule of acknowledgements; Connection.tla runs the same   *)
(* operators under the schedules the protocol produces.                     *)
(***************************************************************************)
EXTENDS FlowControl

CONSTANT Samples    \* the round trip times that acknowledgements measure

ASSUME SamplesAssumption == Samples \subseteq Age

VARIABLES
  flow,         \* the six members of CConnection
  \* History, read by the properties only: times since events, and values.
  sinceSlow,    \* time since an Update saw a round trip time beyond the limit
  sinceBad,     \* time since the last GOOD -> BAD transition
  sinceGood,    \* time since GOOD was last entered (or the construction)
  sinceCut,     \* time since the stabilization delta was last reduced
  deltaAtBad,   \* the stabilization delta the last GOOD -> BAD transition left
  samplesSeen   \* the samples taken so far

history == <<sinceSlow, sinceBad, sinceGood, sinceCut, deltaAtBad, samplesSeen>>
vars == <<flow, history>>

state == flow.m_packetFlowState
delta == flow.m_packetStabilizationDelta

Init ==
  /\ flow = InitFlow
  /\ sinceSlow = MAX_AGE     \* no such event yet: as long ago as can be told
  /\ sinceBad = MAX_AGE
  /\ sinceGood = 0
  /\ sinceCut = MAX_AGE
  /\ deltaAtBad = DEFAULT_PACKET_STABILIZATION_DELTA
  /\ samplesSeen = {}

\* An acknowledged packet yields its round trip time.
Sample(rtt) ==
  /\ flow' = [flow EXCEPT !.m_connectionRTT = SmoothRtt(@, rtt)]
  /\ samplesSeen' = samplesSeen \cup {rtt}
  /\ UNCHANGED <<sinceSlow, sinceBad, sinceGood, sinceCut, deltaAtBad>>

Update ==
  LET f == DetectFlowChange(flow)
      toBad == state = "GOOD" /\ f.m_packetFlowState = "BAD"
      toGood == state = "BAD" /\ f.m_packetFlowState = "GOOD"
  IN  /\ flow' = f
      /\ sinceSlow' = IF Slow(flow) THEN 0 ELSE sinceSlow
      /\ sinceBad' = IF toBad THEN 0 ELSE sinceBad
      /\ sinceGood' = IF toGood THEN 0 ELSE sinceGood
      /\ sinceCut' = IF f.m_packetStabilizationDelta < delta THEN 0 ELSE sinceCut
      /\ deltaAtBad' = IF toBad THEN f.m_packetStabilizationDelta ELSE deltaAtBad
      /\ UNCHANGED samplesSeen

Tick ==
  /\ flow' = OlderFlow(flow)
  /\ sinceSlow' = Older(sinceSlow)
  /\ sinceBad' = Older(sinceBad)
  /\ sinceGood' = Older(sinceGood)
  /\ sinceCut' = Older(sinceCut)
  /\ UNCHANGED <<deltaAtBad, samplesSeen>>

Next ==
  \/ \E rtt \in Samples : Sample(rtt)
  \/ Update
  \/ Tick

Spec == Init /\ [][Next]_vars

\* Both programs call Update in every iteration of their main loop, and the
\* clock runs.  Nothing forces an acknowledgement to arrive.
Fairness == WF_vars(Update) /\ WF_vars(Tick)
FairSpec == Spec /\ Fairness

-----------------------------------------------------------------------------
(* Type correctness.  It includes that the stabilization delta, kept in a   *)
(* uint8_t that is doubled and halved, never leaves its documented range.   *)
TypeOK ==
  /\ flow \in FlowType
  /\ sinceSlow \in Age
  /\ sinceBad \in Age
  /\ sinceGood \in Age
  /\ sinceCut \in Age
  /\ deltaAtBad \in StabilizationDelta
  /\ samplesSeen \in SUBSET Samples

(* The smoothed round trip time always lies between the smallest and the    *)
(* largest sample that was measured; in particular it is never dragged      *)
(* below them by the truncation or by the invalid initial value.            *)
RttWithinSamples ==
  IF samplesSeen = {}
  THEN flow.m_connectionRTT = INVALID_RTT
  ELSE /\ \E s \in samplesSeen : s <= flow.m_connectionRTT
       /\ \E s \in samplesSeen : flow.m_connectionRTT <= s

(* A BAD connection is trusted again only after a full stabilization delta  *)
(* during which no Update saw a slow round trip time, and never sooner than *)
(* that after it went bad (DetectFlowChange's BAD -> GOOD transition).      *)
NoEarlyRecovery ==
  [][ (state = "BAD" /\ state' = "GOOD")
      => /\ Seconds(sinceSlow) >= delta
         /\ Seconds(sinceBad) >= delta ]_vars

(* A relapse is punished: a connection that goes bad again within the       *)
(* minimum time after it last went bad waits twice as long as that time     *)
(* (up to the maximum), whatever happened in between.                       *)
RelapseDoubles ==
  [][ ( /\ state = "GOOD" /\ state' = "BAD"
        /\ Seconds(sinceBad) < MINIMUM_REQUIRED_PACKET_STABILIZATION_TIME )
      => delta' = Backoff(deltaAtBad) ]_vars

(* Trust is regained slowly: the stabilization delta is reduced only while  *)
(* GOOD, and neither twice within the minimum time nor within that time of  *)
(* having gone bad.                                                         *)
ReductionsSpaced ==
  [][ delta' < delta
      => /\ state = "GOOD" /\ state' = "GOOD"
         /\ Seconds(sinceCut) >= MINIMUM_REQUIRED_PACKET_STABILIZATION_TIME
         /\ Seconds(sinceBad) >= MINIMUM_REQUIRED_PACKET_STABILIZATION_TIME ]_vars

(* Backing off limits itself: only a relapse within the minimum time doubles *)
(* the stabilization delta, and a connection that has to wait longer than    *)
(* that cannot relapse so soon.  With the values of Connection.h the delta   *)
(* never exceeds 20 s, and MAX_PACKET_STABILZATION_DELTA is never reached.   *)
DeltaStaysModest ==
  \/ delta <= 2 * DEFAULT_PACKET_STABILIZATION_DELTA
  \/ delta <= 2 * MINIMUM_REQUIRED_PACKET_STABILIZATION_TIME

(* A connection whose round trip time stays within the limit ends up GOOD    *)
(* for ever, however often it had gone bad before.                          *)
RecoversWhenFast ==
  <>[](~Slow(flow)) => <>[](state = "GOOD")

(* ... and its stabilization delta returns to the minimum.                   *)
PenaltyDecays ==
  <>[](~Slow(flow)) => <>[](delta = MIN_PACKET_STABILZATION_DELTA)

-----------------------------------------------------------------------------
(* What two comments of DetectFlowChange say, and the code does not do.     *)

(* Connection.cpp:285 "If the time in GOOD <= 10s" and Connection.h:38      *)
(* (time the connection "needs to stay in 'good'"): a connection that goes   *)
(* bad after a short time in GOOD has its delta doubled.                     *)
ShortGoodIsPunished ==
  [][ ( /\ state = "GOOD" /\ state' = "BAD"
        /\ Seconds(sinceGood) < MINIMUM_REQUIRED_PACKET_STABILIZATION_TIME )
      => delta' = Backoff(delta) ]_vars

(* Connection.cpp:319 "every 10 seconds while in GOOD, reduce the            *)
(* stabilization delta": a reduction follows that much time in GOOD.         *)
ReductionFollowsGoodTime ==
  [][ delta' < delta
      => Seconds(sinceGood) >= MINIMUM_REQUIRED_PACKET_STABILIZATION_TIME ]_vars
=============================================================================
