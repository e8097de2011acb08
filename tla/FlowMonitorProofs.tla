-------------------------- MODULE FlowMonitorProofs --------------------------
(***************************************************************************)
(* The safety properties of FlowMonitor hold for every value of the         *)
(* thresholds and every schedule of samples.  The inductive invariant says  *)
(* how the three time points the code keeps bound the times that matter.    *)
(***************************************************************************)
EXTENDS FlowMonitor, OperatorProofs

-----------------------------------------------------------------------------
(* The time points of the code are no older than the events they stand for. *)
ClockInv ==
  /\ state = "BAD" => /\ flow.m_lastThresholdPass <= sinceSlow
                      /\ flow.m_lastThresholdPass <= sinceBad
  /\ flow.m_lastGoodToBadTransition <= sinceBad
  /\ flow.m_goodStateTracker <= sinceBad
  /\ flow.m_goodStateTracker <= sinceCut

(* Until the minimum time has passed, nothing has changed the delta that the *)
(* last GOOD -> BAD transition left.                                         *)
DeltaInv ==
  Seconds(sinceBad) < MINIMUM_REQUIRED_PACKET_STABILIZATION_TIME
    => delta = deltaAtBad

IInv == TypeOK /\ RttWithinSamples /\ ClockInv /\ DeltaInv

(* The constructor establishes the invariant.                                *)
LEMMA InitEstablishes == Init => IInv
<1> SUFFICES ASSUME Init PROVE IInv
  OBVIOUS
<1>1. 0 \in Age /\ MAX_AGE \in Age
  BY FlowAssumption DEF Age
<1>2. DEFAULT_PACKET_STABILIZATION_DELTA \in StabilizationDelta
  BY FlowAssumption DEF StabilizationDelta
<1>3. TypeOK
  BY <1>1, <1>2, InitFlowTyped DEF Init, TypeOK
<1>4. RttWithinSamples
  BY DEF Init, InitFlow, RttWithinSamples
<1>5. ClockInv
  BY FlowAssumption DEF Init, InitFlow, ClockInv, state
<1>6. DeltaInv
  BY DEF Init, InitFlow, DeltaInv, delta
<1> QED
  BY <1>3, <1>4, <1>5, <1>6 DEF IInv

(* A sample moves the round trip time, and nothing else the code compares.   *)
LEMMA SampleKeeps ==
  ASSUME IInv, NEW rtt \in Samples, Sample(rtt)
  PROVE  IInv'
<1> DEFINE old == flow.m_connectionRTT
           new == SmoothRtt(old, rtt)
<1>1. flow \in FlowType /\ rtt \in Age /\ samplesSeen \subseteq Age
  BY SamplesAssumption DEF IInv, TypeOK
<1>2. old \in Age \cup {INVALID_RTT} /\ new \in Age
  BY <1>1, FlowFields, SmoothTyped
<1>3. flow' = [flow EXCEPT !.m_connectionRTT = new]
  BY DEF Sample
<1>4. flow'.m_connectionRTT = new
  BY <1>1, <1>3 DEF FlowType
<1>5. /\ flow'.m_packetFlowState = flow.m_packetFlowState
      /\ flow'.m_lastThresholdPass = flow.m_lastThresholdPass
      /\ flow'.m_lastGoodToBadTransition = flow.m_lastGoodToBadTransition
      /\ flow'.m_goodStateTracker = flow.m_goodStateTracker
      /\ flow'.m_packetStabilizationDelta = flow.m_packetStabilizationDelta
  BY <1>1, <1>3 DEF FlowType
<1>6. TypeOK'
  <2>1. flow' \in FlowType
    BY <1>1, <1>2, <1>3 DEF FlowType
  <2> QED
    BY <2>1 DEF IInv, TypeOK, Sample
<1>7. RttWithinSamples'
  <2>1. \A a \in Age : a \in Nat
    BY FlowAssumption DEF Age
  <2>2. samplesSeen' = samplesSeen \cup {rtt}
    BY DEF Sample
  <2>3. CASE samplesSeen = {}
    <3>1. old = INVALID_RTT
      BY <2>3 DEF IInv, RttWithinSamples
    <3>2. new = rtt
      BY <3>1 DEF SmoothRtt, INVALID_RTT
    <3> QED
      BY <1>1, <1>4, <2>1, <2>2, <3>2 DEF RttWithinSamples
  <2>4. CASE samplesSeen # {}
    <3>1. PICK s \in samplesSeen : s <= old
      BY <2>4 DEF IInv, RttWithinSamples
    <3>2. PICK t \in samplesSeen : old <= t
      BY <2>4 DEF IInv, RttWithinSamples
    <3>3. s \in Nat /\ t \in Nat /\ rtt \in Nat /\ old \in Nat
      BY <1>1, <1>2, <2>1, <3>1 DEF INVALID_RTT
    <3>4. PICK lo \in {s, rtt} : lo <= old /\ lo <= rtt
      BY <3>1, <3>3
    <3>5. PICK hi \in {t, rtt} : old <= hi /\ rtt <= hi
      BY <3>2, <3>3
    <3>6. new \in lo .. hi
      BY <3>3, <3>4, <3>5, SmoothBetween
    <3>7. lo <= new /\ new <= hi /\ lo \in samplesSeen' /\ hi \in samplesSeen'
      BY <2>2, <3>3, <3>4, <3>5, <3>6
    <3> QED
      BY <1>4, <2>2, <3>7 DEF RttWithinSamples
  <2> QED
    BY <2>3, <2>4
<1>8. ClockInv'
  BY <1>5 DEF IInv, ClockInv, Sample, state
<1>9. DeltaInv'
  BY <1>5 DEF IInv, DeltaInv, Sample, delta
<1> QED
  BY <1>6, <1>7, <1>8, <1>9 DEF IInv

(* What one Update does, branch by branch: the fields the properties compare *)
(* and how they changed.                                                     *)
LEMMA UpdateCases ==
  ASSUME IInv, Update
  PROVE  /\ flow' \in FlowType
         /\ flow'.m_connectionRTT = flow.m_connectionRTT
         /\ \/ /\ Slow(flow) /\ state = "GOOD"
               /\ flow' = EnterBad(flow)
            \/ /\ Slow(flow) /\ state = "BAD"
               /\ flow' = StayBad(flow)
            \/ /\ ~Slow(flow) /\ state = "BAD"
               /\ flow' = Recover(flow)
            \/ /\ ~Slow(flow) /\ state = "GOOD"
               /\ flow' = StayGood(flow)
<1>1. flow \in FlowType /\ flow' = DetectFlowChange(flow)
  BY DEF IInv, TypeOK, Update
<1>2. flow' \in FlowType
  BY <1>1, DetectFlowChangeTyped
<1>3. state = "GOOD" \/ state = "BAD"
  BY <1>1, FlowFields DEF state
<1>4. \/ /\ Slow(flow) /\ state = "GOOD"
         /\ flow' = EnterBad(flow)
      \/ /\ Slow(flow) /\ state = "BAD"
         /\ flow' = StayBad(flow)
      \/ /\ ~Slow(flow) /\ state = "BAD"
         /\ flow' = Recover(flow)
      \/ /\ ~Slow(flow) /\ state = "GOOD"
         /\ flow' = StayGood(flow)
  BY <1>1, <1>3 DEF DetectFlowChange, state
<1>5. flow'.m_connectionRTT = flow.m_connectionRTT
  BY <1>1, <1>4 DEF EnterBad, StayBad, Recover, StayGood, FlowType
<1> QED
  BY <1>2, <1>4, <1>5

(* The GOOD -> BAD transition.                                               *)
LEMMA EnterBadFields ==
  ASSUME NEW f \in FlowType
  PROVE  /\ EnterBad(f).m_packetFlowState = "BAD"
         /\ EnterBad(f).m_lastThresholdPass = 0
         /\ EnterBad(f).m_lastGoodToBadTransition = 0
         /\ EnterBad(f).m_goodStateTracker = 0
         /\ EnterBad(f).m_packetStabilizationDelta =
              IF Seconds(f.m_lastGoodToBadTransition)
                   <= MINIMUM_REQUIRED_PACKET_STABILIZATION_TIME
              THEN Backoff(f.m_packetStabilizationDelta)
              ELSE f.m_packetStabilizationDelta
  BY DEF EnterBad, FlowType

(* A slow round trip time while BAD.                                         *)
LEMMA StayBadFields ==
  ASSUME NEW f \in FlowType
  PROVE  /\ StayBad(f).m_packetFlowState = f.m_packetFlowState
         /\ StayBad(f).m_lastThresholdPass = 0
         /\ StayBad(f).m_lastGoodToBadTransition = f.m_lastGoodToBadTransition
         /\ StayBad(f).m_goodStateTracker = f.m_goodStateTracker
         /\ StayBad(f).m_packetStabilizationDelta = f.m_packetStabilizationDelta
  BY DEF StayBad, FlowType

(* An acceptable round trip time while BAD.                                  *)
LEMMA RecoverFields ==
  ASSUME NEW f \in FlowType
  PROVE  /\ Recover(f).m_packetFlowState = "GOOD"
              \/ Recover(f).m_packetFlowState = f.m_packetFlowState
         /\ Recover(f).m_packetFlowState # f.m_packetFlowState
              => Seconds(f.m_lastThresholdPass) >= f.m_packetStabilizationDelta
         /\ Recover(f).m_lastThresholdPass = f.m_lastThresholdPass
         /\ Recover(f).m_lastGoodToBadTransition = f.m_lastGoodToBadTransition
         /\ Recover(f).m_goodStateTracker = f.m_goodStateTracker
         /\ Recover(f).m_packetStabilizationDelta = f.m_packetStabilizationDelta
  BY DEF Recover, FlowType

(* An acceptable round trip time while GOOD.                                 *)
LEMMA StayGoodFields ==
  ASSUME NEW f \in FlowType
  PROVE  /\ StayGood(f).m_packetFlowState = f.m_packetFlowState
         /\ StayGood(f).m_lastThresholdPass = f.m_lastThresholdPass
         /\ StayGood(f).m_lastGoodToBadTransition = f.m_lastGoodToBadTransition
         /\ IF Seconds(f.m_goodStateTracker)
                 >= MINIMUM_REQUIRED_PACKET_STABILIZATION_TIME
            THEN /\ StayGood(f).m_goodStateTracker = 0
                 /\ StayGood(f).m_packetStabilizationDelta
                      = Reduce(f.m_packetStabilizationDelta)
            ELSE StayGood(f) = f
  BY DEF StayGood, FlowType

(* What one Update does, as the action properties say it.                    *)
UpdateProperties ==
  /\ (state = "BAD" /\ state' = "GOOD")
      => Seconds(sinceSlow) >= delta /\ Seconds(sinceBad) >= delta
  /\ ( /\ state = "GOOD" /\ state' = "BAD"
       /\ Seconds(sinceBad) < MINIMUM_REQUIRED_PACKET_STABILIZATION_TIME )
      => delta' = Backoff(deltaAtBad)
  /\ delta' < delta
      => /\ state = "GOOD" /\ state' = "GOOD"
         /\ Seconds(sinceCut) >= MINIMUM_REQUIRED_PACKET_STABILIZATION_TIME
         /\ Seconds(sinceBad) >= MINIMUM_REQUIRED_PACKET_STABILIZATION_TIME

(* Update keeps the invariant, and what it does is what the properties say.  *)
LEMMA UpdateKeeps ==
  ASSUME IInv, Update
  PROVE  IInv' /\ UpdateProperties
<1> DEFINE M == MINIMUM_REQUIRED_PACKET_STABILIZATION_TIME
<1>1. /\ flow \in FlowType /\ flow' \in FlowType /\ flow' = DetectFlowChange(flow)
      /\ flow'.m_connectionRTT = flow.m_connectionRTT
  BY UpdateCases DEF IInv, TypeOK, Update
<1>2. /\ flow.m_lastThresholdPass \in Nat
      /\ flow.m_lastGoodToBadTransition \in Nat
      /\ flow.m_goodStateTracker \in Nat
      /\ sinceSlow \in Nat /\ sinceBad \in Nat /\ sinceCut \in Nat
      /\ M \in Nat
  BY <1>1, FlowFields, FlowAssumption DEF IInv, TypeOK, Age
<1>3. /\ delta \in StabilizationDelta /\ delta' \in StabilizationDelta
      /\ deltaAtBad \in StabilizationDelta
      /\ \A d \in StabilizationDelta : d \in Nat
      /\ 0 \in Age /\ \A a \in Age : a \in Nat
  BY <1>1, FlowFields, FlowAssumption DEF IInv, TypeOK, delta, StabilizationDelta, Age
<1>4. /\ sinceSlow' = IF Slow(flow) THEN 0 ELSE sinceSlow
      /\ sinceBad' = IF state = "GOOD" /\ state' = "BAD" THEN 0 ELSE sinceBad
      /\ sinceCut' = IF delta' < delta THEN 0 ELSE sinceCut
      /\ deltaAtBad' = IF state = "GOOD" /\ state' = "BAD"
                       THEN delta' ELSE deltaAtBad
      /\ sinceGood' \in Age
      /\ samplesSeen' = samplesSeen
  BY <1>1, <1>3 DEF Update, state, delta, IInv, TypeOK
<1>5. TypeOK'
  BY <1>1, <1>3, <1>4 DEF IInv, TypeOK
<1>6. RttWithinSamples'
  BY <1>1, <1>4 DEF IInv, RttWithinSamples
<1>7. /\ state = "BAD" => /\ flow.m_lastThresholdPass <= sinceSlow
                          /\ flow.m_lastThresholdPass <= sinceBad
      /\ flow.m_lastGoodToBadTransition <= sinceBad
      /\ flow.m_goodStateTracker <= sinceBad
      /\ flow.m_goodStateTracker <= sinceCut
      /\ Seconds(sinceBad) < M => delta = deltaAtBad
  BY DEF IInv, ClockInv, DeltaInv
<1>8. /\ \A a, b \in Nat : a <= b => Seconds(a) <= Seconds(b)
      /\ \A a \in Nat : Seconds(a) \in Nat
  BY SecondsMonotone
<1>9. CASE Slow(flow) /\ state = "GOOD" /\ flow' = EnterBad(flow)
  <2>1. /\ state' = "BAD" /\ flow'.m_lastThresholdPass = 0
        /\ flow'.m_lastGoodToBadTransition = 0 /\ flow'.m_goodStateTracker = 0
        /\ delta' = IF Seconds(flow.m_lastGoodToBadTransition) <= M
                    THEN Backoff(delta) ELSE delta
    BY <1>1, <1>9, EnterBadFields DEF state, delta
  <2>2. delta <= Backoff(delta)
    BY <1>3, BackoffTyped
  <2>3. ~(delta' < delta)
    BY <1>3, <2>1, <2>2
  <2>4. ClockInv'
    BY <1>2, <1>4, <1>9, <2>1, <2>3 DEF ClockInv, state
  <2>5. DeltaInv'
    BY <1>4, <1>9, <2>1 DEF DeltaInv
  <2>6. Seconds(sinceBad) < M => delta' = Backoff(deltaAtBad)
    <3> HAVE Seconds(sinceBad) < M
    <3>1. Seconds(flow.m_lastGoodToBadTransition) <= M
      BY <1>2, <1>7, <1>8
    <3> QED
      BY <1>7, <2>1, <3>1
  <2> QED
    BY <1>5, <1>6, <1>9, <2>1, <2>3, <2>4, <2>5, <2>6 DEF IInv, UpdateProperties
<1>10. CASE Slow(flow) /\ state = "BAD" /\ flow' = StayBad(flow)
  <2>1. /\ state' = "BAD" /\ flow'.m_lastThresholdPass = 0
        /\ flow'.m_lastGoodToBadTransition = flow.m_lastGoodToBadTransition
        /\ flow'.m_goodStateTracker = flow.m_goodStateTracker
        /\ delta' = delta
    BY <1>1, <1>10, StayBadFields DEF state, delta
  <2>2. ~(delta' < delta)
    BY <1>3, <2>1
  <2>3. ClockInv'
    BY <1>2, <1>4, <1>7, <1>10, <2>1, <2>2 DEF ClockInv, state
  <2>4. DeltaInv'
    BY <1>4, <1>7, <1>10, <2>1 DEF DeltaInv
  <2> QED
    BY <1>5, <1>6, <1>10, <2>1, <2>2, <2>3, <2>4 DEF IInv, UpdateProperties
<1>11. CASE ~Slow(flow) /\ state = "BAD" /\ flow' = Recover(flow)
  <2>1. /\ state' = "GOOD" \/ state' = "BAD"
        /\ state' = "GOOD" => Seconds(flow.m_lastThresholdPass) >= delta
        /\ flow'.m_lastThresholdPass = flow.m_lastThresholdPass
        /\ flow'.m_lastGoodToBadTransition = flow.m_lastGoodToBadTransition
        /\ flow'.m_goodStateTracker = flow.m_goodStateTracker
        /\ delta' = delta
    BY <1>1, <1>11, RecoverFields DEF state, delta
  <2>2. ~(delta' < delta)
    BY <1>3, <2>1
  <2>3. ClockInv'
    BY <1>2, <1>4, <1>7, <1>11, <2>1, <2>2 DEF ClockInv, state
  <2>4. DeltaInv'
    BY <1>4, <1>7, <1>11, <2>1 DEF DeltaInv
  <2>5. state' = "GOOD" => Seconds(sinceSlow) >= delta /\ Seconds(sinceBad) >= delta
    BY <1>2, <1>3, <1>7, <1>8, <1>11, <2>1
  <2> QED
    BY <1>5, <1>6, <1>11, <2>2, <2>3, <2>4, <2>5 DEF IInv, UpdateProperties
<1>12. CASE ~Slow(flow) /\ state = "GOOD" /\ flow' = StayGood(flow)
  <2>1. /\ state' = "GOOD"
        /\ flow'.m_lastThresholdPass = flow.m_lastThresholdPass
        /\ flow'.m_lastGoodToBadTransition = flow.m_lastGoodToBadTransition
    BY <1>1, <1>12, StayGoodFields DEF state
  <2>2. CASE Seconds(flow.m_goodStateTracker) >= M
    <3>1. flow'.m_goodStateTracker = 0
      BY <1>1, <1>12, <2>2, StayGoodFields
    <3>2. Seconds(sinceBad) >= M /\ Seconds(sinceCut) >= M
      BY <1>2, <1>7, <1>8, <2>2
    <3>3. ClockInv'
      BY <1>2, <1>4, <1>7, <1>12, <2>1, <3>1 DEF ClockInv, state
    <3>4. DeltaInv'
      BY <1>2, <1>4, <1>8, <1>12, <2>1, <3>2 DEF DeltaInv
    <3> QED
      BY <1>5, <1>6, <1>12, <2>1, <3>2, <3>3, <3>4 DEF IInv, UpdateProperties
  <2>3. CASE ~(Seconds(flow.m_goodStateTracker) >= M)
    <3>1. flow' = flow
      BY <1>1, <1>12, <2>3, StayGoodFields
    <3>2. delta' = delta /\ ~(delta' < delta)
      BY <1>3, <3>1 DEF delta
    <3>3. ClockInv'
      BY <1>2, <1>4, <1>7, <1>12, <2>1, <3>1, <3>2 DEF ClockInv, state
    <3>4. DeltaInv'
      BY <1>4, <1>7, <1>12, <2>1, <3>2 DEF DeltaInv
    <3> QED
      BY <1>5, <1>6, <1>12, <2>1, <3>2, <3>3, <3>4 DEF IInv, UpdateProperties
  <2> QED
    BY <2>2, <2>3
<1> QED
  BY <1>9, <1>10, <1>11, <1>12, UpdateCases

(* Time passes for the code's time points and the recorded events alike.     *)
LEMMA TickKeeps ==
  ASSUME IInv, Tick
  PROVE  IInv'
<1>1. flow \in FlowType /\ flow' = OlderFlow(flow)
  BY DEF IInv, TypeOK, Tick
<1>2. /\ flow' \in FlowType
      /\ flow'.m_connectionRTT = flow.m_connectionRTT
      /\ state' = state /\ delta' = delta
      /\ flow'.m_lastThresholdPass = Older(flow.m_lastThresholdPass)
      /\ flow'.m_lastGoodToBadTransition = Older(flow.m_lastGoodToBadTransition)
      /\ flow'.m_goodStateTracker = Older(flow.m_goodStateTracker)
  BY <1>1, OlderFlowTyped DEF OlderFlow, FlowType, state, delta
<1>3. /\ sinceSlow \in Age /\ sinceBad \in Age /\ sinceCut \in Age /\ sinceGood \in Age
      /\ flow.m_lastThresholdPass \in Age
      /\ flow.m_lastGoodToBadTransition \in Age
      /\ flow.m_goodStateTracker \in Age
  BY <1>1, FlowFields DEF IInv, TypeOK
<1>4. TypeOK'
  BY <1>2, <1>3, OlderTyped DEF IInv, TypeOK, Tick
<1>5. RttWithinSamples'
  BY <1>2 DEF IInv, RttWithinSamples, Tick
<1>6. ClockInv'
  BY <1>2, <1>3, OlderTyped DEF IInv, ClockInv, Tick
<1>7. DeltaInv'
  <2>1. sinceBad \in Nat /\ Older(sinceBad) \in Nat /\ sinceBad <= Older(sinceBad)
    BY <1>3, OlderTyped, FlowAssumption DEF Age
  <2>2. /\ Seconds(sinceBad) \in Nat /\ Seconds(Older(sinceBad)) \in Nat
        /\ Seconds(sinceBad) <= Seconds(Older(sinceBad))
    BY <2>1, SecondsMonotone
  <2>3. Seconds(sinceBad') = Seconds(Older(sinceBad)) /\ deltaAtBad' = deltaAtBad
    BY DEF Tick
  <2> QED
    BY <1>2, <2>2, <2>3, FlowAssumption DEF IInv, DeltaInv
<1> QED
  BY <1>4, <1>5, <1>6, <1>7 DEF IInv

(* A step that leaves the variables alone leaves the invariant alone.        *)
LEMMA StutterKeeps ==
  ASSUME IInv, UNCHANGED vars
  PROVE  IInv'
  BY DEF IInv, TypeOK, RttWithinSamples, ClockInv, DeltaInv, state, delta, vars, history

(* The invariant is inductive.                                               *)
LEMMA Inductive == Spec => []IInv
<1>1. IInv /\ [Next]_vars => IInv'
  BY SampleKeeps, UpdateKeeps, TickKeeps, StutterKeeps DEF Next
<1> QED
  BY InitEstablishes, <1>1, PTL DEF Spec

(* What any step does to the state and the delta is what Update does to them.*)
LEMMA StepProperties ==
  ASSUME IInv, [Next]_vars
  PROVE  UpdateProperties
<1>1. CASE Update
  BY <1>1, UpdateKeeps
<1>2. state' = state /\ delta' = delta => UpdateProperties
  <2>1. flow \in FlowType
    BY DEF IInv, TypeOK
  <2>2. delta \in Nat /\ state \in {"GOOD", "BAD"}
    BY <2>1, FlowFields, FlowAssumption DEF delta, state, StabilizationDelta
  <2> QED
    BY <2>2 DEF UpdateProperties
<1>3. CASE \E rtt \in Samples : Sample(rtt)
  <2>1. flow \in FlowType
    BY DEF IInv, TypeOK
  <2>2. state' = state /\ delta' = delta
    BY <1>3, <2>1 DEF Sample, FlowType, state, delta
  <2> QED
    BY <1>2, <2>2
<1>4. CASE Tick
  <2>1. flow \in FlowType
    BY DEF IInv, TypeOK
  <2>2. state' = state /\ delta' = delta
    BY <1>4, <2>1 DEF Tick, OlderFlow, FlowType, state, delta
  <2> QED
    BY <1>2, <2>2
<1>5. CASE UNCHANGED vars
  BY <1>2, <1>5 DEF vars, state, delta
<1> QED
  BY <1>1, <1>3, <1>4, <1>5 DEF Next

-----------------------------------------------------------------------------
(* Backing off limits itself: a GOOD connection that has waited for its       *)
(* delta went bad at least that long ago.                                    *)
ModestInv ==
  /\ DeltaStaysModest
  /\ state = "GOOD" => \/ delta <= DEFAULT_PACKET_STABILIZATION_DELTA
                       \/ delta <= Seconds(flow.m_lastGoodToBadTransition)
  /\ state = "BAD" => flow.m_lastThresholdPass <= flow.m_lastGoodToBadTransition

(* One Update keeps the delta below the bound.                               *)
LEMMA UpdateKeepsModest ==
  ASSUME IInv, ModestInv, Update
  PROVE  ModestInv'
<1> DEFINE M == MINIMUM_REQUIRED_PACKET_STABILIZATION_TIME
           D == DEFAULT_PACKET_STABILIZATION_DELTA
           bad == flow.m_lastGoodToBadTransition
           pass == flow.m_lastThresholdPass
<1>1. flow \in FlowType /\ flow' = DetectFlowChange(flow) /\ flow' \in FlowType
  BY UpdateCases DEF IInv, TypeOK, Update
<1>2. /\ M \in Nat /\ D \in Nat /\ bad \in Nat /\ pass \in Nat
      /\ Seconds(bad) \in Nat /\ Seconds(pass) \in Nat
      /\ pass <= bad => Seconds(pass) <= Seconds(bad)
  BY <1>1, FlowFields, FlowAssumption, SecondsMonotone DEF Age
<1>3. delta \in StabilizationDelta /\ delta \in Nat /\ delta' \in Nat
  BY <1>1, FlowFields, FlowAssumption DEF delta, StabilizationDelta
<1>4. /\ delta <= 2 * D \/ delta <= 2 * M
      /\ state = "GOOD" => delta <= D \/ delta <= Seconds(bad)
      /\ state = "BAD" => pass <= bad
  BY DEF ModestInv, DeltaStaysModest
<1>5. CASE Slow(flow) /\ state = "GOOD" /\ flow' = EnterBad(flow)
  <2>1. /\ state' = "BAD" /\ flow'.m_lastThresholdPass = 0
        /\ flow'.m_lastGoodToBadTransition = 0
        /\ delta' = IF Seconds(bad) <= M THEN Backoff(delta) ELSE delta
    BY <1>1, <1>5, EnterBadFields DEF state, delta
  <2>2. Backoff(delta) <= 2 * delta
    BY <1>3, BackoffDoubles
  <2>3. delta' <= 2 * D \/ delta' <= 2 * M
    BY <1>2, <1>3, <1>4, <1>5, <2>1, <2>2
  <2> QED
    BY <2>1, <2>3 DEF ModestInv, DeltaStaysModest
<1>6. CASE Slow(flow) /\ state = "BAD" /\ flow' = StayBad(flow)
  <2>1. /\ state' = "BAD" /\ flow'.m_lastThresholdPass = 0
        /\ flow'.m_lastGoodToBadTransition = bad /\ delta' = delta
    BY <1>1, <1>6, StayBadFields DEF state, delta
  <2> QED
    BY <1>2, <1>4, <2>1 DEF ModestInv, DeltaStaysModest
<1>7. CASE ~Slow(flow) /\ state = "BAD" /\ flow' = Recover(flow)
  <2>1. /\ state' = "GOOD" => Seconds(pass) >= delta
        /\ flow'.m_lastThresholdPass = pass
        /\ flow'.m_lastGoodToBadTransition = bad /\ delta' = delta
    BY <1>1, <1>7, RecoverFields DEF state, delta
  <2>2. state' = "GOOD" => delta' <= Seconds(flow'.m_lastGoodToBadTransition)
    BY <1>2, <1>3, <1>4, <1>7, <2>1
  <2> QED
    BY <1>4, <1>7, <2>1, <2>2 DEF ModestInv, DeltaStaysModest
<1>8. CASE ~Slow(flow) /\ state = "GOOD" /\ flow' = StayGood(flow)
  <2>1. state' = "GOOD" /\ flow'.m_lastGoodToBadTransition = bad
    BY <1>1, <1>8, StayGoodFields DEF state
  <2>2. delta' = Reduce(delta) \/ delta' = delta
    BY <1>1, <1>8, StayGoodFields DEF delta
  <2>3. delta' <= delta
    BY <1>3, <2>2, ReduceTyped
  <2>4. /\ delta' <= 2 * D \/ delta' <= 2 * M
        /\ delta' <= D \/ delta' <= Seconds(bad)
    BY <1>2, <1>3, <1>4, <1>8, <2>3
  <2> QED
    BY <2>1, <2>4 DEF ModestInv, DeltaStaysModest
<1> QED
  BY <1>5, <1>6, <1>7, <1>8, UpdateCases

(* The strengthened bound holds in every reachable state.                    *)
LEMMA ModestInductive == Spec => []ModestInv
<1>1. Init => ModestInv
  <2> SUFFICES ASSUME Init PROVE ModestInv
    OBVIOUS
  <2>1. state = "GOOD" /\ delta = DEFAULT_PACKET_STABILIZATION_DELTA
    BY DEF Init, InitFlow, state, delta
  <2>2. DEFAULT_PACKET_STABILIZATION_DELTA \in Nat
    BY FlowAssumption
  <2> QED
    BY <2>1, <2>2 DEF ModestInv, DeltaStaysModest
<1>2. IInv /\ ModestInv /\ [Next]_vars => ModestInv'
  <2> SUFFICES ASSUME IInv, ModestInv, [Next]_vars PROVE ModestInv'
    OBVIOUS
  <2>1. flow \in FlowType
    BY DEF IInv, TypeOK
  <2>2. CASE \E rtt \in Samples : Sample(rtt)
    <3>1. /\ state' = state /\ delta' = delta
          /\ flow'.m_lastThresholdPass = flow.m_lastThresholdPass
          /\ flow'.m_lastGoodToBadTransition = flow.m_lastGoodToBadTransition
      BY <2>1, <2>2 DEF Sample, FlowType, state, delta
    <3> QED
      BY <3>1 DEF ModestInv, DeltaStaysModest
  <2>3. CASE Update
    BY <2>3, UpdateKeepsModest
  <2>4. CASE Tick
    <3> DEFINE bad == flow.m_lastGoodToBadTransition
               pass == flow.m_lastThresholdPass
    <3>1. /\ state' = state /\ delta' = delta
          /\ flow'.m_lastThresholdPass = Older(pass)
          /\ flow'.m_lastGoodToBadTransition = Older(bad)
      BY <2>1, <2>4 DEF Tick, OlderFlow, FlowType, state, delta
    <3>2. bad \in Age /\ pass \in Age /\ delta \in Nat
      BY <2>1, FlowFields, FlowAssumption DEF delta, StabilizationDelta
    <3>3. /\ bad \in Nat /\ Older(bad) \in Nat /\ bad <= Older(bad)
          /\ pass <= bad => Older(pass) <= Older(bad)
      BY <3>2, OlderTyped, FlowAssumption DEF Age
    <3>4. /\ Seconds(bad) \in Nat /\ Seconds(Older(bad)) \in Nat
          /\ Seconds(bad) <= Seconds(Older(bad))
      BY <3>3, SecondsMonotone
    <3>5. delta <= Seconds(bad) => delta <= Seconds(Older(bad))
      BY <3>2, <3>4
    <3> HIDE DEF bad, pass
    <3> QED
      BY <3>1, <3>3, <3>5 DEF ModestInv, DeltaStaysModest, bad, pass
  <2>5. CASE UNCHANGED vars
    BY <2>5 DEF ModestInv, DeltaStaysModest, vars, state, delta
  <2> QED
    BY <2>2, <2>3, <2>4, <2>5 DEF Next
<1> QED
  BY <1>1, <1>2, Inductive, PTL DEF Spec

-----------------------------------------------------------------------------
(* Type correctness: in particular the uint8_t delta never leaves its        *)
(* documented range, whatever the samples and the schedule.                  *)
THEOREM TypeCorrect == Spec => []TypeOK
<1>1. IInv => TypeOK
  BY DEF IInv
<1> QED
  BY <1>1, Inductive, PTL

(* The smoothed round trip time lies within the samples measured so far      *)
(* (Receive, Connection.cpp:97-126).                                         *)
THEOREM RttIsWithinSamples == Spec => []RttWithinSamples
<1>1. IInv => RttWithinSamples
  BY DEF IInv
<1> QED
  BY <1>1, Inductive, PTL

(* No BAD -> GOOD transition before a full stabilization delta without a     *)
(* slow round trip time (DetectFlowChange, Connection.cpp:302-312).          *)
THEOREM RecoveryIsNotEarly == Spec => NoEarlyRecovery
<1>1. IInv /\ [Next]_vars
      => [ (state = "BAD" /\ state' = "GOOD")
           => /\ Seconds(sinceSlow) >= delta
              /\ Seconds(sinceBad) >= delta ]_vars
  BY StepProperties DEF UpdateProperties
<1> QED
  BY <1>1, Inductive, PTL DEF Spec, NoEarlyRecovery

(* A relapse within the minimum time doubles the delta the last one left     *)
(* (DetectFlowChange, Connection.cpp:279-298).                               *)
THEOREM RelapsesDouble == Spec => RelapseDoubles
<1>1. IInv /\ [Next]_vars
      => [ ( /\ state = "GOOD" /\ state' = "BAD"
             /\ Seconds(sinceBad) < MINIMUM_REQUIRED_PACKET_STABILIZATION_TIME )
           => delta' = Backoff(deltaAtBad) ]_vars
  BY StepProperties DEF UpdateProperties
<1> QED
  BY <1>1, Inductive, PTL DEF Spec, RelapseDoubles

(* Reductions of the delta are spaced, among themselves and from the last    *)
(* GOOD -> BAD transition (DetectFlowChange, Connection.cpp:315-330).        *)
THEOREM ReductionsAreSpaced == Spec => ReductionsSpaced
<1>1. IInv /\ [Next]_vars
      => [ delta' < delta
           => /\ state = "GOOD" /\ state' = "GOOD"
              /\ Seconds(sinceCut) >= MINIMUM_REQUIRED_PACKET_STABILIZATION_TIME
              /\ Seconds(sinceBad) >= MINIMUM_REQUIRED_PACKET_STABILIZATION_TIME ]_vars
  BY StepProperties DEF UpdateProperties
<1> QED
  BY <1>1, Inductive, PTL DEF Spec, ReductionsSpaced

(* The stabilization delta never exceeds twice the larger of its default and *)
(* the minimum time, whatever the schedule (DetectFlowChange,                *)
(* Connection.cpp:286-294: the cap at line 291 is never taken).              *)
THEOREM DeltaIsModest == Spec => []DeltaStaysModest
<1>1. ModestInv => DeltaStaysModest
  BY DEF ModestInv
<1> QED
  BY <1>1, ModestInductive, PTL
=============================================================================
