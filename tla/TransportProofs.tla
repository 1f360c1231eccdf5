--------------------------- MODULE TransportProofs ---------------------------
(***************************************************************************)
(* Proofs about the transport under the engine.  TrackerContained, for     *)
(* every timeout, every delay between the tracker's clock read and its     *)
(* lock, and any number of openings: what the three threads leave to each  *)
(* other at close(), and a binding racing a check.  RateWithinLimits and   *)
(* NoTimeCreditedTwice, for every configuration, feedback and number of    *)
(* calls of the bandwidth estimators: the only arithmetic that is not      *)
(* linear is the moving average, the decrease and the increase earned over *)
(* a time; each has a lemma, and the step of each call follows from them.  *)
(***************************************************************************)
EXTENDS IceTransport, BandwidthEstimator, TLAPS

-----------------------------------------------------------------------------
(* The consent tracker (ice_juice_transport.cpp). *)

\* The tracker runs only between the end of open() and the join of close().
TrackerInv ==
    /\ thread # "none" => consent_thread_running_ \/ app = "joining"
    /\ consent_thread_running_ => agent /\ app = "idle"
    /\ app \in {"created", "gathering", "joining"} => agent
    /\ app \in {"destroyed", "cleared"} => ~agent
    /\ app = "cleared" => ~consent_lost_fired_
    /\ ~agent /\ app = "idle" => ~consent_lost_fired_

\* While a binding is fresh, the clock of the tracker was set no earlier.
ClockInv ==
    /\ age \in Int /\ lag \in Nat /\ quiet \in Nat
    /\ quiet < Timeout => age <= quiet /\ ~consent_lost_fired_

\* libjuice calls back only between gather and destroy.
SlateInv ==
    /\ gathering => agent /\ app # "created"
    /\ app = "created" \/ (~agent /\ app = "idle") => rx_queue = <<>> /\ state = "Disconnected"

IceInv == TrackerInv /\ ClockInv /\ SlateInv

----------------------------------------------------------------------------
LEMMA IceInitial == IceInit => IceInv
BY SMTT(20), IceAssumption DEF IceAssumption, IceInit, IceInv, TrackerInv, ClockInv, SlateInv, Unprimed

LEMMA TrackerKept == IceInv /\ [IceNext]_iceVars => TrackerInv'
<1> SUFFICES ASSUME IceInv, [IceNext]_iceVars PROVE TrackerInv'
  BY Zenon
<1> USE DEF IceInv, TrackerInv, juice, media, flags, timer
<1>1. CASE create_agent
  BY Zenon, <1>1 DEF create_agent
<1>2. CASE gather
  BY Zenon, <1>2 DEF gather
<1>3. CASE start_consent_tracker
  BY Zenon, <1>3 DEF start_consent_tracker, Primed
<1>4. CASE stop_consent_tracker
  BY Zenon, <1>4 DEF stop_consent_tracker
<1>5. CASE join
  BY Zenon, <1>5 DEF join
<1>6. CASE destroy_agent
  BY Zenon, <1>6 DEF destroy_agent
<1>7. CASE clear_consent
  BY Zenon, <1>7 DEF clear_consent
<1>8. CASE clear_media
  BY Zenon, <1>8 DEF clear_media
<1>9. ASSUME NEW d \in Descriptions, set_remote_description(d) PROVE TrackerInv'
  BY Zenon, <1>9 DEF set_remote_description
<1>10. CASE recv \/ last_recv_packet
  BY <1>10 DEF recv, last_recv_packet
<1>11. CASE notify_binding_received
  BY Zenon, <1>11 DEF notify_binding_received
<1>12. ASSUME NEW s \in States, on_state(s) PROVE TrackerInv'
  BY Zenon, <1>12 DEF on_state
<1>13. CASE on_candidate \/ on_gathering_done \/ juice_recv_cb
  BY <1>13 DEF on_candidate, on_gathering_done, juice_recv_cb
<1>14. CASE LoopTop \/ Wake \/ CallbackReturns
  BY <1>14 DEF LoopTop, Wake, CallbackReturns
<1>15. CASE CheckExpiry
  BY Zenon, <1>15 DEF CheckExpiry
<1>16. CASE Pass
  BY Zenon, <1>16 DEF Pass
<1>17. CASE UNCHANGED iceVars
  BY Zenon, <1>17 DEF iceVars
<1> QED BY Zenon, <1>1, <1>2, <1>3, <1>4, <1>5, <1>6, <1>7, <1>8, <1>9, <1>10, <1>11, <1>12, <1>13,
           <1>14, <1>15, <1>16, <1>17 DEF IceNext, Opening, Closing, Tracker

LEMMA ClockKept == IceInv /\ [IceNext]_iceVars => ClockInv'
<1> SUFFICES ASSUME IceInv, [IceNext]_iceVars PROVE ClockInv'
  BY Zenon
<1> USE DEF ClockInv, timer
<1>0. ClockInv /\ Timeout \in Nat /\ MaxLag \in Nat
  BY Zenon, IceAssumption DEF IceAssumption, IceInv
<1>1. CASE UNCHANGED <<timer, lag>>
  BY Zenon, <1>0, <1>1
<1>2. CASE start_consent_tracker
  BY <1>0, <1>2 DEF start_consent_tracker, Primed
<1>3. CASE clear_consent
  BY <1>0, <1>3 DEF clear_consent, Unprimed
<1>4. CASE notify_binding_received
  BY <1>0, <1>4 DEF notify_binding_received
<1>5. CASE Wake
  BY Zenon, <1>0, <1>5 DEF Wake
<1>6. CASE CheckExpiry
  <2>1. CASE Lost
    <3>1. quiet >= Timeout
      BY <1>0, <2>1 DEF Lost
    <3> QED BY <1>0, <1>6, <2>1, <3>1 DEF CheckExpiry
  <2>2. CASE ~Lost
    BY Zenon, <1>0, <1>6, <2>2 DEF CheckExpiry
  <2> QED BY Zenon, <2>1, <2>2
<1>7. CASE Pass
  <2>1. (age' \in Int /\ age' <= age + 1) \/ age' = Unprimed
    BY <1>0, <1>7 DEF Pass, Least, MaxAge, Unprimed
  <2>2. lag' \in Nat
    BY <1>0, <1>7 DEF Pass
  <2>3. quiet' \in Nat /\ (quiet' < Timeout => quiet' = quiet + 1)
    BY SMTT(20), <1>0, <1>7 DEF Pass, Least
  <2>4. consent_lost_fired_' = consent_lost_fired_
    BY ZenonT(30), <1>7 DEF Pass
  <2> QED BY <1>0, <2>1, <2>2, <2>3, <2>4 DEF Unprimed
<1> QED BY Zenon, <1>1, <1>2, <1>3, <1>4, <1>5, <1>6, <1>7
    DEF IceNext, Opening, Closing, Tracker, iceVars, create_agent, gather, stop_consent_tracker, join,
        destroy_agent, clear_media, set_remote_description, recv, last_recv_packet, on_state,
        on_candidate, on_gathering_done, juice_recv_cb, LoopTop, CallbackReturns

LEMMA SlateKept == IceInv /\ [IceNext]_iceVars => SlateInv'
<1> SUFFICES ASSUME IceInv, [IceNext]_iceVars PROVE SlateInv'
  BY Zenon
<1> USE DEF IceInv, TrackerInv, SlateInv, juice, media
<1>1. CASE UNCHANGED <<app, juice, media>>
  BY Zenon, <1>1
<1>2. CASE create_agent
  BY Zenon, <1>2 DEF create_agent
<1>3. CASE gather
  BY Zenon, <1>3 DEF gather
<1>4. CASE start_consent_tracker
  BY Zenon, <1>4 DEF start_consent_tracker
<1>5. CASE stop_consent_tracker
  BY Zenon, <1>5 DEF stop_consent_tracker
<1>6. CASE join
  BY Zenon, <1>6 DEF join
<1>7. CASE destroy_agent
  BY Zenon, <1>7 DEF destroy_agent
<1>8. CASE clear_consent
  BY Zenon, <1>8 DEF clear_consent
<1>9. CASE clear_media
  BY Zenon, <1>9 DEF clear_media
<1>10. ASSUME NEW d \in Descriptions, set_remote_description(d) PROVE SlateInv'
  BY Zenon, <1>10 DEF set_remote_description
<1>11. CASE recv \/ last_recv_packet
  BY Zenon, <1>11 DEF recv, last_recv_packet
<1>12. ASSUME NEW s \in States, on_state(s) PROVE SlateInv'
  BY Zenon, <1>12 DEF on_state
<1>13. CASE on_candidate \/ on_gathering_done \/ juice_recv_cb
  BY Zenon, <1>13 DEF on_candidate, on_gathering_done, juice_recv_cb
<1>14. CASE Pass
  BY Zenon, <1>14 DEF Pass
<1> QED BY <1>1, <1>2, <1>3, <1>4, <1>5, <1>6, <1>7, <1>8, <1>9, <1>10, <1>11, <1>12, <1>13, <1>14
    DEF IceNext, Opening, Closing, Tracker, iceVars, notify_binding_received, LoopTop, Wake,
        CheckExpiry, CallbackReturns

LEMMA InvGivesContained == IceInv => TrackerContained
<1> SUFFICES ASSUME IceInv PROVE TrackerContained
  BY Zenon
<1>1. NoCallbackAfterClose
  BY Zenon DEF IceInv, TrackerInv, NoCallbackAfterClose
<1>2. NotifyNotLost
  BY IceAssumption DEF IceAssumption, IceInv, ClockInv, NotifyNotLost
<1>3. CleanSlate
  BY Zenon DEF IceInv, SlateInv, CleanSlate
<1> QED BY Zenon, <1>1, <1>2, <1>3 DEF TrackerContained

(* Whatever the order of the application's calls, libjuice's callbacks and   *)
(* the tracker's steps, and whatever consent_timeout_ms: no callback of the  *)
(* tracker runs once close() has destroyed the agent, a binding reported     *)
(* during a check is not overruled by it, and a transport opened again has   *)
(* neither the queued packets nor the state of the agent before (close(),    *)
(* consent_thread_main).                                                     *)
THEOREM TrackerStaysContained == IceSpec => []TrackerContained
<1>1. IceInv /\ [IceNext]_iceVars => IceInv'
  BY Zenon, TrackerKept, ClockKept, SlateKept DEF IceInv
<1> QED BY <1>1, IceInitial, InvGivesContained, PTL DEF IceSpec

-----------------------------------------------------------------------------
(* The rates of the bandwidth estimators (bandwidth_estimator.cpp). *)

\* Clamp lands in the limits whatever it is given.
LEMMA ClampInLimits ==
    ASSUME NEW lo \in Nat, NEW hi \in Nat, lo <= hi, NEW cfg, cfg.min = lo, cfg.max = hi,
           NEW r \in Int
    PROVE  Clamp(cfg, r) \in lo .. hi
BY DEF Clamp, BweMin, BweMax

\* A truncated weighted mean of two rates within the limits is within them.
LEMMA MeanInLimits ==
    ASSUME NEW lo \in Nat, NEW hi \in Nat, NEW a \in 0 .. 100,
           NEW c \in lo .. hi, NEW s \in lo .. hi
    PROVE  (a * c + (100 - a) * s) \div 100 \in lo .. hi
<1>1. a * lo <= a * c /\ a * c <= a * hi
    BY SMTT(30)
<1>2. (100 - a) * lo <= (100 - a) * s /\ (100 - a) * s <= (100 - a) * hi
    <2> DEFINE b == 100 - a
    <2>1. b \in Nat
        OBVIOUS
    <2>2. b * lo <= b * s /\ b * s <= b * hi
        <3> HIDE DEF b
        <3> QED BY Zenon, <2>1, SMTT(30)
    <2> QED BY Zenon, <2>2
<1>3. a * lo + (100 - a) * lo = 100 * lo /\ a * hi + (100 - a) * hi = 100 * hi
    BY SMTT(30)
<1> DEFINE m == a * c + (100 - a) * s
<1>4. m \in Int /\ 100 * lo <= m /\ m <= 100 * hi
    BY Zenon, <1>1, <1>2, <1>3, SMTT(30)
<1> HIDE DEF m
<1>5. m \div 100 \in lo .. hi
    BY <1>4
<1> QED BY Zenon, <1>5 DEF m

----------------------------------------------------------------------------
(* The inductive invariant                                                 *)

Reasons == {"Initial", "REMBOverride", "AIMDDecrease", "AIMDIncrease", "RttIncrease"}

Estimators ==
    [kind : {"aimd", "goog-cc"}, cfg : BweConfigs, current : Int, smoothed : Int,
     last_change : Int, decrease_start : Int, state : {"kIncrease", "kDecrease"}, lossy : BOOLEAN,
     min_rtt : Int, reason : Reasons]

\* An estimator whose two rates are within its limits.
InLimits(e) ==
    /\ e \in Estimators
    /\ e.current \in e.cfg.min .. e.cfg.max
    /\ e.smoothed \in e.cfg.min .. e.cfg.max

BweInv == InLimits(est) /\ bclock \in Int

LEMMA ConfigTypes ==
    ASSUME NEW c \in BweConfigs
    PROVE  /\ c.min \in Nat /\ c.max \in Nat /\ c.min <= c.max /\ c.initial \in c.min .. c.max
           /\ c.increase \in Nat /\ c.decrease \in 0 .. 100 /\ c.alpha \in 0 .. 100
BY BweAssumption

LEMMA NewInLimits ==
    ASSUME NEW c \in BweConfigs, NEW k \in {"aimd", "goog-cc"}
    PROVE  InLimits(NewEstimator(k, c))
BY ConfigTypes DEF InLimits, NewEstimator, Estimators, Reasons, NoTime

LEMMA RembKeeps ==
    ASSUME NEW e, InLimits(e), NEW fb \in BweFeedbacks, NEW now \in Int
    PROVE  InLimits(RembOverride(e, fb, now))
<1>1. e.cfg \in BweConfigs
    BY Zenon DEF InLimits, Estimators, Reasons
<1>2. CASE Overrides(e, fb)
    <2>1. fb.remb \in Nat
        BY Zenon, <1>2, BweAssumption DEF Overrides, NoRemb
    <2>2. (fb.remb * 4) \div 5 \in Int
        BY <2>1
    <2>3. Trusted(e.cfg, fb.remb) \in e.cfg.min .. e.cfg.max
        BY Zenon, <1>1, <2>2, ConfigTypes, ClampInLimits DEF Trusted
    <2> DEFINE t == Trusted(e.cfg, fb.remb)
    <2>4. t \in e.cfg.min .. e.cfg.max /\ t \in Int
        BY <1>1, <2>3, ConfigTypes
    <2>5. RembOverride(e, fb, now) =
              [e EXCEPT !.current = t, !.reason = "REMBOverride",
                        !.last_change = IF e.kind = "goog-cc" THEN now ELSE @]
        BY Zenon, <1>2 DEF RembOverride
    <2> HIDE DEF t
    <2> QED BY ZenonT(30), <2>4, <2>5 DEF InLimits, Estimators, Reasons
<1>3. CASE ~Overrides(e, fb)
    BY Zenon, <1>3 DEF RembOverride
<1> QED BY Zenon, <1>2, <1>3

LEMMA DecreasedKeeps ==
    ASSUME NEW e, InLimits(e), NEW p \in Int, NEW r \in Reasons, NEW now \in Int
    PROVE  InLimits(Decreased(e, p, r, now))
<1>1. e.cfg \in BweConfigs /\ e.current \in Int
    BY Zenon DEF InLimits, Estimators, Reasons
<1> DEFINE next == Clamp(e.cfg, (e.current * p) \div 100)
<1>2. (e.current * p) \div 100 \in Int
    BY <1>1
<1>3. next \in e.cfg.min .. e.cfg.max /\ next \in Int
    BY <1>1, <1>2, ConfigTypes, ClampInLimits
<1>4. CASE next = e.current
    BY Zenon, <1>4 DEF Decreased
<1>5. CASE next # e.current
    <2> DEFINE f == [e EXCEPT !.current = next, !.reason = r, !.decrease_start = now,
                              !.state = IF e.kind = "aimd" THEN "kDecrease" ELSE @,
                              !.last_change = IF e.kind = "goog-cc" THEN now ELSE @]
    <2>1. Decreased(e, p, r, now) = f
        BY Zenon, <1>5 DEF Decreased
    <2> HIDE DEF next
    <2>2. f \in Estimators
        BY Zenon, <1>3 DEF InLimits, Estimators
    <2>3. f.current = next /\ f.smoothed = e.smoothed /\ f.cfg = e.cfg
        BY Zenon DEF InLimits, Estimators
    <2> HIDE DEF f
    <2> QED BY Zenon, <1>3, <2>1, <2>2, <2>3 DEF InLimits
<1> QED BY Zenon, <1>4, <1>5

LEMMA RaisedKeeps ==
    ASSUME NEW e, InLimits(e), NEW rate \in Int, NEW now \in Int
    PROVE  InLimits(Raised(e, rate, now))
<1>1. e.cfg \in BweConfigs /\ e.current \in e.cfg.min .. e.cfg.max
    BY Zenon DEF InLimits, Estimators, Reasons
<1>2. rate % RateSpace \in Int
    BY BweAssumption
<1> DEFINE next == BweMin(rate % RateSpace, e.cfg.max)
<1>3. next \in Int /\ next <= e.cfg.max
    BY <1>1, <1>2, ConfigTypes DEF BweMin
<1>4. CASE ~(next > e.current)
    BY Zenon, <1>4 DEF Raised
<1>5. CASE next > e.current
    <2> DEFINE f == [e EXCEPT !.current = next, !.reason = "AIMDIncrease", !.last_change = now]
    <2>1. Raised(e, rate, now) = f
        BY Zenon, <1>5 DEF Raised
    <2>2. next \in e.cfg.min .. e.cfg.max
        <3> HIDE DEF next
        <3> QED BY <1>1, <1>3, <1>5, ConfigTypes
    <2> HIDE DEF next
    <2>3. f \in Estimators
        BY Zenon, <1>3 DEF InLimits, Estimators, Reasons
    <2>4. f.current = next /\ f.smoothed = e.smoothed /\ f.cfg = e.cfg
        BY Zenon DEF InLimits, Estimators
    <2> HIDE DEF f
    <2> QED BY Zenon, <2>1, <2>2, <2>3, <2>4 DEF InLimits
<1> QED BY Zenon, <1>4, <1>5

LEMMA IncreaseKeeps ==
    ASSUME NEW e, InLimits(e), NEW shares \in SUBSET Int, NEW now \in Int,
           NEW f \in IncreaseBy(e, shares, now)
    PROVE  InLimits(f)
<1>1. CASE e.last_change = NoTime
    BY Zenon, <1>1 DEF IncreaseBy, InLimits, Estimators
<1>2. CASE e.last_change # NoTime /\ ~DueForChange(e, now)
    BY Zenon, <1>2 DEF IncreaseBy
<1>3. CASE e.last_change # NoTime /\ DueForChange(e, now)
    <2>1. PICK s \in shares : f = Raised(e, e.current + s, now)
        BY Zenon, <1>3 DEF IncreaseBy
    <2>2. e.current + s \in Int
        BY DEF InLimits, Estimators, Reasons
    <2> QED BY Zenon, <2>1, <2>2, RaisedKeeps
<1> QED BY Zenon, <1>1, <1>2, <1>3

LEMMA CastInt ==
    ASSUME NEW x \in Int
    PROVE  Cast32(x) \in SUBSET Int
BY BweAssumption DEF Cast32

----------------------------------------------------------------------------
(* One feedback                                                            *)

LEMMA CooledKeeps ==
    ASSUME NEW e, InLimits(e), NEW now
    PROVE  InLimits(Cooled(e, now))
BY Zenon DEF Cooled, InLimits, Estimators

LEMMA CooledSame ==
    ASSUME NEW e, InLimits(e), NEW now
    PROVE  /\ Cooled(e, now).current = e.current /\ Cooled(e, now).last_change = e.last_change
           /\ Cooled(e, now).cfg = e.cfg /\ Cooled(e, now).kind = e.kind
<1>1. CASE Cooled(e, now) = e
    BY Zenon, <1>1
<1>2. CASE Cooled(e, now) = [e EXCEPT !.state = "kIncrease"]
    BY Zenon, <1>2 DEF InLimits, Estimators
<1> QED BY Zenon, <1>1, <1>2 DEF Cooled

LEMMA BaselineKeeps ==
    ASSUME NEW e, InLimits(e), NEW rtt \in Int
    PROVE  InLimits(Baseline(e, rtt))
BY Zenon DEF Baseline, InLimits, Estimators

\* The shares of an increase are whole numbers.
LEMMA SharesInt ==
    ASSUME NEW e, InLimits(e), NEW fb \in BweFeedbacks, NEW now \in Int
    PROVE  /\ Additive(e, now) \in Int /\ RttShare(e, fb) \in Int /\ Probe(e, now) \in Int
<1>1. e.cfg.increase \in Int /\ e.last_change \in Int /\ e.current \in Int
    BY ConfigTypes DEF InLimits, Estimators
<1>2. fb.rtt \in Int
    BY BweAssumption
<1>3. e.cfg.increase * (now - e.last_change) \in Int /\ e.current * (now - e.last_change) \in Int
      /\ e.current * fb.rtt \in Int
    BY SMTT(20), <1>1, <1>2
<1> QED BY <1>3 DEF Additive, RttShare, Probe

\* What an increase may add: the casts of the two shares, summed.
Shares(e, fb, now) == {a + b : a \in Cast32(Additive(e, now)), b \in Cast32(RttShare(e, fb))}

LEMMA AimdUnfolds ==
    ASSUME NEW e0, NEW fb, NEW now
    PROVE  AimdFeedback(e0, fb, now) =
             LET e == RembOverride(e0, fb, now)
                 c == Cooled(e, now)
             IN  IF LossEvent(e0, fb) THEN {Decreased(e, e.cfg.decrease, "AIMDDecrease", now)}
                 ELSE IF c.state = "kDecrease" THEN {c} ELSE IncreaseBy(c, Shares(c, fb, now), now)
BY SMT DEF AimdFeedback, Shares

LEMMA AimdKeeps ==
    ASSUME NEW e0, InLimits(e0), NEW fb \in BweFeedbacks, NEW now \in Int,
           NEW f \in AimdFeedback(e0, fb, now)
    PROVE  InLimits(f)
<1> DEFINE e == RembOverride(e0, fb, now)
           c == Cooled(e, now)
<1>1. InLimits(e)
    BY Zenon, RembKeeps
<1>2. InLimits(c)
    <2> HIDE DEF e
    <2> QED BY Zenon, <1>1, CooledKeeps
<1>3. f \in IF LossEvent(e0, fb) THEN {Decreased(e, e.cfg.decrease, "AIMDDecrease", now)}
           ELSE IF c.state = "kDecrease" THEN {c} ELSE IncreaseBy(c, Shares(c, fb, now), now)
    BY Zenon, AimdUnfolds
<1>4. e.cfg.decrease \in Int
    <2> HIDE DEF e
    <2> QED BY <1>1, ConfigTypes DEF InLimits, Estimators
<1>5. Shares(c, fb, now) \in SUBSET Int
    <2> HIDE DEF c
    <2>1. Additive(c, now) \in Int /\ RttShare(c, fb) \in Int
        BY Zenon, <1>2, SharesInt
    <2>2. Cast32(Additive(c, now)) \in SUBSET Int /\ Cast32(RttShare(c, fb)) \in SUBSET Int
        BY Zenon, <2>1, CastInt
    <2> QED BY <2>2 DEF Shares
<1> HIDE DEF e, c
<1>6. CASE LossEvent(e0, fb)
    BY Zenon, <1>1, <1>3, <1>4, <1>6, DecreasedKeeps DEF Reasons
<1>7. CASE ~LossEvent(e0, fb) /\ c.state = "kDecrease"
    BY Zenon, <1>2, <1>3, <1>7
<1>8. CASE ~LossEvent(e0, fb) /\ c.state # "kDecrease"
    BY Zenon, <1>2, <1>3, <1>5, <1>8, IncreaseKeeps
<1> QED BY Zenon, <1>6, <1>7, <1>8

LEMMA GoogCcKeeps ==
    ASSUME NEW e0, InLimits(e0), NEW fb \in BweFeedbacks, NEW now \in Int,
           NEW f \in GoogCcFeedback(e0, fb, now)
    PROVE  InLimits(f)
<1> DEFINE b == Baseline(e0, fb.rtt)
           e == RembOverride(b, fb, now)
           shares == Cast32(BweMax(Additive(e, now), Probe(e, now)))
<1>1. InLimits(b)
    BY BaselineKeeps, BweAssumption
<1>2. InLimits(e)
    <2> HIDE DEF b
    <2> QED BY Zenon, <1>1, RembKeeps
<1>3. f \in IF LossEvent(e0, fb) THEN {Decreased(e, e.cfg.decrease, "AIMDDecrease", now)}
           ELSE IF is_overuse(e, fb.rtt) THEN {Decreased(e, 85, "RttIncrease", now)}
           ELSE IF fb.lossy \/ in_cooldown(e, now) THEN {e}
           ELSE IncreaseBy(e, shares, now)
    BY Zenon DEF GoogCcFeedback
<1> HIDE DEF b, e
<1>4. e.cfg.decrease \in Int
    BY <1>2, ConfigTypes DEF InLimits, Estimators
<1>5. shares \in SUBSET Int
    <2>1. BweMax(Additive(e, now), Probe(e, now)) \in Int
        BY Zenon, <1>2, SharesInt DEF BweMax
    <2> QED BY Zenon, <2>1, CastInt
<1> HIDE DEF shares
<1>6. CASE LossEvent(e0, fb)
    BY Zenon, <1>2, <1>3, <1>4, <1>6, DecreasedKeeps DEF Reasons
<1>7. CASE ~LossEvent(e0, fb) /\ is_overuse(e, fb.rtt)
    BY <1>2, <1>3, <1>7, DecreasedKeeps DEF Reasons
<1>8. CASE ~LossEvent(e0, fb) /\ ~is_overuse(e, fb.rtt) /\ (fb.lossy \/ in_cooldown(e, now))
    BY Zenon, <1>2, <1>3, <1>8
<1>9. CASE ~LossEvent(e0, fb) /\ ~is_overuse(e, fb.rtt) /\ ~(fb.lossy \/ in_cooldown(e, now))
    BY Zenon, <1>2, <1>3, <1>5, <1>9, IncreaseKeeps
<1> QED BY Zenon, <1>6, <1>7, <1>8, <1>9

LEMMA FeedbackKeeps ==
    ASSUME BweInv, NEW fb \in BweFeedbacks, NEW dt \in BweSteps, on_feedback(fb, dt)
    PROVE  BweInv'
<1> DEFINE now == bclock + dt
<1>1. now \in Int
    BY SMTT(20), BweAssumption DEF BweInv
<1>2. PICK e \in IF est.kind = "aimd" THEN AimdFeedback(est, fb, now)
                ELSE GoogCcFeedback(est, fb, now) :
          est' = [e EXCEPT !.smoothed = Smoothed(e), !.lossy = fb.lossy]
    BY Zenon DEF on_feedback
<1>3. bclock' = now
    BY Zenon DEF on_feedback
<1> HIDE DEF now
<1>4. InLimits(e)
    BY Zenon, <1>1, <1>2, AimdKeeps, GoogCcKeeps DEF BweInv
<1>5. e.cfg \in BweConfigs /\ e.current \in e.cfg.min .. e.cfg.max
      /\ e.smoothed \in e.cfg.min .. e.cfg.max
    BY Zenon, <1>4 DEF InLimits, Estimators
<1>6. Smoothed(e) \in e.cfg.min .. e.cfg.max
    BY ZenonT(30), <1>5, ConfigTypes, MeanInLimits DEF Smoothed
<1>7. Smoothed(e) \in Int /\ fb.lossy \in BOOLEAN
    BY <1>5, <1>6, ConfigTypes, BweAssumption
<1> DEFINE m == Smoothed(e)
           f == [e EXCEPT !.smoothed = m, !.lossy = fb.lossy]
<1>8. m \in Int /\ m \in e.cfg.min .. e.cfg.max
    BY Zenon, <1>6, <1>7
<1>9. est' = f
    BY Zenon, <1>2
<1> HIDE DEF m
<1>10. f \in Estimators
    BY Zenon, <1>4, <1>7, <1>8 DEF InLimits, Estimators
<1>11. f.smoothed = m /\ f.current = e.current /\ f.cfg = e.cfg
    BY Zenon, <1>4 DEF InLimits, Estimators
<1> HIDE DEF f
<1> QED BY Zenon, <1>1, <1>3, <1>5, <1>8, <1>9, <1>10, <1>11 DEF InLimits, BweInv

LEMMA ConfigKeeps ==
    ASSUME BweInv, NEW cfg \in BweConfigs, update_config(cfg)
    PROVE  BweInv'
<1> DEFINE c == Clamp(cfg, est.current)
           s == Clamp(cfg, est.smoothed)
           f == [est EXCEPT !.cfg = cfg, !.current = c, !.smoothed = s]
<1>1. est \in Estimators
    BY Zenon DEF BweInv, InLimits
<1>2. est.current \in Int /\ est.smoothed \in Int
    BY Zenon, <1>1 DEF Estimators
<1>3. c \in cfg.min .. cfg.max /\ s \in cfg.min .. cfg.max /\ c \in Int /\ s \in Int
    BY <1>2, ConfigTypes, ClampInLimits
<1>4. est' = f /\ bclock' = bclock
    BY Zenon DEF update_config
<1> HIDE DEF c, s
<1>5. f \in Estimators /\ f.cfg = cfg /\ f.current = c /\ f.smoothed = s
    BY Zenon, <1>1, <1>3 DEF Estimators
<1> HIDE DEF f
<1> QED BY Zenon, <1>3, <1>4, <1>5 DEF BweInv, InLimits

----------------------------------------------------------------------------
(* The theorem                                                             *)

\* The invariant covers the pacing rate: it is the smoothed rate raised by a
\* tenth, rounded down, and held to the maximum.
LEMMA InvImpliesLimits ==
    ASSUME BweInv
    PROVE  RateWithinLimits
<1>1. est.cfg \in BweConfigs /\ est.smoothed \in est.cfg.min .. est.cfg.max
    BY Zenon DEF BweInv, InLimits, Estimators
<1>2. Pacing(est) \in est.cfg.min .. est.cfg.max
    BY <1>1, ConfigTypes DEF Pacing, BweMin
<1> QED BY Zenon, <1>2 DEF RateWithinLimits, BweInv, InLimits

\* Bwe and GoogCcBwe: whatever is fed back, and however the limits change,
\* the working rate, the target and the pacing rate are within the limits.
THEOREM RateAlwaysWithinLimits == BweSpec => []RateWithinLimits
<1>1. BweInit => BweInv
    <2> SUFFICES ASSUME BweInit PROVE BweInv
        BY Zenon
    <2>1. PICK kind \in {"aimd", "goog-cc"}, cfg \in BweConfigs : est = NewEstimator(kind, cfg)
        BY Zenon DEF BweInit
    <2> QED BY <2>1, NewInLimits DEF BweInit, BweInv
<1>2. BweInv /\ [BweNext]_bweVars => BweInv'
    <2> SUFFICES ASSUME BweInv, [BweNext]_bweVars PROVE BweInv'
        BY Zenon
    <2>1. CASE \E fb \in BweFeedbacks, dt \in BweSteps : on_feedback(fb, dt)
        BY Zenon, <2>1, FeedbackKeeps
    <2>2. CASE \E cfg \in BweConfigs : update_config(cfg)
        BY Zenon, <2>2, ConfigKeeps
    <2>3. CASE bwe_reset
        <3>1. est' = NewEstimator(est.kind, est.cfg) /\ bclock' = bclock
            BY Zenon, <2>3 DEF bwe_reset
        <3>2. est.kind \in {"aimd", "goog-cc"} /\ est.cfg \in BweConfigs
            BY Zenon DEF BweInv, InLimits, Estimators
        <3> QED BY Zenon, <3>1, <3>2, NewInLimits DEF BweInv
    <2>4. CASE UNCHANGED bweVars
        BY Zenon, <2>4 DEF bweVars, BweInv, InLimits
    <2> QED BY Zenon, <2>1, <2>2, <2>3, <2>4 DEF BweNext
<1>3. BweInv => RateWithinLimits
    BY Zenon, InvImpliesLimits
<1> QED BY <1>1, <1>2, <1>3, PTL DEF BweSpec

----------------------------------------------------------------------------
(* Time and increases                                                      *)

\* What the additive increase is worth over a time, rounded down.
Earned(rate, time) == (rate * time) \div 1000

\* The rate is paid for up to the time of the last change: that is what the
\* bound up to now needs to survive the next increase.
Credited(cur, last, base, boost, rate, since, now) ==
    /\ cur \in Int /\ last \in Int /\ base \in Int /\ boost \in Nat /\ rate \in Nat
    /\ since \in Int /\ now \in Nat
    /\ since = NoTime => last = NoTime
    /\ since # NoTime => 0 <= since /\ since <= now
    /\ last = NoTime => cur <= base + boost
    /\ last # NoTime => /\ since <= last /\ last <= now
                        /\ cur <= base + boost + Earned(rate, last - since)

LEMMA EarnedAdds ==
    ASSUME NEW rate \in Nat, NEW r \in Nat, r <= rate, NEW t \in Nat, NEW u \in Nat
    PROVE  /\ Earned(rate, t) \in Nat /\ Earned(r, t) <= Earned(rate, t)
           /\ Earned(rate, t) + Earned(r, u) <= Earned(rate, t + u)
<1> DEFINE x == rate * t
           y == r * u
           z == rate * (t + u)
           w == r * t
<1>1. x \in Nat /\ y \in Nat /\ z \in Nat /\ w \in Nat
    BY SMTT(30)
<1>2. w <= x
    BY SMTT(30)
<1>3. r * u <= rate * u
    BY SMTT(30)
<1>4. rate * (t + u) = rate * t + rate * u
    BY SMTT(30)
<1>5. x + y <= z
    BY Zenon, <1>3, <1>4, SMTT(30)
<1> HIDE DEF x, y, z, w
<1>6. x \div 1000 \in Nat /\ w \div 1000 <= x \div 1000 /\ x \div 1000 + y \div 1000 <= z \div 1000
    BY <1>1, <1>2, <1>5
<1> QED BY Zenon, <1>6 DEF Earned, x, y, z, w

LEMMA EarnedNat ==
    ASSUME NEW rate \in Nat, NEW t \in Nat
    PROVE  Earned(rate, t) \in Nat
BY EarnedAdds

\* What the credit is made of.
LEMMA CreditTypes ==
    ASSUME NEW cur, NEW last, NEW base, NEW boost, NEW rate, NEW since, NEW now,
           Credited(cur, last, base, boost, rate, since, now)
    PROVE  /\ cur \in Int /\ last \in Int /\ base \in Int /\ boost \in Nat /\ rate \in Nat
           /\ since \in Int /\ now \in Nat
           /\ since # NoTime => now - since \in Nat
           /\ last # NoTime => last - since \in Nat /\ now - last \in Nat
BY DEF Credited

\* The conversion to 32 bits never gives more than it is given.
LEMMA CastAtMost ==
    ASSUME NEW x \in Nat, NEW y \in Cast32(x)
    PROVE  y \in Nat /\ y <= x
BY BweAssumption DEF Cast32

\* More base, more boost, a higher rate and a later time pay for as much.
LEMMA CreditGrows ==
    ASSUME NEW cur, NEW last, NEW base, NEW boost, NEW rate, NEW since, NEW now,
           Credited(cur, last, base, boost, rate, since, now),
           NEW cur1 \in Int, NEW base1 \in Int, NEW boost1 \in Nat, NEW rate1 \in Nat, NEW now1 \in Nat,
           base <= base1, boost <= boost1, rate <= rate1, now <= now1,
           cur1 <= cur \/ cur1 <= base1
    PROVE  Credited(cur1, last, base1, boost1, rate1, since, now1)
<1>1. CASE last = NoTime
    BY <1>1 DEF Credited
<1>2. CASE last # NoTime
    <2>1. last - since \in Nat
        BY <1>2 DEF Credited
    <2> DEFINE a == Earned(rate, last - since)
               b == Earned(rate1, last - since)
    <2>2. a \in Nat /\ b \in Nat /\ a <= b
        BY <2>1, EarnedAdds DEF Credited
    <2>3. cur <= base + boost + a
        BY Zenon, <1>2 DEF Credited
    <2> HIDE DEF a, b
    <2>4. cur1 <= base1 + boost1 + b
        BY <2>2, <2>3 DEF Credited
    <2> QED BY <1>2, <2>4 DEF Credited, b
<1> QED BY Zenon, <1>1, <1>2

\* Time passes.
LEMMA CreditWaits ==
    ASSUME NEW cur, NEW last, NEW base, NEW boost, NEW rate, NEW since, NEW now,
           Credited(cur, last, base, boost, rate, since, now), NEW now1 \in Nat, now <= now1
    PROVE  Credited(cur, last, base, boost, rate, since, now1)
<1>1. cur \in Int /\ base \in Int /\ boost \in Nat /\ rate \in Nat
    BY Zenon DEF Credited
<1>2. base <= base /\ boost <= boost /\ rate <= rate /\ cur <= cur
    BY <1>1
<1> QED BY <1>1, <1>2, CreditGrows

\* The first feedback starts the time.
LEMMA CreditStarts ==
    ASSUME NEW cur, NEW last, NEW base, NEW boost, NEW rate, NEW since, NEW now \in Nat,
           Credited(cur, last, base, boost, rate, since, now)
    PROVE  Credited(cur, last, base, boost, rate, IF since = NoTime THEN now ELSE since, now)
BY DEF Credited, NoTime

\* A boost on top pays for as much.
LEMMA CreditBoosts ==
    ASSUME NEW cur, NEW last, NEW base, NEW boost, NEW rate, NEW since, NEW now, NEW share \in Nat,
           Credited(cur, last, base, boost, rate, since, now)
    PROVE  Credited(cur, last, base, boost + share, rate, since, now)
<1>1. CASE last = NoTime
    BY <1>1 DEF Credited
<1>2. CASE last # NoTime
    <2> DEFINE sum == Earned(rate, last - since)
    <2>1. last - since \in Nat /\ rate \in Nat
        BY <1>2 DEF Credited
    <2>2. sum \in Nat
        BY Zenon, <2>1, EarnedNat
    <2>3. cur <= base + boost + sum
        BY Zenon, <1>2 DEF Credited
    <2> HIDE DEF sum
    <2>4. cur <= base + (boost + share) + sum
        BY <2>2, <2>3 DEF Credited
    <2> QED BY <1>2, <2>4 DEF Credited, sum
<1> QED BY Zenon, <1>1, <1>2

\* A lower rate needs less.
LEMMA CreditLowers ==
    ASSUME NEW cur, NEW last, NEW base, NEW boost, NEW rate, NEW since, NEW now,
           Credited(cur, last, base, boost, rate, since, now), NEW cur1 \in Int, cur1 <= cur
    PROVE  Credited(cur1, last, base, boost, rate, since, now)
<1> DEFINE sum == Earned(rate, last - since)
<1>1. last # NoTime => sum \in Nat
    BY EarnedNat DEF Credited
<1> QED BY <1>1 DEF Credited

\* An additive increase is worth no more than the time since the last one.
RaiseCase(e, f, now, base, boost, rate, since, share, add1, add2) ==
    /\ InLimits(e) /\ now \in Nat /\ since # NoTime /\ e.cfg.increase <= rate
    /\ Credited(e.current, e.last_change, base, boost, rate, since, now)
    /\ e.last_change # NoTime /\ share \in Nat
    /\ add1 \in Cast32(Additive(e, now)) /\ add2 \in Nat /\ add2 <= share
    /\ f = Raised(e, e.current + (add1 + add2), now)

LEMMA RaisePaid ==
    ASSUME NEW e, NEW f, NEW now, NEW base, NEW boost, NEW rate, NEW since, NEW share,
           NEW add1, NEW add2,
           RaiseCase(e, f, now, base, boost, rate, since, share, add1, add2)
    PROVE  /\ Credited(f.current, f.last_change, base, boost + share, rate, since, now)
           /\ f.cfg = e.cfg /\ f.kind = e.kind
<1> USE DEF RaiseCase
<1>0. e \in Estimators /\ e.cfg \in BweConfigs /\ e.current \in Nat /\ e.last_change \in Int
        /\ e.cfg.increase \in Nat
    BY SMTT(20), ConfigTypes DEF InLimits, Estimators
<1>1. rate \in Nat /\ base \in Int /\ boost \in Nat /\ boost + share \in Nat
    BY CreditTypes
<1>18. Credited(e.current, e.last_change, base, boost + share, rate, since, now)
    BY Zenon, CreditBoosts
<1>2. now - e.last_change \in Nat /\ e.last_change - since \in Nat
      /\ (e.last_change - since) + (now - e.last_change) = now - since
    BY <1>0 DEF Credited
<1> DEFINE paid == e.last_change - since
           late == now - e.last_change
           add == Additive(e, now)
           x == Earned(rate, paid)
           y == Earned(rate, now - since)
<1>3. add = Earned(e.cfg.increase, late)
    BY ZenonT(30) DEF Additive, Earned
<1>13. paid \in Nat /\ late \in Nat /\ paid + late = now - since
    BY Zenon, <1>2
<1> HIDE DEF paid, late, add
<1>14. e.cfg.increase \in Nat
    BY Zenon, <1>0
<1>15. Earned(e.cfg.increase, late) \in Nat
    BY <1>13, <1>14, EarnedNat, Zenon
<1>4. add \in Nat
    BY Zenon, <1>3, <1>15
<1>5. x \in Nat /\ y \in Nat /\ x + add <= y
    <2>1. x \in Nat /\ x + Earned(e.cfg.increase, late) <= Earned(rate, paid + late)
        BY <1>1, <1>13, <1>14, EarnedAdds, Zenon
    <2>2. paid + late \in Nat
        BY <1>13
    <2>3. Earned(rate, paid + late) \in Nat
        BY <1>1, <2>2, EarnedNat, Zenon
    <2> QED BY Zenon, <1>3, <1>13, <2>1, <2>3
<1>6. add1 \in Nat /\ add1 <= add /\ add2 \in Nat /\ add2 <= share
    BY Zenon, <1>4, CastAtMost DEF add
<1>7. e.current <= base + boost + x
    BY ZenonT(30) DEF Credited, paid
<1> DEFINE sum == e.current + (add1 + add2)
           next == BweMin(sum % RateSpace, e.cfg.max)
<1>8. sum \in Nat /\ sum % RateSpace <= sum /\ sum % RateSpace \in Nat
    <2>1. sum \in Nat
        BY SMTT(20), <1>0, <1>6
    <2> HIDE DEF sum
    <2> QED BY SMTT(20), <2>1, BweAssumption
<1>9. next <= sum /\ next \in Int
    <2> HIDE DEF sum
    <2> QED BY SMTT(20), <1>0, <1>8, ConfigTypes DEF BweMin
<1> HIDE DEF x, y, next
<1>10. sum <= base + (boost + share) + y
    BY SMTT(20), <1>0, <1>1, <1>4, <1>5, <1>6, <1>7
<1> HIDE DEF sum
<1>11. CASE next > e.current
    <2>1. f = [e EXCEPT !.current = next, !.reason = "AIMDIncrease", !.last_change = now]
        BY Zenon, <1>11 DEF Raised, next, sum
    <2>2. f.last_change = now /\ f.current = next /\ f.cfg = e.cfg /\ f.kind = e.kind
        BY ZenonT(30), <1>0, <2>1 DEF Estimators
    <2>3. next <= base + (boost + share) + y /\ boost + share \in Nat
        BY SMTT(20), <1>8, <1>9, <1>10, <1>5 DEF Credited
    <2>4. since <= now /\ now # NoTime
        BY SMTT(20) DEF Credited, NoTime
    <2> QED BY <1>9, <2>2, <2>3, <2>4 DEF Credited, y
<1>12. CASE ~(next > e.current)
    <2>1. f = e
        BY ZenonT(30), <1>12 DEF Raised, next, sum
    <2> QED BY <1>18, <2>1
<1> QED BY Zenon, <1>11, <1>12

\* The three ways an estimator that may increase goes.
LEMMA IncreasePaid ==
    ASSUME NEW e, InLimits(e), NEW fb \in BweFeedbacks, NEW now \in Nat,
           NEW base, NEW boost, NEW rate, NEW since, since # NoTime, e.cfg.increase <= rate,
           Credited(e.current, e.last_change, base, boost, rate, since, now),
           NEW share \in Nat, share = RttShare(e, fb),
           NEW f \in IncreaseBy(e, Shares(e, fb, now), now)
    PROVE  /\ Credited(f.current, f.last_change, base, boost + share, rate, since, now)
           /\ f.cfg = e.cfg /\ f.kind = e.kind
<1>0. e \in Estimators /\ e.cfg \in BweConfigs /\ e.current \in Nat /\ e.last_change \in Int
      /\ e.cfg.increase \in Nat
    BY SMTT(20), ConfigTypes DEF InLimits, Estimators
<1>1. CASE e.last_change = NoTime
    <2>1. f = [e EXCEPT !.last_change = now]
        BY <1>1 DEF IncreaseBy
    <2>2. f.last_change = now /\ f.current = e.current /\ f.cfg = e.cfg /\ f.kind = e.kind
        BY SMTT(20), <1>0, <2>1 DEF Estimators
    <2>3. now - since \in Nat /\ now # NoTime
        BY SMTT(20) DEF Credited, NoTime
    <2>4. Earned(rate, now - since) \in Nat
        BY SMTT(20), <2>3, CreditTypes, EarnedNat
    <2> QED BY <1>1, <2>2, <2>3, <2>4 DEF Credited
<1>4. rate \in Nat /\ base \in Int /\ boost \in Nat /\ boost + share \in Nat
      /\ boost <= boost + share
    BY SMTT(20), CreditTypes
<1>5. Credited(e.current, e.last_change, base, boost + share, rate, since, now)
    BY CreditBoosts
<1>2. CASE e.last_change # NoTime /\ ~DueForChange(e, now)
    BY SMTT(20), <1>2, <1>5 DEF IncreaseBy
<1>3. CASE e.last_change # NoTime /\ DueForChange(e, now)
    <2>1. PICK add1 \in Cast32(Additive(e, now)), add2 \in Cast32(RttShare(e, fb)) :
              f = Raised(e, e.current + (add1 + add2), now)
        BY SMTT(20), <1>3 DEF IncreaseBy, Shares
    <2>2. add2 \in Nat /\ add2 <= share
        BY SMTT(20), <2>1, CastAtMost
    <2>3. RaiseCase(e, f, now, base, boost, rate, since, share, add1, add2)
        BY SMTT(20), <1>3, <2>1, <2>2 DEF RaiseCase
    <2> QED BY <2>3, RaisePaid
<1> QED BY SMTT(20), <1>1, <1>2, <1>3

\* A receiver's estimate that is taken over raises the base to itself.
LEMMA RembPaid ==
    ASSUME NEW e, InLimits(e), e.kind = "aimd", NEW fb \in BweFeedbacks, NEW now \in Nat,
           NEW base, NEW boost, NEW rate, NEW since,
           Credited(e.current, e.last_change, base, boost, rate, since, now),
           NEW base1, base1 = IF Overrides(e, fb) THEN BweMax(base, Trusted(e.cfg, fb.remb)) ELSE base,
           NEW f, f = RembOverride(e, fb, now)
    PROVE  /\ Credited(f.current, f.last_change, base1, boost, rate, since, now)
           /\ base1 \in Int /\ f.cfg = e.cfg /\ f.kind = e.kind
<1>1. CASE ~Overrides(e, fb)
    BY ZenonT(30), <1>1 DEF RembOverride, Credited
<1>2. CASE Overrides(e, fb)
    <2> DEFINE t == Trusted(e.cfg, fb.remb)
    <2>1. f = [e EXCEPT !.current = t, !.reason = "REMBOverride", !.last_change = @]
        BY Zenon, <1>2 DEF RembOverride
    <2>2. f.current = t /\ f.last_change = e.last_change /\ f.cfg = e.cfg /\ f.kind = e.kind
        <3> HIDE DEF t
        <3> QED BY Zenon, <2>1 DEF InLimits, Estimators
    <2>3. InLimits(f)
        BY RembKeeps
    <2>4. t \in Int
        BY Zenon, <2>2, <2>3 DEF InLimits, Estimators
    <2>5. base1 = BweMax(base, t)
        BY Zenon, <1>2
    <2> HIDE DEF t
    <2>6. base1 \in Int /\ base <= base1 /\ t <= base1
        BY <2>4, <2>5 DEF BweMax, Credited
    <2>8. boost \in Nat /\ rate \in Nat
        BY Zenon, CreditTypes
    <2>7. Credited(t, e.last_change, base1, boost, rate, since, now)
        BY SMTT(20), <2>4, <2>6, <2>8, CreditGrows
    <2> QED BY <2>2, <2>6, <2>7
<1> QED BY Zenon, <1>1, <1>2

\* A decrease is one: the floor it is held to is below the rate already.
LEMMA DecreaseLowers ==
    ASSUME NEW e, InLimits(e), e.kind = "aimd", NEW r \in Reasons, NEW now \in Nat,
           NEW f, f = Decreased(e, e.cfg.decrease, r, now)
    PROVE  /\ f.current \in Int /\ f.current <= e.current /\ f.last_change = e.last_change
           /\ f.cfg = e.cfg /\ f.kind = e.kind
<1>0. e \in Estimators /\ e.cfg \in BweConfigs /\ e.current \in Nat
      /\ e.cfg.min \in Nat /\ e.cfg.max \in Nat /\ e.cfg.min <= e.current
      /\ e.cfg.decrease \in 0 .. 100
    BY SMTT(20), ConfigTypes DEF InLimits, Estimators
<1> DEFINE p == e.cfg.decrease
           q == e.current * p
           part == q \div 100
           next == Clamp(e.cfg, part)
<1>1. q \in Nat /\ q <= 100 * e.current
    <2>1. p \in Nat /\ p <= 100
        BY <1>0
    <2> HIDE DEF p
    <2> QED BY Zenon, <1>0, <2>1, SMTT(30)
<1> HIDE DEF q
<1>2. part \in Int /\ part <= e.current
    BY SMTT(20), <1>0, <1>1
<1> HIDE DEF part
<1>3. next \in Int /\ next <= e.current
    BY <1>0, <1>2 DEF Clamp, BweMin, BweMax
<1>4. CASE next = e.current
    BY <1>0, <1>4 DEF Decreased, next, part, q
<1>5. CASE next # e.current
    <2>1. f = [e EXCEPT !.current = next, !.reason = r, !.decrease_start = now,
                        !.state = "kDecrease", !.last_change = @]
        BY Zenon, <1>5 DEF Decreased, next, part, q
    <2> HIDE DEF next
    <2> QED BY Zenon, <1>0, <1>3, <2>1 DEF Estimators
<1> QED BY Zenon, <1>4, <1>5

LEMMA NatIsInt == \A n \in Nat : n \in Int
OBVIOUS

LEMMA ShareOfCurrent ==
    ASSUME NEW a, NEW b, NEW fb, a.current = b.current
    PROVE  RttShare(a, fb) = RttShare(b, fb)
BY SMT DEF RttShare

\* One feedback to Bwe.
AimdCase(e0, f, fb, now, base, boost, rate, since, base1, share) ==
    /\ InLimits(e0) /\ e0.kind = "aimd" /\ fb \in BweFeedbacks /\ now \in Nat
    /\ since # NoTime /\ e0.cfg.increase <= rate
    /\ Credited(e0.current, e0.last_change, base, boost, rate, since, now)
    /\ base1 = IF Overrides(e0, fb) THEN BweMax(base, Trusted(e0.cfg, fb.remb)) ELSE base
    /\ share \in Nat /\ share = RttShare(RembOverride(e0, fb, now), fb)
    /\ f \in AimdFeedback(e0, fb, now)

LEMMA AimdPaid ==
    ASSUME NEW e0, NEW f, NEW fb, NEW now, NEW base, NEW boost, NEW rate, NEW since, NEW base1,
           NEW share, AimdCase(e0, f, fb, now, base, boost, rate, since, base1, share)
    PROVE  /\ Credited(f.current, f.last_change, base1, boost + share, rate, since, now)
           /\ f.cfg = e0.cfg /\ f.kind = e0.kind
<1> DEFINE e == RembOverride(e0, fb, now)
           c == Cooled(e, now)
<1>a. InLimits(e0) /\ e0.kind = "aimd" /\ fb \in BweFeedbacks /\ now \in Nat /\ now \in Int
    BY Zenon, NatIsInt DEF AimdCase
<1>b. f \in AimdFeedback(e0, fb, now) /\ share \in Nat /\ share = RttShare(e, fb)
    BY Zenon DEF AimdCase
<1>c. since # NoTime /\ e0.cfg.increase <= rate
    BY Zenon DEF AimdCase
<1>1. InLimits(e)
    BY ZenonT(30), <1>a, RembKeeps
<1>2. /\ Credited(e.current, e.last_change, base1, boost, rate, since, now)
      /\ base1 \in Int /\ e.cfg = e0.cfg /\ e.kind = e0.kind
    BY SMTT(20), <1>a, RembPaid DEF AimdCase
<1>3. f \in IF LossEvent(e0, fb) THEN {Decreased(e, e.cfg.decrease, "AIMDDecrease", now)}
           ELSE IF c.state = "kDecrease" THEN {c} ELSE IncreaseBy(c, Shares(c, fb, now), now)
    BY Zenon, <1>b, AimdUnfolds
<1> HIDE DEF e
<1>4. InLimits(c)
    BY ONLY <1>1, CooledKeeps
<1>5. /\ c.current = e.current /\ c.last_change = e.last_change /\ c.cfg = e.cfg
      /\ c.kind = e.kind
    BY ONLY <1>1, CooledSame
<1> HIDE DEF c
<1>6. share = RttShare(c, fb)
    BY ONLY <1>b, <1>5, ShareOfCurrent
<1>11. Credited(e.current, e.last_change, base1, boost + share, rate, since, now)
    BY Zenon, <1>2, <1>b, CreditBoosts
<1>8. CASE LossEvent(e0, fb)
    <2>1. f = Decreased(e, e.cfg.decrease, "AIMDDecrease", now)
        BY SMTT(20), <1>3, <1>8
    <2>2. /\ f.current \in Int /\ f.current <= e.current /\ f.last_change = e.last_change
          /\ f.cfg = e.cfg /\ f.kind = e.kind
        BY SMTT(20), <1>a, <1>1, <1>2, <2>1, DecreaseLowers DEF Reasons
    <2>3. Credited(f.current, e.last_change, base1, boost + share, rate, since, now)
        BY Zenon, <1>11, <2>2, CreditLowers
    <2> QED BY Zenon, <1>2, <2>2, <2>3
<1>9. CASE ~LossEvent(e0, fb) /\ c.state = "kDecrease"
    <2>1. f = c
        BY <1>3, <1>9
    <2> QED BY ZenonT(30), <1>2, <1>5, <1>11, <2>1
<1>10. CASE ~LossEvent(e0, fb) /\ c.state # "kDecrease"
    <2>1. f \in IncreaseBy(c, Shares(c, fb, now), now)
        BY <1>3, <1>10
    <2>2. Credited(c.current, c.last_change, base1, boost, rate, since, now)
        BY Zenon, <1>2, <1>5
    <2>3. c.cfg.increase <= rate
        BY ZenonT(30), <1>c, <1>2, <1>5
    <2>4. /\ Credited(f.current, f.last_change, base1, boost + share, rate, since, now)
          /\ f.cfg = c.cfg /\ f.kind = c.kind
        BY ONLY SMTT(20), <1>a, <1>b, <1>c, <1>4, <1>6, <2>1, <2>2, <2>3, IncreasePaid
    <2> QED BY Zenon, <1>2, <1>5, <2>4
<1> QED BY Zenon, <1>8, <1>9, <1>10

----------------------------------------------------------------------------
(* The second theorem                                                      *)

Histories == [calls : Int, since : Int, base : Int, boost : Nat, increase : Nat]

CreditInv ==
    /\ BweInv /\ bclock \in Nat
    /\ est.kind = "aimd" =>
          /\ bhist \in Histories
          /\ est.cfg.increase <= bhist.increase
          /\ Credited(est.current, est.last_change, bhist.base, bhist.boost, bhist.increase,
                      bhist.since, bclock)

\* The hybrid estimator stays one.
LEMMA GoogCcStays ==
    ASSUME NEW e0, InLimits(e0), e0.kind = "goog-cc", NEW fb \in BweFeedbacks, NEW now \in Int,
           NEW f \in GoogCcFeedback(e0, fb, now)
    PROVE  f.kind = "goog-cc"
<1> DEFINE b == Baseline(e0, fb.rtt)
           e == RembOverride(b, fb, now)
           shares == Cast32(BweMax(Additive(e, now), Probe(e, now)))
<1>1. InLimits(b) /\ b.kind = "goog-cc"
    BY SMTT(20), BaselineKeeps, BweAssumption DEF Baseline, InLimits, Estimators
<1>2. InLimits(e) /\ e.kind = "goog-cc"
    <2> HIDE DEF b
    <2> QED BY Zenon, <1>1, RembKeeps DEF RembOverride, InLimits, Estimators
<1>3. \/ f = Decreased(e, e.cfg.decrease, "AIMDDecrease", now)
      \/ f = Decreased(e, 85, "RttIncrease", now)
      \/ f = e
      \/ f \in IncreaseBy(e, shares, now)
    BY Zenon DEF GoogCcFeedback
<1> HIDE DEF b, e, shares
<1>4. ASSUME NEW p, NEW r PROVE Decreased(e, p, r, now).kind = "goog-cc"
    BY Zenon, <1>2 DEF Decreased, InLimits, Estimators
<1>5. ASSUME f \in IncreaseBy(e, shares, now) PROVE f.kind = "goog-cc"
    <2>1. ASSUME NEW rate PROVE Raised(e, rate, now).kind = "goog-cc"
        BY Zenon, <1>2 DEF Raised, InLimits, Estimators
    <2>2. f = [e EXCEPT !.last_change = now] \/ f = e \/ \E s \in shares : f = Raised(e, e.current + s, now)
        BY Zenon, <1>5 DEF IncreaseBy
    <2> QED BY ZenonT(30), <1>2, <2>1, <2>2 DEF InLimits, Estimators
<1> QED BY <1>2, <1>3, <1>4, <1>5

\* A new estimator owes nothing.
LEMMA NewPaid ==
    ASSUME NEW c \in BweConfigs, NEW now \in Nat
    PROVE  LET e == NewEstimator("aimd", c)
               h == NewHistory(c, 0)
           IN  /\ e.cfg.increase <= h.increase
               /\ Credited(e.current, e.last_change, h.base, h.boost, h.increase, h.since, now)
BY SMTT(20), ConfigTypes DEF NewEstimator, NewHistory, Credited, NoTime

LEMMA FeedbackPaid ==
    ASSUME CreditInv, NEW fb \in BweFeedbacks, NEW dt \in BweSteps, on_feedback(fb, dt)
    PROVE  CreditInv'
<1> DEFINE now == bclock + dt
           share == RttShare(RembOverride(est, fb, now), fb)
           since1 == IF bhist.since = NoTime THEN now ELSE bhist.since
           base1 == IF Overrides(est, fb) THEN BweMax(bhist.base, Trusted(est.cfg, fb.remb))
                    ELSE bhist.base
<1>1. now \in Nat /\ bclock <= now
    BY SMTT(20), BweAssumption DEF CreditInv
<1>2. PICK e \in IF est.kind = "aimd" THEN AimdFeedback(est, fb, now)
                ELSE GoogCcFeedback(est, fb, now) :
          est' = [e EXCEPT !.smoothed = Smoothed(e), !.lossy = fb.lossy]
    BY Zenon DEF on_feedback
<1>3. bclock' = now /\ bhist' = [bhist EXCEPT !.calls = @ + 1, !.since = since1, !.base = base1,
                                              !.boost = @ + share]
    BY Zenon DEF on_feedback
<1>4. BweInv' /\ InLimits(est) /\ est.kind \in {"aimd", "goog-cc"}
    BY Zenon, FeedbackKeeps DEF CreditInv, BweInv, InLimits, Estimators
<1>5. share \in Nat
    <2> DEFINE r == RembOverride(est, fb, now)
    <2>1. InLimits(r)
        BY SMTT(20), <1>1, <1>4, RembKeeps
    <2> HIDE DEF r
    <2>2. r.current \in Nat
        BY <2>1, ConfigTypes DEF InLimits, Estimators
    <2>3. fb.rtt \in Nat
        BY Zenon, BweAssumption
    <2>4. r.current * fb.rtt \in Nat
        BY <2>2, <2>3, SMTT(30)
    <2>5. RttShare(r, fb) \in Nat
        BY <2>4 DEF RttShare
    <2> QED BY Zenon, <2>5 DEF r
<1>6. InLimits(e)
    BY <1>1, <1>2, <1>4, AimdKeeps, GoogCcKeeps
<1>7. est'.kind = e.kind /\ est'.cfg = e.cfg /\ est'.current = e.current
      /\ est'.last_change = e.last_change
    BY Zenon, <1>2, <1>6 DEF InLimits, Estimators
<1> HIDE DEF now, share
<1>8. CASE est.kind = "goog-cc"
    <2>1. e \in GoogCcFeedback(est, fb, now)
        BY Zenon, <1>2, <1>8
    <2>2. e.kind = "goog-cc"
        BY <1>1, <1>4, <1>8, <2>1, GoogCcStays
    <2> QED BY Zenon, <1>1, <1>3, <1>4, <1>7, <2>2 DEF CreditInv
<1>9. CASE est.kind = "aimd"
    <2> DEFINE cur == est.current
               last == est.last_change
               base == bhist.base
               boost == bhist.boost
               rate == bhist.increase
    <2>1. e \in AimdFeedback(est, fb, now)
        BY Zenon, <1>2, <1>9
    <2>2. bhist \in Histories /\ est.cfg.increase <= rate
          /\ Credited(cur, last, base, boost, rate, bhist.since, bclock)
        BY Zenon, <1>9 DEF CreditInv
    <2>3. Credited(cur, last, base, boost, rate, bhist.since, now)
        BY ZenonT(30), <1>1, <2>2, CreditWaits
    <2>4. Credited(cur, last, base, boost, rate, since1, now) /\ since1 # NoTime /\ since1 \in Int
        BY SMTT(20), <1>1, <2>2, <2>3, CreditStarts DEF NoTime, Histories
    <2> HIDE DEF since1
    <2>8. share = RttShare(RembOverride(est, fb, now), fb)
        BY Zenon DEF share
    <2> HIDE DEF cur, last, base, boost, rate
    <2>9. Credited(est.current, est.last_change, base, boost, rate, since1, now)
          /\ base1 = IF Overrides(est, fb) THEN BweMax(base, Trusted(est.cfg, fb.remb)) ELSE base
        BY Zenon, <2>4 DEF cur, last, base
    <2> HIDE DEF base1
    <2>12. AimdCase(est, e, fb, now, base, boost, rate, since1, base1, share)
        BY Zenon, <1>1, <1>4, <1>5, <1>9, <2>1, <2>2, <2>4, <2>8, <2>9 DEF AimdCase
    <2>5. /\ Credited(e.current, e.last_change, base1, boost + share, rate, since1, now)
          /\ e.cfg = est.cfg /\ e.kind = est.kind
        BY Zenon, <2>12, AimdPaid
    <2>6. base1 \in Int
        BY Zenon, <2>5 DEF Credited
    <2> DEFINE n == bhist.calls + 1
               m == bhist.boost + share
    <2>10. n \in Int /\ m \in Nat
        BY <1>5, <2>2 DEF Histories
    <2>11. bhist' = [bhist EXCEPT !.calls = n, !.since = since1, !.base = base1, !.boost = m]
        BY Zenon, <1>3
    <2> HIDE DEF n, m
    <2>7. bhist' \in Histories /\ bhist'.since = since1 /\ bhist'.base = base1
          /\ bhist'.boost = boost + share /\ bhist'.increase = rate
        BY Zenon, <2>2, <2>4, <2>6, <2>10, <2>11 DEF Histories, m, boost, rate
    <2> QED BY Zenon, <1>1, <1>3, <1>4, <1>7, <2>2, <2>5, <2>7 DEF CreditInv
<1> QED BY ZenonT(30), <1>4, <1>8, <1>9

LEMMA ConfigPaid ==
    ASSUME CreditInv, NEW cfg \in BweConfigs, update_config(cfg)
    PROVE  CreditInv'
<1> DEFINE cur == est.current
           c == Clamp(cfg, cur)
           base1 == BweMax(bhist.base, cfg.min)
           rate1 == BweMax(bhist.increase, cfg.increase)
<1>1. BweInv' /\ bclock' = bclock /\ bclock \in Nat /\ est \in Estimators
    BY Zenon, ConfigKeeps DEF CreditInv, BweInv, InLimits, update_config
<1>2. est' = [est EXCEPT !.cfg = cfg, !.current = c, !.smoothed = Clamp(cfg, @)]
      /\ bhist' = [bhist EXCEPT !.calls = @ + 1, !.base = base1, !.increase = rate1]
    BY Zenon DEF update_config
<1>3. cfg.min \in Nat /\ cfg.max \in Nat /\ cfg.increase \in Nat /\ cur \in Int
    BY Zenon, <1>1, ConfigTypes DEF Estimators
<1>4. c \in Int /\ (c <= cur \/ c <= cfg.min)
    BY <1>3 DEF Clamp, BweMin, BweMax
<1> HIDE DEF c
<1>5. est'.kind = est.kind /\ est'.cfg = cfg /\ est'.current = c /\ est'.last_change = est.last_change
    BY Zenon, <1>1, <1>2 DEF Estimators
<1>6. CASE est.kind # "aimd"
    BY Zenon, <1>1, <1>5, <1>6 DEF CreditInv
<1>7. CASE est.kind = "aimd"
    <2>1. bhist \in Histories
          /\ Credited(cur, est.last_change, bhist.base, bhist.boost, bhist.increase, bhist.since, bclock)
        BY Zenon, <1>7 DEF CreditInv
    <2>2. base1 \in Int /\ rate1 \in Nat /\ bhist.base <= base1 /\ bhist.increase <= rate1
          /\ cfg.min <= base1 /\ cfg.increase <= rate1 /\ bhist.boost \in Nat
        BY <1>3, <2>1 DEF BweMax, Histories
    <2> HIDE DEF base1, rate1
    <2>3. c <= cur \/ c <= base1
        BY SMTT(20), <1>3, <1>4, <2>2
    <2> HIDE DEF cur
    <2>4. Credited(c, est.last_change, base1, bhist.boost, rate1, bhist.since, bclock)
        BY SMTT(20), <1>1, <1>4, <2>1, <2>2, <2>3, CreditGrows
    <2>5. bhist' \in Histories /\ bhist'.since = bhist.since /\ bhist'.base = base1
          /\ bhist'.boost = bhist.boost /\ bhist'.increase = rate1
        <3> DEFINE n == bhist.calls + 1
        <3>1. n \in Int
            BY <2>1 DEF Histories
        <3>2. bhist' = [bhist EXCEPT !.calls = n, !.base = base1, !.increase = rate1]
            BY Zenon, <1>2
        <3> HIDE DEF n
        <3> QED BY Zenon, <2>1, <2>2, <3>1, <3>2 DEF Histories
    <2> QED BY Zenon, <1>1, <1>5, <2>2, <2>4, <2>5 DEF CreditInv
<1> QED BY Zenon, <1>6, <1>7

LEMMA ResetPaid == ASSUME CreditInv, bwe_reset PROVE CreditInv'
<1>1. est' = NewEstimator(est.kind, est.cfg) /\ bclock' = bclock
      /\ bhist' = NewHistory(est.cfg, bhist.calls + 1)
    BY Zenon DEF bwe_reset
<1>2. est.kind \in {"aimd", "goog-cc"} /\ est.cfg \in BweConfigs /\ bclock \in Nat
    BY Zenon DEF CreditInv, BweInv, InLimits, Estimators
<1>3. BweInv'
    BY <1>1, <1>2, NewInLimits DEF BweInv
<1>4. est'.kind = est.kind
    BY Zenon, <1>1 DEF NewEstimator
<1>5. CASE est.kind # "aimd"
    BY Zenon, <1>1, <1>2, <1>3, <1>4, <1>5 DEF CreditInv
<1>6. CASE est.kind = "aimd"
    <2>1. bhist.calls + 1 \in Int
        BY SMTT(20), <1>6 DEF CreditInv, Histories
    <2>2. bhist' \in Histories
        BY SMTT(20), <1>1, <1>2, <2>1, ConfigTypes DEF NewHistory, Histories, NoTime
    <2>3. /\ est'.cfg.increase <= bhist'.increase
          /\ Credited(est'.current, est'.last_change, bhist'.base, bhist'.boost, bhist'.increase,
                      bhist'.since, bclock)
        BY Zenon, <1>1, <1>2, <1>6, NewPaid DEF NewEstimator, NewHistory
    <2> QED BY Zenon, <1>1, <1>2, <1>3, <2>2, <2>3 DEF CreditInv
<1> QED BY Zenon, <1>5, <1>6

\* The bound of the invariant is the bound up to the last change, which is not
\* after now.
LEMMA InvImpliesOnce == ASSUME CreditInv PROVE NoTimeCreditedTwice
<1> SUFFICES ASSUME est.kind = "aimd"
             PROVE  est.current <= bhist.base + bhist.boost
                        + (IF bhist.since = NoTime THEN 0
                           ELSE Earned(bhist.increase, bclock - bhist.since))
    BY Zenon DEF NoTimeCreditedTwice, Earned
<1>1. Credited(est.current, est.last_change, bhist.base, bhist.boost, bhist.increase, bhist.since,
               bclock)
    BY Zenon DEF CreditInv
<1>2. CASE bhist.since = NoTime
    BY <1>1, <1>2 DEF Credited
<1>3. CASE bhist.since # NoTime
    <2> DEFINE paid == est.last_change - bhist.since
               all == Earned(bhist.increase, bclock - bhist.since)
    <2>1. bclock - bhist.since \in Nat /\ all \in Nat
        BY Zenon, <1>1, <1>3, CreditTypes, EarnedNat
    <2>2. CASE est.last_change = NoTime
        <3> HIDE DEF all
        <3>1. est.current <= bhist.base + bhist.boost + all
            BY SMTT(20), <1>1, <2>1, <2>2 DEF Credited
        <3> QED BY Zenon, <1>3, <3>1 DEF all
    <2>3. CASE est.last_change # NoTime
        <3> DEFINE late == bclock - est.last_change
                   part == Earned(bhist.increase, paid)
                   rest == Earned(bhist.increase, late)
        <3>1. paid \in Nat /\ late \in Nat /\ paid + late = bclock - bhist.since /\ bhist.increase \in Nat
            BY <1>1, <2>3 DEF Credited
        <3>2. part \in Nat /\ rest \in Nat /\ part + rest <= all
            <4> HIDE DEF paid, late
            <4>1. part \in Nat /\ rest \in Nat
                BY Zenon, <3>1, EarnedNat
            <4>3. bhist.increase <= bhist.increase
                BY <3>1
            <4>2. part + rest <= Earned(bhist.increase, paid + late)
                BY <3>1, <4>3, EarnedAdds, Zenon
            <4> QED BY Zenon, <3>1, <4>1, <4>2
        <3>3. est.current <= bhist.base + bhist.boost + part
            BY Zenon, <1>1, <2>3 DEF Credited
        <3> HIDE DEF part, rest, all
        <3>4. est.current <= bhist.base + bhist.boost + all
            BY <1>1, <2>1, <3>2, <3>3 DEF Credited
        <3> QED BY Zenon, <1>3, <3>4 DEF all
    <2> QED BY Zenon, <2>2, <2>3
<1> QED BY Zenon, <1>2, <1>3

\* Bwe: for every configuration, feedback, clock and number of calls, the
\* additive increases never add up to more than the time that has passed pays
\* for, although a decrease and a receiver's estimate leave the time of the
\* last change alone.
THEOREM TimeCreditedOnce == BweSpec => []NoTimeCreditedTwice
<1>1. BweInit => CreditInv
    <2> SUFFICES ASSUME BweInit PROVE CreditInv
        BY Zenon
    <2>1. PICK kind \in {"aimd", "goog-cc"}, cfg \in BweConfigs :
              est = NewEstimator(kind, cfg) /\ bhist = NewHistory(cfg, 0)
        BY Zenon DEF BweInit
    <2>2. bclock = 0
        BY Zenon DEF BweInit
    <2>3. BweInv
        BY SMTT(20), <2>1, <2>2, NewInLimits DEF BweInv
    <2>4. bhist \in Histories
        BY <2>1, ConfigTypes DEF NewHistory, Histories, NoTime
    <2>5. CASE kind = "aimd"
        <3>1. /\ est.cfg.increase <= bhist.increase
              /\ Credited(est.current, est.last_change, bhist.base, bhist.boost, bhist.increase,
                          bhist.since, bclock)
            BY Zenon, <2>1, <2>2, <2>5, NewPaid
        <3> QED BY Zenon, <2>2, <2>3, <2>4, <3>1 DEF CreditInv
    <2>6. CASE kind # "aimd"
        BY Zenon, <2>1, <2>2, <2>3, <2>6 DEF CreditInv, NewEstimator
    <2> QED BY Zenon, <2>5, <2>6
<1>2. CreditInv /\ [BweNext]_bweVars => CreditInv'
    <2> SUFFICES ASSUME CreditInv, [BweNext]_bweVars PROVE CreditInv'
        BY Zenon
    <2>1. CASE \E fb \in BweFeedbacks, dt \in BweSteps : on_feedback(fb, dt)
        BY Zenon, <2>1, FeedbackPaid
    <2>2. CASE \E cfg \in BweConfigs : update_config(cfg)
        BY Zenon, <2>2, ConfigPaid
    <2>3. CASE bwe_reset
        BY Zenon, <2>3, ResetPaid
    <2>4. CASE UNCHANGED bweVars
        BY Zenon, <2>4 DEF bweVars, CreditInv, BweInv, InLimits
    <2> QED BY Zenon, <2>1, <2>2, <2>3, <2>4 DEF BweNext
<1>3. CreditInv => NoTimeCreditedTwice
    BY Zenon, InvImpliesOnce
<1> QED BY <1>1, <1>2, <1>3, PTL DEF BweSpec
=============================================================================
