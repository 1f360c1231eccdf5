-------------------------- MODULE BandwidthEstimator --------------------------
(***************************************************************************)
(* The two bandwidth estimators (src/modules/bwe): Bwe, additive increase  *)
(* and multiplicative decrease, and GoogCcBwe, which also backs off on a   *)
(* rising round-trip time.  One caller drives an estimator, so every call  *)
(* is one action.                                                          *)
(*                                                                         *)
(* Rates are whole numbers below RateSpace, which stands for 2^32, and     *)
(* times are milliseconds; factors are percentages.  A loss rate is        *)
(* whether it reaches the 2 % threshold.  loss_event_pending_ is false     *)
(* between calls and is local here.                                        *)
(***************************************************************************)
EXTENDS Integers

CONSTANTS
    RateSpace,     \* number of values of a std::uint32_t rate
    BweConfigs,    \* the configurations a caller uses
    BweSteps,      \* times that may pass between two calls
    BweFeedbacks,  \* the feedback it reports
    MaxBweCalls    \* bound on the calls of a behaviour

\* A configuration: the limits hold the initial rate, and the factors are
\* percentages.
ASSUME BweAssumption ==
    /\ RateSpace \in Nat \ {0}
    /\ BweSteps \subseteq Nat
    /\ \A c \in BweConfigs :
          /\ c.min \in Nat /\ c.max \in Nat /\ c.initial \in c.min .. c.max
          /\ c.increase \in Nat /\ c.interval \in Nat
          /\ c.decrease \in 0 .. 100 /\ c.alpha \in 0 .. 100
          /\ c = [initial |-> c.initial, min |-> c.min, max |-> c.max, increase |-> c.increase,
                  decrease |-> c.decrease, interval |-> c.interval, alpha |-> c.alpha]
    /\ \A fb \in BweFeedbacks :
          fb.lossy \in BOOLEAN /\ fb.rtt \in Nat /\ fb.remb \in Nat \cup {-1}

VARIABLES
    est,      \* the estimator, with its configuration
    bclock,   \* the caller's steady clock
    bhist     \* calls so far and what the rate may be accounted from

bweVars == <<est, bclock, bhist>>

NoTime == -1
NoRemb == -1
kDecreaseCooldown == 500
kOveruseAbsoluteMs == 25

BweMin(a, b) == IF a <= b THEN a ELSE b
BweMax(a, b) == IF a <= b THEN b ELSE a
Clamp(cfg, r) == BweMax(cfg.min, BweMin(r, cfg.max))

\* The conversion of a non-negative double to std::uint32_t: its whole part,
\* and undefined when that is out of range.  The builds give it modulo 2^32
\* or the largest value.
Cast32(x) == IF x < RateSpace THEN {x} ELSE {x % RateSpace, RateSpace - 1}

----------------------------------------------------------------------------
(* Parts of on_feedback                                                    *)

NewEstimator(kind, cfg) ==
    [kind |-> kind, cfg |-> cfg, current |-> cfg.initial, smoothed |-> cfg.initial,
     last_change |-> NoTime, decrease_start |-> NoTime, state |-> "kIncrease",
     lossy |-> FALSE, min_rtt |-> 0, reason |-> "Initial"]

\* A loss event: the loss rate crosses the threshold from below.
LossEvent(e, fb) == ~e.lossy /\ fb.lossy

Trusted(cfg, remb) == Clamp(cfg, (remb * 4) \div 5)

\* A receiver's estimate above the smoothed rate is taken over, but not in a
\* loss event.  Only the hybrid estimator counts it as a change.
Overrides(e, fb) ==
    fb.remb # NoRemb /\ ~LossEvent(e, fb) /\ Trusted(e.cfg, fb.remb) > e.smoothed
RembOverride(e, fb, now) ==
    IF Overrides(e, fb)
    THEN [e EXCEPT !.current = Trusted(e.cfg, fb.remb), !.reason = "REMBOverride",
                   !.last_change = IF e.kind = "goog-cc" THEN now ELSE @]
    ELSE e

\* Mutant: the floor is forgotten.
Decreased_NoFloor(e, percent, reason, now) ==
    LET next == (e.current * percent) \div 100
    IN  IF next = e.current THEN e
        ELSE [e EXCEPT !.current = next, !.reason = reason, !.decrease_start = now,
                       !.state = IF e.kind = "aimd" THEN "kDecrease" ELSE @,
                       !.last_change = IF e.kind = "goog-cc" THEN now ELSE @]

\* One multiplicative decrease.
Decreased(e, percent, reason, now) ==
    LET next == Clamp(e.cfg, (e.current * percent) \div 100)
    IN  IF next = e.current THEN e
        ELSE [e EXCEPT !.current = next, !.reason = reason, !.decrease_start = now,
                       !.state = IF e.kind = "aimd" THEN "kDecrease" ELSE @,
                       !.last_change = IF e.kind = "goog-cc" THEN now ELSE @]

\* Mutant: an increase does not move the time the next one counts from.
Raised_SameTime(e, rate, now) ==
    LET next == BweMin(rate % RateSpace, e.cfg.max)
    IN  IF next > e.current THEN [e EXCEPT !.current = next, !.reason = "AIMDIncrease"]
        ELSE e

\* The 32-bit sum, held to the maximum, if it is an increase at all.
Raised(e, rate, now) ==
    LET next == BweMin(rate % RateSpace, e.cfg.max)
    IN  IF next > e.current
        THEN [e EXCEPT !.current = next, !.reason = "AIMDIncrease", !.last_change = now]
        ELSE e

\* The share of the additive increase, of the per-RTT boost (Bwe) and of the
\* probe of 5 % a second (GoogCcBwe).
Additive(e, now) == (e.cfg.increase * (now - e.last_change)) \div 1000
RttShare(e, fb) == IF fb.rtt > 0 THEN (e.current * fb.rtt) \div 20000 ELSE 0
Probe(e, now) == (e.current * (now - e.last_change)) \div 20000

DueForChange(e, now) == e.last_change # NoTime /\ now - e.last_change >= e.cfg.interval

\* What an estimator that may increase does: the first time only starts the
\* clock.
IncreaseBy(e, shares, now) ==
    IF e.last_change = NoTime THEN {[e EXCEPT !.last_change = now]}
    ELSE IF ~DueForChange(e, now) THEN {e}
    ELSE {Raised(e, e.current + s, now) : s \in shares}

Cooled(e, now) ==
    IF e.state = "kDecrease" /\ now - e.decrease_start >= kDecreaseCooldown
    THEN [e EXCEPT !.state = "kIncrease"] ELSE e

\* Bwe::on_feedback without its last statements.
AimdFeedback(e0, fb, now) ==
    LET e == RembOverride(e0, fb, now)
        c == Cooled(e, now)
    IN  IF LossEvent(e0, fb)
        THEN {Decreased(e, e.cfg.decrease, "AIMDDecrease", now)}
        ELSE IF c.state = "kDecrease" THEN {c}
        ELSE IncreaseBy(c, {a + b : a \in Cast32(Additive(c, now)), b \in Cast32(RttShare(c, fb))},
                        now)

\* is_overuse: the round trip exceeds the shortest one seen by 25 ms and a fifth.
is_overuse(e, rtt) ==
    e.min_rtt > 0 /\ rtt > 0 /\ rtt - e.min_rtt > kOveruseAbsoluteMs /\ rtt * 5 > e.min_rtt * 6

\* min_rtt_ only ever falls.
Baseline(e, rtt) ==
    IF rtt > 0 /\ (e.min_rtt = 0 \/ rtt < e.min_rtt) THEN [e EXCEPT !.min_rtt = rtt] ELSE e

in_cooldown(e, now) ==
    e.decrease_start # NoTime /\ now - e.decrease_start < kDecreaseCooldown

\* GoogCcBwe::on_feedback without its last statements.
GoogCcFeedback(e0, fb, now) ==
    LET e == RembOverride(Baseline(e0, fb.rtt), fb, now)
    IN  IF LossEvent(e0, fb)
        THEN {Decreased(e, e.cfg.decrease, "AIMDDecrease", now)}
        ELSE IF is_overuse(e, fb.rtt) THEN {Decreased(e, 85, "RttIncrease", now)}
        ELSE IF fb.lossy \/ in_cooldown(e, now) THEN {e}
        ELSE IncreaseBy(e, Cast32(BweMax(Additive(e, now), Probe(e, now))), now)

\* The moving average, truncated.
Smoothed(e) == (e.cfg.alpha * e.current + (100 - e.cfg.alpha) * e.smoothed) \div 100

\* estimate(): the target, and the pacing rate a tenth above it.
Pacing(e) == BweMin((e.smoothed * 11) \div 10, e.cfg.max)

----------------------------------------------------------------------------
(* Calls                                                                   *)

Counted == bhist.calls < MaxBweCalls

on_feedback(fb, dt) ==
    LET now == bclock + dt
    IN  /\ Counted
        /\ \E e \in IF est.kind = "aimd" THEN AimdFeedback(est, fb, now)
                    ELSE GoogCcFeedback(est, fb, now) :
              /\ est' = [e EXCEPT !.smoothed = Smoothed(e), !.lossy = fb.lossy]
              /\ bhist' = [bhist EXCEPT
                    !.calls = @ + 1,
                    !.since = IF @ = NoTime THEN now ELSE @,
                    !.base = IF Overrides(est, fb) THEN BweMax(@, Trusted(est.cfg, fb.remb)) ELSE @,
                    !.boost = @ + RttShare(RembOverride(est, fb, now), fb)]
        /\ bclock' = now

update_config(cfg) ==
    /\ Counted /\ cfg # est.cfg
    /\ est' = [est EXCEPT !.cfg = cfg, !.current = Clamp(cfg, @), !.smoothed = Clamp(cfg, @)]
    /\ bhist' = [bhist EXCEPT !.calls = @ + 1, !.base = BweMax(@, cfg.min),
                              !.increase = BweMax(@, cfg.increase)]
    /\ UNCHANGED bclock

NewHistory(cfg, calls) ==
    [calls |-> calls, since |-> NoTime, base |-> cfg.initial,
     boost |-> 0, increase |-> cfg.increase]

bwe_reset ==
    /\ Counted /\ est # NewEstimator(est.kind, est.cfg)
    /\ est' = NewEstimator(est.kind, est.cfg)
    /\ bhist' = NewHistory(est.cfg, bhist.calls + 1)
    /\ UNCHANGED bclock

BweInit ==
    /\ \E kind \in {"aimd", "goog-cc"}, cfg \in BweConfigs :
          est = NewEstimator(kind, cfg) /\ bhist = NewHistory(cfg, 0)
    /\ bclock = 0

BweNext ==
    \/ \E fb \in BweFeedbacks, dt \in BweSteps : on_feedback(fb, dt)
    \/ \E cfg \in BweConfigs : update_config(cfg)
    \/ bwe_reset

BweSpec == BweInit /\ [][BweNext]_bweVars

----------------------------------------------------------------------------
(* Properties                                                              *)

\* The rate the estimator works with, the target it gives the scheduler and
\* the pacing rate stay within the configured limits through every increase,
\* decrease, receiver estimate and change of the limits, although the
\* increase is a 32-bit sum that may wrap before it is held to the maximum.
RateWithinLimits ==
    /\ est.current \in est.cfg.min .. est.cfg.max
    /\ est.smoothed \in est.cfg.min .. est.cfg.max
    /\ Pacing(est) \in est.cfg.min .. est.cfg.max

\* No time is credited to two increases: the rate never exceeds what the
\* largest rate set from outside, the additive increase for the time since
\* the first feedback and the per-RTT boosts add up to.
NoTimeCreditedTwice ==
    est.kind = "aimd" =>
        est.current <= bhist.base + bhist.boost
                       + (IF bhist.since = NoTime THEN 0
                          ELSE (bhist.increase * (bclock - bhist.since)) \div 1000)
=============================================================================
