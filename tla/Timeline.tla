------------------------------ MODULE Timeline ------------------------------
(***************************************************************************)
(* The cross-end timeline: the sender stamps every audio packet with its   *)
(* send instant (abs-send-time, a small wrapping counter) and reports, at  *)
(* most once per period, the pair (wall clock, RTP timestamp) of the last  *)
(* packet (Sender Report).  The receiver's SenderReportTracker rebuilds    *)
(* the sender's instant for each packet from the last report, the slope it *)
(* fitted over a window of reports and the abs-send-time counter.          *)
(*                                                                         *)
(* Source: modules/rtp/src/timeline.cpp, engine/src/engine_timeline.cpp,   *)
(* the stamping in send_audio (engine/src/engine_media.cpp).               *)
(*                                                                         *)
(* One SSRC.  Time is in units; a second, the NTP fraction, the two        *)
(* counters and the windows keep their relations and are scaled down.  The *)
(* network loses and reorders packets and reports.  Fields in upper case   *)
(* (TRUE instant and SEGment between two pauses) are history, never read   *)
(* by the code's operators.                                                *)
(***************************************************************************)
EXTENDS Integers, Sequences, FiniteSets

CONSTANTS
    Second,                \* units in a second
    NtpFraction,           \* units of the NTP fraction in a second (2^32)
    kNtpEpochOffset,       \* seconds from the NTP to the Unix epoch
    AstTick,               \* units per abs-send-time tick
    kAbsSendTimeModulus,   \* values of the abs-send-time counter (2^24)
    kRtpTsModulus,         \* values of the RTP timestamp (2^32)
    RtpRate,               \* the rate of the peer's a=rtpmap, ticks per second
    kDefaultClockRateHz,   \* the rate of an SSRC nobody configured
    kMaxAstObservations,   \* length of the observation ring
    kAstAnchorWindow,      \* how far an observation may sit from the report
    kMinFitSpan,           \* shortest window worth a fit
    MaxAdvance,            \* seconds of media between two plausible reports
    AgreementTolerance,    \* ast_tolerance_us_; 0 disables the refinement
    SlopeFilters,          \* SlopeFilterConfigs the host may set
    SrPeriod,              \* sr_period_ms
    FrameTicks,            \* samples of an audio frame
    Drifts,                \* extra wall time per frame of a slow media clock
    Pause,                 \* extra wall time when the host stops capturing
    Starts,                \* [unix, rtp]: where the clocks stand at open()
    MaxFrames, MaxPauses, MaxWire

VARIABLES
    snd,     \* the sending engine: clocks and the Sender Report fields
    wire,    \* messages in flight
    trk,     \* the receiving engine's SenderReportTracker, for this SSRC
    pub      \* last_capture_us, last_arrival_us, last_skew_us

tlVars == <<snd, wire, trk, pub>>

SlopeUnit == 1000          \* slope units per time unit (picoseconds per us)
kMaxFitDeviation == 50     \* 5 %, in thousandths

----------------------------------------------------------------------------
(* Modular counters and conversions.                                       *)

Abs(n) == IF n < 0 THEN -n ELSE n

\* C++ division truncates toward zero.
Quotient(n, d) == IF n < 0 THEN -((-n) \div d) ELSE n \div d

Modular(n, m) == LET u == n % m IN IF u < m \div 2 THEN u ELSE u - m

rtp_ts_signed_diff(a, b) == Modular(a - b, kRtpTsModulus)

ast24_signed_diff(a, b) == Modular(a - b, kAbsSendTimeModulus)

ast_ticks_to_us(ticks) == ticks * AstTick

ntp64_from(us) ==
    [sec  |-> us \div Second + kNtpEpochOffset,
     frac |-> ((us % Second) * NtpFraction) \div Second]

unix_us_from_ntp64(ntp) ==
    LET s == ntp.sec - kNtpEpochOffset
        f == (ntp.frac * Second) \div NtpFraction
    IN IF s < 0 THEN f ELSE s * Second + f

encode_abs_send_time_24(us) == (us \div AstTick) % kAbsSendTimeModulus

----------------------------------------------------------------------------
(* The slope estimator.                                                    *)

nominal_slope_psec(rate) == (SlopeUnit * Second) \div rate

Total(f, n) ==
    LET sum[i \in 0..n] == IF i = 0 THEN 0 ELSE sum[i - 1] + f[i] IN sum[n]

\* Least squares over the window, on coordinates centred at its first sample.
fit_slope_psec(samples) ==
    LET n   == Len(samples)
        x   == [i \in 1..n |-> samples[i].pos - samples[1].pos]
        y   == [i \in 1..n |-> samples[i].us - samples[1].us]
        sx  == Total(x, n)
        sy  == Total(y, n)
        den == n * Total([i \in 1..n |-> x[i] * x[i]], n) - sx * sx
        num == n * Total([i \in 1..n |-> x[i] * y[i]], n) - sx * sy
        short == \A i, j \in 1..n : y[i] - y[j] < kMinFitSpan
    IN IF n < 2 \/ den <= 0 \/ short \/ num <= 0
       THEN 0 ELSE (num * SlopeUnit) \div den

SlopeFilterConfig(minimum, maximum, alpha) ==
    [min_samples |-> minimum, max_samples |-> maximum, alpha |-> alpha]

NewTracker ==
    [heard |-> FALSE, ntp |-> [sec |-> 0, frac |-> 0], rtp |-> 0, recv |-> 0,
     rate |-> kDefaultClockRateHz, slope |-> 0, fitted |-> FALSE,
     pinned |-> FALSE, cfg |-> SlopeFilterConfig(2, 16, 250),
     anchored |-> FALSE, anchor |-> 0, obs |-> <<>>,
     samples |-> <<>>, ewma |-> 0, seeded |-> FALSE,
     INSTANT |-> 0, SEG |-> 0]

nominal(t) ==
    [t EXCEPT !.fitted = FALSE, !.slope = nominal_slope_psec(t.rate)]

refit_ssrc(t) ==
    LET fit  == fit_slope_psec(t.samples)
        nom  == nominal_slope_psec(t.rate)
        ewma == IF t.seeded
                THEN (t.ewma * (1000 - t.cfg.alpha) + fit * t.cfg.alpha) \div 1000
                ELSE fit
    IN CASE t.cfg.min_samples < 2 \/ Len(t.samples) < t.cfg.min_samples ->
                nominal(t)
         [] fit <= 0 \/ Abs(fit - nom) * 1000 > nom * kMaxFitDeviation -> t
         [] OTHER -> [t EXCEPT !.ewma = ewma, !.seeded = TRUE,
                               !.fitted = TRUE, !.slope = ewma]

\* The clamps of set_slope_filter_config; every retained window is refitted.
set_slope_filter_config(t, c) ==
    LET least == IF c.min_samples < 1 THEN 1 ELSE c.min_samples
        most  == IF c.max_samples < least THEN least ELSE c.max_samples
        alpha == CASE c.alpha < 1 -> 1 [] c.alpha > 1000 -> 1000
                   [] OTHER -> c.alpha
    IN LET u == [t EXCEPT !.cfg = SlopeFilterConfig(least, most, alpha)]
       IN IF t.samples = <<>> THEN u ELSE refit_ssrc(u)

set_ssrc_clock_rate(t, rate) ==
    IF rate = 0 THEN t
    ELSE nominal([t EXCEPT !.rate = rate, !.samples = <<>>,
                           !.ewma = 0, !.seeded = FALSE])

----------------------------------------------------------------------------
(* The abs-send-time anchor: the counter value at the report's instant.    *)

\* Mutant: the nearest observation is taken as it stands, without the media
\* distance between it and the report.
try_anchor_ast_Uncorrected(t) ==
    LET n == Len(t.obs)
        d(i) == Abs(rtp_ts_signed_diff(t.obs[i].rtp, t.rtp))
        Near == {i \in 1..n : d(i) <= (t.rate * kAstAnchorWindow) \div Second}
        best == CHOOSE i \in Near : \A j \in Near : d(i) < d(j) \/ (d(i) = d(j) /\ i <= j)
    IN IF ~t.heard \/ Near = {} THEN [t EXCEPT !.anchored = FALSE, !.anchor = 0]
       ELSE [t EXCEPT !.anchored = TRUE, !.anchor = t.obs[best].ast]

try_anchor_ast(t) ==
    LET n     == Len(t.obs)
        Exact == {i \in 1..n : t.obs[i].rtp = t.rtp}
        last  == CHOOSE i \in Exact : \A j \in Exact : j <= i
        d(i)  == Abs(rtp_ts_signed_diff(t.obs[i].rtp, t.rtp))
        Near  == {i \in 1..n : d(i) <= (t.rate * kAstAnchorWindow) \div Second}
        best  == CHOOSE i \in Near :
                    \A j \in Near : d(i) < d(j) \/ (d(i) = d(j) /\ i <= j)
        media == rtp_ts_signed_diff(t.rtp, t.obs[best].rtp)
        moved == Quotient(media * (Second \div AstTick), t.rate)
    IN CASE ~t.heard \/ Near = {} ->
                [t EXCEPT !.anchored = FALSE, !.anchor = 0]
         [] t.heard /\ Exact # {} ->
                [t EXCEPT !.anchored = TRUE, !.anchor = t.obs[last].ast]
         [] OTHER ->
                [t EXCEPT !.anchored = TRUE,
                          !.anchor = (t.obs[best].ast + moved) % kAbsSendTimeModulus]

\* A value outside the counter cannot have come off the wire and is ignored.
observe_abs_send_time(t, rtp, ast) ==
    LET ring == Append(t.obs, [rtp |-> rtp, ast |-> ast])
    IN IF ast >= kAbsSendTimeModulus THEN t
       ELSE try_anchor_ast([t EXCEPT !.obs =
                IF Len(ring) > kMaxAstObservations THEN Tail(ring) ELSE ring])

(* The report is stored whatever its age; only the fit window notices that *)
(* the media clock went backwards, and starts again.                       *)
on_sender_report(t, sr, now) ==
    LET delta  == rtp_ts_signed_diff(sr.rtp, t.samples[Len(t.samples)].rtp)
        broken == t.samples # <<>> /\ (delta < 0 \/ delta > t.rate * MaxAdvance)
        fresh  == t.samples = <<>> \/ broken
        pos    == IF fresh THEN 0 ELSE t.samples[Len(t.samples)].pos + delta
        sample == [us |-> unix_us_from_ntp64(sr.ntp), rtp |-> sr.rtp, pos |-> pos]
        window == IF fresh THEN <<sample>> ELSE Append(t.samples, sample)
        over   == Len(window) - t.cfg.max_samples
    IN try_anchor_ast(refit_ssrc(
        [t EXCEPT !.heard = TRUE, !.ntp = sr.ntp, !.rtp = sr.rtp, !.recv = now,
                  !.seeded = t.seeded /\ ~broken,
                  !.samples = IF over > 0 THEN SubSeq(window, over + 1, Len(window))
                              ELSE window,
                  !.INSTANT = sr.INSTANT, !.SEG = sr.SEG]))

NoCapture == [known |-> FALSE]

(* The sender's elapsed wall clock since the report, off the abs-send-time *)
(* counter, replaces the media-clock estimate when the two agree.          *)
refine(t, base, ast) ==
    LET refined == unix_us_from_ntp64(t.ntp)
                     + ast_ticks_to_us(ast24_signed_diff(ast, t.anchor))
    IN IF /\ AgreementTolerance > 0
          /\ ast < kAbsSendTimeModulus
          /\ t.anchored
          /\ Abs(refined - base) <= AgreementTolerance
       THEN refined ELSE base

(* After the observation was recorded: the media-clock extrapolation from  *)
(* the report, refined.  A packet from before the report is taken for the  *)
(* report's own instant up to one second of media back, refused beyond.    *)
capture_ts_us_for(t, rtp, ast) ==
    LET diff    == rtp_ts_signed_diff(rtp, t.rtp)
        forward == IF diff < 0 THEN 0 ELSE diff
        delta   == IF t.fitted /\ t.slope > 0
                   THEN (forward * t.slope) \div SlopeUnit
                   ELSE (forward * Second) \div t.rate
    IN IF ~t.heard \/ t.rate <= 0 \/ diff < -t.rate THEN NoCapture
       ELSE [known |-> TRUE,
             us |-> refine(t, unix_us_from_ntp64(t.ntp) + delta, ast)]

sender_recv_skew_us(t, capture, now) ==
    (now - capture) - (t.recv - unix_us_from_ntp64(t.ntp))

----------------------------------------------------------------------------
(* The sending engine.                                                     *)

NewSender(start, drift) ==
    [now |-> start.unix, rtp |-> start.rtp, drift |-> drift, frames |-> 0,
     SEG |-> 0, connected |-> FALSE, sr_last_sent |-> start.unix,
     audio_rtp_timestamp |-> 0, audio_packet_count |-> 0,
     audio_last_send_unix_us |-> 0]

OnIceConnected ==
    /\ ~snd.connected
    /\ snd' = [snd EXCEPT !.connected = TRUE]
    /\ UNCHANGED <<wire, trk, pub>>

\* One frame of the host: the media clock advances by the frame, the wall
\* clock by its duration, its drift and, when the host paused, the pause.
send_audio(pause) ==
    LET now == snd.now + (FrameTicks * Second) \div RtpRate + snd.drift + pause
        seg == snd.SEG + (IF pause > 0 THEN 1 ELSE 0)
    IN /\ snd.frames < MaxFrames
       /\ Cardinality(wire) < MaxWire
       /\ seg <= MaxPauses
       /\ snd' = [snd EXCEPT !.now = now, !.frames = @ + 1, !.SEG = seg,
                             !.rtp = (@ + FrameTicks) % kRtpTsModulus,
                             !.audio_last_send_unix_us = now,
                             !.audio_packet_count = @ + 1,
                             !.audio_rtp_timestamp = snd.rtp]
       /\ wire' = wire \cup
            {[kind |-> "rtp", rtp |-> snd.rtp, ast |-> encode_abs_send_time_24(now),
              INSTANT |-> now, SEG |-> seg]}
       /\ UNCHANGED <<trk, pub>>

SenderReport ==
    [kind |-> "sr", ntp |-> ntp64_from(snd.audio_last_send_unix_us),
     rtp |-> snd.audio_rtp_timestamp,
     INSTANT |-> snd.audio_last_send_unix_us, SEG |-> snd.SEG]

\* From tick(); the period restarts even when nothing can be reported yet or
\* the report cannot be protected.
maybe_send_sender_report(protected) ==
    /\ snd.connected
    /\ Cardinality(wire) < MaxWire
    /\ snd.now - snd.sr_last_sent >= SrPeriod
    /\ snd' = [snd EXCEPT !.sr_last_sent = snd.now]
    /\ wire' = IF protected /\ snd.audio_packet_count > 0
                    /\ snd.audio_last_send_unix_us > 0
               THEN wire \cup {SenderReport} ELSE wire
    /\ UNCHANGED <<trk, pub>>

----------------------------------------------------------------------------
(* The receiving engine.                                                   *)

\* handle_rtp gives the SSRC the rate of its payload type at its first packet;
\* the window fitted under the default rate is dropped with it.
pin_clock_rate(t) ==
    IF t.pinned THEN t
    ELSE [set_ssrc_clock_rate(t, RtpRate) EXCEPT !.pinned = TRUE]

\* The observation is recorded first, so the packet may itself become the
\* anchor its own instant is refined with.
observe_timeline(m) ==
    LET t   == observe_abs_send_time(pin_clock_rate(trk), m.rtp, m.ast)
        cap == capture_ts_us_for(t, m.rtp, m.ast)
    IN /\ m.kind = "rtp"
       /\ trk' = t
       /\ pub' = IF ~cap.known THEN pub
                 ELSE [known |-> TRUE, capture |-> cap.us, arrival |-> snd.now,
                       skew |-> sender_recv_skew_us(t, cap.us, snd.now),
                       anchored |-> t.anchored, INSTANT |-> m.INSTANT,
                       SEG |-> m.SEG, SR |-> t.INSTANT, SRSEG |-> t.SEG]
       /\ wire' = wire \ {m}
       /\ UNCHANGED snd

handle_rtcp(m) ==
    /\ m.kind = "sr"
    /\ trk' = on_sender_report(trk, m, snd.now)
    /\ wire' = wire \ {m}
    /\ UNCHANGED <<snd, pub>>

Lose(m) == wire' = wire \ {m} /\ UNCHANGED <<snd, trk, pub>>

\* The host replaces the default estimator configuration.
ConfigureSlope(c) ==
    /\ trk.cfg = SlopeFilterConfig(2, 16, 250)
    /\ trk' = set_slope_filter_config(trk, c)
    /\ UNCHANGED <<snd, wire, pub>>

TlInit ==
    /\ \E start \in Starts, drift \in Drifts : snd = NewSender(start, drift)
    /\ wire = {} /\ trk = NewTracker /\ pub = NoCapture

TlNext ==
    \/ OnIceConnected
    \/ \E p \in {0, Pause} : send_audio(p)
    \/ \E protected \in BOOLEAN : maybe_send_sender_report(protected)
    \/ \E m \in wire : observe_timeline(m)
    \/ \E m \in wire : handle_rtcp(m)
    \/ \E m \in wire : Lose(m)
    \/ \E c \in SlopeFilters : ConfigureSlope(c)

----------------------------------------------------------------------------
TlTypeOK ==
    /\ snd.rtp \in 0..(kRtpTsModulus - 1)
    /\ Cardinality(wire) <= MaxWire
    /\ Len(trk.obs) <= kMaxAstObservations
    /\ trk.anchor \in 0..(kAbsSendTimeModulus - 1)

(* The capture instant published for a packet is the instant the sender    *)
(* sent it, to the resolution of the two wrapping counters, whatever was   *)
(* lost, overtaken or late and wherever the counters wrapped, as long as   *)
(* the host captured without a pause.  With pauses the media clock no      *)
(* longer follows the wall clock; a packet and a report from the same side *)
(* of every pause still place the instant within the agreement tolerance   *)
(* and the slope's five per cent.                                          *)
Resolution == 2 * AstTick + 1

CaptureFaithful ==
    pub.known =>
        LET error   == Abs(pub.capture - pub.INSTANT)
            forward == Abs(pub.INSTANT - pub.SR)
        IN /\ pub.SEG = 0 /\ pub.SRSEG = 0 /\ snd.SEG = 0 /\ snd.drift = 0
              /\ (pub.INSTANT >= pub.SR \/ pub.anchored) =>
                    error <= Resolution
           /\ pub.SEG = pub.SRSEG =>
                error <= AgreementTolerance + forward \div 10 + Resolution
=============================================================================
