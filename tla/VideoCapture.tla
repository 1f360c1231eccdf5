---------------------------- MODULE VideoCapture ----------------------------
(***************************************************************************)
(* The ends of the video path: the in-memory source with its cadence       *)
(* thread (src/modules/video_source), behind its plugin adapter and the    *)
(* engine's start_video, stop_video and set_video_source; the frame        *)
(* buffers and their layout (video_frame); the sinks (video_sink) and the  *)
(* stream statistics (video_stats).                                        *)
(*                                                                         *)
(* One application thread calls the API, as its comments require; the      *)
(* cadence thread takes its own steps and holds loop_mu_ except while it   *)
(* waits and while it produces.  The clock of the cadence is left open: a  *)
(* wait may end at any time, and the loop may find itself behind.  A unit  *)
(* of time of the statistics is a millisecond.                             *)
(***************************************************************************)
EXTENDS Integers, Sequences, FiniteSets

CONSTANT VcSetups   \* the scenarios a behaviour may start with

\* A freeze has a length and frames are captured before they are seen.
ASSUME VcAssumption ==
    \A s \in VcSetups : s.freeze_threshold \in Nat /\ s.lag \in Nat

VARIABLES
    vcSetup,   \* which part runs, its configuration and its bounds, fixed
    cam,       \* MemoryVideoSource and the adapter around it
    capp,      \* the application thread: what it waits for, what it has seen
    bufs,      \* VideoFrameBuffer objects: the control block each one holds
    vsink,     \* the sink
    vst        \* VideoStatsSink, with the clock

vcVars == <<vcSetup, cam, capp, bufs, vsink, vst>>

----------------------------------------------------------------------------
(* Frame layout: strides and offsets of the planes of a frame              *)

VcMax(a, b) == IF a < b THEN b ELSE a
Half(n) == (n + 1) \div 2
align_up(v, a) == ((v + a - 1) \div a) * a

Plane(offset, stride, rows) == [offset |-> offset, stride |-> stride, rows |-> rows]

fill_planar_yuv_420_layout(w, h, a) ==
    LET y == align_up(w, a)
        c == align_up(Half(w), a)
    IN  <<Plane(0, y, h), Plane(y * h, c, Half(h)), Plane(y * h + c * Half(h), c, Half(h))>>

fill_nv12_layout(w, h, a) ==
    LET y == align_up(w, a)
    IN  <<Plane(0, y, h), Plane(y * h, align_up(2 * Half(w), a), Half(h))>>

fill_packed_layout(w, h, bytes, a) == <<Plane(0, align_up(w * bytes, a), h)>>

\* The planes of a frame; none for an empty frame or an unknown format.
compute_layout_aligned(format, w, h, align) ==
    LET a == VcMax(align, 1)
    IN  CASE w = 0 \/ h = 0 -> <<>>
          [] format \in {"I420", "YV12"} /\ w > 0 /\ h > 0 ->
                 fill_planar_yuv_420_layout(w, h, a)
          [] format = "NV12" /\ w > 0 /\ h > 0 -> fill_nv12_layout(w, h, a)
          [] format \in {"BGRA", "RGBA"} /\ w > 0 /\ h > 0 -> fill_packed_layout(w, h, 4, a)
          [] format = "RGB24" /\ w > 0 /\ h > 0 -> fill_packed_layout(w, h, 3, a)
          [] OTHER -> <<>>

PlaneEnd(p) == p.offset + p.stride * p.rows

\* convert_i420_to_bgra reads the chroma line j \div 2 of line j and the
\* chroma pixel i \div 2 of pixel i; the two NV12 conversions read and write
\* Half(h) lines of Half(w) pixels.  The rows and the bytes of a row that the
\* conversions touch in each plane of a frame.
Touched(format, w, h) ==
    CASE format \in {"I420", "YV12"} ->
             <<[rows |-> h, bytes |-> w], [rows |-> Half(h), bytes |-> Half(w)],
               [rows |-> Half(h), bytes |-> Half(w)]>>
      [] format = "NV12" ->
             <<[rows |-> h, bytes |-> w], [rows |-> Half(h), bytes |-> 2 * Half(w)]>>
      [] format = "BGRA" -> <<[rows |-> h, bytes |-> 4 * w]>>

----------------------------------------------------------------------------
(* Frame buffers: a counted control block shared by VideoFrameBuffers       *)

NoCtrl == 0
Slots == DOMAIN bufs.held

\* The counts after the buffer in slot i lets go of its control block.
LetGo(i) == IF bufs.held[i] = NoCtrl THEN bufs.count
            ELSE [bufs.count EXCEPT ![bufs.held[i]] = @ - 1]

\* VideoFrameBuffer(layout), assigned to slot i: a new control block.
NewBuffer(i) ==
    /\ Len(bufs.count) < vcSetup.blocks
    /\ bufs' = [held |-> [bufs.held EXCEPT ![i] = Len(bufs.count) + 1],
                count |-> Append(LetGo(i), 1)]

\* operator=(const VideoFrameBuffer&)
CopyBuffer(i, j) ==
    /\ bufs' = IF i = j THEN bufs
               ELSE LET c == LetGo(i)
                    IN  [held |-> [bufs.held EXCEPT ![i] = bufs.held[j]],
                         count |-> IF bufs.held[j] = NoCtrl THEN c
                                   ELSE [c EXCEPT ![bufs.held[j]] = @ + 1]]

\* Mutant: the buffer assigned to keeps its count.
MoveBuffer_KeepsOld(i, j) ==
    /\ bufs' = IF i = j THEN bufs
               ELSE [held |-> [bufs.held EXCEPT ![i] = bufs.held[j], ![j] = NoCtrl],
                     count |-> bufs.count]

\* operator=(VideoFrameBuffer&&)
MoveBuffer(i, j) ==
    /\ bufs' = IF i = j THEN bufs
               ELSE [held |-> [bufs.held EXCEPT ![i] = bufs.held[j], ![j] = NoCtrl],
                     count |-> LetGo(i)]

\* reset, and the destructor.
ResetBuffer(i) ==
    /\ bufs' = [held |-> [bufs.held EXCEPT ![i] = NoCtrl], count |-> LetGo(i)]

BufferStep ==
    /\ vcSetup.part = "buffers"
    /\ \E i, j \in Slots : NewBuffer(i) \/ CopyBuffer(i, j) \/ MoveBuffer(i, j) \/ ResetBuffer(i)
    /\ UNCHANGED <<vcSetup, cam, capp, vsink, vst>>

----------------------------------------------------------------------------
(* The source                                                              *)

\* A MemoryVideoSource as constructed: idle, "already exited".
NewSource ==
    [concrete |-> TRUE, running |-> FALSE, stop_flag |-> FALSE, thread_exited |-> TRUE,
     thread |-> "none", next_seq |-> vcSetup.start_seq, holds |-> 0, registered |-> FALSE,
     user_cb |-> FALSE, produced |-> 0, dropped |-> 0, ticks |-> 0, delivered |-> <<>>]

Joinable == cam.thread # "none"
AppFree == capp.doing = "nothing" /\ capp.alive /\ vcSetup.part = "source"

\* render_pattern fails on a frame without planes or a pattern it does not know.
Renders == vcSetup.pattern \in {"solid", "bars", "gradient", "count"}
           /\ Len(compute_layout_aligned(vcSetup.format, vcSetup.width, vcSetup.height, 16)) > 0

\* do_produce up to its callback: the frame is rendered and counted.
Rendered(c) ==
    IF Renders THEN [c EXCEPT !.produced = @ + 1, !.next_seq = @ + 1, !.holds = c.next_seq]
    ELSE [c EXCEPT !.dropped = @ + 1]

\* The wrapped callback of the adapter: to_plugin_view, then the user's.
Delivered(c) ==
    IF c.registered /\ c.user_cb THEN [c EXCEPT !.delivered = Append(@, c.holds)] ELSE c

UntouchedBySource == <<vcSetup, bufs, vsink, vst>>

\* Mutant: a new run does not take back that the thread has exited.
start_StillExited ==
    /\ AppFree /\ cam.concrete /\ capp.calls < vcSetup.max_calls
    /\ IF cam.running THEN cam' = [cam EXCEPT !.registered = TRUE] /\ capp' = [capp EXCEPT !.calls = @ + 1]
       ELSE /\ cam' = [cam EXCEPT !.registered = TRUE, !.running = TRUE, !.stop_flag = FALSE,
                                  !.thread = IF Joinable THEN @ ELSE "wait"]
            /\ capp' = [capp EXCEPT !.calls = @ + 1, !.idle = FALSE, !.alive = ~Joinable,
                                    !.terminated = Joinable]
    /\ UNCHANGED UntouchedBySource

\* start_video: the adapter hooks its callback in once; a second start of a
\* running source does nothing.  Assigning a thread to thread_ while it is
\* joinable, which it is from the first start to the destructor, ends the
\* process (std::terminate).
start ==
    /\ AppFree /\ cam.concrete /\ capp.calls < vcSetup.max_calls
    /\ vcSetup.restarts \/ ~Joinable \/ cam.running
    /\ IF cam.running THEN cam' = [cam EXCEPT !.registered = TRUE] /\ capp' = [capp EXCEPT !.calls = @ + 1]
       ELSE /\ cam' = [cam EXCEPT !.registered = TRUE, !.running = TRUE, !.stop_flag = FALSE,
                                  !.thread_exited = FALSE,
                                  !.thread = IF Joinable THEN @ ELSE "wait"]
            /\ capp' = [capp EXCEPT !.calls = @ + 1, !.idle = FALSE, !.alive = ~Joinable,
                                    !.terminated = Joinable]
    /\ UNCHANGED UntouchedBySource

\* Mutant: the flag that ends the loop is left alone.
Stopped_NoFlag(c) == [c EXCEPT !.running = FALSE]

\* MemoryVideoSource::stop: nothing unless running.
Stopped(c) == IF c.running THEN [c EXCEPT !.running = FALSE, !.stop_flag = TRUE] ELSE c

\* stop_video
stop ==
    /\ AppFree /\ cam.concrete /\ capp.calls < vcSetup.max_calls
    /\ cam' = Stopped(cam)
    /\ capp' = [capp EXCEPT !.calls = @ + 1]
    /\ UNCHANGED UntouchedBySource

set_callback(on) ==
    /\ AppFree /\ capp.calls < vcSetup.max_calls /\ cam.thread \notin {"render", "call"}
    /\ cam' = [cam EXCEPT !.user_cb = on]
    /\ capp' = [capp EXCEPT !.calls = @ + 1]
    /\ UNCHANGED UntouchedBySource

\* produce_one renders and calls back on the application's thread; callers
\* serialise it with the cadence, so it is called while the thread is not
\* running.  Before the first start the adapter's callback is not hooked in.
produce_one ==
    /\ AppFree /\ cam.concrete /\ capp.calls < vcSetup.max_calls
    /\ cam.thread \in {"none", "gone"}
    /\ cam' = LET c == Rendered(cam) IN IF Renders THEN Delivered(c) ELSE c
    /\ capp' = [capp EXCEPT !.calls = @ + 1]
    /\ UNCHANGED UntouchedBySource

\* wait_until_idle returns what it saw, at its timeout at the latest.
wait_until_idle ==
    /\ AppFree /\ cam.concrete /\ capp.calls < vcSetup.max_calls
    /\ capp' = [capp EXCEPT !.calls = @ + 1, !.idle = cam.thread_exited]
    /\ UNCHANGED <<cam, UntouchedBySource>>

\* close of the adapter (shutdown_video_plugins, set_video_source) begins to
\* destroy the source: stop, and wait for the thread at most a second.
close ==
    /\ AppFree /\ cam.concrete
    /\ cam' = Stopped(cam)
    /\ capp' = [capp EXCEPT !.doing = "joining"]
    /\ UNCHANGED UntouchedBySource

\* The rest of the destructor joins the thread; the callback goes after it.
Joined ==
    /\ vcSetup.part = "source" /\ capp.doing = "joining"
    /\ cam.thread \in {"none", "gone"}
    /\ cam' = [cam EXCEPT !.concrete = FALSE, !.user_cb = FALSE, !.registered = FALSE,
                          !.thread = "none"]
    /\ capp' = [capp EXCEPT !.doing = "nothing"]
    /\ UNCHANGED UntouchedBySource

\* open of the adapter makes a source with defaults when there is none; a
\* callback set since close() stays.
open ==
    /\ AppFree /\ ~cam.concrete /\ capp.calls < vcSetup.max_calls
    /\ cam' = [NewSource EXCEPT !.next_seq = 0, !.user_cb = cam.user_cb]
    /\ capp' = [capp EXCEPT !.calls = @ + 1]
    /\ UNCHANGED UntouchedBySource

\* The loop wakes: it leaves when it was told to, else a tick begins (at most
\* max_ticks of them).
Wake ==
    /\ cam.thread = "wait"
    /\ cam.stop_flag \/ cam.ticks < vcSetup.max_ticks
    /\ cam' = IF cam.stop_flag THEN [cam EXCEPT !.thread_exited = TRUE, !.thread = "gone"]
              ELSE [cam EXCEPT !.ticks = @ + 1, !.thread = "render"]
    /\ UNCHANGED <<capp, UntouchedBySource>>

Produce ==
    /\ cam.thread = "render"
    /\ cam' = [Rendered(cam) EXCEPT !.thread = IF Renders THEN "call" ELSE "relock"]
    /\ UNCHANGED <<capp, UntouchedBySource>>

\* The callback runs without loop_mu_; it may stop the source.
Call ==
    /\ cam.thread = "call"
    /\ \E c \in {Delivered(cam)} \cup (IF vcSetup.callback_stops THEN {Stopped(Delivered(cam))} ELSE {}) :
           cam' = [c EXCEPT !.thread = "relock"]
    /\ UNCHANGED <<capp, UntouchedBySource>>

\* A loop that fell behind counts one drop and starts again from now.
Relock ==
    /\ cam.thread = "relock"
    /\ \E behind \in BOOLEAN :
           cam' = [cam EXCEPT !.dropped = IF behind THEN @ + 1 ELSE @, !.thread = "wait"]
    /\ UNCHANGED <<capp, UntouchedBySource>>

cadence_loop == vcSetup.part = "source" /\ capp.alive /\ (Wake \/ Produce \/ Call \/ Relock)

----------------------------------------------------------------------------
(* The sinks                                                               *)

NewSink == [opened |-> FALSE, last |-> -1, rendered |-> 0, errors |-> 0]

\* render of PinnedSink, and of HeadlessSink, which checks no order.
render(ts) ==
    /\ IF ~vsink.opened THEN vsink' = vsink
       ELSE IF vcSetup.pinned /\ vsink.last >= 0 /\ ts <= vsink.last
            THEN vsink' = [vsink EXCEPT !.errors = @ + 1]
       ELSE vsink' = [vsink EXCEPT !.rendered = @ + 1, !.last = IF vcSetup.pinned THEN ts ELSE @]

SinkOpen ==
    /\ ~vsink.opened
    /\ vsink' = [vsink EXCEPT !.opened = TRUE, !.last = -1]

SinkClose ==
    /\ vsink.opened
    /\ vsink' = [vsink EXCEPT !.opened = FALSE, !.last = -1]

----------------------------------------------------------------------------
(* The statistics                                                          *)

NewStats ==
    [received |-> 0, decoded |-> 0, rendered |-> 0, dropped |-> [jb |-> 0, decoder |-> 0],
     first_ts |-> -1, last_ts |-> -1, last_rendered |-> -1, rendered_at_tick |-> 0,
     freezes |-> 0, freeze_total |-> 0, window |-> <<>>, keyframes |-> 0, last_key |-> -1]

\* on_frame_received of one unit of data captured at ts.
on_frame_received(s, ts, key) ==
    [s EXCEPT !.received = @ + 1, !.first_ts = IF @ = -1 THEN ts ELSE @, !.last_ts = ts,
              !.window = Append(@, ts), !.keyframes = IF key THEN @ + 1 ELSE @,
              !.last_key = IF key THEN ts ELSE @]

\* The counters of a freeze of this length, if it is one.
Frozen(s, length) ==
    IF length >= vcSetup.freeze_threshold
    THEN [s EXCEPT !.freezes = @ + 1, !.freeze_total = @ + length] ELSE s

\* on_frame_rendered: the gap to the frame rendered before.
on_frame_rendered(s, ts) ==
    LET c == [s EXCEPT !.rendered = @ + 1]
    IN  IF s.last_rendered = -1 THEN [c EXCEPT !.last_rendered = ts]
        ELSE [Frozen(c, ts - s.last_rendered) EXCEPT !.last_rendered = ts]

\* Mutant: a freeze seen by the timer is not moved up to now.
IdleFreeze_NoAnchor(s, now) == Frozen(s, now - s.last_rendered)

\* A freeze the timer sees; later ones count from now.
IdleFreeze(s, now) ==
    LET f == Frozen(s, now - s.last_rendered)
    IN  IF f = s THEN s ELSE [f EXCEPT !.last_rendered = now]

\* The samples at the front that are older than the window go.
Pruned(w, cutoff) ==
    LET old == {k \in 0 .. Len(w) : \A l \in 1 .. k : w[l] < cutoff}
    IN  SubSeq(w, 1 + CHOOSE k \in old : \A l \in old : l <= k, Len(w))

\* tick: no frame rendered since the last one may be a freeze; the bitrate
\* window is swept.
StatsTick(s, now) ==
    LET c == IF s.rendered = s.rendered_at_tick /\ s.last_rendered >= 0 /\ now > s.last_rendered
             THEN IdleFreeze(s, now) ELSE s
    IN  [c EXCEPT !.rendered_at_tick = s.rendered,
                  !.window = Pruned(@, now - vcSetup.bitrate_window)]

\* on_frame_dropped: a lost dependency counts as a decoder drop.
on_frame_dropped(s, reason) ==
    IF reason = "kJitterBufferTimeout" THEN [s EXCEPT !.dropped.jb = @ + 1]
    ELSE [s EXCEPT !.dropped.decoder = @ + 1]

\* One call; since is when the first frame was rendered after a reset.
Report(s) ==
    vst' = [s |-> s, now |-> vst.now, calls |-> vst.calls + 1,
            since |-> IF s.last_rendered = -1 THEN -1
                      ELSE IF vst.since = -1 THEN s.last_rendered ELSE vst.since]

\* What the stages of a receiving stream report, and the timer: frames are
\* captured vcSetup.lag before they are seen.
StatsEvent ==
    LET s == vst.s
        ts == vst.now - vcSetup.lag
    IN  \/ /\ \/ \E key \in BOOLEAN : Report(on_frame_received(s, ts, key))
              \/ Report([s EXCEPT !.decoded = @ + 1])
              \/ \E r \in {"kJitterBufferTimeout", "kDecoderError", "kDependencyLost"} :
                     Report(on_frame_dropped(s, r))
              \/ Report(StatsTick(s, vst.now))
              \/ Report(NewStats)
           /\ UNCHANGED vsink
        \/ Report(on_frame_rendered(s, ts)) /\ render(ts)
        \/ Report(s) /\ (SinkOpen \/ SinkClose)

StatsStep ==
    /\ vcSetup.part = "stats"
    /\ \/ vst.calls < vcSetup.max_calls /\ StatsEvent
       \/ /\ vst.now < vcSetup.max_time
          /\ vst' = [vst EXCEPT !.now = @ + 1]
          /\ UNCHANGED vsink
    /\ UNCHANGED <<vcSetup, cam, capp, bufs>>

----------------------------------------------------------------------------
VcInit ==
    /\ vcSetup \in VcSetups
    /\ cam = NewSource
    /\ capp = [doing |-> "nothing", alive |-> TRUE, terminated |-> FALSE, idle |-> FALSE,
               calls |-> 0]
    /\ bufs = [held |-> [i \in 1 .. vcSetup.slots |-> NoCtrl], count |-> <<>>]
    /\ vsink = NewSink
    /\ vst = [s |-> NewStats, now |-> vcSetup.lag, since |-> -1, calls |-> 0]

VcNext ==
    \/ start \/ stop \/ produce_one \/ wait_until_idle \/ close \/ Joined \/ open
    \/ \E on \in BOOLEAN : set_callback(on)
    \/ cadence_loop
    \/ BufferStep
    \/ StatsStep

VcSpec == VcInit /\ [][VcNext]_vcVars

\* The cadence thread is scheduled, its waits end and its callback returns;
\* join returns once the thread is gone.
VcFairness == WF_vcVars(cadence_loop) /\ WF_vcVars(Joined)

----------------------------------------------------------------------------
(* Properties                                                              *)

VcTypeOK ==
    /\ cam.thread \in {"none", "wait", "render", "call", "relock", "gone"}
    /\ capp.doing \in {"nothing", "joining"}
    /\ \A i \in Slots : bufs.held[i] \in 0 .. Len(bufs.count)
    /\ vst.s.freeze_total \in Nat /\ vsink.rendered \in Nat

\* Once wait_until_idle has returned true, or the source is closed, its thread
\* makes no frame and no callback any more, until the next start: the barrier
\* test_video_source.cpp relies on, and the one that lets the adapter and the
\* engine drop what the callback captured.
QuietWhenIdle ==
    capp.idle \/ ~cam.concrete => cam.thread \in {"none", "gone"}

\* A close always returns, whoever stopped the source before and wherever its
\* thread was: the destructor's join cannot wait for a loop that was not told
\* to end.
CloseJoins == capp.doing = "joining" ~> capp.doing = "nothing"

\* The application-level reference count of a control block, which the copy
\* and move operations keep by hand, is the number of buffers that hold it.
RefCountExact ==
    \A c \in DOMAIN bufs.count :
        bufs.count[c] = Cardinality({i \in Slots : bufs.held[i] = c})

\* The planes of a frame lie one after the other and each holds every byte
\* the conversions read or write in it, for odd sizes too.
PlanesHoldPixels ==
    vcSetup.part = "buffers" => \A f \in {"I420", "YV12", "NV12", "BGRA"}, d \in vcSetup.sizes :
        LET ps == compute_layout_aligned(f, d[1], d[2], d[3])
            t == Touched(f, d[1], d[2])
        IN  /\ Len(ps) = Len(t)
            /\ \A k \in DOMAIN ps : t[k].bytes <= ps[k].stride /\ t[k].rows <= ps[k].rows
            /\ \A k \in 1 .. Len(ps) - 1 : PlaneEnd(ps[k]) <= ps[k + 1].offset

\* A frame that is handed on is whole: its planes hold every byte the
\* conversions touch, without overlap, and its count is the number of buffers
\* that hold it (frame.cpp).
FramesWhole == RefCountExact /\ PlanesHoldPixels

\* No idle time is counted as frozen twice, by the renderer and by the timer:
\* the frozen time is at most the time since the first frame.  It needs the
\* capture clock and the timer's clock to agree (no lag); the code compares
\* the two directly.
FrozenTimeBounded ==
    vcSetup.lag = 0 /\ vst.since >= 0 => vst.s.freeze_total <= vst.now - vst.since

----------------------------------------------------------------------------
(* What the documentation says                                             *)

\* engine.hpp: start_video returns kOk on success and is idempotent if already
\* running.  A start after a stop ends the process instead.
StartReturns == ~capp.terminated
=============================================================================
