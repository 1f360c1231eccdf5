---------------------------- MODULE MediaProofs ----------------------------
(***************************************************************************)
(* Proofs about both ends of the media paths.  The audio jitter buffer, for *)
(* any stream, configurations, delays and order of calls: the deadline of a *)
(* frame is computed from the arrival kept in a map of its own, and the two *)
(* maps of the buffer agree.  The video source and the quality monitor, for *)
(* every setup: the cadence thread is quiet once it was seen idle or the    *)
(* source is closed, and frozen time is counted once.                       *)
(***************************************************************************)
EXTENDS EngineAudio, VideoCapture, TLAPS

-----------------------------------------------------------------------------
(* The audio jitter buffer (jitter_buffer.cpp). *)

BufferFields == {"config", "frame_buffer", "frame_arrival_times", "buffered_packets",
                 "target_delay", "observations", "jitter_seen", "tracked"}

\* The two maps have the same frames and the same arrivals.
BufferOK(b) ==
    /\ DOMAIN b = BufferFields
    /\ b.config \in Configs /\ b.target_delay \in Nat
    /\ b.jitter_seen \in BOOLEAN /\ (b.jitter_seen => b.tracked \in Nat)
    /\ DOMAIN b.frame_arrival_times = DOMAIN b.frame_buffer
    /\ \A ts \in DOMAIN b.frame_buffer :
          /\ DOMAIN b.frame_buffer[ts] = {"packets", "first_arrival"}
          /\ b.frame_buffer[ts].first_arrival = b.frame_arrival_times[ts]
          /\ b.frame_arrival_times[ts] \in Nat

----------------------------------------------------------------------------
(* The operations of the buffer. *)

LEMMA ConfigNat == \A c \in Configs : c.initial_delay \in Nat
BY Zenon, JitterBufferAssumption DEF JitterBufferAssumption

LEMMA DelaysNat == Delays \subseteq Nat /\ Delays # {} /\ BaseDelay \in Nat
BY Zenon, JitterBufferAssumption DEF JitterBufferAssumption

LEMMA NewOK == \A c \in Configs : BufferOK(New(c))
BY Zenon DEF New, BufferOK, BufferFields, Empty

LEMMA ObserveOK ==
    ASSUME NEW b, BufferOK(b), NEW c \in Observe(b)
    PROVE  BufferOK(c)
<1>1. \A s \in BOOLEAN, d \in Delays : BufferOK(Observed(b, s, d))
  BY DelaysNat DEF Observed, BufferOK, BufferFields
<1>2. Jitter(b) \subseteq BOOLEAN
  BY Zenon DEF Jitter
<1>3. PICK s \in Jitter(b), d \in Delays : c = Observed(b, s, d)
  BY DEF Observe
<1> QED BY Zenon, <1>1, <1>2, <1>3

LEMMA InsertOK ==
    ASSUME NEW b, BufferOK(b), NEW i, NEW at \in Nat
    PROVE  BufferOK(Insert(b, i, at))
<1> DEFINE ts == Stream[i]
           frame == IF ts \in DOMAIN b.frame_buffer
                    THEN [b.frame_buffer[ts] EXCEPT !.packets = Append(@, i)]
                    ELSE [packets |-> <<i>>, first_arrival |-> at]
           time == IF ts \in DOMAIN b.frame_arrival_times THEN b.frame_arrival_times[ts] ELSE at
           fb == [t \in DOMAIN b.frame_buffer \union {ts} |->
                     IF t = ts THEN frame ELSE b.frame_buffer[t]]
           fat == [t \in DOMAIN b.frame_arrival_times \union {ts} |->
                     IF t = ts THEN time ELSE b.frame_arrival_times[t]]
           delay == IF b.target_delay # 0 THEN b.target_delay
                    ELSE IF b.config.initial_delay > 0 THEN b.config.initial_delay ELSE BaseDelay
<1>1. DOMAIN frame = {"packets", "first_arrival"} /\ frame.first_arrival = time /\ time \in Nat
  BY Zenon DEF BufferOK
<1>2. delay \in Nat
  BY Zenon, ConfigNat, DelaysNat DEF BufferOK
<1>3. Insert(b, i, at) = [b EXCEPT !.frame_buffer = fb, !.frame_arrival_times = fat,
                                   !.buffered_packets = @ + 1, !.target_delay = delay]
  BY Zenon DEF Insert
<1> HIDE DEF frame, time, delay, ts
<1>4. DOMAIN fat = DOMAIN fb /\ \A t \in DOMAIN fb :
          /\ DOMAIN fb[t] = {"packets", "first_arrival"}
          /\ fb[t].first_arrival = fat[t] /\ fat[t] \in Nat
  BY Zenon, <1>1 DEF BufferOK
<1> HIDE DEF fb, fat
<1>5. LET c == Insert(b, i, at) IN
      /\ DOMAIN c = BufferFields /\ c.config = b.config /\ c.target_delay = delay
      /\ c.tracked = b.tracked /\ c.jitter_seen = b.jitter_seen /\ c.frame_buffer = fb /\ c.frame_arrival_times = fat
  BY Zenon, <1>3 DEF BufferOK, BufferFields
<1> QED BY Zenon, <1>2, <1>4, <1>5 DEF BufferOK

LEMMA PushOK ==
    ASSUME NEW b, BufferOK(b), NEW i, NEW at \in Nat, NEW c \in push(b, i, at)
    PROVE  BufferOK(c)
BY Zenon, ObserveOK, InsertOK DEF push

LEMMA RetargetOK ==
    ASSUME NEW b, BufferOK(b)
    PROVE  BufferOK(Retarget(b))
<1> DEFINE delay == IF ~b.config.adaptive THEN b.config.initial_delay
                    ELSE IF b.jitter_seen THEN b.tracked ELSE b.target_delay
<1>1. delay \in Nat
  BY Zenon, ConfigNat DEF BufferOK
<1>2. Retarget(b) = [b EXCEPT !.target_delay = delay]
  BY Zenon DEF Retarget
<1> HIDE DEF delay
<1> QED BY Zenon, <1>1, <1>2 DEF BufferOK, BufferFields

LEMMA TakenOK ==
    ASSUME NEW b, BufferOK(b), NEW ts
    PROVE  BufferOK(Taken(b, ts))
<1> DEFINE c == Taken(b, ts)
<1>1. /\ DOMAIN c = BufferFields /\ c.config = b.config /\ c.target_delay = b.target_delay
      /\ c.tracked = b.tracked /\ c.jitter_seen = b.jitter_seen
      /\ c.frame_buffer = [x \in DOMAIN b.frame_buffer \ {ts} |-> b.frame_buffer[x]]
      /\ c.frame_arrival_times = [x \in DOMAIN b.frame_arrival_times \ {ts} |-> b.frame_arrival_times[x]]
  BY Zenon DEF BufferOK, BufferFields, Taken, Restrict
<1> HIDE DEF c
<1>2. BufferOK(c)
  BY <1>1 DEF BufferOK
<1> QED BY Zenon, <1>2 DEF c

LEMMA FlushedOK ==
    ASSUME NEW b, BufferOK(b)
    PROVE  BufferOK(Flushed(b))
BY Zenon DEF BufferOK, BufferFields, Flushed, Empty

LEMMA ReconfiguredOK ==
    ASSUME NEW b, BufferOK(b), NEW c \in Configs, NEW d \in Reconfigured(b, c)
    PROVE  BufferOK(d)
<1>1. PICK t \in Delays :
        d = [b EXCEPT !.config = c, !.tracked = t,
                      !.target_delay = IF c.adaptive THEN b.target_delay ELSE c.initial_delay]
  BY Zenon DEF Reconfigured
<1>2. t \in Nat /\ c.initial_delay \in Nat
  BY Zenon, DelaysNat, ConfigNat
<1> QED BY Zenon, <1>1, <1>2 DEF BufferOK, BufferFields

\* A frame that is due has waited for the delay it is compared with.
LEMMA DueWaited ==
    ASSUME NEW b, BufferOK(b), NEW at \in Nat, NEW ts \in Poppable(b, at)
    PROVE  ts \in DOMAIN b.frame_buffer /\ at - b.frame_buffer[ts].first_arrival >= b.target_delay
<1>1. ts \in Timed(b) /\ at >= b.frame_arrival_times[ts] + b.target_delay
  BY Zenon DEF Poppable, DueFrames
<1>2. ts \in DOMAIN b.frame_buffer
  BY Zenon, <1>1 DEF Timed
<1> QED BY SMTT(20), <1>1, <1>2 DEF BufferOK

----------------------------------------------------------------------------
(* The engine, and a host. *)

AudioInv ==
    /\ now \in Nat /\ BufferOK(jb)
    /\ \E S : played \in Seq(S)
    /\ WaitsItsDelay

LEMMA AudioInitial == EngineInit => AudioInv
<1> SUFFICES ASSUME EngineInit PROVE AudioInv
  BY Zenon
<1>1. now = 0 /\ played = <<>> /\ \E c \in Configs : jb = New(c)
  BY Zenon DEF EngineInit, Init
<1>2. played \in Seq({})
  BY <1>1
<1> QED BY SMTT(20), <1>1, <1>2, NewOK DEF AudioInv, WaitsItsDelay

\* One more frame played.
LEMMA PlayedLonger ==
    ASSUME AudioInv, NEW f, f.waited >= f.target, played' = Append(played, f)
    PROVE  (\E S : played' \in Seq(S)) /\ WaitsItsDelay'
<1>1. PICK S : played \in Seq(S)
  BY Zenon DEF AudioInv
<1>2. played \in Seq(S \cup {f})
  BY <1>1
<1>3. played' \in Seq(S \cup {f})
  BY <1>2
<1>4. DOMAIN played' = 1..(Len(played) + 1) /\ DOMAIN played = 1..Len(played) /\ Len(played) \in Nat
  BY <1>2
<1>5. \A k \in DOMAIN played' : played'[k] = IF k = Len(played) + 1 THEN f ELSE played[k]
  BY <1>2, <1>4
<1>6. \A k \in DOMAIN played' : played'[k].waited >= played'[k].target
  BY <1>4, <1>5 DEF AudioInv, WaitsItsDelay
<1> QED BY Zenon, <1>3, <1>6 DEF WaitsItsDelay

LEMMA HandleKeeps ==
    ASSUME AudioInv, NEW i \in DOMAIN Stream, handle_rtp(i)
    PROVE  AudioInv'
<1>1. PICK b \in {Retarget(c) : c \in push(jb, i, now)} :
        \/ jb' = b /\ played' = played
        \/ \E ts \in Poppable(b, now) :
              /\ jb' = Taken(b, ts)
              /\ played' = Append(played,
                    [ts |-> ts,
                     count |-> Len(b.frame_buffer[ts].packets),
                     front |-> Head(b.frame_buffer[ts].packets),
                     during |-> i,
                     target |-> b.target_delay,
                     waited |-> now - b.frame_buffer[ts].first_arrival])
  BY Zenon DEF handle_rtp
<1>2. now' = now /\ now \in Nat
  BY Zenon DEF handle_rtp, AudioInv
<1>3. BufferOK(b)
  BY Zenon, <1>1, <1>2, PushOK, RetargetOK DEF AudioInv
<1>4. CASE jb' = b /\ played' = played
  BY Zenon, <1>2, <1>3, <1>4 DEF AudioInv, WaitsItsDelay
<1>5. ASSUME NEW ts \in Poppable(b, now), jb' = Taken(b, ts),
             NEW f, f.target = b.target_delay, f.waited = now - b.frame_buffer[ts].first_arrival,
             played' = Append(played, f)
      PROVE  AudioInv'
  <2>1. f.waited >= f.target
    BY Zenon, <1>2, <1>3, <1>5, DueWaited
  <2>2. (\E S : played' \in Seq(S)) /\ WaitsItsDelay'
    BY Zenon, <1>5, <2>1, PlayedLonger
  <2>3. BufferOK(jb')
    BY Zenon, <1>3, <1>5, TakenOK
  <2> QED BY Zenon, <1>2, <2>2, <2>3 DEF AudioInv
<1> QED BY Zenon, <1>1, <1>4, <1>5

\* The calls of a host play nothing.
LEMMA HostKeeps ==
    ASSUME AudioInv, UNCHANGED played,
           \/ \E i \in DOMAIN Stream : Push(i)
           \/ Pop \/ Flush \/ Reset \/ update_config \/ Advance
    PROVE  AudioInv'
<1>1. now \in Nat /\ BufferOK(jb) /\ jb.config \in Configs
  BY Zenon DEF AudioInv, BufferOK
<1>2. now' \in Nat
  BY <1>1 DEF Push, Pop, Flush, Reset, update_config, Advance
<1>3. BufferOK(jb')
  <2>1. ASSUME NEW i \in DOMAIN Stream, Push(i) PROVE BufferOK(jb')
    BY Zenon, <1>1, <2>1, PushOK DEF Push
  <2>2. CASE Pop
    <3>1. BufferOK(Retarget(jb))
      BY Zenon, <1>1, RetargetOK
    <3>2. jb' = Retarget(jb) \/ \E ts : jb' = Taken(Retarget(jb), ts)
      BY <2>2, Zenon DEF Pop
    <3> QED BY Zenon, <3>1, <3>2, TakenOK
  <2>3. CASE Flush
    BY Zenon, <1>1, <2>3, FlushedOK DEF Flush
  <2>4. CASE Reset
    BY Zenon, <1>1, <2>4, NewOK DEF Reset
  <2>5. CASE update_config
    BY Zenon, <1>1, <2>5, ReconfiguredOK DEF update_config
  <2>6. CASE Advance
    BY Zenon, <1>1, <2>6 DEF Advance
  <2> QED BY Zenon, <2>1, <2>2, <2>3, <2>4, <2>5, <2>6
<1> QED BY Zenon, <1>2, <1>3 DEF AudioInv, WaitsItsDelay

(* Every frame the engine plays has waited for its target delay, however     *)
(* packets are repeated, reordered and delayed, and however the delay moves  *)
(* (handle_rtp(), push(), pop()).                                            *)
THEOREM FramesWaitTheirDelay == EngineSpec => []WaitsItsDelay
<1>1. AudioInv /\ [EngineNext]_engineVars => AudioInv'
  <2> SUFFICES ASSUME AudioInv, [EngineNext]_engineVars PROVE AudioInv'
    BY Zenon
  <2>1. ASSUME NEW i \in DOMAIN Stream, handle_rtp(i) PROVE AudioInv'
    BY Zenon, <2>1, HandleKeeps
  <2>2. CASE UNCHANGED engineVars
    BY Zenon, <2>2 DEF engineVars, vars, AudioInv, WaitsItsDelay
  <2> QED BY Zenon, <2>1, <2>2, HostKeeps DEF EngineNext, Poll, Pass
<1>2. AudioInv => WaitsItsDelay
  BY Zenon DEF AudioInv
<1> QED BY <1>1, <1>2, AudioInitial, PTL DEF EngineSpec

----------------------------------------------------------------------------
(* The source and its thread                                               *)

AppFields == {"doing", "alive", "terminated", "idle", "calls"}

\* thread_exited_ is never set while the loop runs, an idle that was reported
\* rests on it, and a source that is gone was joined first.
SourceInv ==
    /\ DOMAIN cam = {"concrete", "running", "stop_flag", "thread_exited", "thread", "next_seq",
                     "holds", "registered", "user_cb", "produced", "dropped", "ticks", "delivered"}
    /\ DOMAIN capp = AppFields
    /\ cam.thread_exited => cam.thread \in {"none", "gone"}
    /\ capp.idle => cam.thread_exited
    /\ ~cam.concrete => cam.thread = "none"

\* What a step leaves alone for the invariant to hold on.
SameThread(c, d) ==
    /\ DOMAIN d = DOMAIN c
    /\ d.thread = c.thread /\ d.thread_exited = c.thread_exited /\ d.concrete = c.concrete

\* A frame is rendered or delivered without touching the thread.
LEMMA FrameKeepsThread ==
    ASSUME SourceInv
    PROVE  /\ SameThread(cam, Rendered(cam))
           /\ SameThread(cam, Delivered(cam))
           /\ SameThread(cam, Stopped(cam))
           /\ SameThread(cam, Stopped(Delivered(cam)))
           /\ SameThread(cam, Delivered(Rendered(cam)))
BY Zenon DEF SourceInv, SameThread, Rendered, Delivered, Stopped

LEMMA StartKeeps == ASSUME SourceInv, start PROVE SourceInv'
<1>1. CASE cam.running
    BY Zenon, <1>1 DEF start, SourceInv, AppFields
<1>2. CASE ~cam.running
    <2>1. cam' = [cam EXCEPT !.registered = TRUE, !.running = TRUE, !.stop_flag = FALSE,
                             !.thread_exited = FALSE, !.thread = IF Joinable THEN @ ELSE "wait"]
          /\ capp' = [capp EXCEPT !.calls = @ + 1, !.idle = FALSE, !.alive = ~Joinable,
                                  !.terminated = Joinable]
          /\ cam.concrete
        BY Zenon, <1>2 DEF start
    <2> QED BY Zenon, <2>1 DEF SourceInv, AppFields
<1> QED BY Zenon, <1>1, <1>2

\* A call that leaves the thread and what was reported alone.
LEMMA CallKeeps ==
    ASSUME SourceInv, SameThread(cam, cam'), DOMAIN capp' = AppFields, capp'.idle = capp.idle
    PROVE  SourceInv'
BY Zenon DEF SourceInv, SameThread

LEMMA SourceStepKeeps ==
    ASSUME SourceInv,
           start \/ stop \/ produce_one \/ wait_until_idle \/ close \/ Joined \/ open
                 \/ \E on \in BOOLEAN : set_callback(on)
    PROVE  SourceInv'
<1>1. CASE start
    BY Zenon, <1>1, StartKeeps
<1>2. CASE stop
    <2>1. cam' = Stopped(cam) /\ capp' = [capp EXCEPT !.calls = @ + 1]
        BY Zenon, <1>2 DEF stop
    <2>2. DOMAIN capp' = AppFields /\ capp'.idle = capp.idle
        BY Zenon, <2>1 DEF SourceInv, AppFields
    <2> QED BY Zenon, <2>1, <2>2, FrameKeepsThread, CallKeeps
<1>3. CASE produce_one
    <2>1. cam' \in {Delivered(Rendered(cam)), Rendered(cam)}
          /\ capp' = [capp EXCEPT !.calls = @ + 1]
        BY Zenon, <1>3 DEF produce_one
    <2>2. DOMAIN capp' = AppFields /\ capp'.idle = capp.idle
        BY Zenon, <2>1 DEF SourceInv, AppFields
    <2> QED BY Zenon, <2>1, <2>2, FrameKeepsThread, CallKeeps
<1>4. CASE wait_until_idle
    <2>1. cam' = cam /\ capp' = [capp EXCEPT !.calls = @ + 1, !.idle = cam.thread_exited]
        BY Zenon, <1>4 DEF wait_until_idle
    <2>2. DOMAIN capp' = AppFields /\ capp'.idle = cam.thread_exited
        BY <2>1 DEF SourceInv, AppFields
    <2> QED BY Zenon, <2>1, <2>2 DEF SourceInv
<1>5. CASE close
    <2>1. cam' = Stopped(cam) /\ capp' = [capp EXCEPT !.doing = "joining"]
        BY <1>5 DEF close
    <2>2. DOMAIN capp' = AppFields /\ capp'.idle = capp.idle
        BY <2>1 DEF SourceInv, AppFields
    <2> QED BY SMTT(20), <2>1, <2>2, FrameKeepsThread, CallKeeps
<1>6. CASE Joined
    <2>1. cam' = [cam EXCEPT !.concrete = FALSE, !.user_cb = FALSE, !.registered = FALSE,
                             !.thread = "none"]
          /\ capp' = [capp EXCEPT !.doing = "nothing"]
        BY <1>6 DEF Joined
    <2>2. DOMAIN capp' = AppFields /\ capp'.idle = capp.idle
        BY <2>1 DEF SourceInv, AppFields
    <2> QED BY <2>1, <2>2 DEF SourceInv
<1>7. CASE open
    <2>1. cam' = [NewSource EXCEPT !.next_seq = 0, !.user_cb = cam.user_cb]
          /\ capp' = [capp EXCEPT !.calls = @ + 1]
        BY <1>7 DEF open
    <2>2. DOMAIN capp' = AppFields
        BY <2>1 DEF SourceInv, AppFields
    <2> QED BY <2>1, <2>2 DEF SourceInv, NewSource
<1>8. CASE \E on \in BOOLEAN : set_callback(on)
    <2>1. PICK on \in BOOLEAN : cam' = [cam EXCEPT !.user_cb = on]
                                /\ capp' = [capp EXCEPT !.calls = @ + 1]
        BY <1>8 DEF set_callback
    <2> QED BY <2>1 DEF SourceInv, AppFields
<1> QED BY Zenon, <1>1, <1>2, <1>3, <1>4, <1>5, <1>6, <1>7, <1>8

LEMMA LoopKeeps == ASSUME SourceInv, cadence_loop PROVE SourceInv'
<1>0. capp' = capp
    BY Zenon DEF cadence_loop, Wake, Produce, Call, Relock
<1>1. CASE Wake
    <2>1. cam.thread = "wait" /\ cam' = IF cam.stop_flag
                  THEN [cam EXCEPT !.thread_exited = TRUE, !.thread = "gone"]
                  ELSE [cam EXCEPT !.ticks = @ + 1, !.thread = "render"]
        BY <1>1 DEF Wake
    <2> QED BY <1>0, <2>1 DEF SourceInv
<1>2. CASE Produce
    <2>1. cam.thread = "render"
          /\ cam' = [Rendered(cam) EXCEPT !.thread = IF Renders THEN "call" ELSE "relock"]
        BY <1>2 DEF Produce
    <2> QED BY SMTT(20), <1>0, <2>1, FrameKeepsThread DEF SourceInv, SameThread
<1>3. CASE Call
    <2>1. cam.thread = "call"
        BY <1>3 DEF Call
    <2>2. PICK c \in {Delivered(cam), Stopped(Delivered(cam))} : cam' = [c EXCEPT !.thread = "relock"]
        BY <1>3 DEF Call
    <2> QED BY SMTT(20), <1>0, <2>1, <2>2, FrameKeepsThread DEF SourceInv, SameThread
<1>4. CASE Relock
    <2>1. cam.thread = "relock"
        BY SMTT(20), <1>4 DEF Relock
    <2>2. PICK behind \in BOOLEAN :
              cam' = [cam EXCEPT !.dropped = IF behind THEN @ + 1 ELSE @, !.thread = "wait"]
        BY Zenon, <1>4 DEF Relock
    <2> QED BY SMTT(20), <1>0, <2>1, <2>2 DEF SourceInv
<1> QED BY SMTT(20), <1>1, <1>2, <1>3, <1>4 DEF cadence_loop

----------------------------------------------------------------------------
(* The statistics                                                          *)

StatFields ==
    {"received", "decoded", "rendered", "dropped", "first_ts", "last_ts", "last_rendered",
     "rendered_at_tick", "freezes", "freeze_total", "window", "keyframes", "last_key"}

\* The frozen time counted so far lies between the first and the last frame,
\* whichever of renderer and timer counted it.
Sound(s, since, at) ==
    /\ DOMAIN s = StatFields
    /\ since \in Int /\ s.last_rendered \in Int /\ s.freeze_total \in Nat /\ s.freezes \in Nat
    /\ s.last_rendered = -1 => since = -1 /\ s.freeze_total = 0
    /\ s.last_rendered # -1 =>
          /\ 0 <= since /\ since <= s.last_rendered /\ s.last_rendered <= at
          /\ s.freeze_total <= s.last_rendered - since

SinceOf(s, since) ==
    IF s.last_rendered = -1 THEN -1 ELSE IF since = -1 THEN s.last_rendered ELSE since

StatsInv ==
    /\ vcSetup \in VcSetups
    /\ DOMAIN vst = {"s", "now", "since", "calls"}
    /\ vst.now \in Nat
    /\ vcSetup.lag = 0 => Sound(vst.s, vst.since, vst.now)

\* A report of frames received, decoded or dropped.
LEMMA OtherReports ==
    ASSUME NEW s, NEW since, NEW at \in Nat, Sound(s, since, at), NEW t, DOMAIN t = StatFields,
           t.last_rendered = s.last_rendered, t.freeze_total = s.freeze_total, t.freezes = s.freezes
    PROVE  Sound(t, SinceOf(t, since), at)
BY DEF Sound, SinceOf

LEMMA FreezeCounted ==
    ASSUME NEW s, DOMAIN s = StatFields, s.freeze_total \in Nat, s.freezes \in Nat,
           vcSetup \in VcSetups, NEW length \in Nat, NEW t, t = Frozen(s, length)
    PROVE  /\ DOMAIN t = StatFields /\ t.last_rendered = s.last_rendered
           /\ \/ t = s
              \/ t.freeze_total = s.freeze_total + length /\ t.freezes = s.freezes + 1
<1>1. CASE length >= vcSetup.freeze_threshold
    <2>1. t = [s EXCEPT !.freezes = @ + 1, !.freeze_total = @ + length]
        BY <1>1 DEF Frozen
    <2>2. DOMAIN t = StatFields /\ t.last_rendered = s.last_rendered
          /\ t.freeze_total = s.freeze_total + length /\ t.freezes = s.freezes + 1
        BY <2>1 DEF StatFields
    <2> QED BY <2>2
<1>2. CASE ~(length >= vcSetup.freeze_threshold)
    BY <1>2 DEF Frozen
<1> QED BY <1>1, <1>2

\* The renderer counts the gap since the frame before, or since the timer counted.
LEMMA RenderCounted ==
    ASSUME NEW s, NEW since, NEW at \in Nat, Sound(s, since, at), vcSetup \in VcSetups,
           NEW t, t = on_frame_rendered(s, at)
    PROVE  Sound(t, SinceOf(t, since), at)
<1> DEFINE c == [s EXCEPT !.rendered = @ + 1]
<1>1. DOMAIN c = StatFields /\ c.last_rendered = s.last_rendered /\ c.freeze_total = s.freeze_total
      /\ c.freezes = s.freezes
    BY DEF Sound, StatFields
<1>2. CASE s.last_rendered = -1
    <2>1. t = [c EXCEPT !.last_rendered = at]
        BY <1>2 DEF on_frame_rendered
    <2> HIDE DEF c
    <2>2. DOMAIN t = StatFields /\ t.last_rendered = at /\ t.freeze_total = s.freeze_total
          /\ t.freezes = s.freezes
        BY SMTT(20), <1>1, <2>1 DEF StatFields
    <2> QED BY SMTT(20), <1>2, <2>2 DEF Sound, SinceOf
<1>3. CASE s.last_rendered # -1
    <2> DEFINE gap == at - s.last_rendered
               f == Frozen(c, gap)
    <2>1. t = [f EXCEPT !.last_rendered = at]
        BY <1>3 DEF on_frame_rendered
    <2>2. gap \in Nat
        BY <1>3 DEF Sound
    <2>3. c.freeze_total \in Nat /\ c.freezes \in Nat
        BY <1>1 DEF Sound
    <2> HIDE DEF c, f, gap
    <2>4. DOMAIN f = StatFields
          /\ (f = c \/ (f.freeze_total = c.freeze_total + gap /\ f.freezes = c.freezes + 1))
        BY SMTT(20), <1>1, <2>2, <2>3, FreezeCounted DEF f
    <2>5. DOMAIN t = StatFields /\ t.last_rendered = at /\ t.freeze_total = f.freeze_total
          /\ t.freezes = f.freezes
        BY SMTT(20), <2>1, <2>4 DEF StatFields
    <2> QED BY SMTT(20), <1>1, <1>3, <2>2, <2>3, <2>4, <2>5 DEF Sound, SinceOf, gap
<1> QED BY <1>2, <1>3

\* The timer counts the gap up to now, and the next gap starts from now.
LEMMA TickCounted ==
    ASSUME NEW s, NEW since, NEW at \in Nat, Sound(s, since, at), vcSetup \in VcSetups,
           NEW t, t = StatsTick(s, at)
    PROVE  Sound(t, SinceOf(t, since), at)
<1> DEFINE idle == s.rendered = s.rendered_at_tick /\ s.last_rendered >= 0 /\ at > s.last_rendered
           c == IF idle THEN IdleFreeze(s, at) ELSE s
<1>1. t = [c EXCEPT !.rendered_at_tick = s.rendered,
                    !.window = Pruned(@, at - vcSetup.bitrate_window)]
    BY DEF StatsTick
<1>2. Sound(c, since, at) /\ (c.last_rendered = -1 <=> s.last_rendered = -1)
    <2>1. CASE ~idle
        BY <2>1
    <2>2. CASE idle
        <3> DEFINE gap == at - s.last_rendered
                   f == Frozen(s, gap)
        <3>1. c = IF f = s THEN s ELSE [f EXCEPT !.last_rendered = at]
            BY <2>2 DEF IdleFreeze
        <3>2. gap \in Nat /\ gap > 0
            BY <2>2 DEF Sound
        <3> HIDE DEF gap, f
        <3>3. DOMAIN f = StatFields
              /\ (f = s \/ (f.freeze_total = s.freeze_total + gap /\ f.freezes = s.freezes + 1))
            BY SMTT(20), <3>2, FreezeCounted DEF Sound, f
        <3>4. CASE f = s
            BY SMTT(20), <3>1, <3>4
        <3>5. CASE f # s
            <4>1. c = [f EXCEPT !.last_rendered = at]
                BY <3>1, <3>5
            <4> HIDE DEF c
            <4>2. DOMAIN c = StatFields /\ c.last_rendered = at /\ c.freeze_total = f.freeze_total
                  /\ c.freezes = f.freezes
                BY SMTT(20), <3>3, <4>1 DEF StatFields
            <4> QED BY SMTT(20), <2>2, <3>2, <3>3, <3>5, <4>2 DEF Sound, gap
        <3> QED BY <3>4, <3>5
    <2> QED BY SMTT(20), <2>1, <2>2
<1> HIDE DEF c
<1>3. DOMAIN t = StatFields /\ t.last_rendered = c.last_rendered /\ t.freeze_total = c.freeze_total
      /\ t.freezes = c.freezes
    BY <1>1, <1>2 DEF Sound, StatFields
<1> QED BY SMTT(20), <1>2, <1>3, OtherReports

LEMMA ReportKeeps ==
    ASSUME StatsInv, NEW s, Report(s), UNCHANGED vcSetup,
           vcSetup.lag = 0 => Sound(s, SinceOf(s, vst.since), vst.now)
    PROVE  StatsInv'
BY DEF StatsInv, Report, SinceOf

LEMMA StatsKeeps == ASSUME StatsInv, StatsStep PROVE StatsInv'
<1> DEFINE s == vst.s
           ts == vst.now - vcSetup.lag
<1>0. UNCHANGED vcSetup /\ vst.now \in Nat /\ vcSetup \in VcSetups
    BY DEF StatsStep, StatsInv
<1>1. CASE vst' = [vst EXCEPT !.now = @ + 1]
    BY SMTT(20), <1>0, <1>1 DEF StatsInv, Sound
<1>2. CASE StatsEvent
    <2>1. ASSUME NEW t, Report(t), DOMAIN s = StatFields => DOMAIN t = StatFields
                 /\ t.last_rendered = s.last_rendered /\ t.freeze_total = s.freeze_total
                 /\ t.freezes = s.freezes
          PROVE  StatsInv'
        <3>1. vcSetup.lag = 0 => Sound(t, SinceOf(t, vst.since), vst.now)
            BY SMTT(20), <1>0, <2>1, OtherReports DEF StatsInv, Sound
        <3> QED BY SMTT(20), <1>0, <2>1, <3>1, ReportKeeps
    <2>2. ASSUME NEW key \in BOOLEAN, Report(on_frame_received(s, ts, key)) PROVE StatsInv'
        BY Zenon, <2>1, <2>2 DEF on_frame_received, StatFields
    <2>3. ASSUME Report([s EXCEPT !.decoded = @ + 1]) PROVE StatsInv'
        BY SMTT(20), <2>1, <2>3 DEF StatFields
    <2>4. ASSUME NEW r, Report(on_frame_dropped(s, r)) PROVE StatsInv'
        BY SMTT(20), <2>1, <2>4 DEF on_frame_dropped, StatFields
    <2>5. ASSUME Report(StatsTick(s, vst.now)) PROVE StatsInv'
        BY SMTT(20), <1>0, <2>5, TickCounted, ReportKeeps DEF StatsInv
    <2>6. ASSUME Report(NewStats) PROVE StatsInv'
        <3>1. Sound(NewStats, SinceOf(NewStats, vst.since), vst.now)
            BY <1>0 DEF NewStats, Sound, SinceOf, StatFields
        <3> QED BY SMTT(20), <1>0, <2>6, <3>1, ReportKeeps
    <2>7. ASSUME Report(on_frame_rendered(s, ts)) PROVE StatsInv'
        <3>1. vcSetup.lag = 0 => ts = vst.now
            BY <1>0
        <3>2. vcSetup.lag = 0 => Sound(on_frame_rendered(s, ts),
                                       SinceOf(on_frame_rendered(s, ts), vst.since), vst.now)
            BY SMTT(20), <1>0, <3>1, RenderCounted DEF StatsInv
        <3> QED BY SMTT(20), <1>0, <2>7, <3>2, ReportKeeps
    <2>8. ASSUME Report(s) PROVE StatsInv'
        BY SMTT(20), <2>1, <2>8
    <2> QED BY SMTT(20), <1>2, <2>2, <2>3, <2>4, <2>5, <2>6, <2>7, <2>8 DEF StatsEvent
<1> QED BY <1>1, <1>2 DEF StatsStep

----------------------------------------------------------------------------
(* The theorems                                                            *)

CaptureInv == SourceInv /\ StatsInv

LEMMA CaptureInit == VcInit => CaptureInv
<1> SUFFICES ASSUME VcInit PROVE CaptureInv
    OBVIOUS
<1>1. SourceInv
    BY DEF VcInit, NewSource, SourceInv, AppFields
<1>2. vcSetup \in VcSetups /\ vcSetup.lag \in Nat
    BY VcAssumption DEF VcAssumption, VcInit
<1>3. vst = [s |-> NewStats, now |-> vcSetup.lag, since |-> -1, calls |-> 0]
    BY DEF VcInit
<1>4. Sound(NewStats, -1, vcSetup.lag)
    BY DEF NewStats, Sound, StatFields
<1> QED BY SMTT(20), <1>1, <1>2, <1>3, <1>4 DEF CaptureInv, StatsInv

LEMMA CaptureStep == CaptureInv /\ [VcNext]_vcVars => CaptureInv'
<1> SUFFICES ASSUME CaptureInv, [VcNext]_vcVars PROVE CaptureInv'
    OBVIOUS
<1> USE DEF CaptureInv
<1>1. ASSUME start \/ stop \/ produce_one \/ wait_until_idle \/ close \/ Joined \/ open
             \/ \E on \in BOOLEAN : set_callback(on)
      PROVE  CaptureInv'
    <2>1. UNCHANGED <<vcSetup, vst>>
        BY <1>1 DEF start, stop, produce_one, wait_until_idle, close, Joined, open, set_callback,
                    UntouchedBySource
    <2>2. StatsInv'
        BY <2>1 DEF StatsInv
    <2> QED BY SMTT(20), <1>1, <2>2, SourceStepKeeps
<1>2. CASE cadence_loop
    <2>1. UNCHANGED <<vcSetup, vst>>
        BY Zenon, <1>2 DEF cadence_loop, Wake, Produce, Call, Relock, UntouchedBySource
    <2>2. StatsInv'
        BY <2>1 DEF StatsInv
    <2> QED BY SMTT(20), <1>2, <2>2, LoopKeeps
<1>3. CASE BufferStep
    BY <1>3 DEF BufferStep, SourceInv, StatsInv
<1>4. CASE StatsStep
    <2>1. UNCHANGED <<cam, capp>>
        BY <1>4 DEF StatsStep
    <2>2. SourceInv'
        BY <2>1 DEF SourceInv
    <2> QED BY SMTT(20), <1>4, <2>2, StatsKeeps
<1>5. CASE UNCHANGED vcVars
    BY <1>5 DEF vcVars, SourceInv, StatsInv
<1> QED BY SMTT(20), <1>1, <1>2, <1>3, <1>4, <1>5 DEF VcNext

LEMMA CaptureGives == CaptureInv => QuietWhenIdle /\ FrozenTimeBounded
<1> SUFFICES ASSUME CaptureInv PROVE QuietWhenIdle /\ FrozenTimeBounded
    OBVIOUS
<1>1. QuietWhenIdle
    BY DEF CaptureInv, SourceInv, QuietWhenIdle
<1>2. FrozenTimeBounded
    BY DEF CaptureInv, StatsInv, Sound, FrozenTimeBounded
<1> QED BY <1>1, <1>2

\* For every configuration of the source and any number of calls: after an idle
\* that was reported, or a close, the cadence thread makes no frame and no
\* callback (wait_until_idle, the destructor, cadence_loop).
THEOREM ThreadQuietWhenIdle == VcSpec => []QuietWhenIdle
BY CaptureInit, CaptureStep, CaptureGives, PTL DEF VcSpec

\* For every threshold and any sequence of frames, timers and resets: no idle
\* time is counted as frozen twice (on_frame_rendered, tick).
THEOREM FrozenOnce == VcSpec => []FrozenTimeBounded
BY CaptureInit, CaptureStep, CaptureGives, PTL DEF VcSpec
=============================================================================
