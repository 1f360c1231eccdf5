-------------------------- MODULE VideoJitterBuffer --------------------------
(***************************************************************************)
(* The video jitter buffer (src/modules/video_jb): packets of one stream   *)
(* are grouped into one bucket per RTP timestamp, FU-A fragments are put   *)
(* together, complete frames are handed out and incomplete ones are forced *)
(* out by a timer.                                                         *)
(*                                                                         *)
(* The buffer has no lock and no thread of its own: the interleaving that  *)
(* matters is that of packet arrivals (late, lost, repeated, out of        *)
(* order) and of its caller's calls.  The packets sent are given by the    *)
(* setup; the network may hand over each of them any number of times, in   *)
(* any order, or never, MaxArrivals packets in all.  The caller is either  *)
(* the engine, whose handle_rtp does insert, pops, tick and pops for every *)
(* packet and nothing in between (there is no timer on the receiver), or a *)
(* host of its own that calls in any order.                                *)
(*                                                                         *)
(* A payload is the index of its packet, a bitstream the sequence of the   *)
(* payloads appended to it; a packet without payload and without marker is *)
(* refused and not modelled.  Sequence numbers and timestamps keep their   *)
(* wrap, with SeqSpace and TsSpace in the place of 2^16 and 2^32.  One     *)
(* unit of time stands for a millisecond and for a tick of the media       *)
(* clock.  The jitter estimator is abstracted to its result: a target      *)
(* delay in Delays, chosen anew with every frame observed.                 *)
(***************************************************************************)
EXTENDS Integers, Sequences, FiniteSets, SequencesExt

CONSTANTS
    Setups,        \* the streams and configurations a behaviour may start with
    SeqSpace,      \* number of RTP sequence numbers (2^16)
    TsSpace,       \* number of RTP timestamps (2^32)
    MaxInflight,   \* Config::max_inflight_frames
    MaxWait        \* Config::max_wait_ms

PacketType == [seq : 0 .. SeqSpace - 1, ts : 0 .. TsSpace - 1, marker : BOOLEAN,
               kind : {"nal", "start", "mid", "end", "empty"}]

ASSUME VideoJbAssumption ==
    /\ SeqSpace \in Nat \ {0, 1} /\ SeqSpace % 2 = 0
    /\ TsSpace \in Nat \ {0, 1} /\ TsSpace % 2 = 0
    /\ MaxInflight \in Nat \ {0} /\ MaxWait \in Nat
    /\ \A u \in Setups :
          /\ \A i \in DOMAIN u.stream :
                /\ u.stream[i] \in PacketType
                /\ u.stream[i].kind = "empty" => u.stream[i].marker
          /\ u.adaptive \in BOOLEAN /\ u.engine \in BOOLEAN
          /\ u.max_delay \in Nat
          /\ u.delays # {} /\ u.delays \subseteq 0 .. u.max_delay
          /\ u.max_arrivals \in Nat /\ u.last_arrival \in Nat
          /\ u.max_time \in Nat /\ u.max_resets \in Nat

VARIABLES
    setup,               \* stream and configuration, fixed
    now,                 \* the clock the caller passes in
    arrivals,            \* packets arrived so far
    resets,              \* calls of reset() so far
    caller,              \* where the engine is in handle_rtp
    buckets_,            \* RTP timestamp -> FrameBucket
    pending_incomplete_, \* frames forced out by tick(), not handed out yet
    frame_seq_counter_,
    target,              \* tracker_.target_delay()
    last_rtp_ts_,        \* the last timestamp observed, or None
    prev_media_us_,      \* its unwrapped media clock
    frame_interval_us_,  \* smoothed distance of frames, 0 when unknown
    delivered,           \* history: what pop_frame() has returned, in order
    created,             \* history: buckets ever created
    evicted,             \* history: buckets the in-flight cap erased
    reaped               \* history: timestamps whose bucket was erased

jbVars == <<buckets_, pending_incomplete_, frame_seq_counter_, target,
            last_rtp_ts_, prev_media_us_, frame_interval_us_>>
histVars == <<delivered, created, evicted, reaped>>
vars == <<setup, now, arrivals, resets, caller, jbVars, histVars>>

None == -1

Stream == setup.stream            \* the packets sent: [seq, ts, marker, kind] by index
Engine == setup.engine            \* the caller is the engine
Adaptive == setup.adaptive        \* Config::adaptive
Delays == setup.delays            \* values AdaptiveDelayTracker::target_delay may take
MaxDelay == setup.max_delay       \* Config::max_delay
MaxArrivals == setup.max_arrivals \* bound: packets that arrive, copies included
LastArrival == setup.last_arrival \* bound: no packet arrives after this time
MaxTime == setup.max_time         \* bound: the clock stops here
MaxResets == setup.max_resets     \* bound: calls of reset()

Timestamps == {Stream[i].ts : i \in DOMAIN Stream}

----------------------------------------------------------------------------
(* Wrap-aware distances                                                    *)

SignedDistance(newer, older, space) ==
    LET d == (newer - older) % space IN IF d >= space \div 2 THEN d - space ELSE d

\* Signed distance of two sequence numbers.
seq_delta(newer, older) == SignedDistance(newer, older, SeqSpace)

\* Signed distance of two timestamps.
ts_delta(newer, older) == SignedDistance(newer, older, TsSpace)

----------------------------------------------------------------------------
(* Buckets                                                                 *)

\* A bucket is complete once the marker bit was seen and no FU-A fragment
\* is waiting for its end.
Complete(b) == b.marker_seen /\ ~b.fu_a_in_progress

\* The timestamps of the frames not handed out yet.
PendingOf(bs) == {ts \in DOMAIN bs : ~bs[ts].emitted}

\* The bucket find_or_create_bucket makes for the first packet of a frame.
NewBucket(p) ==
    [first_seq |-> p.seq, received |-> {}, first_arrival |-> now,
     bitstream |-> <<>>, marker_seen |-> p.marker, emitted |-> FALSE,
     fu_a_in_progress |-> FALSE, fu_a_buf |-> <<>>]

\* Append one FU-A fragment; a fragment without a start is dropped, the end
\* fragment moves the accumulated NAL unit to the bitstream.
append_fu_a_fragment(b, i) ==
    LET kind == Stream[i].kind
        buf  == IF kind = "start" THEN <<i>> ELSE Append(b.fu_a_buf, i)
    IN  CASE kind = "start" ->
               [b EXCEPT !.fu_a_in_progress = TRUE, !.fu_a_buf = buf]
          [] kind # "start" /\ ~b.fu_a_in_progress -> b
          [] kind = "mid" /\ b.fu_a_in_progress -> [b EXCEPT !.fu_a_buf = buf]
          [] kind = "end" /\ b.fu_a_in_progress ->
               [b EXCEPT !.fu_a_in_progress = FALSE, !.fu_a_buf = buf,
                         !.bitstream = @ \o buf]

\* What insert() does to the packet's bucket.
Fill(b, i) ==
    LET p == Stream[i]
        c == [b EXCEPT !.received = @ \union {p.seq},
                       !.marker_seen = @ \/ p.marker]
    IN  CASE p.kind = "empty" -> c
          [] p.kind = "nal" -> [c EXCEPT !.bitstream = Append(@, i)]
          [] OTHER -> append_fu_a_fragment(c, i)

\* The frame handed to the consumer; `forced' is a history field, TRUE when
\* tick() gave up on the frame.
make_assembled(ts, b, n, forced) ==
    [ts |-> ts, frame_seq |-> n, bitstream |-> b.bitstream,
     complete |-> b.marker_seen, forced |-> forced]

----------------------------------------------------------------------------
(* The in-flight cap                                                       *)

effective_inflight_cap ==
    IF ~Adaptive \/ frame_interval_us_ = 0 THEN MaxInflight
    ELSE LET needed == MaxDelay \div frame_interval_us_ + 2
         IN  IF needed > MaxInflight THEN needed ELSE MaxInflight

\* Victims in the order the loop takes them: frames that never completed
\* first, then complete ones, each by ascending timestamp (the map's order).
EvictionOrder(bs) ==
    LET part(S) == SetToSortSeq(S, LAMBDA a, b : a < b)
        P == PendingOf(bs)
    IN  part({ts \in P : ~Complete(bs[ts])}) \o part({ts \in P : Complete(bs[ts])})

\* How many frames must go so that `incoming' more still fit under the cap.
Excess(bs, incoming) ==
    LET n == Cardinality(PendingOf(bs))
        over == n + incoming - effective_inflight_cap
    IN  IF over <= 0 THEN 0 ELSE IF over > n THEN n ELSE over

\* The timestamps enforce_inflight_cap(incoming) erases.
Victims(bs, incoming) ==
    {EvictionOrder(bs)[k] : k \in 1 .. Excess(bs, incoming)}

Without(bs, S) == Restrict(bs, DOMAIN bs \ S)

----------------------------------------------------------------------------
(* The media clock                                                         *)

\* The timestamp unwrapped against the last one observed.
MediaClock(ts) ==
    IF last_rtp_ts_ = None THEN ts
    ELSE last_rtp_ts_ + ts_delta(ts, last_rtp_ts_)

\* Feed one frame to the estimator and to the frame-interval estimate.
observe_frame(ts) ==
    LET media == MediaClock(ts)
        d == media - prev_media_us_
    IN  /\ last_rtp_ts_' = ts
        /\ prev_media_us_' = media
        /\ frame_interval_us_' =
              IF last_rtp_ts_ = None \/ d <= 0 THEN frame_interval_us_
              ELSE IF frame_interval_us_ > 0 THEN (frame_interval_us_ * 3 + d) \div 4
              ELSE d
        /\ target' \in Delays

----------------------------------------------------------------------------
Init ==
    /\ setup \in Setups
    /\ now = 0
    /\ arrivals = 0
    /\ resets = 0
    /\ caller = "idle"
    /\ buckets_ = [ts \in {} |-> 0]
    /\ pending_incomplete_ = <<>>
    /\ frame_seq_counter_ = 0
    /\ target \in Delays
    /\ last_rtp_ts_ = None
    /\ prev_media_us_ = 0
    /\ frame_interval_us_ = 0
    /\ delivered = <<>>
    /\ created = 0
    /\ evicted = 0
    /\ reaped = {}

\* A packet of a frame that has a bucket, emitted or not.
InsertKnown(i) ==
    LET ts == Stream[i].ts
    IN  /\ ts \in DOMAIN buckets_
        /\ buckets_' = [buckets_ EXCEPT ![ts] = Fill(@, i)]
        /\ UNCHANGED <<pending_incomplete_, frame_seq_counter_, target,
                       last_rtp_ts_, prev_media_us_, frame_interval_us_, histVars>>

\* The first packet of a frame, or the first since its bucket was erased:
\* make room, create the bucket, observe the frame.
InsertNew(i) ==
    LET p == Stream[i]
        out == Victims(buckets_, 1)
        room == Without(buckets_, out)
    IN  /\ p.ts \notin DOMAIN buckets_
        /\ buckets_' = [ts \in DOMAIN room \union {p.ts} |->
                           IF ts = p.ts THEN Fill(NewBucket(p), i) ELSE room[ts]]
        /\ observe_frame(p.ts)
        /\ created' = created + 1
        /\ evicted' = evicted + Cardinality(out)
        /\ reaped' = reaped \union out
        /\ UNCHANGED <<pending_incomplete_, frame_seq_counter_, delivered>>

\* A packet arrives; the engine goes on to drain_frames.
insert(i) ==
    /\ caller = "idle"
    /\ caller' = IF Engine THEN "drain" ELSE "idle"
    /\ now <= LastArrival
    /\ arrivals < MaxArrivals
    /\ arrivals' = arrivals + 1
    /\ InsertKnown(i) \/ InsertNew(i)
    /\ UNCHANGED <<setup, now, resets>>

\* Complete frames not handed out yet.
Ready == {ts \in PendingOf(buckets_) : Complete(buckets_[ts])}

\* ... and, in adaptive mode, with their playout deadline passed.
Due == {ts \in Ready : buckets_[ts].first_arrival + target <= now}

HandOut_Erases(ts) ==
    /\ buckets_' = Without(buckets_, {ts})
    /\ delivered' = Append(delivered,
                       make_assembled(ts, buckets_[ts], frame_seq_counter_ + 1, FALSE))
    /\ frame_seq_counter_' = frame_seq_counter_ + 1
    /\ UNCHANGED pending_incomplete_

\* Mark the frame emitted and hand it out; its bucket stays.
HandOut(ts) ==
    /\ buckets_' = [buckets_ EXCEPT ![ts].emitted = TRUE, ![ts].bitstream = <<>>]
    /\ delivered' = Append(delivered,
                       make_assembled(ts, buckets_[ts], frame_seq_counter_ + 1, FALSE))
    /\ frame_seq_counter_' = frame_seq_counter_ + 1
    /\ UNCHANGED pending_incomplete_

\* Frames forced out by tick() drain first.
PopIncomplete ==
    /\ pending_incomplete_ # <<>>
    /\ delivered' = Append(delivered, Head(pending_incomplete_))
    /\ pending_incomplete_' = Tail(pending_incomplete_)
    /\ UNCHANGED <<buckets_, frame_seq_counter_>>

\* The lowest timestamp that is complete, whatever its deadline.
PopImmediate ==
    /\ pending_incomplete_ = <<>>
    /\ \E ts \in Ready : (\A u \in Ready : ts <= u) /\ HandOut(ts)

\* The due frame that arrived first, the lowest timestamp among equals.
PopGated ==
    /\ pending_incomplete_ = <<>>
    /\ \E ts \in Due :
          /\ \A u \in Due :
                \/ buckets_[ts].first_arrival < buckets_[u].first_arrival
                \/ /\ buckets_[ts].first_arrival = buckets_[u].first_arrival
                   /\ ts <= u
          /\ HandOut(ts)

UntouchedByPop == <<setup, now, arrivals, resets, caller, target, last_rtp_ts_, prev_media_us_,
                    frame_interval_us_, created, evicted, reaped>>

\* pop_frame(); a call that returns nullptr changes nothing.
pop_frame == ~Engine /\ (PopIncomplete \/ PopImmediate) /\ UNCHANGED UntouchedByPop

\* pop_frame(now_us): the gate only applies in adaptive mode.
pop_frame_at ==
    /\ Engine => caller \in {"drain", "drain again"}
    /\ \/ PopIncomplete
       \/ Adaptive /\ PopGated
       \/ ~Adaptive /\ PopImmediate
    /\ UNCHANGED UntouchedByPop

\* drain_frames pops until pop_frame(now_us) returns nullptr; then push_rtp
\* returns and tick() is called, or tick() returns and the packet is done.
drain_ends ==
    /\ caller \in {"drain", "drain again"}
    /\ pending_incomplete_ = <<>> /\ (IF Adaptive THEN Due ELSE Ready) = {}
    /\ caller' = IF caller = "drain" THEN "tick" ELSE "idle"
    /\ UNCHANGED <<setup, now, arrivals, resets, jbVars, histVars>>

Expired_MarkerHolds ==
    SetToSortSeq({ts \in PendingOf(buckets_) :
                     /\ ~buckets_[ts].marker_seen
                     /\ now - buckets_[ts].first_arrival >= MaxWait},
                 LAMBDA a, b : a < b)

\* Incomplete frames that have waited long enough, in the map's order.
Expired ==
    SetToSortSeq({ts \in PendingOf(buckets_) :
                     /\ ~Complete(buckets_[ts])
                     /\ now - buckets_[ts].first_arrival >= MaxWait},
                 LAMBDA a, b : a < b)

\* The bucket of a frame that tick() forces out.
Forced(b) == [b EXCEPT !.emitted = TRUE, !.bitstream = <<>>]

\* Reap the emitted buckets, force out the expired ones, apply the cap.
tick ==
    LET old == {ts \in DOMAIN buckets_ : buckets_[ts].emitted}
        forced == [ts \in DOMAIN buckets_ \ old |->
                      IF ts \in ToSet(Expired) THEN Forced(buckets_[ts])
                      ELSE buckets_[ts]]
        out == Victims(forced, 0)
    IN  /\ Engine => caller = "tick"
        /\ caller' = IF Engine THEN "drain again" ELSE caller
        /\ buckets_' = Without(forced, out)
        /\ pending_incomplete_' = pending_incomplete_ \o
              [k \in DOMAIN Expired |->
                 make_assembled(Expired[k], buckets_[Expired[k]],
                                frame_seq_counter_ + k, TRUE)]
        /\ frame_seq_counter_' = frame_seq_counter_ + Len(Expired)
        /\ evicted' = evicted + Cardinality(out)
        /\ reaped' = reaped \union old \union out
        /\ UNCHANGED <<setup, now, arrivals, resets, target, last_rtp_ts_, prev_media_us_,
                       frame_interval_us_, delivered, created>>

\* A new stream: everything is forgotten, the history with it.
reset ==
    /\ resets < MaxResets /\ caller = "idle"
    /\ resets' = resets + 1
    /\ buckets_' = [ts \in {} |-> 0]
    /\ pending_incomplete_' = <<>>
    /\ frame_seq_counter_' = 0
    /\ target' \in Delays
    /\ last_rtp_ts_' = None
    /\ prev_media_us_' = 0
    /\ frame_interval_us_' = 0
    /\ delivered' = <<>> /\ created' = 0 /\ evicted' = 0 /\ reaped' = {}
    /\ UNCHANGED <<setup, now, arrivals, caller>>

\* Time passes between two calls; the engine's calls for one packet all get
\* its time of arrival.
Advance ==
    /\ now < MaxTime /\ caller = "idle"
    /\ now' = now + 1
    /\ UNCHANGED <<setup, arrivals, resets, caller, jbVars, histVars>>

Next ==
    \/ \E i \in DOMAIN Stream : insert(i)
    \/ pop_frame
    \/ pop_frame_at
    \/ drain_ends
    \/ tick
    \/ reset
    \/ Advance

Spec == Init /\ [][Next]_vars

----------------------------------------------------------------------------
(* Properties                                                              *)

BucketType ==
    [first_seq : 0 .. SeqSpace - 1, received : SUBSET (0 .. SeqSpace - 1),
     first_arrival : 0 .. MaxTime, bitstream : Seq(DOMAIN Stream),
     marker_seen : BOOLEAN, emitted : BOOLEAN, fu_a_in_progress : BOOLEAN,
     fu_a_buf : Seq(DOMAIN Stream)]

\* Every variable has its type, and a bucket remembers at least one sequence
\* number (video_jitter_buffer.cpp:101-128, 605-621).
TypeOK ==
    /\ now \in 0 .. MaxTime
    /\ arrivals \in 0 .. MaxArrivals
    /\ DOMAIN buckets_ \subseteq Timestamps
    /\ \A ts \in DOMAIN buckets_ :
          buckets_[ts] \in BucketType /\ buckets_[ts].received # {}
    /\ target \in Delays
    /\ last_rtp_ts_ \in Timestamps \union {None}
    /\ frame_interval_us_ \in Nat

\* With a fixed window at most max_inflight_frames frames wait at any time:
\* room is made before a frame is added (video_jitter_buffer.cpp:451-453,
\* 552-586), whatever tick() and pop_frame() did in between.
InflightBound == ~Adaptive => Cardinality(PendingOf(buckets_)) <= MaxInflight

\* Frames are numbered in the order they are handed out, without a gap,
\* although the numbers are drawn when a frame is assembled: frames forced out
\* by tick() wait in a queue that pop_frame() empties first
\* (video_jitter_buffer.cpp:410-414, 588-592).
FrameSeqGapless ==
    /\ \A k \in DOMAIN delivered : delivered[k].frame_seq = k
    /\ \A k \in DOMAIN pending_incomplete_ :
          pending_incomplete_[k].frame_seq = Len(delivered) + k

\* Every bucket ever created ends in exactly one way: it waits, it is handed
\* out, it is forced out, or the cap evicts it
\* (video_jitter_buffer.cpp:305-340, 409-446, 552-586).
FrameConservation ==
    created = Cardinality(PendingOf(buckets_)) + Len(pending_incomplete_)
              + Len(delivered) + evicted

\* A timestamp is handed out a second time only after its bucket was erased:
\* until then a late or repeated packet lands in the emitted bucket
\* (video_jitter_buffer.cpp:403-408).
OnceUntilReaped ==
    \A k, l \in DOMAIN delivered :
        k # l /\ delivered[k].ts = delivered[l].ts => delivered[k].ts \in reaped

\* No frame is lost, counted twice or handed out twice: every bucket ends in
\* one way, and a timestamp comes a second time only after its bucket was
\* erased by tick() (insert, pop_frame, tick).
FramesOnce == FrameConservation /\ OnceUntilReaped

\* When the engine is done with a packet no frame is overdue, complete or not:
\* a frame still in the buffer lacks its marker or a fragment and has waited
\* less than max_wait_ms, or is complete and its playout deadline lies ahead.
\* No combination of marker, missing fragments and deadline holds one past the
\* first packet after its time.  While no packet comes nothing leaves
\* (video_jitter_buffer.cpp:313-328, 436; engine_timeline.cpp:245-246).
NoneOverdue ==
    [][caller = "drain again" /\ caller' = "idle" =>
        /\ pending_incomplete_ = <<>>
        /\ \A ts \in PendingOf(buckets_) :
              LET age == now - buckets_[ts].first_arrival
              IN  IF Complete(buckets_[ts]) THEN Adaptive /\ age < target
                  ELSE age < MaxWait]_vars

\* The NACK list of one bucket: what the walk over the numerically sorted
\* sequence numbers pushes.
NackWalk(b) ==
    LET run(from, to) == {(from + k) % SeqSpace : k \in 0 .. seq_delta(to, from) - 1}
        step(acc, got) ==
            IF seq_delta(got, acc.expected) < 0 THEN acc
            ELSE [expected |-> (got + 1) % SeqSpace,
                  nacks |-> acc.nacks \union run(acc.expected, got)]
    IN  FoldLeft(step, [expected |-> b.first_seq, nacks |-> {}],
                 SetToSortSeq(b.received, LAMBDA x, y : x < y)).nacks

\* pop_nack_entries(): the walk over every frame not emitted.  It reads the
\* buckets and changes none of them.
pop_nack_entries == UNION {NackWalk(buckets_[ts]) : ts \in PendingOf(buckets_)}

\* A frame never asks for a packet that it already holds: the list is that of
\* "lost packet seq numbers" (video_jitter_buffer.hpp:222).
NackOnlyMissing ==
    \A ts \in PendingOf(buckets_) :
        NackWalk(buckets_[ts]) \intersect buckets_[ts].received = {}

----------------------------------------------------------------------------
(* What the comments say                                                   *)

PacketsOf(ts) == {i \in DOMAIN Stream : Stream[i].ts = ts}

\* "marker bit seen AND all in-order packets received -> emit frame"
\* (video_jitter_buffer.cpp:9): a frame handed out as complete holds every
\* packet of the frame.
CompleteHasEveryPacket ==
    \A k \in DOMAIN delivered :
        delivered[k].complete /\ ~delivered[k].forced
            => ToSet(delivered[k].bitstream) = PacketsOf(delivered[k].ts)

\* "Reorders packets by RTP sequence number" (video_jitter_buffer.hpp:16): the
\* payloads of a frame handed out are in the order they were sent.
BitstreamInOrder ==
    \A k \in DOMAIN delivered :
        \A m, n \in DOMAIN delivered[k].bitstream :
            m < n => delivered[k].bitstream[m] <= delivered[k].bitstream[n]

\* A late packet "must land in that bucket and be discarded there; erasing it
\* on pop would let the late packet create a fresh bucket, which would then be
\* delivered a second time" (video_jitter_buffer.cpp:403-408): no timestamp is
\* handed out twice.
DeliveredOnce ==
    \A k, l \in DOMAIN delivered : delivered[k].ts = delivered[l].ts => k = l

\* Frames older than max_wait_ms are forced out "tagging as `complete=false`"
\* (video_jitter_buffer.cpp:11-12).
ForcedTaggedIncomplete ==
    \A k \in DOMAIN delivered : delivered[k].forced => ~delivered[k].complete

\* Timestamps are unwrapped "to keep the media clock monotonic for the tracker"
\* (video_jitter_buffer.cpp:481-483): a newer frame reads a later clock.
MediaClockMonotonic ==
    [][last_rtp_ts_ # None /\ last_rtp_ts_' # None
       /\ ts_delta(last_rtp_ts_', last_rtp_ts_) > 0
         => prev_media_us_' > prev_media_us_]_vars

\* "Buffer overflow: oldest in-flight frame is dropped"
\* (video_jitter_buffer.hpp:36): a complete frame is evicted only when no older
\* frame stays.
OverflowDropsOldest ==
    [][\A ts \in PendingOf(buckets_) :
          Complete(buckets_[ts]) /\ ts \notin DOMAIN buckets_' /\ resets' = resets
            => \A u \in PendingOf(buckets_) \intersect DOMAIN buckets_' :
                  ts_delta(u, ts) > 0]_vars
=============================================================================
