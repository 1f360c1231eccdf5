----------------------------- MODULE JitterBuffer -----------------------------
(***************************************************************************)
(* The audio jitter buffer (src/modules/jb): packets are kept in one frame *)
(* per RTP timestamp, and a frame is handed out once its first packet has  *)
(* waited for the target delay.                                            *)
(*                                                                         *)
(* The buffer is a record and its operations are functions of it, so that  *)
(* EngineAudio can run a push and a pop in one step, as the engine does.   *)
(* The packets that may arrive are the constant Stream, in any order, any  *)
(* number of times.  The jitter estimator is abstracted to its result:     *)
(* whether it has seen any jitter, and the clamped delay it asks for.      *)
(***************************************************************************)
EXTENDS Integers, Sequences, FiniteSets, Functions

CONSTANTS
    Stream,        \* the packets sent: packet index -> RTP timestamp
    TsSpace,       \* number of RTP timestamps (2^32)
    Configs,       \* configurations in use: [adaptive, initial_delay, max_packets]
    BaseDelay,     \* base_delay_for_pt: the delay used when none is configured
    Delays,        \* values of the tracker's clamped target delay
    MaxArrivals,   \* bound: packets pushed
    LastArrival,   \* bound: no packet is pushed after this time
    MaxTime,       \* bound: the clock stops here
    MaxCalls       \* bound: calls of flush(), reset() and update_config()

ASSUME JitterBufferAssumption ==
    /\ TsSpace \in Nat \ {0}
    /\ \A i \in DOMAIN Stream : Stream[i] \in 0 .. TsSpace - 1
    /\ Configs # {}
    /\ \A c \in Configs : /\ c.adaptive \in BOOLEAN
                          /\ c.initial_delay \in Nat
                          /\ c.max_packets \in Nat
    /\ BaseDelay \in Nat \ {0} /\ Delays \subseteq Nat /\ Delays # {}
    /\ MaxArrivals \in Nat /\ LastArrival \in Nat /\ MaxTime \in Nat
    /\ MaxCalls \in Nat

VARIABLES
    now,       \* the clock
    arrivals,  \* packets pushed so far
    calls,     \* calls of flush(), reset() and update_config() so far
    jb,        \* the buffer
    out        \* history: the frames handed out since the last reset

vars == <<now, arrivals, calls, jb, out>>

Timestamps == {Stream[i] : i \in DOMAIN Stream}

Empty == [ts \in {} |-> 0]

Lowest(S) == CHOOSE x \in S : \A y \in S : x <= y

----------------------------------------------------------------------------
(* The operations of JitterBuffer::Impl                                    *)

\* A buffer as constructed.
New(c) ==
    [config |-> c, frame_buffer |-> Empty, frame_arrival_times |-> Empty,
     buffered_packets |-> 0, target_delay |-> 0,
     observations |-> 0, jitter_seen |-> FALSE, tracked |-> Lowest(Delays)]

\* The first observation gives no transit difference and hence no jitter.
Jitter(b) == IF b.observations = 0 THEN {FALSE} ELSE BOOLEAN

\* What the tracker may report after one more observation.
Observed(b, s, d) ==
    [b EXCEPT !.observations = IF @ < 2 THEN @ + 1 ELSE @, !.jitter_seen = s, !.tracked = d]
Observe(b) == {Observed(b, s, d) : s \in Jitter(b), d \in Delays}

\* Mutant: a packet of a frame already buffered replaces it.
Insert_Replaces(b, i, at) ==
    LET ts == Stream[i]
    IN  [b EXCEPT
          !.frame_buffer = [t \in DOMAIN @ \union {ts} |->
              IF t = ts THEN [packets |-> <<i>>, first_arrival |-> at] ELSE @[t]],
          !.frame_arrival_times = [t \in DOMAIN @ \union {ts} |->
              IF t = ts THEN at ELSE @[t]],
          !.buffered_packets = @ + 1,
          !.target_delay = IF @ # 0 THEN @ ELSE BaseDelay]

\* Insert a packet into the frame of its timestamp.
Insert(b, i, at) ==
    LET ts == Stream[i]
        frame == IF ts \in DOMAIN b.frame_buffer
                 THEN [b.frame_buffer[ts] EXCEPT !.packets = Append(@, i)]
                 ELSE [packets |-> <<i>>, first_arrival |-> at]
        time == IF ts \in DOMAIN b.frame_arrival_times
                THEN b.frame_arrival_times[ts] ELSE at
    IN  [b EXCEPT
          !.frame_buffer = [t \in DOMAIN @ \union {ts} |->
                               IF t = ts THEN frame ELSE @[t]],
          !.frame_arrival_times = [t \in DOMAIN @ \union {ts} |->
                               IF t = ts THEN time ELSE @[t]],
          !.buffered_packets = @ + 1,
          !.target_delay =
              IF @ # 0 THEN @
              ELSE IF b.config.initial_delay > 0 THEN b.config.initial_delay
              ELSE BaseDelay]

\* The buffers that may result from push().
push(b, i, at) == {Insert(c, i, at) : c \in Observe(b)}

\* The target delay pop() works with.
Retarget(b) ==
    [b EXCEPT !.target_delay =
        IF ~b.config.adaptive THEN b.config.initial_delay
        ELSE IF b.jitter_seen THEN b.tracked ELSE @]

\* Frames with a deadline: pop() skips one that has no arrival time.
Timed(b) == DOMAIN b.frame_buffer \intersect DOMAIN b.frame_arrival_times

\* Frames whose deadline has passed.
DueFrames(b, at) ==
    {ts \in Timed(b) : at >= b.frame_arrival_times[ts] + b.target_delay}

\* Mutant: pop() finds a frame only when it is alone in the buffer.
Poppable_SingleFrame(b, at) ==
    {ts \in DueFrames(b, at) : Timed(b) = {ts}}

\* pop() looks at the lowest timestamp only: {} when it is not due.
Poppable(b, at) ==
    IF Timed(b) = {} THEN {} ELSE {Lowest(Timed(b))} \intersect DueFrames(b, at)

\* Mutant: the arrival time of the frame is not erased.
Taken_KeepsArrival(b, ts) ==
    [b EXCEPT !.frame_buffer = Restrict(@, DOMAIN @ \ {ts}),
              !.buffered_packets = @ - Len(b.frame_buffer[ts].packets)]

\* Both maps forget the frame that pop() moves out.
Taken(b, ts) ==
    [b EXCEPT !.frame_buffer = Restrict(@, DOMAIN @ \ {ts}),
              !.frame_arrival_times = Restrict(@, DOMAIN @ \ {ts}),
              !.buffered_packets = @ - Len(b.frame_buffer[ts].packets)]

\* Everything is moved out; the estimator and the target delay stay.
Flushed(b) ==
    [b EXCEPT !.frame_buffer = Empty, !.frame_arrival_times = Empty,
              !.buffered_packets = 0]

\* A new delay window moves the tracker's clamped target at once.
Reconfigured(b, c) ==
    {[b EXCEPT !.config = c, !.tracked = d,
               !.target_delay = IF c.adaptive THEN @ ELSE c.initial_delay] :
        d \in Delays}

\* A frame as the caller receives it.
FrameOut(b, ts) == [ts |-> ts, packets |-> b.frame_buffer[ts].packets,
                    first_arrival |-> b.frame_buffer[ts].first_arrival]

\* flush() walks the map, that is by ascending timestamp.
FlushOrder(b) ==
    LET frames == DOMAIN b.frame_buffer
        Place(ts) == Cardinality({x \in frames : x <= ts})
    IN  [k \in 1 .. Cardinality(frames) |-> FrameOut(b, CHOOSE ts \in frames : Place(ts) = k)]

----------------------------------------------------------------------------
Init ==
    /\ now = 0
    /\ arrivals = 0
    /\ calls = 0
    /\ \E c \in Configs : jb = New(c)
    /\ out = <<>>

Push(i) ==
    /\ now <= LastArrival
    /\ arrivals < MaxArrivals
    /\ arrivals' = arrivals + 1
    /\ jb' \in push(jb, i, now)
    /\ UNCHANGED <<now, calls, out>>

\* A pop() that finds no due frame still updates the target delay.
Pop ==
    /\ LET b == Retarget(jb)
       IN  IF Poppable(b, now) = {} THEN jb' = b /\ UNCHANGED out
           ELSE \E ts \in Poppable(b, now) :
                   jb' = Taken(b, ts) /\ out' = Append(out, FrameOut(b, ts))
    /\ UNCHANGED <<now, arrivals, calls>>

Flush ==
    /\ calls < MaxCalls
    /\ calls' = calls + 1
    /\ out' = out \o FlushOrder(jb)
    /\ jb' = Flushed(jb)
    /\ UNCHANGED <<now, arrivals>>

Reset ==
    /\ calls < MaxCalls
    /\ calls' = calls + 1
    /\ jb' = New(jb.config)
    /\ out' = <<>>
    /\ UNCHANGED <<now, arrivals>>

update_config ==
    /\ calls < MaxCalls
    /\ calls' = calls + 1
    /\ \E c \in Configs : jb' \in Reconfigured(jb, c)
    /\ UNCHANGED <<now, arrivals, out>>

Advance ==
    /\ now < MaxTime
    /\ now' = now + 1
    /\ UNCHANGED <<arrivals, calls, jb, out>>

Next ==
    \/ \E i \in DOMAIN Stream : Push(i)
    \/ Pop
    \/ Flush
    \/ Reset
    \/ update_config
    \/ Advance

Spec == Init /\ [][Next]_vars

----------------------------------------------------------------------------
(* Properties                                                              *)

\* Number of packets in the frames of a buffer.
Held(b) ==
    SumFunction([ts \in DOMAIN b.frame_buffer |-> Len(b.frame_buffer[ts].packets)])

\* Every field has its type (jitter_buffer.cpp:82-133).
TypeOK ==
    /\ now \in 0 .. MaxTime
    /\ jb.config \in Configs
    /\ DOMAIN jb.frame_buffer \subseteq Timestamps
    /\ jb.buffered_packets \in Nat
    /\ jb.target_delay \in Nat
    /\ jb.tracked \in Delays

\* The packet counter that stats() reports is the number of packets held, over
\* every order of push, pop, flush, reset and update_config
\* (jitter_buffer.cpp:201, 262, 287, 302).
PacketsCounted == jb.buffered_packets = Held(jb)

\* The two maps agree: the arrival that a deadline is computed from is the
\* first arrival of the frame in the buffer, not that of an earlier frame with
\* the same timestamp (jitter_buffer.cpp:110-116, 196-199, 258-260).
ArrivalOfThisFrame ==
    /\ DOMAIN jb.frame_arrival_times = DOMAIN jb.frame_buffer
    /\ \A ts \in DOMAIN jb.frame_buffer :
          jb.frame_arrival_times[ts] = jb.frame_buffer[ts].first_arrival

----------------------------------------------------------------------------
(* What the comments say                                                   *)

\* RTP timestamps compare modulo their space.
NotAfter(t, u) == (u - t) % TsSpace < TsSpace \div 2

\* "push and pop emit in timestamp order which is what the WebRTC contract
\* requires" (jitter_buffer.cpp:108-109): the frame pop() hands out is the
\* earliest of those buffered.
EmitsInTimestampOrder ==
    \A ts \in Poppable(jb, now) : \A u \in DOMAIN jb.frame_buffer : NotAfter(ts, u)

\* "The first (earliest) frame isn't ready yet - neither will any later frame
\* be (timestamps are sorted)" (jitter_buffer.cpp:269-270).
NothingDueBehindHead ==
    Poppable(jb, now) = {} => DueFrames(jb, now) = {}

\* "Hard cap on buffered packets (FIFO trim from oldest when exceeded)"
\* (jitter_buffer.hpp:45).
PacketCap == jb.buffered_packets <= jb.config.max_packets

\* "Force-emit every buffered frame in arrival order" (jitter_buffer.hpp:106).
FlushInArrivalOrder ==
    \A k, l \in DOMAIN FlushOrder(jb) :
        k < l => FlushOrder(jb)[k].first_arrival <= FlushOrder(jb)[l].first_arrival
=============================================================================
