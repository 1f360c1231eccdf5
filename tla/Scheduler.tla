------------------------------ MODULE Scheduler ------------------------------
(***************************************************************************)
(* The strict-priority sending scheduler (src/modules/sched).  Five FIFO   *)
(* queues, one per plugins::Priority (layer L0), and three FIFO buckets,   *)
(* one per StreamPriority (layer L1, "DC-2").  Every public method holds   *)
(* impl_->mu_ from its first to its last line, and the DrainCallback runs  *)
(* under the same mutex, so a method is one atomic action.                 *)
(*                                                                         *)
(* Abstractions.  A packet's bytes and its dst_addr are left out: no drain *)
(* path reads dst_addr, and every record keeps estimated_size_bytes = 0,   *)
(* so all sizes are avg_packet_size_bytes.  SteadyClock::now() is a        *)
(* counter that advances at every enqueue.  A DrainCallback is             *)
(* characterised by how many packets it accepts from each queue before it  *)
(* returns false.                                                          *)
(***************************************************************************)
EXTENDS Integers, Sequences, FiniteSets

CONSTANTS
    MaxQueueDepth,      \* SchedulerConfig::max_queue_depth
    AvgPacketSize,      \* SchedulerConfig::avg_packet_size_bytes
    Targets,            \* target_bps values the BWE reports
    Priorities,         \* the priorities callers enqueue with (L0)
    Streams,            \* stream ids callers enqueue with (L1)
    MaxPackets,         \* max_packets arguments of the drain calls
    MaxEnqueues         \* bound on the number of enqueues of a behaviour

kControl == 0
kAudio == 1
kVideoKeyframe == 2
kVideo == 3
kBestEffort == 4
Rank == 0..4

High == 0
Normal == 1
Low == 2
StreamRank == 0..2

ASSUME SchedulerAssumption ==
    /\ MaxQueueDepth \in Nat
    /\ AvgPacketSize \in Nat \ {0}
    /\ Targets \subseteq Nat
    /\ Priorities \subseteq Rank
    /\ MaxPackets \subseteq Nat \ {0}
    /\ MaxEnqueues \in Nat

VARIABLES
    queues,             \* L0 queues_, by priority rank
    target_bps,
    allowed_per_drain,
    stream_priority,    \* absent entries of the map read as Normal
    stream_buckets,     \* L1 buckets, by stream priority rank
    dropped_total,      \* the statistics of L0, ...
    sent_total,
    stream_sent_total,  \* ... of L1, ...
    sent_bytes_total,   \* ... and of both
    clock,              \* logical SteadyClock: number of enqueues so far
    \* History: what the callers did and saw since the last reset().
    submitted,          \* L0 packets handed to enqueue()
    vetoed,             \* by rank: L0 packets popped whose callback returned false
    last_out,           \* by rank: enqueue_time of the last packet popped by a drain
    stream_last_out     \* by stream: the same for select_next_packet()

l0 == <<queues, target_bps, allowed_per_drain, dropped_total, sent_total, submitted,
        vetoed, last_out>>
l1 == <<stream_priority, stream_buckets, stream_sent_total, stream_last_out>>
vars == <<l0, l1, sent_bytes_total, clock>>

Packet == [enqueue_time : Nat]
StreamPacket == [stream_id : Streams, enqueue_time : Nat]

Minimum(a, b) == IF a <= b THEN a ELSE b

-----------------------------------------------------------------------------
(* Sums over the five queues and over the three buckets. *)

Upto(f, r) ==
    f[0] + (IF r >= 1 THEN f[1] ELSE 0) + (IF r >= 2 THEN f[2] ELSE 0)
         + (IF r >= 3 THEN f[3] ELSE 0) + (IF r >= 4 THEN f[4] ELSE 0)

StreamUpto(f, b) ==
    f[0] + (IF b >= 1 THEN f[1] ELSE 0) + (IF b >= 2 THEN f[2] ELSE 0)

Depths(qs) == [r \in Rank |-> Len(qs[r])]
TotalQueued(qs) == Upto(Depths(qs), 4)
NonControlBytes(qs) == (TotalQueued(qs) - Len(qs[kControl])) * AvgPacketSize

-----------------------------------------------------------------------------
Init ==
    /\ queues = [r \in Rank |-> <<>>]
    /\ target_bps = 0
    /\ allowed_per_drain = 0
    /\ stream_priority = [s \in Streams |-> Normal]
    /\ stream_buckets = [b \in StreamRank |-> <<>>]
    /\ dropped_total = 0
    /\ sent_total = 0
    /\ stream_sent_total = 0
    /\ sent_bytes_total = 0
    /\ clock = 0
    /\ submitted = 0
    /\ vetoed = [r \in Rank |-> 0]
    /\ last_out = [r \in Rank |-> 0]
    /\ stream_last_out = [s \in Streams |-> 0]

-----------------------------------------------------------------------------
(* L0: enqueue, drain_with, on_bwe_update. *)

Full(qs) == TotalQueued(qs) >= MaxQueueDepth

\* Mutant: the lowest-priority queue is cleared where one packet should go.
OverflowDrop_WholeQueue(qs) ==
    [r \in Rank |-> IF \A s \in Rank : s > r => qs[s] = <<>> THEN <<>> ELSE qs[r]]

\* The overflow loop: one packet leaves the lowest-priority non-empty queue,
\* the control queue included.
OverflowDrop(qs) ==
    IF \A r \in Rank : qs[r] = <<>>
    THEN qs
    ELSE LET v == CHOOSE r \in Rank : /\ qs[r] # <<>>
                                      /\ \A s \in Rank : s > r => qs[s] = <<>>
         IN  [qs EXCEPT ![v] = Tail(@)]

enqueue(p) ==
    LET room == IF Full(queues) THEN OverflowDrop(queues) ELSE queues
        evicted == IF Full(queues) /\ \E r \in Rank : queues[r] # <<>> THEN 1 ELSE 0
        rec == [enqueue_time |-> clock + 1]
    IN
    /\ clock < MaxEnqueues
    /\ clock' = clock + 1
    /\ submitted' = submitted + 1
    /\ IF Full(room)
       THEN /\ queues' = room
            /\ dropped_total' = dropped_total + evicted + 1
       ELSE /\ queues' = [room EXCEPT ![p] = Append(@, rec)]
            /\ dropped_total' = dropped_total + evicted
    /\ UNCHANGED <<target_bps, allowed_per_drain, sent_total, sent_bytes_total, vetoed,
                   last_out, l1>>

\* Mutant: a BWE limit of 0 packets stops the drain.
DrainLimit_ZeroStops(max) == Minimum(max, allowed_per_drain)

\* The two limits of one drain_with() call: max_packets, and the BWE limit,
\* for which 0 means "no limit".
DrainLimit(max) ==
    IF allowed_per_drain > 0 THEN Minimum(max, allowed_per_drain) ELSE max

\* accept[r]: how many packets of queue r the callback accepts before it
\* returns false (all of them: it never does).  Greedy by rank, so the queues
\* up to rank r yield the smaller of the limit and what is acceptable there.
SentUpto(accept, limit, r) == Minimum(limit, Upto(accept, r))

\* Mutant: the queues are walked from the lowest priority up.
Taken_LowestFirst(accept, limit, r) ==
    Minimum(limit, Upto(accept, 4) - (IF r = 0 THEN 0 ELSE Upto(accept, r - 1)))
        - Minimum(limit, Upto(accept, 4) - Upto(accept, r))

Taken(accept, limit, r) ==
    SentUpto(accept, limit, r) - (IF r = 0 THEN 0 ELSE SentUpto(accept, limit, r - 1))

PopFront(q, n) == SubSeq(q, n + 1, Len(q))

\* A veto breaks the inner loop only, after the packet was popped: the outer
\* loop goes on with the next lower priority.
drain_with(max, accept) ==
    LET limit == DrainLimit(max)
        veto == [r \in Rank |->
                   IF accept[r] < Len(queues[r]) /\ SentUpto(accept, limit, r) < limit
                   THEN 1 ELSE 0]
        popped == [r \in Rank |-> Taken(accept, limit, r) + veto[r]]
        sent == SentUpto(accept, limit, 4)
    IN
    /\ queues' = [r \in Rank |-> PopFront(queues[r], popped[r])]
    /\ vetoed' = [r \in Rank |-> vetoed[r] + veto[r]]
    /\ last_out' = [r \in Rank |->
                      IF popped[r] = 0 THEN last_out[r]
                      ELSE queues[r][popped[r]].enqueue_time]
    /\ sent_total' = sent_total + sent
    /\ sent_bytes_total' = sent_bytes_total + sent * AvgPacketSize
    /\ UNCHANGED <<target_bps, allowed_per_drain, dropped_total, submitted, clock, l1>>

Drain ==
    \E max \in MaxPackets :
    \E a0 \in 0..Len(queues[0]), a1 \in 0..Len(queues[1]), a2 \in 0..Len(queues[2]),
       a3 \in 0..Len(queues[3]), a4 \in 0..Len(queues[4]) :
        drain_with(max, [r \in Rank |-> CASE r = 0 -> a0 [] r = 1 -> a1 [] r = 2 -> a2
                                          [] r = 3 -> a3 [] r = 4 -> a4])

bits_to_packets_per_second(bps) == bps \div (AvgPacketSize * 8)

kDrainsPerSecond == 8
BudgetBytes(bps) == (bps \div 8) \div kDrainsPerSecond

\* Mutant: a queue that is kept is not charged to the budget.
Spend_NoCharge(budget, bytes) == budget

\* remaining_budget when the trimming loop, which walks from kBestEffort up
\* to kAudio, reaches queue r: a queue that fits is kept and paid for, one
\* that does not fit is cleared.
Spend(budget, bytes) == IF bytes <= budget THEN budget - bytes ELSE budget
QueueBytes(r) == Len(queues[r]) * AvgPacketSize
RemainingBudget(bps, r) ==
    LET at4 == BudgetBytes(bps)
        at3 == Spend(at4, QueueBytes(4))
        at2 == Spend(at3, QueueBytes(3))
        at1 == Spend(at2, QueueBytes(2))
    IN  CASE r = 4 -> at4 [] r = 3 -> at3 [] r = 2 -> at2 [] OTHER -> at1

TrimmedQueues(bps) ==
    IF bps = 0
    THEN [r \in Rank |-> IF r = kControl THEN queues[r] ELSE <<>>]
    ELSE IF NonControlBytes(queues) <= BudgetBytes(bps)
    THEN queues
    ELSE [r \in Rank |->
            IF r = kControl \/ QueueBytes(r) <= RemainingBudget(bps, r)
            THEN queues[r] ELSE <<>>]

on_bwe_update(bps) ==
    /\ target_bps' = bps
    /\ allowed_per_drain' = bits_to_packets_per_second(bps)
    /\ queues' = TrimmedQueues(bps)
    /\ dropped_total' = dropped_total + TotalQueued(queues) - TotalQueued(TrimmedQueues(bps))
    /\ UNCHANGED <<sent_total, sent_bytes_total, submitted, vetoed, last_out, clock, l1>>

-----------------------------------------------------------------------------
(* L1: stream priorities, enqueue_for_stream, select_next_packet. *)

OfStream(bucket, s) == SelectSeq(bucket, LAMBDA p : p.stream_id = s)
OfOtherStreams(bucket, s) == SelectSeq(bucket, LAMBDA p : p.stream_id # s)

\* Mutant: the new level applies to later packets only, as the header says.
set_stream_priority_NoMove(s, level) ==
    /\ stream_priority' = [stream_priority EXCEPT ![s] = level]
    /\ UNCHANGED <<l0, sent_bytes_total, clock, stream_buckets, stream_sent_total, stream_last_out>>

set_stream_priority(s, level) ==
    LET prev == stream_priority[s] IN
    /\ stream_priority' = [stream_priority EXCEPT ![s] = level]
    /\ stream_buckets' =
         IF prev = level THEN stream_buckets
         ELSE [stream_buckets EXCEPT
                 ![prev] = OfOtherStreams(@, s),
                 ![level] = @ \o OfStream(stream_buckets[prev], s)]
    /\ UNCHANGED <<l0, sent_bytes_total, clock, stream_sent_total, stream_last_out>>

enqueue_for_stream(s) ==
    /\ clock < MaxEnqueues
    /\ clock' = clock + 1
    /\ stream_buckets' =
         [stream_buckets EXCEPT ![stream_priority[s]] =
            Append(@, [stream_id |-> s, enqueue_time |-> clock + 1])]
    /\ UNCHANGED <<l0, sent_bytes_total, stream_priority, stream_sent_total, stream_last_out>>

\* accept is as in drain_with.  Unlike drain_with, the walk over the buckets
\* ends when a bucket yields nothing (n == 0), which only a veto of its first
\* packet can cause; a veto later in a bucket moves on to the next bucket.
select_next_packet(max, accept) ==
    LET halted(b) == \E c \in StreamRank : /\ c < b
                                           /\ stream_buckets[c] # <<>>
                                           /\ accept[c] = 0
        given == [b \in StreamRank |-> IF halted(b) THEN 0 ELSE accept[b]]
        upto(b) == Minimum(max, StreamUpto(given, b))
        taken == [b \in StreamRank |-> upto(b) - (IF b = 0 THEN 0 ELSE upto(b - 1))]
        veto == [b \in StreamRank |->
                   IF /\ ~halted(b)
                      /\ given[b] < Len(stream_buckets[b])
                      /\ upto(b) < max
                   THEN 1 ELSE 0]
        popped == [b \in StreamRank |-> taken[b] + veto[b]]
        out(s) == UNION {{stream_buckets[b][i].enqueue_time :
                            i \in {k \in 1..popped[b] : stream_buckets[b][k].stream_id = s}} :
                         b \in StreamRank}
    IN
    /\ stream_buckets' = [b \in StreamRank |->
                            PopFront(stream_buckets[b], popped[b])]
    /\ stream_last_out' = [s \in Streams |->
                             IF out(s) = {} THEN stream_last_out[s]
                             ELSE CHOOSE t \in out(s) : \A u \in out(s) : u <= t]
    /\ stream_sent_total' = stream_sent_total + upto(2)
    /\ sent_bytes_total' = sent_bytes_total + upto(2) * AvgPacketSize
    /\ UNCHANGED <<l0, stream_priority, clock>>

SelectNext ==
    \E max \in MaxPackets :
    \E a0 \in 0..Len(stream_buckets[0]), a1 \in 0..Len(stream_buckets[1]),
       a2 \in 0..Len(stream_buckets[2]) :
        select_next_packet(max, [b \in StreamRank |->
                                   CASE b = 0 -> a0 [] b = 1 -> a1 [] b = 2 -> a2])

\* last_out is history of a logical clock that reset() does not touch.
reset ==
    /\ queues' = [r \in Rank |-> <<>>]
    /\ target_bps' = 0
    /\ allowed_per_drain' = 0
    /\ stream_priority' = [s \in Streams |-> Normal]
    /\ stream_buckets' = [b \in StreamRank |-> <<>>]
    /\ dropped_total' = 0
    /\ sent_total' = 0
    /\ stream_sent_total' = 0
    /\ sent_bytes_total' = 0
    /\ submitted' = 0
    /\ vetoed' = [r \in Rank |-> 0]
    /\ UNCHANGED <<clock, last_out, stream_last_out>>

-----------------------------------------------------------------------------
Next ==
    \/ \E p \in Priorities : enqueue(p)
    \/ Drain
    \/ \E bps \in Targets : on_bwe_update(bps)
    \/ \E s \in Streams, level \in StreamRank : set_stream_priority(s, level)
    \/ \E s \in Streams : enqueue_for_stream(s)
    \/ SelectNext
    \/ reset

Spec == Init /\ [][Next]_vars

\* NimRTCEngine::tick() calls drain_with(64, cb) on every tick; nothing in the
\* engine calls select_next_packet(), so only the L0 drain is fair.
FairSpec == Spec /\ WF_vars(Drain)

-----------------------------------------------------------------------------
(* Properties that hold. *)

\* Types of the fields that layer L0 reads and writes.
QueuesTypeOK ==
    /\ queues \in [Rank -> Seq(Packet)]
    /\ target_bps \in Nat
    /\ allowed_per_drain \in Nat
    /\ dropped_total \in Nat
    /\ sent_total \in Nat
    /\ clock \in 0..MaxEnqueues
    /\ submitted \in Nat
    /\ vetoed \in [Rank -> Nat]
    /\ last_out \in [Rank -> Nat]

\* Types of every field of Scheduler::Impl and of the history variables.
TypeOK ==
    /\ QueuesTypeOK
    /\ stream_priority \in [Streams -> StreamRank]
    /\ stream_buckets \in [StreamRank -> Seq(StreamPacket)]
    /\ stream_sent_total \in Nat
    /\ sent_bytes_total \in Nat
    /\ stream_last_out \in [Streams -> Nat]

\* However enqueues, drains and BWE updates interleave, the five queues never
\* hold more than max_queue_depth packets between them (enqueue_locked).
DepthBound == TotalQueued(queues) <= MaxQueueDepth

\* Every packet handed to enqueue() since the last reset() is accounted for
\* exactly once: still queued, counted dropped, counted sent, or popped and
\* vetoed by the callback (the one outcome SchedulerStats does not show).
Conservation ==
    submitted = TotalQueued(queues) + dropped_total + sent_total + Upto(vetoed, 4)

\* Within one priority no packet overtakes another: a queue is in the order of
\* the enqueues, and whatever a drain has handed out is older than whatever
\* the queue still holds, across overflow evictions, trims and vetoes.
Ordered(q, after, upto) ==
    \A i \in 1..Len(q) :
        /\ after < q[i].enqueue_time
        /\ q[i].enqueue_time <= upto
        /\ \A j \in 1..Len(q) : i < j => q[i].enqueue_time < q[j].enqueue_time
Fifo == \A r \in Rank : last_out[r] <= clock /\ Ordered(queues[r], last_out[r], clock)

\* A stream's packets are all in the bucket of the stream's current priority,
\* in the order they were enqueued, and none of them is older than one already
\* handed out: set_stream_priority() never reorders a stream.
StreamFifo ==
    \A b \in StreamRank : \A i \in 1..Len(stream_buckets[b]) :
        LET p == stream_buckets[b][i] IN
        /\ stream_priority[p.stream_id] = b
        /\ stream_last_out[p.stream_id] < p.enqueue_time
        /\ \A j \in 1..Len(stream_buckets[b]) :
             i < j /\ stream_buckets[b][j].stream_id = p.stream_id
               => p.enqueue_time < stream_buckets[b][j].enqueue_time

\* A drain whose callback accepts everything sends a packet only when every
\* queue of higher priority has been emptied (drain_with).
StrictPriority ==
    [][sent_total' > sent_total /\ vetoed' = vetoed =>
         \A r, s \in Rank :
           r < s /\ queues'[s] # queues[s] => queues'[r] = <<>>]_vars

\* After a BWE update what is left of the non-control queues fits the byte
\* budget of one drain, and the control queue is as it was (on_bwe_update).
BweTrimFits ==
    [][\A bps \in Targets :
         on_bwe_update(bps) =>
           /\ NonControlBytes(queues') <= BudgetBytes(bps)
           /\ queues'[kControl] = queues[kControl]]_vars

\* Once callers stop enqueueing, the ticks of the engine empty the L0 queues,
\* whatever the BWE reports and however often the callback vetoes.
DrainsOut == <>[](TotalQueued(queues) = 0)

-----------------------------------------------------------------------------
(* Statements of the documentation that the code does not satisfy. *)

\* plugins/scheduler.hpp:61: control messages are "never dropped by scheduler".
ControlNeverDropped ==
    [][(\E p \in Priorities : enqueue(p)) =>
         Len(queues'[kControl]) >= Len(queues[kControl])]_vars

\* plugins/scheduler.hpp, drain_with: when cb returns false "the current packet
\* stays in the queue", so a drain shortens the queues by what it sent.
VetoKeepsPacket ==
    [][vetoed' # vetoed /\ submitted' = submitted =>
         TotalQueued(queues') = TotalQueued(queues) - (sent_total' - sent_total)]_vars

\* plugins/scheduler.hpp, drain_with: when cb returns false "draining stops
\* immediately", so no queue of lower priority is touched.
VetoStopsDrain ==
    [][\A r, s \in Rank :
         r < s /\ vetoed'[r] > vetoed[r] => queues'[s] = queues[s]]_vars

\* plugins/scheduler.hpp, IScheduler: on_bwe_update implementations "must drop
\* lowest-priority traffic first".
BweDropsLowestFirst ==
    [][\A bps \in Targets : on_bwe_update(bps) =>
         \A r, s \in Rank :
           r < s /\ queues'[r] # queues[r] => queues'[s] = <<>>]_vars

\* plugins/scheduler.hpp, IScheduler: drain_with removes packets "under the
\* configured max_queue_depth and BWE budget", that is, under a positive
\* target at most target_bps / (avg_packet_size_bytes * 8) per call.
DrainWithinBweBudget ==
    [][target_bps > 0 /\ sent_total' > sent_total =>
         sent_total' - sent_total <= target_bps \div (AvgPacketSize * 8)]_vars

\* sched.hpp, set_stream_priority: "Existing packets already in queues are not
\* moved".
QueuedStreamPacketsStay ==
    [][\A s \in Streams, level \in StreamRank :
         set_stream_priority(s, level) => stream_buckets' = stream_buckets]_vars
=============================================================================
