--------------------------- MODULE SchedulerProofs ---------------------------
(***************************************************************************)
(* Theorems about Scheduler, for every depth limit, packet size, set of    *)
(* BWE targets, of priorities and of max_packets arguments.  The invariant *)
(* L0Inv is inductive: each conjunct needs only the types besides itself,  *)
(* because enqueue, drain and trim change a queue at its ends only.        *)
(***************************************************************************)
EXTENDS Scheduler, SequenceTheorems, TLAPS

L0Inv == QueuesTypeOK /\ DepthBound /\ Conservation /\ Fifo

-----------------------------------------------------------------------------
(* Lemmas about the operators of the model. *)

\* Membership in Rank by cases.
LEMMA RankCases == \A r \in Rank : r = 0 \/ r = 1 \/ r = 2 \/ r = 3 \/ r = 4
BY DEF Rank

\* The total is the sum of the five lengths.
LEMMA TotalQueuedSum ==
    ASSUME NEW qs \in [Rank -> Seq(Packet)]
    PROVE  /\ TotalQueued(qs) = Len(qs[0]) + Len(qs[1]) + Len(qs[2]) + Len(qs[3]) + Len(qs[4])
           /\ \A r \in Rank : Len(qs[r]) \in Nat
           /\ TotalQueued(qs) \in Nat
<1>1. \A r \in Rank : Len(qs[r]) \in Nat
  BY Zenon, LenProperties
<1>2. Depths(qs) = [r \in Rank |-> Len(qs[r])]
  BY Zenon DEF Depths
<1>3. TotalQueued(qs) = Len(qs[0]) + Len(qs[1]) + Len(qs[2]) + Len(qs[3]) + Len(qs[4])
  BY <1>1, <1>2 DEF TotalQueued, Upto, Rank
<1> QED
  BY <1>1, <1>3 DEF Rank

\* The five depths are natural numbers, and their sum is the total.
LEMMA DepthsFacts ==
    ASSUME NEW qs \in [Rank -> Seq(Packet)]
    PROVE  /\ Depths(qs) \in [Rank -> Nat]
           /\ \A r \in Rank : Depths(qs)[r] = Len(qs[r])
           /\ TotalQueued(qs) = Upto(Depths(qs), 4)
BY Zenon, TotalQueuedSum DEF Depths, TotalQueued

\* A change of one summand changes the sum by as much.
LEMMA OneSummandChanged ==
    ASSUME NEW f \in [Rank -> Int], NEW g \in [Rank -> Int], NEW v \in Rank, NEW d \in Int,
           \A r \in Rank : g[r] = f[r] + (IF r = v THEN d ELSE 0)
    PROVE  Upto(g, 4) = Upto(f, 4) + d
<1>1. /\ g[0] = f[0] + (IF 0 = v THEN d ELSE 0)
      /\ g[1] = f[1] + (IF 1 = v THEN d ELSE 0)
      /\ g[2] = f[2] + (IF 2 = v THEN d ELSE 0)
      /\ g[3] = f[3] + (IF 3 = v THEN d ELSE 0)
      /\ g[4] = f[4] + (IF 4 = v THEN d ELSE 0)
  BY DEF Rank
<1>2. f[0] \in Int /\ f[1] \in Int /\ f[2] \in Int /\ f[3] \in Int /\ f[4] \in Int
  BY DEF Rank
<1>3. v = 0 \/ v = 1 \/ v = 2 \/ v = 3 \/ v = 4
  BY Zenon, RankCases
<1> QED
  BY <1>1, <1>2, <1>3 DEF Upto

\* The sum over the queues is additive.
LEMMA SumAdds ==
    ASSUME NEW f \in [Rank -> Nat], NEW g \in [Rank -> Nat], NEW h \in [Rank -> Nat],
           \A r \in Rank : h[r] = f[r] + g[r]
    PROVE  Upto(h, 4) = Upto(f, 4) + Upto(g, 4)
<1>1. /\ h[0] = f[0] + g[0] /\ h[1] = f[1] + g[1] /\ h[2] = f[2] + g[2]
      /\ h[3] = f[3] + g[3] /\ h[4] = f[4] + g[4]
  BY DEF Rank
<1>2. /\ f[0] \in Int /\ f[1] \in Int /\ f[2] \in Int /\ f[3] \in Int /\ f[4] \in Int
      /\ g[0] \in Int /\ g[1] \in Int /\ g[2] \in Int /\ g[3] \in Int /\ g[4] \in Int
  BY DEF Rank
<1> QED
  BY <1>1, <1>2 DEF Upto

\* The sum of natural numbers is a natural number.
LEMMA SumNat ==
    ASSUME NEW f \in [Rank -> Nat]
    PROVE  Upto(f, 4) \in Nat
<1>1. f[0] \in Nat /\ f[1] \in Nat /\ f[2] \in Nat /\ f[3] \in Nat /\ f[4] \in Nat
  BY DEF Rank
<1> QED
  BY <1>1 DEF Upto

\* The sum grows with its summands.
LEMMA SumMonotone ==
    ASSUME NEW f \in [Rank -> Nat], NEW g \in [Rank -> Nat], \A r \in Rank : g[r] <= f[r]
    PROVE  Upto(g, 4) <= Upto(f, 4)
<1>1. g[0] <= f[0] /\ g[1] <= f[1] /\ g[2] <= f[2] /\ g[3] <= f[3] /\ g[4] <= f[4]
  BY DEF Rank
<1>2. /\ f[0] \in Int /\ f[1] \in Int /\ f[2] \in Int /\ f[3] \in Int /\ f[4] \in Int
      /\ g[0] \in Int /\ g[1] \in Int /\ g[2] \in Int /\ g[3] \in Int /\ g[4] \in Int
  BY DEF Rank
<1> QED
  BY <1>1, <1>2 DEF Upto

\* A change of one queue's length changes the total by as much.
LEMMA OneQueueChanged ==
    ASSUME NEW qs \in [Rank -> Seq(Packet)], NEW ws \in [Rank -> Seq(Packet)],
           NEW v \in Rank, NEW d \in Int,
           Len(ws[v]) = Len(qs[v]) + d,
           \A r \in Rank : r # v => ws[r] = qs[r]
    PROVE  TotalQueued(ws) = TotalQueued(qs) + d
<1>1. /\ Depths(qs) \in [Rank -> Nat]
      /\ \A r \in Rank : Depths(qs)[r] = Len(qs[r])
      /\ TotalQueued(qs) = Upto(Depths(qs), 4)
  BY Zenon, DepthsFacts
<1>2. /\ Depths(ws) \in [Rank -> Nat]
      /\ \A r \in Rank : Depths(ws)[r] = Len(ws[r])
      /\ TotalQueued(ws) = Upto(Depths(ws), 4)
  BY Zenon, DepthsFacts
<1>3. ASSUME NEW r \in Rank
      PROVE  Depths(ws)[r] = Depths(qs)[r] + (IF r = v THEN d ELSE 0)
  <2>1. Depths(qs)[r] \in Nat
    BY Zenon, <1>1
  <2>2. CASE r = v
    BY Zenon, <1>1, <1>2, <2>2
  <2>3. CASE r # v
    BY <1>1, <1>2, <2>1, <2>3
  <2> QED
    BY Zenon, <2>2, <2>3
<1>4. Depths(qs) \in [Rank -> Int] /\ Depths(ws) \in [Rank -> Int]
  BY <1>1, <1>2
<1>5. Upto(Depths(ws), 4) = Upto(Depths(qs), 4) + d
  BY Zenon, <1>3, <1>4, OneSummandChanged
<1> QED
  BY Zenon, <1>1, <1>2, <1>5

\* Popping n packets from the front of a queue leaves the rest in place.
LEMMA PopFrontFacts ==
    ASSUME NEW S, NEW q \in Seq(S), NEW n \in 0..Len(q)
    PROVE  /\ PopFront(q, n) \in Seq(S)
           /\ Len(PopFront(q, n)) = Len(q) - n
           /\ \A i \in 1..(Len(q) - n) : PopFront(q, n)[i] = q[n + i]
<1>1. Len(q) \in Nat
  BY Zenon, LenProperties
<1>2. n + 1 \in 1..(Len(q) + 1) /\ Len(q) \in n..Len(q)
  BY <1>1
<1> QED
  BY <1>1, <1>2, SubSeqProperties DEF PopFront

\* What one pass of drain_with() takes from the queues: no more than the
\* callback accepts from each, and in total what it reports as sent.
LEMMA TakenFacts ==
    ASSUME NEW accept \in [Rank -> Nat], NEW limit \in Nat
    PROVE  /\ \A r \in Rank : /\ Taken(accept, limit, r) \in Nat
                              /\ Taken(accept, limit, r) <= accept[r]
           /\ \A r \in Rank : SentUpto(accept, limit, r) < limit =>
                                 Taken(accept, limit, r) = accept[r]
           /\ SentUpto(accept, limit, 4) \in Nat
           /\ SentUpto(accept, limit, 4) =
                Taken(accept, limit, 0) + Taken(accept, limit, 1) + Taken(accept, limit, 2)
                  + Taken(accept, limit, 3) + Taken(accept, limit, 4)
<1>1. accept[0] \in Nat /\ accept[1] \in Nat /\ accept[2] \in Nat /\ accept[3] \in Nat
        /\ accept[4] \in Nat
  BY DEF Rank
<1>2. ASSUME NEW r \in Rank
      PROVE  /\ Taken(accept, limit, r) \in Nat
             /\ Taken(accept, limit, r) <= accept[r]
             /\ SentUpto(accept, limit, r) < limit => Taken(accept, limit, r) = accept[r]
  BY SMTT(20), <1>1, RankCases DEF Taken, SentUpto, Upto, Minimum
<1>3. SentUpto(accept, limit, 4) \in Nat
  BY <1>1 DEF SentUpto, Upto, Minimum
<1>4. SentUpto(accept, limit, 4) =
                Taken(accept, limit, 0) + Taken(accept, limit, 1) + Taken(accept, limit, 2)
                  + Taken(accept, limit, 3) + Taken(accept, limit, 4)
  BY <1>1 DEF Taken, SentUpto, Upto, Minimum
<1> QED
  BY Zenon, <1>2, <1>3, <1>4

\* The eviction of the overflow loop removes exactly the front packet of one
\* non-empty queue, if there is one.
LEMMA OverflowDropFacts ==
    ASSUME NEW qs \in [Rank -> Seq(Packet)], \E r \in Rank : qs[r] # <<>>
    PROVE  \E v \in Rank : qs[v] # <<>> /\ OverflowDrop(qs) = [qs EXCEPT ![v] = Tail(@)]
<1>2. \E r \in Rank : qs[r] # <<>> /\ \A s \in Rank : s > r => qs[s] = <<>>
  BY RankCases DEF Rank
<1>3. PICK v \in Rank : /\ v = CHOOSE r \in Rank : /\ qs[r] # <<>>
                                                   /\ \A s \in Rank : s > r => qs[s] = <<>>
                        /\ qs[v] # <<>>
  BY Zenon, <1>2
<1> QED
  BY Zenon, <1>3 DEF OverflowDrop

\* An ordered queue stays ordered when packets leave at the front, and what is
\* left is younger than the last packet that left.
LEMMA OrderedPop ==
    ASSUME NEW q \in Seq(Packet), NEW n \in 0..Len(q), NEW after \in Nat, NEW upto \in Nat,
           Ordered(q, after, upto)
    PROVE  /\ Ordered(PopFront(q, n), after, upto)
           /\ n > 0 => Ordered(PopFront(q, n), q[n].enqueue_time, upto)
<1> DEFINE w == PopFront(q, n)
<1>1. /\ w \in Seq(Packet)
      /\ Len(w) = Len(q) - n
      /\ \A i \in 1..(Len(q) - n) : w[i] = q[n + i]
  BY Zenon, PopFrontFacts
<1>2. Len(q) \in Nat
  BY Zenon, LenProperties
<1>3. \A i \in 1..Len(w) : i \in 1..(Len(q) - n) /\ n + i \in 1..Len(q) /\ w[i] = q[n + i]
  BY <1>1, <1>2
<1> HIDE DEF w
<1>4. ASSUME NEW i \in 1..Len(w)
      PROVE  /\ after < w[i].enqueue_time
             /\ w[i].enqueue_time <= upto
             /\ \A j \in 1..Len(w) : i < j => w[i].enqueue_time < w[j].enqueue_time
             /\ n > 0 => q[n].enqueue_time < w[i].enqueue_time
  <2>1. n + i \in 1..Len(q) /\ w[i] = q[n + i]
    BY Zenon, <1>3
  <2>2. after < w[i].enqueue_time /\ w[i].enqueue_time <= upto
    BY Zenon, <2>1 DEF Ordered
  <2>3. ASSUME NEW j \in 1..Len(w), i < j PROVE w[i].enqueue_time < w[j].enqueue_time
    <3>1. n + j \in 1..Len(q) /\ w[j] = q[n + j]
      BY Zenon, <1>3
    <3>2. n + i < n + j
      BY <1>1, <1>2, <2>3
    <3> QED
      BY Zenon, <2>1, <3>1, <3>2 DEF Ordered
  <2>4. ASSUME n > 0 PROVE q[n].enqueue_time < w[i].enqueue_time
    <3>1. n \in 1..Len(q) /\ n < n + i
      BY <1>1, <1>2, <2>4
    <3> QED
      BY Zenon, <2>1, <3>1 DEF Ordered
  <2> QED
    BY Zenon, <2>2, <2>3, <2>4
<1> QED
  BY Zenon, <1>4 DEF w, Ordered

\* Appending a packet stamped with a new, larger time keeps a queue ordered.
LEMMA OrderedAppend ==
    ASSUME NEW q \in Seq(Packet), NEW after \in Nat, NEW upto \in Nat,
           Ordered(q, after, upto), after <= upto
    PROVE  Ordered(Append(q, [enqueue_time |-> upto + 1]), after, upto + 1)
<1> DEFINE rec == [enqueue_time |-> upto + 1]
           w == Append(q, rec)
<1>1. rec \in Packet /\ rec.enqueue_time = upto + 1
  BY DEF Packet
<1>2. /\ w \in Seq(Packet) /\ Len(w) = Len(q) + 1
      /\ \A i \in 1..Len(q) : w[i] = q[i]
      /\ w[Len(q) + 1] = rec
  BY <1>1, AppendProperties
<1>3. Len(q) \in Nat /\ \A i \in 1..Len(q) : q[i].enqueue_time \in Nat
  <2>1. Len(q) \in Nat
    BY Zenon, LenProperties
  <2>2. \A i \in 1..Len(q) : q[i] \in Packet
    BY Zenon, ElementOfSeq
  <2> QED
    BY Zenon, <2>1, <2>2 DEF Packet
<1> HIDE DEF w, rec
<1>4. ASSUME NEW i \in 1..Len(w)
      PROVE  /\ after < w[i].enqueue_time
             /\ w[i].enqueue_time <= upto + 1
             /\ \A j \in 1..Len(w) : i < j => w[i].enqueue_time < w[j].enqueue_time
  <2>1. CASE i \in 1..Len(q)
    <3>1. w[i] = q[i] /\ after < q[i].enqueue_time /\ q[i].enqueue_time <= upto
            /\ q[i].enqueue_time \in Nat
      BY Zenon, <1>2, <1>3, <2>1 DEF Ordered
    <3>2. ASSUME NEW j \in 1..Len(w), i < j PROVE w[i].enqueue_time < w[j].enqueue_time
      <4>1. CASE j \in 1..Len(q)
        BY Zenon, <1>2, <2>1, <3>2, <4>1 DEF Ordered
      <4>2. CASE j = Len(q) + 1
        BY <1>1, <1>2, <3>1, <4>2
      <4> QED
        BY <1>2, <1>3, <4>1, <4>2
    <3> QED
      BY <3>1, <3>2
  <2>2. CASE i = Len(q) + 1
    BY <1>1, <1>2, <1>3, <2>2
  <2> QED
    BY <1>2, <1>3, <2>1, <2>2
<1> QED
  BY Zenon, <1>4 DEF w, rec, Ordered

\* An ordered queue stays ordered when only the clock advances.
LEMMA OrderedLater ==
    ASSUME NEW q \in Seq(Packet), NEW after \in Nat, NEW upto \in Nat,
           Ordered(q, after, upto)
    PROVE  Ordered(q, after, upto + 1)
<1>1. \A i \in 1..Len(q) : q[i] \in Packet
  BY Zenon, ElementOfSeq
<1>2. \A i \in 1..Len(q) : q[i].enqueue_time \in Nat
  BY Zenon, <1>1 DEF Packet
<1> QED
  BY <1>2 DEF Ordered

-----------------------------------------------------------------------------
(* One step per action preserves L0Inv. *)

\* Overflow handling and insertion: enqueue() keeps the invariant.
LEMMA EnqueueInv ==
    ASSUME L0Inv, NEW p \in Priorities, enqueue(p)
    PROVE  L0Inv'
<1> DEFINE room == IF Full(queues) THEN OverflowDrop(queues) ELSE queues
           evicted == IF Full(queues) /\ \E r \in Rank : queues[r] # <<>> THEN 1 ELSE 0
           rec == [enqueue_time |-> clock + 1]
<1> USE DEF L0Inv
<1>1. /\ p \in Rank /\ MaxQueueDepth \in Nat /\ clock \in Nat /\ clock < MaxEnqueues
      /\ MaxEnqueues \in Nat
  BY SchedulerAssumption DEF QueuesTypeOK, enqueue
<1>2. /\ room \in [Rank -> Seq(Packet)]
      /\ TotalQueued(room) + evicted = TotalQueued(queues)
      /\ \A r \in Rank : Ordered(room[r], last_out[r], clock)
  <2>1. CASE Full(queues) /\ \E r \in Rank : queues[r] # <<>>
    <3>1. PICK v \in Rank : queues[v] # <<>> /\ room = [queues EXCEPT ![v] = Tail(@)]
      BY Zenon, <2>1, OverflowDropFacts DEF QueuesTypeOK
    <3>2. /\ queues[v] \in Seq(Packet) /\ Len(queues[v]) \in Nat /\ Len(queues[v]) > 0
          /\ last_out[v] \in Nat
      BY <3>1, LenProperties, EmptySeq DEF QueuesTypeOK
    <3>3. Tail(queues[v]) = PopFront(queues[v], 1) /\ 1 \in 0..Len(queues[v])
      BY <3>1, <3>2, TailIsSubSeq DEF PopFront
    <3>4. /\ Tail(queues[v]) \in Seq(Packet)
          /\ Len(Tail(queues[v])) = Len(queues[v]) - 1
          /\ Ordered(Tail(queues[v]), last_out[v], clock)
      BY ZenonT(30), <1>1, <3>2, <3>3, PopFrontFacts, OrderedPop DEF Fifo
    <3>5. /\ room \in [Rank -> Seq(Packet)]
          /\ room[v] = Tail(queues[v])
          /\ \A r \in Rank : r # v => room[r] = queues[r]
      BY Zenon, <3>1, <3>4 DEF QueuesTypeOK
    <3>6. \A r \in Rank : Ordered(room[r], last_out[r], clock)
      BY Zenon, <3>4, <3>5 DEF Fifo
    <3>7. TotalQueued(room) + 1 = TotalQueued(queues)
      <4> HIDE DEF room
      <4>1. Len(room[v]) = Len(queues[v]) + (-1)
        BY Zenon, <3>2, <3>4, <3>5
      <4>2. queues \in [Rank -> Seq(Packet)] /\ -1 \in Int
        BY DEF QueuesTypeOK
      <4>3. TotalQueued(room) = TotalQueued(queues) + (-1)
        BY Zenon, <3>5, <4>1, <4>2, OneQueueChanged
      <4>4. TotalQueued(queues) \in Nat
        BY Zenon, <4>2, TotalQueuedSum
      <4> QED
        BY <4>3, <4>4
    <3> QED
      BY Zenon, <2>1, <3>5, <3>6, <3>7
  <2>2. CASE ~(Full(queues) /\ \E r \in Rank : queues[r] # <<>>)
    <3>1. room = queues
      <4>1. CASE ~Full(queues)
        BY Zenon, <4>1
      <4>2. CASE Full(queues) /\ \A r \in Rank : queues[r] = <<>>
        BY Zenon, <4>2 DEF OverflowDrop
      <4> QED
        BY Zenon, <2>2, <4>1, <4>2
    <3>2. evicted = 0
      BY Zenon, <2>2
    <3>3. queues \in [Rank -> Seq(Packet)] /\ TotalQueued(queues) \in Nat
      BY Zenon, TotalQueuedSum DEF QueuesTypeOK
    <3> HIDE DEF room, evicted
    <3> QED
      BY <3>1, <3>2, <3>3 DEF Fifo
  <2> QED
    BY Zenon, <2>1, <2>2
<1>3. /\ clock' = clock + 1 /\ submitted' = submitted + 1
      /\ UNCHANGED <<target_bps, allowed_per_drain, sent_total, vetoed, last_out>>
      /\ \/ /\ Full(room) /\ queues' = room
            /\ dropped_total' = dropped_total + evicted + 1
         \/ /\ ~Full(room) /\ queues' = [room EXCEPT ![p] = Append(@, rec)]
            /\ dropped_total' = dropped_total + evicted
  BY Zenon DEF enqueue
<1>4. evicted \in Nat /\ TotalQueued(room) \in Nat /\ TotalQueued(queues) \in Nat
  BY Zenon, <1>2, TotalQueuedSum DEF QueuesTypeOK
<1>5. /\ \A r \in Rank : last_out[r] \in Nat
      /\ dropped_total \in Nat /\ sent_total \in Nat /\ submitted \in Nat
      /\ Upto(vetoed, 4) \in Nat
  BY Zenon, SumNat DEF QueuesTypeOK
<1> HIDE DEF room, evicted
<1>6. CASE Full(room) /\ queues' = room /\ dropped_total' = dropped_total + evicted + 1
  <2>1. QueuesTypeOK'
    BY <1>1, <1>2, <1>3, <1>4, <1>6 DEF QueuesTypeOK
  <2>2. DepthBound'
    BY <1>1, <1>2, <1>4, <1>6 DEF DepthBound
  <2>3. Conservation'
    <3>1. TotalQueued(queues') = TotalQueued(room) /\ Upto(vetoed', 4) = Upto(vetoed, 4)
      BY Zenon, <1>3, <1>6
    <3>2. submitted = TotalQueued(room) + evicted + dropped_total + sent_total + Upto(vetoed, 4)
      BY Zenon, <1>2, <1>4, <1>5 DEF Conservation
    <3>3. /\ submitted' = submitted + 1 /\ sent_total' = sent_total
          /\ dropped_total' = dropped_total + evicted + 1
      BY Zenon, <1>3, <1>6
    <3>4. /\ evicted \in Nat /\ TotalQueued(room) \in Nat /\ dropped_total \in Nat
          /\ sent_total \in Nat /\ Upto(vetoed, 4) \in Nat
      BY Zenon, <1>4, <1>5
    <3>5. submitted' = TotalQueued(queues') + dropped_total' + sent_total' + Upto(vetoed', 4)
      BY <3>1, <3>2, <3>3, <3>4
    <3> QED
      BY Zenon, <3>5 DEF Conservation
  <2>4. Fifo'
    <3>1. ASSUME NEW r \in Rank
          PROVE  last_out[r] <= clock + 1 /\ Ordered(room[r], last_out[r], clock + 1)
      BY SMTT(20), <1>1, <1>2, <1>5, OrderedLater DEF Fifo
    <3> QED
      BY Zenon, <1>3, <1>6, <3>1 DEF Fifo
  <2> QED
    BY Zenon, <2>1, <2>2, <2>3, <2>4
<1>7. CASE ~Full(room) /\ queues' = [room EXCEPT ![p] = Append(@, rec)]
             /\ dropped_total' = dropped_total + evicted
  <2>1. /\ rec \in Packet
        /\ Append(room[p], rec) \in Seq(Packet)
        /\ Len(Append(room[p], rec)) = Len(room[p]) + 1
    BY <1>1, <1>2, AppendProperties DEF Packet
  <2>2. /\ queues' \in [Rank -> Seq(Packet)]
        /\ queues'[p] = Append(room[p], rec)
        /\ \A r \in Rank : r # p => queues'[r] = room[r]
    BY Zenon, <1>1, <1>2, <1>7, <2>1
  <2>3. TotalQueued(queues)' = TotalQueued(room) + 1
    <3>1. Len(queues'[p]) = Len(room[p]) + 1
      BY Zenon, <2>1, <2>2
    <3>2. 1 \in Int
      OBVIOUS
    <3> QED BY Zenon, <1>1, <1>2, <2>2, <3>1, <3>2, OneQueueChanged
  <2>4. QueuesTypeOK'
    BY <1>1, <1>3, <1>4, <1>7, <2>2 DEF QueuesTypeOK
  <2>5. DepthBound'
    BY <1>1, <1>4, <1>7, <2>3 DEF DepthBound, Full
  <2>6. Conservation'
    <3>1. TotalQueued(queues') = TotalQueued(room) + 1 /\ Upto(vetoed', 4) = Upto(vetoed, 4)
      BY Zenon, <1>3, <2>3
    <3>2. submitted = TotalQueued(room) + evicted + dropped_total + sent_total + Upto(vetoed, 4)
      BY Zenon, <1>2, <1>4, <1>5 DEF Conservation
    <3>3. /\ submitted' = submitted + 1 /\ sent_total' = sent_total
          /\ dropped_total' = dropped_total + evicted
      BY Zenon, <1>3, <1>7
    <3>4. /\ evicted \in Nat /\ TotalQueued(room) \in Nat /\ dropped_total \in Nat
          /\ sent_total \in Nat /\ Upto(vetoed, 4) \in Nat
      BY Zenon, <1>4, <1>5
    <3>5. submitted' = TotalQueued(queues') + dropped_total' + sent_total' + Upto(vetoed', 4)
      BY <3>1, <3>2, <3>3, <3>4
    <3> QED
      BY Zenon, <3>5 DEF Conservation
  <2>7. Fifo'
    <3>1. ASSUME NEW r \in Rank
          PROVE  last_out[r] <= clock + 1 /\ Ordered(queues'[r], last_out[r], clock + 1)
      <4>1. CASE r = p
        <5>1. /\ room[p] \in Seq(Packet) /\ Ordered(room[p], last_out[p], clock)
              /\ last_out[p] <= clock /\ last_out[p] \in Nat
          BY Zenon, <1>1, <1>2, <1>5 DEF Fifo
        <5>2. Ordered(Append(room[p], rec), last_out[p], clock + 1)
          BY Zenon, <1>1, <5>1, OrderedAppend
        <5>3. QED
          <6>1. queues'[r] = Append(room[p], rec)
            BY Zenon, <2>2, <4>1
          <6>2. last_out[r] <= clock + 1
            BY <1>1, <4>1, <5>1
          <6> QED
            BY <4>1, <5>2, <6>1, <6>2, Zenon
      <4>2. CASE r # p
        BY <1>1, <1>2, <1>5, <2>2, <4>2, OrderedLater DEF Fifo
      <4> QED
        BY Zenon, <4>1, <4>2
    <3> QED
      BY Zenon, <1>3, <3>1 DEF Fifo
  <2> QED
    BY Zenon, <2>4, <2>5, <2>6, <2>7
<1> QED
  BY Zenon, <1>3, <1>6, <1>7

\* The limit of a drain is a natural number.
LEMMA DrainLimitNat ==
    ASSUME QueuesTypeOK, NEW max \in MaxPackets
    PROVE  DrainLimit(max) \in Nat
<1>1. max \in Nat /\ allowed_per_drain \in Nat
  BY Zenon, SchedulerAssumption DEF QueuesTypeOK
<1> QED
  BY Zenon, <1>1 DEF DrainLimit, Minimum

\* A drain, whatever its callback vetoes, keeps the invariant.
LEMMA DrainInv ==
    ASSUME L0Inv, NEW max \in MaxPackets, NEW accept \in [Rank -> Nat],
           \A r \in Rank : accept[r] <= Len(queues[r]),
           drain_with(max, accept)
    PROVE  L0Inv'
<1> DEFINE limit == DrainLimit(max)
           veto == [r \in Rank |->
                      IF accept[r] < Len(queues[r]) /\ SentUpto(accept, limit, r) < limit
                      THEN 1 ELSE 0]
           taken == [r \in Rank |-> Taken(accept, limit, r)]
           popped == [r \in Rank |-> Taken(accept, limit, r) + veto[r]]
           sent == SentUpto(accept, limit, 4)
<1>1. limit \in Nat
  BY Zenon, DrainLimitNat DEF L0Inv
<1>2. /\ queues' = [r \in Rank |-> PopFront(queues[r], popped[r])]
      /\ vetoed' = [r \in Rank |-> vetoed[r] + veto[r]]
      /\ last_out' = [r \in Rank |-> IF popped[r] = 0 THEN last_out[r]
                                     ELSE queues[r][popped[r]].enqueue_time]
      /\ sent_total' = sent_total + sent
      /\ UNCHANGED <<target_bps, allowed_per_drain, dropped_total, submitted, clock>>
  BY Zenon DEF drain_with
<1>3. \A r \in Rank : queues[r] \in Seq(Packet) /\ Len(queues[r]) \in Nat
  BY Zenon, LenProperties DEF L0Inv, QueuesTypeOK
<1> HIDE DEF limit
<1>4. ASSUME NEW r \in Rank
      PROVE  /\ veto[r] \in Nat /\ taken[r] \in Nat /\ popped[r] \in 0..Len(queues[r])
             /\ popped[r] = taken[r] + veto[r]
  <2>1. /\ Taken(accept, limit, r) \in Nat /\ Taken(accept, limit, r) <= accept[r]
        /\ SentUpto(accept, limit, r) < limit => Taken(accept, limit, r) = accept[r]
    BY Zenon, <1>1, TakenFacts
  <2>2. accept[r] \in Nat /\ Len(queues[r]) \in Nat /\ accept[r] <= Len(queues[r])
    BY Zenon, <1>3
  <2>3. /\ veto[r] = IF accept[r] < Len(queues[r]) /\ SentUpto(accept, limit, r) < limit
                      THEN 1 ELSE 0
        /\ taken[r] = Taken(accept, limit, r)
        /\ popped[r] = Taken(accept, limit, r) + veto[r]
    BY Zenon
  <2> HIDE DEF veto, taken, popped
  <2> QED
    BY <2>1, <2>2, <2>3
<1>5. veto \in [Rank -> Nat] /\ taken \in [Rank -> Nat] /\ popped \in [Rank -> Nat]
  BY <1>3, <1>4
<1>6. Upto(taken, 4) = sent /\ sent \in Nat
  <2>1. /\ sent \in Nat
        /\ sent = Taken(accept, limit, 0) + Taken(accept, limit, 1) + Taken(accept, limit, 2)
                    + Taken(accept, limit, 3) + Taken(accept, limit, 4)
    BY Zenon, <1>1, TakenFacts
  <2>2. /\ taken[0] = Taken(accept, limit, 0) /\ taken[1] = Taken(accept, limit, 1)
        /\ taken[2] = Taken(accept, limit, 2) /\ taken[3] = Taken(accept, limit, 3)
        /\ taken[4] = Taken(accept, limit, 4)
    BY DEF Rank
  <2>3. Upto(taken, 4) = taken[0] + taken[1] + taken[2] + taken[3] + taken[4]
    BY DEF Upto
  <2> HIDE DEF taken, sent
  <2> QED
    BY Zenon, <2>1, <2>2, <2>3
<1> HIDE DEF veto, taken, popped, sent
<1>7. /\ queues' \in [Rank -> Seq(Packet)]
      /\ \A r \in Rank : Len(queues'[r]) = Len(queues[r]) - popped[r]
  <2>1. ASSUME NEW r \in Rank
        PROVE  /\ PopFront(queues[r], popped[r]) \in Seq(Packet)
               /\ Len(PopFront(queues[r], popped[r])) = Len(queues[r]) - popped[r]
    BY ZenonT(30), <1>3, <1>4, PopFrontFacts
  <2> QED
    BY Zenon, <1>2, <2>1
<1>8. QueuesTypeOK'
  <2>1. ASSUME NEW r \in Rank, popped[r] # 0 PROVE queues[r][popped[r]].enqueue_time \in Nat
    <3>1. popped[r] \in 1..Len(queues[r])
      BY <1>3, <1>4, <2>1
    <3>2. queues[r][popped[r]] \in Packet
      BY Zenon, <1>3, <3>1, ElementOfSeq
    <3> QED
      BY Zenon, <3>2 DEF Packet
  <2>2. last_out' \in [Rank -> Nat]
    BY Zenon, <1>2, <2>1 DEF L0Inv, QueuesTypeOK
  <2>3. vetoed' \in [Rank -> Nat]
    BY SMTT(20), <1>2, <1>5 DEF L0Inv, QueuesTypeOK
  <2> QED
    BY <1>2, <1>6, <1>7, <2>2, <2>3 DEF L0Inv, QueuesTypeOK
<1>9. TotalQueued(queues) = TotalQueued(queues') + sent + Upto(veto, 4)
  <2>1. Upto(popped, 4) = Upto(taken, 4) + Upto(veto, 4)
    <3>1. \A r \in Rank : popped[r] = taken[r] + veto[r]
      BY Zenon, <1>4
    <3> QED
      BY ZenonT(30), <1>5, <3>1, SumAdds
  <2>2. /\ Depths(queues) \in [Rank -> Nat]
        /\ \A r \in Rank : Depths(queues)[r] = Len(queues[r])
        /\ TotalQueued(queues) = Upto(Depths(queues), 4)
    BY Zenon, DepthsFacts DEF L0Inv, QueuesTypeOK
  <2>3. /\ Depths(queues') \in [Rank -> Nat]
        /\ \A r \in Rank : Depths(queues')[r] = Len(queues'[r])
        /\ TotalQueued(queues') = Upto(Depths(queues'), 4)
    BY Zenon, <1>7, DepthsFacts
  <2>4. ASSUME NEW r \in Rank PROVE Depths(queues)[r] = Depths(queues')[r] + popped[r]
    <3>1. /\ Len(queues[r]) \in Nat /\ popped[r] \in Nat
          /\ Len(queues'[r]) = Len(queues[r]) - popped[r]
      BY Zenon, <1>3, <1>5, <1>7
    <3>2. Depths(queues)[r] = Len(queues[r]) /\ Depths(queues')[r] = Len(queues'[r])
      BY Zenon, <2>2, <2>3
    <3> QED
      BY <3>1, <3>2
  <2>5. Upto(Depths(queues), 4) = Upto(Depths(queues'), 4) + Upto(popped, 4)
    BY ZenonT(30), <1>5, <2>2, <2>3, <2>4, SumAdds
  <2>6. Upto(Depths(queues'), 4) \in Nat /\ Upto(veto, 4) \in Nat
    BY Zenon, <1>5, <2>3, SumNat
  <2> QED
    BY <1>6, <2>1, <2>2, <2>3, <2>5, <2>6
<1>10. TotalQueued(queues') \in Nat /\ Upto(veto, 4) \in Nat /\ Upto(vetoed, 4) \in Nat
  BY Zenon, <1>5, <1>7, TotalQueuedSum, SumNat DEF L0Inv, QueuesTypeOK
<1>11. DepthBound'
  BY SMTT(20), <1>6, <1>9, <1>10, SchedulerAssumption DEF L0Inv, DepthBound
<1>12. Conservation'
  <2>1. Upto(vetoed', 4) = Upto(vetoed, 4) + Upto(veto, 4)
    BY Zenon, <1>2, <1>5, <1>8, SumAdds DEF L0Inv, QueuesTypeOK
  <2>2. submitted = TotalQueued(queues) + dropped_total + sent_total + Upto(vetoed, 4)
    BY Zenon DEF L0Inv, Conservation
  <2>3. dropped_total \in Nat /\ sent_total \in Nat
    BY Zenon DEF L0Inv, QueuesTypeOK
  <2>4. submitted' = TotalQueued(queues') + dropped_total' + sent_total' + Upto(vetoed', 4)
    BY SMTT(20), <1>2, <1>6, <1>9, <1>10, <2>1, <2>2, <2>3
  <2> QED
    BY Zenon, <2>4 DEF Conservation
<1>13. Fifo'
  <2>1. ASSUME NEW r \in Rank
        PROVE  last_out'[r] <= clock /\ Ordered(queues'[r], last_out'[r], clock)
    <3>1. /\ last_out[r] \in Nat /\ clock \in Nat /\ last_out[r] <= clock
          /\ Ordered(queues[r], last_out[r], clock)
      BY DEF L0Inv, QueuesTypeOK, Fifo
    <3>2. /\ Ordered(queues'[r], last_out[r], clock)
          /\ popped[r] > 0 => Ordered(queues'[r], queues[r][popped[r]].enqueue_time, clock)
      BY Zenon, <1>2, <1>3, <1>4, <3>1, OrderedPop
    <3>3. CASE popped[r] = 0
      BY Zenon, <1>2, <3>1, <3>2, <3>3
    <3>4. CASE popped[r] # 0
      <4>1. popped[r] \in 1..Len(queues[r]) /\ popped[r] > 0
        BY <1>3, <1>4, <3>4
      <4>2. queues[r][popped[r]].enqueue_time <= clock
        BY Zenon, <3>1, <4>1 DEF Ordered
      <4> QED
        BY Zenon, <1>2, <3>2, <3>4, <4>1, <4>2
    <3> QED
      BY Zenon, <3>3, <3>4
  <2> QED
    BY Zenon, <1>2, <2>1 DEF Fifo
<1> QED
  BY Zenon, <1>8, <1>11, <1>12, <1>13 DEF L0Inv

\* The empty queues: no packets, and nothing out of order.
LEMMA EmptyQueues ==
    /\ [r \in Rank |-> <<>>] \in [Rank -> Seq(Packet)]
    /\ TotalQueued([r \in Rank |-> <<>>]) = 0
    /\ \A after, upto : Ordered(<<>>, after, upto)
<1>1. <<>> \in Seq(Packet) /\ Len(<<>>) = 0
  OBVIOUS
<1>2. [r \in Rank |-> <<>>] \in [Rank -> Seq(Packet)]
  BY Zenon, <1>1
<1>3. TotalQueued([r \in Rank |-> <<>>]) = 0
  BY <1>1 DEF TotalQueued, Depths, Upto, Rank
<1> QED
  BY <1>1, <1>2, <1>3 DEF Ordered

\* A BWE update keeps or clears each queue as a whole.
LEMMA TrimKeepsOrClears ==
    ASSUME QueuesTypeOK, NEW bps \in Targets
    PROVE  /\ TrimmedQueues(bps) \in [Rank -> Seq(Packet)]
           /\ \A r \in Rank : TrimmedQueues(bps)[r] = queues[r] \/ TrimmedQueues(bps)[r] = <<>>
<1>1. queues \in [Rank -> Seq(Packet)] /\ <<>> \in Seq(Packet)
  BY DEF QueuesTypeOK
<1> QED
  BY Zenon, <1>1 DEF TrimmedQueues

\* A BWE update keeps the invariant.
LEMMA BweInv ==
    ASSUME L0Inv, NEW bps \in Targets, on_bwe_update(bps)
    PROVE  L0Inv'
<1>1. /\ queues \in [Rank -> Seq(Packet)] /\ bps \in Nat /\ AvgPacketSize \in Nat \ {0}
      /\ MaxQueueDepth \in Nat
  BY Zenon, SchedulerAssumption DEF L0Inv, QueuesTypeOK
<1>2. /\ queues' \in [Rank -> Seq(Packet)]
      /\ \A r \in Rank : queues'[r] = queues[r] \/ queues'[r] = <<>>
  BY Zenon, TrimKeepsOrClears DEF L0Inv, on_bwe_update
<1>3. /\ TotalQueued(queues) \in Nat /\ TotalQueued(queues') \in Nat
      /\ TotalQueued(queues') <= TotalQueued(queues)
  <2>1. /\ Depths(queues) \in [Rank -> Nat]
        /\ \A r \in Rank : Depths(queues)[r] = Len(queues[r])
        /\ TotalQueued(queues) = Upto(Depths(queues), 4)
    BY Zenon, <1>1, DepthsFacts
  <2>2. /\ Depths(queues') \in [Rank -> Nat]
        /\ \A r \in Rank : Depths(queues')[r] = Len(queues'[r])
        /\ TotalQueued(queues') = Upto(Depths(queues'), 4)
    BY Zenon, <1>2, DepthsFacts
  <2>3. ASSUME NEW r \in Rank PROVE Depths(queues')[r] <= Depths(queues)[r]
    <3>1. Len(queues[r]) \in Nat /\ Len(<<>>) = 0
      BY Zenon, <1>1, LenProperties
    <3> QED
      BY <1>2, <2>1, <2>2, <3>1
  <2> QED
    BY Zenon, <2>1, <2>2, <2>3, SumMonotone, SumNat
<1>4. /\ target_bps' = bps
      /\ allowed_per_drain' = bps \div (AvgPacketSize * 8)
      /\ dropped_total' = dropped_total + TotalQueued(queues) - TotalQueued(queues')
      /\ UNCHANGED <<sent_total, submitted, vetoed, last_out, clock>>
  BY Zenon DEF on_bwe_update, bits_to_packets_per_second
<1>5. /\ dropped_total \in Nat /\ sent_total \in Nat /\ submitted \in Nat
      /\ Upto(vetoed, 4) \in Nat
  BY Zenon, SumNat DEF L0Inv, QueuesTypeOK
<1>6. allowed_per_drain' \in Nat
  <2>1. AvgPacketSize * 8 \in Nat /\ AvgPacketSize * 8 > 0
    BY <1>1
  <2> QED
    BY <1>1, <1>4, <2>1
<1>7. dropped_total' \in Nat
  BY <1>3, <1>4, <1>5
<1>8. QueuesTypeOK'
  BY Zenon, <1>1, <1>2, <1>4, <1>6, <1>7 DEF L0Inv, QueuesTypeOK
<1>9. DepthBound'
  BY <1>1, <1>3 DEF L0Inv, DepthBound
<1>10. Conservation'
  <2>1. submitted = TotalQueued(queues) + dropped_total + sent_total + Upto(vetoed, 4)
    BY Zenon DEF L0Inv, Conservation
  <2>2. Upto(vetoed', 4) = Upto(vetoed, 4)
    BY Zenon, <1>4
  <2>3. submitted' = TotalQueued(queues') + dropped_total' + sent_total' + Upto(vetoed', 4)
    BY <1>3, <1>4, <1>5, <2>1, <2>2
  <2> QED
    BY Zenon, <2>3 DEF Conservation
<1>11. Fifo'
  <2>1. ASSUME NEW r \in Rank
        PROVE  last_out[r] <= clock /\ Ordered(queues'[r], last_out[r], clock)
    BY Zenon, <1>2, EmptyQueues DEF L0Inv, Fifo
  <2> QED
    BY Zenon, <1>4, <2>1 DEF Fifo
<1> QED
  BY Zenon, <1>8, <1>9, <1>10, <1>11 DEF L0Inv

\* A step that leaves layer L0 alone keeps the invariant, whether or not the
\* clock advances.
LEMMA L1Inv ==
    ASSUME L0Inv, UNCHANGED l0,
           \/ clock' = clock
           \/ clock < MaxEnqueues /\ clock' = clock + 1
    PROVE  L0Inv'
<1>1. UNCHANGED <<queues, target_bps, allowed_per_drain, dropped_total, sent_total, submitted,
                  vetoed, last_out>>
  BY Zenon DEF l0
<1>2. clock \in Nat /\ MaxEnqueues \in Nat /\ clock' \in 0..MaxEnqueues
  BY SchedulerAssumption DEF L0Inv, QueuesTypeOK
<1>3. QueuesTypeOK'
  BY Zenon, <1>1, <1>2 DEF L0Inv, QueuesTypeOK
<1>4. DepthBound'
  BY Zenon, <1>1 DEF L0Inv, DepthBound
<1>5. Conservation'
  BY Zenon, <1>1 DEF L0Inv, Conservation
<1>6. Fifo'
  <2>1. ASSUME NEW r \in Rank
        PROVE  /\ last_out[r] <= clock /\ last_out[r] \in Nat
               /\ Ordered(queues[r], last_out[r], clock)
               /\ Ordered(queues[r], last_out[r], clock + 1)
    BY Zenon, <1>2, OrderedLater DEF L0Inv, QueuesTypeOK, Fifo
  <2>2. CASE clock' = clock
    BY Zenon, <1>1, <2>1, <2>2 DEF Fifo
  <2>3. CASE clock' = clock + 1
    <3>1. \A r \in Rank : last_out[r] <= clock + 1
      BY <1>2, <2>1
    <3> QED
      BY Zenon, <1>1, <2>1, <2>3, <3>1 DEF Fifo
  <2> QED
    BY Zenon, <2>2, <2>3
<1> QED
  BY Zenon, <1>3, <1>4, <1>5, <1>6 DEF L0Inv

\* The initial state, and the state after reset(), satisfy the invariant.
LEMMA InitInv ==
    ASSUME Init
    PROVE  L0Inv
<1>1. Upto(vetoed, 4) = 0 /\ vetoed \in [Rank -> Nat] /\ last_out \in [Rank -> Nat]
  BY DEF Init, Upto, Rank
<1>2. /\ queues \in [Rank -> Seq(Packet)] /\ TotalQueued(queues) = 0
      /\ \A r \in Rank : Ordered(queues[r], last_out[r], clock)
  BY Zenon, EmptyQueues DEF Init
<1>3. QueuesTypeOK
  BY <1>1, <1>2, SchedulerAssumption DEF Init, QueuesTypeOK
<1>4. DepthBound /\ Conservation
  BY <1>1, <1>2, SchedulerAssumption DEF Init, DepthBound, Conservation
<1>5. Fifo
  BY <1>1, <1>2 DEF Init, Fifo
<1> QED
  BY Zenon, <1>3, <1>4, <1>5 DEF L0Inv

LEMMA ResetInv ==
    ASSUME L0Inv, reset
    PROVE  L0Inv'
<1>1. Upto(vetoed', 4) = 0 /\ vetoed' \in [Rank -> Nat]
  BY DEF reset, Upto, Rank
<1>2. /\ queues' \in [Rank -> Seq(Packet)] /\ TotalQueued(queues') = 0
      /\ \A r \in Rank : Ordered(queues'[r], last_out[r], clock)
  BY Zenon, EmptyQueues DEF reset
<1>3. QueuesTypeOK'
  BY Zenon, <1>1, <1>2 DEF L0Inv, QueuesTypeOK, reset
<1>4. (DepthBound /\ Conservation)'
  BY <1>1, <1>2, SchedulerAssumption DEF reset, DepthBound, Conservation
<1>5. Fifo'
  BY Zenon, <1>2 DEF L0Inv, Fifo, reset
<1> QED
  BY Zenon, <1>3, <1>4, <1>5 DEF L0Inv

\* The choices of a drain: a limit, and how much of each queue is accepted.
LEMMA DrainChoices ==
    ASSUME QueuesTypeOK, Drain
    PROVE  \E max \in MaxPackets, accept \in [Rank -> Nat] :
               (\A r \in Rank : accept[r] <= Len(queues[r])) /\ drain_with(max, accept)
<1>1. PICK max \in MaxPackets,
           a0 \in 0..Len(queues[0]), a1 \in 0..Len(queues[1]), a2 \in 0..Len(queues[2]),
           a3 \in 0..Len(queues[3]), a4 \in 0..Len(queues[4]) :
        drain_with(max, [r \in Rank |-> CASE r = 0 -> a0 [] r = 1 -> a1 [] r = 2 -> a2
                                          [] r = 3 -> a3 [] r = 4 -> a4])
  BY Zenon DEF Drain
<1> DEFINE accept == [r \in Rank |-> CASE r = 0 -> a0 [] r = 1 -> a1 [] r = 2 -> a2
                                        [] r = 3 -> a3 [] r = 4 -> a4]
<1>2. \A r \in Rank : Len(queues[r]) \in Nat
  BY Zenon, LenProperties DEF QueuesTypeOK
<1>3. accept \in [Rank -> Nat] /\ \A r \in Rank : accept[r] <= Len(queues[r])
  BY <1>2 DEF Rank
<1>4. drain_with(max, accept)
  BY Zenon, <1>1
<1> HIDE DEF accept
<1> QED
  BY Zenon, <1>3, <1>4

\* Every step keeps the invariant.
LEMMA NextInv ==
    ASSUME L0Inv, [Next]_vars
    PROVE  L0Inv'
<1>1. CASE \E p \in Priorities : enqueue(p)
  BY Zenon, <1>1, EnqueueInv
<1>2. CASE Drain
  BY Zenon, <1>2, DrainChoices, DrainInv DEF L0Inv
<1>3. CASE \E bps \in Targets : on_bwe_update(bps)
  BY Zenon, <1>3, BweInv
<1>4. CASE \E s \in Streams, level \in StreamRank : set_stream_priority(s, level)
  BY Zenon, <1>4, L1Inv DEF set_stream_priority
<1>5. CASE \E s \in Streams : enqueue_for_stream(s)
  BY Zenon, <1>5, L1Inv DEF enqueue_for_stream
<1>6. CASE SelectNext
  <2>1. ASSUME NEW max, NEW accept, select_next_packet(max, accept)
        PROVE  UNCHANGED <<l0, clock>>
    BY <2>1, Zenon DEF select_next_packet
  <2> QED
    BY Zenon, <1>6, <2>1, L1Inv DEF SelectNext
<1>7. CASE reset
  BY Zenon, <1>7, ResetInv
<1>8. CASE UNCHANGED vars
  BY Zenon, <1>8, L1Inv DEF vars
<1> QED
  BY Zenon, <1>1, <1>2, <1>3, <1>4, <1>5, <1>6, <1>7, <1>8 DEF Next

-----------------------------------------------------------------------------
(* What a step may never do. *)

\* The limit is not used up above a queue that yields something.
LEMMA TakenLater ==
    ASSUME NEW accept \in [Rank -> Nat], NEW limit \in Nat, NEW r \in Rank, NEW s \in Rank,
           r < s, Taken(accept, limit, s) # 0
    PROVE  SentUpto(accept, limit, r) < limit
<1>1. accept[0] \in Nat /\ accept[1] \in Nat /\ accept[2] \in Nat /\ accept[3] \in Nat /\ accept[4] \in Nat
  BY DEF Rank
<1>2. s # 0 /\ s - 1 \in Rank /\ r <= s - 1
  BY SMTT(20) DEF Rank
<1>3. \A k \in Rank : Upto(accept, k) \in Nat /\ \A l \in Rank : k <= l => Upto(accept, k) <= Upto(accept, l)
  BY <1>1 DEF Upto, Rank
<1>4. Taken(accept, limit, s) = Minimum(limit, Upto(accept, s)) - Minimum(limit, Upto(accept, s - 1))
  BY Zenon, <1>2 DEF Taken, SentUpto
<1>5. Upto(accept, s - 1) < limit
  <2>1. Upto(accept, s - 1) \in Nat /\ Upto(accept, s) \in Nat /\ Upto(accept, s - 1) <= Upto(accept, s)
    BY <1>2, <1>3 DEF Rank
  <2> QED BY SMTT(20), <1>4, <2>1 DEF Minimum
<1>6. Upto(accept, r) \in Nat /\ Upto(accept, s - 1) \in Nat /\ Upto(accept, r) <= Upto(accept, s - 1)
  BY Zenon, <1>2, <1>3
<1> QED BY <1>5, <1>6 DEF SentUpto, Minimum

\* A drain without a veto reaches a queue only when the ones above are empty.
LEMMA DrainStrict ==
    ASSUME QueuesTypeOK, NEW max \in MaxPackets, NEW accept \in [Rank -> Nat],
           \A r \in Rank : accept[r] <= Len(queues[r]),
           drain_with(max, accept), vetoed' = vetoed,
           NEW r \in Rank, NEW s \in Rank, r < s, queues'[s] # queues[s]
    PROVE  queues'[r] = <<>>
<1> DEFINE limit == DrainLimit(max)
           veto(k) == IF accept[k] < Len(queues[k]) /\ SentUpto(accept, limit, k) < limit
                      THEN 1 ELSE 0
<1>1. limit \in Nat
  BY Zenon, DrainLimitNat
<1>2. \A k \in Rank : /\ queues'[k] = PopFront(queues[k], Taken(accept, limit, k) + veto(k))
                      /\ vetoed'[k] = vetoed[k] + veto(k)
  BY Zenon DEF drain_with
<1>3. \A k \in Rank : queues[k] \in Seq(Packet) /\ Len(queues[k]) \in Nat /\ vetoed[k] \in Nat
  BY Zenon, LenProperties DEF QueuesTypeOK
<1> HIDE DEF limit
<1>4. \A k \in Rank : veto(k) = 0
  <2> SUFFICES ASSUME NEW k \in Rank PROVE veto(k) = 0
    BY Zenon
  <2>1. veto(k) \in Nat /\ vetoed[k] = vetoed[k] + veto(k)
    BY Zenon, <1>2
  <2> HIDE DEF veto
  <2> QED BY SMTT(20), <1>3, <2>1
<1>5. \A k \in Rank : SentUpto(accept, limit, k) < limit => accept[k] = Len(queues[k])
  BY SMTT(20), <1>3, <1>4
<1> HIDE DEF veto
<1>6. \A k \in Rank : queues'[k] = PopFront(queues[k], Taken(accept, limit, k))
  <2> SUFFICES ASSUME NEW k \in Rank PROVE Taken(accept, limit, k) + veto(k) = Taken(accept, limit, k)
    BY Zenon, <1>2
  <2>1. Taken(accept, limit, k) \in Nat
    BY Zenon, <1>1, TakenFacts
  <2> QED BY <1>4, <2>1
<1>7. Taken(accept, limit, s) # 0
  <2> SUFFICES ASSUME Taken(accept, limit, s) = 0 PROVE FALSE
    BY Zenon
  <2>1. queues'[s] = SubSeq(queues[s], 1, Len(queues[s]))
    <3>1. queues'[s] = PopFront(queues[s], 0)
      BY Zenon, <1>6
    <3> QED BY <3>1 DEF PopFront
  <2>2. SubSeq(queues[s], 1, Len(queues[s])) = queues[s]
    BY <1>3
  <2> QED BY Zenon, <2>1, <2>2
<1>8. SentUpto(accept, limit, r) < limit
  BY Zenon, <1>1, <1>7, TakenLater
<1>9. Taken(accept, limit, r) = Len(queues[r])
  BY Zenon, <1>1, <1>5, <1>8, TakenFacts
<1>10. queues'[r] = PopFront(queues[r], Len(queues[r])) /\ Len(queues[r]) \in 0..Len(queues[r])
  BY SMTT(20), <1>3, <1>6, <1>9
<1>11. Len(queues'[r]) = 0 /\ queues'[r] \in Seq(Packet)
  <2>1. Len(queues'[r]) = Len(queues[r]) - Len(queues[r]) /\ queues'[r] \in Seq(Packet)
    BY ZenonT(30), <1>3, <1>10, PopFrontFacts
  <2> QED BY <1>3, <2>1
<1> QED BY <1>11

\* The bytes below kControl, by queue.
LEMMA NonControlSum ==
    ASSUME NEW qs \in [Rank -> Seq(Packet)]
    PROVE  NonControlBytes(qs) = Len(qs[1]) * AvgPacketSize + Len(qs[2]) * AvgPacketSize
                                   + Len(qs[3]) * AvgPacketSize + Len(qs[4]) * AvgPacketSize
<1> DEFINE l(r) == Len(qs[r])
<1>1. l(0) \in Nat /\ l(1) \in Nat /\ l(2) \in Nat /\ l(3) \in Nat /\ l(4) \in Nat
  BY TotalQueuedSum DEF Rank
<1>2. \A z, a, b, c, d \in Nat : z + a + b + c + d - z = a + b + c + d
  OBVIOUS
<1>3. TotalQueued(qs) = l(0) + l(1) + l(2) + l(3) + l(4)
  BY Zenon, TotalQueuedSum
<1> HIDE DEF l
<1>4. TotalQueued(qs) - l(0) = l(1) + l(2) + l(3) + l(4)
  BY SMTT(20), <1>1, <1>2, <1>3
<1>5. \A a, b, c, d, m \in Nat : (a + b + c + d) * m = a * m + b * m + c * m + d * m
  BY SMTT(30)
<1>6. AvgPacketSize \in Nat
  BY Zenon, SchedulerAssumption
<1>7. NonControlBytes(qs) = (l(1) + l(2) + l(3) + l(4)) * AvgPacketSize
  BY Zenon, <1>4 DEF NonControlBytes, kControl, l
<1>8. NonControlBytes(qs) = l(1) * AvgPacketSize + l(2) * AvgPacketSize + l(3) * AvgPacketSize + l(4) * AvgPacketSize
  BY SMTT(20), <1>1, <1>5, <1>6, <1>7
<1> QED BY Zenon, <1>8 DEF l

\* What is left below kControl after a BWE update.
LEMMA TrimFits ==
    ASSUME QueuesTypeOK, NEW bps \in Targets
    PROVE  /\ NonControlBytes(TrimmedQueues(bps)) <= BudgetBytes(bps)
           /\ TrimmedQueues(bps)[kControl] = queues[kControl]
<1> DEFINE qs == TrimmedQueues(bps)
           B == BudgetBytes(bps)
<1>1. /\ queues \in [Rank -> Seq(Packet)] /\ qs \in [Rank -> Seq(Packet)]
      /\ AvgPacketSize \in Nat /\ bps \in Nat
  BY Zenon, TrimKeepsOrClears, SchedulerAssumption DEF QueuesTypeOK
<1>2. B \in Nat
  BY <1>1 DEF BudgetBytes, kDrainsPerSecond
<1>3. qs[kControl] = queues[kControl]
  BY <1>1 DEF TrimmedQueues, kControl, Rank
<1>4. \A r \in Rank : Len(queues[r]) \in Nat /\ Len(qs[r]) \in Nat
  BY Zenon, <1>1, LenProperties
<1>5. \A r \in Rank : QueueBytes(r) \in Nat /\ Len(qs[r]) * AvgPacketSize \in Nat
  BY <1>1, <1>4 DEF QueueBytes
<1>6. NonControlBytes(qs) = Len(qs[1]) * AvgPacketSize + Len(qs[2]) * AvgPacketSize
                              + Len(qs[3]) * AvgPacketSize + Len(qs[4]) * AvgPacketSize
  BY Zenon, <1>1, NonControlSum
<1>7. CASE bps = 0
  <2>1. \A r \in Rank \ {0} : Len(qs[r]) = 0
    BY Zenon, <1>7 DEF TrimmedQueues, kControl
  <2>2. Len(qs[1]) = 0 /\ Len(qs[2]) = 0 /\ Len(qs[3]) = 0 /\ Len(qs[4]) = 0
    BY <2>1 DEF Rank
  <2> HIDE DEF qs, B
  <2>3. NonControlBytes(qs) = 0
    BY <1>1, <1>6, <2>2
  <2> QED BY SMTT(20), <1>2, <1>3, <2>3 DEF qs, B
<1>8. CASE bps # 0 /\ NonControlBytes(queues) <= B
  BY Zenon, <1>3, <1>8 DEF TrimmedQueues
<1>9. CASE bps # 0 /\ ~(NonControlBytes(queues) <= B)
  <2>1. \A r \in Rank \ {0} :
          qs[r] = IF QueueBytes(r) <= RemainingBudget(bps, r) THEN queues[r] ELSE <<>>
    BY Zenon, <1>9 DEF TrimmedQueues, kControl
  <2>2. \A r \in Rank \ {0} :
          Len(qs[r]) * AvgPacketSize = IF QueueBytes(r) <= RemainingBudget(bps, r) THEN QueueBytes(r) ELSE 0
    <3> SUFFICES ASSUME NEW r \in Rank \ {0}
                 PROVE  Len(qs[r]) * AvgPacketSize
                            = IF QueueBytes(r) <= RemainingBudget(bps, r) THEN QueueBytes(r) ELSE 0
      BY Zenon
    <3>1. qs[r] = IF QueueBytes(r) <= RemainingBudget(bps, r) THEN queues[r] ELSE <<>>
      BY Zenon, <2>1
    <3>2. Len(<<>>) * AvgPacketSize = 0
      BY <1>1
    <3> HIDE DEF qs
    <3> QED BY <3>1, <3>2 DEF QueueBytes
  <2>3. /\ RemainingBudget(bps, 4) = B
        /\ RemainingBudget(bps, 3) = Spend(B, QueueBytes(4))
        /\ RemainingBudget(bps, 2) = Spend(Spend(B, QueueBytes(4)), QueueBytes(3))
        /\ RemainingBudget(bps, 1) = Spend(Spend(Spend(B, QueueBytes(4)), QueueBytes(3)), QueueBytes(2))
    BY DEF RemainingBudget
  <2> HIDE DEF qs, B
  <2>4. 1 \in Rank \ {0} /\ 2 \in Rank \ {0} /\ 3 \in Rank \ {0} /\ 4 \in Rank \ {0}
    BY DEF Rank
  <2> DEFINE k(r) == Len(qs[r]) * AvgPacketSize
  <2>5. /\ k(4) = IF QueueBytes(4) <= B THEN QueueBytes(4) ELSE 0
        /\ k(3) = IF QueueBytes(3) <= Spend(B, QueueBytes(4)) THEN QueueBytes(3) ELSE 0
        /\ k(2) = IF QueueBytes(2) <= Spend(Spend(B, QueueBytes(4)), QueueBytes(3)) THEN QueueBytes(2) ELSE 0
        /\ k(1) = IF QueueBytes(1) <= Spend(Spend(Spend(B, QueueBytes(4)), QueueBytes(3)), QueueBytes(2))
                  THEN QueueBytes(1) ELSE 0
    BY Zenon, <2>2, <2>3, <2>4
  <2>6. /\ k(1) \in Nat /\ k(2) \in Nat /\ k(3) \in Nat /\ k(4) \in Nat
        /\ QueueBytes(1) \in Nat /\ QueueBytes(2) \in Nat /\ QueueBytes(3) \in Nat /\ QueueBytes(4) \in Nat
    BY Zenon, <1>5, <2>4
  <2>7. NonControlBytes(qs) = k(1) + k(2) + k(3) + k(4)
    BY Zenon, <1>6
  <2> HIDE DEF k
  <2>8. k(1) + k(2) + k(3) + k(4) <= B
    BY <1>2, <2>5, <2>6 DEF Spend
  <2>9. NonControlBytes(qs) <= B
    BY Zenon, <2>7, <2>8
  <2> QED BY Zenon, <1>3, <2>9 DEF qs, B
<1> QED BY Zenon, <1>7, <1>8, <1>9

-----------------------------------------------------------------------------
(* The results. *)

\* The inductive invariant holds in every reachable state.
THEOREM L0Invariant == Spec => []L0Inv
<1>1. Init => L0Inv
  BY Zenon, InitInv
<1>2. L0Inv /\ [Next]_vars => L0Inv'
  BY Zenon, NextInv
<1> QED
  BY <1>1, <1>2, PTL DEF Spec

\* The fields of layer L0 keep their types; in particular dropped_total_ never
\* goes below zero, so a trim never counts more packets than it removed.
THEOREM TypeCorrect == Spec => []QueuesTypeOK
BY L0Invariant, PTL DEF L0Inv

\* The queues never hold more than max_queue_depth packets (enqueue_locked).
THEOREM DepthBounded == Spec => []DepthBound
BY L0Invariant, PTL DEF L0Inv

\* Every packet handed to enqueue() is accounted for exactly once.
THEOREM PacketsConserved == Spec => []Conservation
BY L0Invariant, PTL DEF L0Inv

\* Within a priority no packet overtakes another.
THEOREM FifoWithinPriority == Spec => []Fifo
BY L0Invariant, PTL DEF L0Inv

\* A drain sends a packet of a queue only when the queues of higher priority are
\* empty, unless the callback refuses one (drain_with).
THEOREM PriorityIsStrict == Spec => StrictPriority
<1> DEFINE Strict == sent_total' > sent_total /\ vetoed' = vetoed =>
              \A r, s \in Rank : r < s /\ queues'[s] # queues[s] => queues'[r] = <<>>
<1>1. L0Inv /\ [Next]_vars => [Strict]_vars
  <2> SUFFICES ASSUME L0Inv, Next, sent_total' > sent_total, vetoed' = vetoed,
                      NEW r \in Rank, NEW s \in Rank, r < s, queues'[s] # queues[s]
               PROVE  queues'[r] = <<>>
    BY Zenon
  <2>1. sent_total \in Nat
    BY Zenon DEF L0Inv, QueuesTypeOK
  <2>2. sent_total' # sent_total /\ sent_total' # 0
    BY <2>1
  <2>3. ASSUME NEW max, NEW accept, select_next_packet(max, accept) PROVE UNCHANGED sent_total
    BY <2>3, Zenon DEF select_next_packet, l0
  <2>4. Drain
    BY Zenon, <2>2, <2>3 DEF Next, enqueue, on_bwe_update, set_stream_priority, enqueue_for_stream,
                      SelectNext, reset, l0
  <2>5. QueuesTypeOK
    BY Zenon DEF L0Inv
  <2> QED BY Zenon, <2>4, <2>5, DrainChoices, DrainStrict
<1> QED BY <1>1, L0Invariant, PTL DEF Spec, StrictPriority

\* After a BWE update the packets left below kControl fit the bytes of one
\* drain, for every packet size and rate, and control packets are kept
\* (on_bwe_update).
THEOREM TrimAlwaysFits == Spec => BweTrimFits
<1> DEFINE Fits == \A bps \in Targets :
              on_bwe_update(bps) =>
                /\ NonControlBytes(queues') <= BudgetBytes(bps)
                /\ queues'[kControl] = queues[kControl]
<1>1. L0Inv /\ [Next]_vars => [Fits]_vars
  BY TrimFits DEF L0Inv, on_bwe_update
<1> QED BY <1>1, L0Invariant, PTL DEF Spec, BweTrimFits
=============================================================================
