------------------------------ MODULE ArqRawUdp ------------------------------
(***************************************************************************)
(* The selective-repeat ARQ over a UDP socket (src/raw_udp): the transmit  *)
(* half of one ArqRawUdp, the receive half of its peer, and the network    *)
(* between them.  An endpoint's two halves share no state but the socket   *)
(* and the statistics, so one direction stands for both.                   *)
(*                                                                         *)
(* Steps.  send() is three steps, because the sequence number is taken     *)
(* before tx_mu_ is locked and the frame is written after it is released.  *)
(* One iteration of recv_main is one step: its thread is the only writer   *)
(* of the receive state, and close() joins it first.  One pass of          *)
(* retransmit_main is one step: its writes after the unlock are frames     *)
(* that the network may delay anyway.                                      *)
(*                                                                         *)
(* Abstractions.  A payload is the number of its send() call.  Time is     *)
(* left out: at every pass of the retransmit thread any set of pending     *)
(* packets may have outlived its RTO.  RawUdpStats is left out.            *)
(* advance_rx_window_after_insert() has no caller.  SeqSpace stands for 2^16 *)
(* and AckBits for kSelectiveAckBits = 32.                                 *)
(***************************************************************************)
EXTENDS Integers, Sequences, FiniteSets, Functions

CONSTANTS
    SeqSpace,           \* size of the sequence space
    AckBits,            \* kSelectiveAckBits
    Window,             \* RawUdpConfig::rx_window_packets, of both endpoints
    Callers,            \* threads that call send()
    FirstSeq,           \* tx_seq_ at the start: 0, or later for a sender that outlived a peer
    Links               \* the configurations and networks a behaviour may start with

ASSUME ArqAssumption ==
    /\ SeqSpace \in Nat /\ AckBits \in Nat /\ Window \in Nat \ {0}
    /\ 2 * Window <= SeqSpace /\ 2 * AckBits <= SeqSpace
    /\ FirstSeq \in 0..(SeqSpace - 1)
    /\ \A l \in Links :
          /\ l.callers \subseteq Callers /\ l.max_retransmits \in Nat
          /\ l.lossy \in BOOLEAN /\ l.reordering \in BOOLEAN
          /\ l.max_dups \in Nat /\ l.max_sends \in Nat /\ l.max_closes \in Nat

\* A number is not drawn again while a frame that carries it may still arrive:
\* a behaviour stays within one cycle of the sequence space.
ASSUME OneCycle == \A l \in Links : l.max_sends + Window <= SeqSpace

VARIABLES
    link,               \* configuration and network, fixed
    \* The transmitting endpoint.
    tx_opened, tx_seq, tx_pending,
    caller,             \* by thread: where it is in send(), and with which packet
    \* The receiving endpoint.
    rx_opened, rx_initialized, rx_base_seq,
    rx_buffer,          \* map from sequence number to payload
    rx_delivered,
    \* The network, per direction, in the order of the writes.
    data, acks,
    \* History.
    sends,              \* send() calls so far
    accepted,           \* payloads for which send() returned kOk, in order
    acked,              \* payloads erased from tx_pending_ by an ACK
    abandoned,          \* payloads erased because max_retransmits was reached
    delivered,          \* payloads pushed to rx_delivered_, in order
    received,           \* payloads handed out by recv(), in order
    dups, closes

tx == <<tx_opened, tx_seq, tx_pending, caller, sends, accepted, acked, abandoned>>
rx == <<rx_opened, rx_initialized, rx_base_seq, rx_buffer, rx_delivered, delivered, received>>
arqVars == <<tx, rx, data, acks, dups, closes, link>>

MaxRetransmits == link.max_retransmits  \* RawUdpConfig::max_retransmits
Lossy == link.lossy            \* the network, or a closed socket, may lose frames, ...
Reordering == link.reordering  \* ... deliver them out of order, ...
MaxDups == link.max_dups       \* ... and duplicate this many (bound)
MaxSends == link.max_sends     \* bound on the send() calls of a behaviour
MaxCloses == link.max_closes   \* bound on the close() calls of a behaviour

Seqs == 0..(SeqSpace - 1)
ArqPayloads == 1..MaxSends
Frame == [seq : Seqs, payload : ArqPayloads]
AckFrame == [cumulative_ack : Seqs, bitmap : SUBSET (1..AckBits)]
PendingPacket == [seq : Seqs, payload : ArqPayloads, retransmit_count : 0..MaxRetransmits]
IdleCall == [at |-> "idle"]

-----------------------------------------------------------------------------
(* Sequence arithmetic. *)

SeqDiff(a, b) == (a - b) % SeqSpace
seq_after(a, b) == SeqDiff(a, b) < SeqSpace \div 2

seq_in_window(seq, base) == SeqDiff(seq, base) < Window

-----------------------------------------------------------------------------
ArqInit ==
    /\ link \in Links
    /\ tx_opened = FALSE /\ tx_seq = FirstSeq /\ tx_pending = <<>>
    /\ caller = [c \in Callers |-> IdleCall]
    /\ rx_opened = FALSE /\ rx_initialized = FALSE /\ rx_base_seq = 0
    /\ rx_buffer = <<>> /\ rx_delivered = <<>>
    /\ data = <<>> /\ acks = <<>>
    /\ sends = 0 /\ accepted = <<>> /\ acked = {} /\ abandoned = {}
    /\ delivered = <<>> /\ received = <<>>
    /\ dups = 0 /\ closes = 0

open_tx ==
    /\ ~tx_opened
    /\ tx_opened' = TRUE
    /\ UNCHANGED <<tx_seq, tx_pending, caller, sends, accepted, acked, abandoned,
                   rx, data, acks, dups, closes, link>>

\* close() forgets the pending packets but not tx_seq_.
close_tx ==
    /\ tx_opened /\ closes < MaxCloses
    /\ tx_opened' = FALSE
    /\ tx_pending' = <<>>
    /\ closes' = closes + 1
    /\ UNCHANGED <<tx_seq, caller, sends, accepted, acked, abandoned, rx, data, acks, dups, link>>

open_rx ==
    /\ ~rx_opened
    /\ rx_opened' = TRUE
    /\ UNCHANGED <<tx, rx_initialized, rx_base_seq, rx_buffer, rx_delivered, delivered, received,
                   data, acks, dups, closes, link>>

\* Mutant: close() also forgets where the sequence stood.
close_rx_ForgetsBase ==
    /\ rx_opened /\ closes < MaxCloses
    /\ rx_opened' = FALSE
    /\ rx_initialized' = FALSE
    /\ rx_buffer' = <<>>
    /\ rx_delivered' = <<>>
    /\ closes' = closes + 1
    /\ UNCHANGED <<tx, rx_base_seq, delivered, received, data, acks, dups, link>>

\* close() forgets what was buffered and what recv() has not fetched yet, but
\* not rx_initialized_ and rx_base_seq_.
close_rx ==
    /\ rx_opened /\ closes < MaxCloses
    /\ rx_opened' = FALSE
    /\ rx_buffer' = <<>>
    /\ rx_delivered' = <<>>
    /\ closes' = closes + 1
    /\ UNCHANGED <<tx, rx_initialized, rx_base_seq, delivered, received, data, acks, dups, link>>

-----------------------------------------------------------------------------
(* send(), by thread c. *)

\* opened_ is tested, then a sequence number is taken.
SendFrame(c) ==
    /\ c \in link.callers
    /\ caller[c] = IdleCall /\ tx_opened /\ sends < MaxSends
    /\ sends' = sends + 1
    /\ tx_seq' = (tx_seq + 1) % SeqSpace
    /\ caller' = [caller EXCEPT ![c] = [at |-> "framed", seq |-> tx_seq, payload |-> sends + 1]]
    /\ UNCHANGED <<tx_opened, tx_pending, accepted, acked, abandoned, rx, data, acks, dups, closes, link>>

WindowFull == Len(tx_pending) >= Window

\* Under tx_mu_: refuse the packet, its number spent, or make it pending.
SendPush(c) ==
    /\ caller[c].at = "framed"
    /\ IF WindowFull
       THEN /\ caller' = [caller EXCEPT ![c] = IdleCall]
            /\ UNCHANGED <<tx_pending, accepted>>
       ELSE /\ caller' = [caller EXCEPT ![c].at = "pushed"]
            /\ tx_pending' = Append(tx_pending, [seq |-> caller[c].seq,
                                                 payload |-> caller[c].payload,
                                                 retransmit_count |-> 0])
            /\ accepted' = Append(accepted, caller[c].payload)
    /\ UNCHANGED <<tx_opened, tx_seq, sends, acked, abandoned, rx, data, acks, dups, closes, link>>

\* The write, unless the socket has gone in the meantime.
SendWire(c) ==
    /\ caller[c].at = "pushed"
    /\ caller' = [caller EXCEPT ![c] = IdleCall]
    /\ data' = IF tx_opened
               THEN Append(data, [seq |-> caller[c].seq, payload |-> caller[c].payload])
               ELSE data
    /\ UNCHANGED <<tx_opened, tx_seq, tx_pending, sends, accepted, acked, abandoned,
                   rx, acks, dups, closes, link>>

-----------------------------------------------------------------------------
(* retransmit_main and apply_ack_frame. *)

\* The loop over a deque of n packets that visits the positions in I (one
\* sequence), and what it collects.
InOrder(n, I) ==
    {ix \in UNION {[1..k -> I] : k \in 0..n} :
        /\ \A j, k \in DOMAIN ix : j < k => ix[j] < ix[k]
        /\ \A i \in I : \E k \in DOMAIN ix : ix[k] = i}
At(s, ix) == [k \in DOMAIN ix |-> s[ix[k]]]

\* One pass, at which the packets at the positions in due have timed out.
retransmit_main(due) ==
    LET spent == {i \in due : tx_pending[i].retransmit_count >= MaxRetransmits}
        again == due \ spent
        marked == [i \in 1..Len(tx_pending) |->
                     IF i \in again THEN [tx_pending[i] EXCEPT !.retransmit_count = @ + 1]
                     ELSE tx_pending[i]]
        frames == [i \in 1..Len(tx_pending) |->
                     [seq |-> tx_pending[i].seq, payload |-> tx_pending[i].payload]]
    IN
    /\ tx_opened
    /\ \E kept \in InOrder(Len(tx_pending), (1..Len(tx_pending)) \ spent) : tx_pending' = At(marked, kept)
    /\ abandoned' = abandoned \union {tx_pending[i].payload : i \in spent}
    /\ \E sent \in InOrder(Len(tx_pending), again) : data' = data \o At(frames, sent)
    /\ UNCHANGED <<tx_opened, tx_seq, caller, sends, accepted, acked, rx, acks, dups, closes, link>>

Retransmit == \E due \in SUBSET (1..Len(tx_pending)) : due # {} /\ retransmit_main(due)

\* A pending packet is acknowledged when it is the cumulative ACK, a set bit
\* of the bitmap, or anything before the cumulative ACK.
Acknowledges(a, seq) ==
    \/ seq = a.cumulative_ack
    \/ seq_after(seq, a.cumulative_ack) /\ SeqDiff(seq, a.cumulative_ack) \in a.bitmap
    \/ ~seq_after(seq, a.cumulative_ack)

apply_ack_frame(a) ==
    /\ \E kept \in InOrder(Len(tx_pending),
                            {i \in 1..Len(tx_pending) : ~Acknowledges(a, tx_pending[i].seq)}) :
          tx_pending' = At(tx_pending, kept)
    /\ acked' = acked \union
                  {p.payload : p \in {q \in Range(tx_pending) : Acknowledges(a, q.seq)}}
    /\ UNCHANGED <<tx_opened, tx_seq, caller, sends, accepted, abandoned>>

-----------------------------------------------------------------------------
(* recv_main: one frame from the socket. *)

WithoutKeys(map, ks) == [k \in DOMAIN map \ ks |-> map[k]]

\* The walk over the buffer after the in-order packet seq: it starts at seq
\* itself, and moves the base one past the last of the n entries it delivers.
WalkEnds(seq, n) ==
    /\ \A j \in 0..(n - 1) : (seq + j) % SeqSpace \in DOMAIN rx_buffer
    /\ (seq + n) % SeqSpace \notin DOMAIN rx_buffer
Walked(seq, n) == [j \in 1..n |-> rx_buffer[(seq + j - 1) % SeqSpace]]

HandUp(payloads) ==
    /\ rx_delivered' = rx_delivered \o payloads
    /\ delivered' = delivered \o payloads

\* Out of order: keep the packet for later.
BufferFrame(f) ==
    /\ rx_buffer' = [k \in DOMAIN rx_buffer \union {f.seq} |->
                       IF k = f.seq THEN f.payload ELSE rx_buffer[k]]
    /\ UNCHANGED <<rx_base_seq, rx_delivered, delivered>>

\* Mutant: what was delivered already is handed up again.
IgnoreFrame_HandsUp(f) == HandUp(<<f.payload>>) /\ UNCHANGED <<rx_base_seq, rx_buffer>>

\* A duplicate, or a packet outside the window.
IgnoreFrame(f) == UNCHANGED <<rx_base_seq, rx_buffer, rx_delivered, delivered>>

HandleData(f) ==
    LET diff == SeqDiff(f.seq, rx_base_seq) IN
    /\ rx_initialized' = TRUE
    /\ \/ /\ ~rx_initialized
          /\ rx_base_seq' = f.seq
          /\ HandUp(<<f.payload>>)
          /\ UNCHANGED rx_buffer
       \/ /\ rx_initialized
          /\ f.seq = rx_base_seq \/ ~seq_in_window(f.seq, rx_base_seq)
          /\ IgnoreFrame(f)
       \/ /\ rx_initialized
          /\ seq_in_window(f.seq, rx_base_seq)
          /\ diff = 1
          /\ \E n \in 0..Window :
                /\ WalkEnds(f.seq, n)
                /\ HandUp(<<f.payload>> \o Walked(f.seq, n))
                /\ rx_base_seq' = (f.seq + n) % SeqSpace
                /\ rx_buffer' = WithoutKeys(rx_buffer, {(f.seq + j) % SeqSpace : j \in 0..(n - 1)})
       \/ /\ rx_initialized
          /\ seq_in_window(f.seq, rx_base_seq)
          /\ diff > 1
          /\ BufferFrame(f)
    /\ UNCHANGED <<rx_opened, received>>

\* Every DATA frame is answered, whatever became of it.
AckOf(base, buffer) ==
    [cumulative_ack |-> base,
     bitmap |-> {SeqDiff(s, base) : s \in DOMAIN buffer} \intersect (1..AckBits)]

\* The frames on their way that may arrive next.
Arrivable(channel) == {i \in 1..Len(channel) : Reordering \/ i = 1}

DropAt(channel, i) == SubSeq(channel, 1, i - 1) \o SubSeq(channel, i + 1, Len(channel))

\* The frame leaves the network, or a copy of it stays behind.
Drawn(channel, i, copy) == IF copy THEN channel ELSE DropAt(channel, i)

RecvData(i, copy) ==
    /\ rx_opened
    /\ HandleData(data[i])
    /\ acks' = Append(acks, AckOf(rx_base_seq', rx_buffer'))
    /\ data' = Drawn(data, i, copy)
    /\ UNCHANGED <<tx, closes, link>>

RecvAck(i, copy) ==
    /\ tx_opened
    /\ apply_ack_frame(acks[i])
    /\ acks' = Drawn(acks, i, copy)
    /\ UNCHANGED <<rx, data, closes, link>>

recv_main ==
    \E copy \in BOOLEAN :
        /\ copy => dups < MaxDups
        /\ dups' = IF copy THEN dups + 1 ELSE dups
        /\ \/ \E i \in Arrivable(data) : RecvData(i, copy)
           \/ \E i \in Arrivable(acks) : RecvAck(i, copy)

\* A frame is lost, in the network or at a socket that is closed.
Lose ==
    /\ Lossy
    /\ \/ /\ \E i \in Arrivable(data) : data' = DropAt(data, i)
          /\ UNCHANGED acks
       \/ /\ \E i \in Arrivable(acks) : acks' = DropAt(acks, i)
          /\ UNCHANGED data
    /\ UNCHANGED <<tx, rx, dups, closes, link>>

\* The application polls: everything delivered so far goes to the callback.
recv ==
    /\ rx_delivered # <<>>
    /\ received' = received \o rx_delivered
    /\ rx_delivered' = <<>>
    /\ UNCHANGED <<tx, rx_opened, rx_initialized, rx_base_seq, rx_buffer, delivered,
                   data, acks, dups, closes, link>>

-----------------------------------------------------------------------------
ArqNext ==
    \/ open_tx \/ close_tx \/ open_rx \/ close_rx
    \/ \E c \in Callers : SendFrame(c) \/ SendPush(c) \/ SendWire(c)
    \/ Retransmit
    \/ recv_main
    \/ Lose
    \/ recv

ArqSpec == ArqInit /\ [][ArqNext]_arqVars

\* One sender, and a link that loses and reorders nothing and stays open.
Clean == ~Lossy /\ ~Reordering /\ (\E c \in Callers : link.callers = {c}) /\ MaxCloses = 0

\* As long as an endpoint can open, a caller go on in send(), the receive
\* thread take a frame or the application poll, one of them does; assumed of
\* clean links, the only ones on which a progress property is stated.
ArqFair ==
    WF_arqVars(Clean /\ \/ open_tx \/ open_rx \/ recv_main \/ recv
                        \/ \E c \in Callers : SendFrame(c) \/ SendPush(c) \/ SendWire(c))

-----------------------------------------------------------------------------
(* Properties that hold. *)

\* Types of the fields of both endpoints and of the frames between them.
ArqTypeOK ==
    /\ tx_opened \in BOOLEAN /\ tx_seq \in Seqs
    /\ Range(tx_pending) \subseteq PendingPacket
    /\ rx_opened \in BOOLEAN /\ rx_initialized \in BOOLEAN /\ rx_base_seq \in Seqs
    /\ DOMAIN rx_buffer \subseteq Seqs
    /\ Range(data) \subseteq Frame /\ Range(acks) \subseteq AckFrame

\* send() from any number of threads never makes more than rx_window_packets
\* packets pending, and every one of them is under a different number, so an
\* ACK never erases a packet it is not about.
SendWindow ==
    /\ Len(tx_pending) <= Window
    /\ \A i, j \in 1..Len(tx_pending) : i # j => tx_pending[i].seq # tx_pending[j].seq

\* arq_raw_udp.hpp:360: the out-of-order buffer "only ever grows up to
\* rx_window_packets entries".  All of it lies ahead of the base and inside
\* the window, so no entry outlives its turn and none is taken for a packet of
\* a later cycle of the sequence space.
RxBufferAhead == \A s \in DOMAIN rx_buffer : SeqDiff(s, rx_base_seq) \in 1..(Window - 1)

\* In the order of sending, and no packet more than twice.
Forward(s) == \A i, j \in 1..Len(s) : i < j => s[i] <= s[j] /\ (i + 1 < j => s[i] < s[j])

\* Whatever the link loses, duplicates or reorders, the application never sees
\* a packet after one that was sent later, and never a third time.  Twice it may:
\* recv_main hands the packet that fills a gap up, and the walk that follows
\* starts at that packet and hands a buffered copy of it up again.  What the
\* receiver holds lies ahead of its base and inside the window.
ReceiverInOrder == Forward(received) /\ RxBufferAhead

\* The promise of an in-order link, as FifoDelivery states it: on a clean link
\* what the receiver made available is what send() accepted, in order, once
\* each, spurious retransmissions notwithstanding.  (Of another link the
\* mapping shows the abstract service nothing.)
OnCleanLink(payloads) == IF Clean THEN payloads ELSE <<>>
Abstract == INSTANCE FifoDelivery WITH
            Payload <- UNION {1..l.max_sends : l \in Links},
            accepted <- OnCleanLink(accepted),
            delivered <- OnCleanLink(delivered)
ImplementsFifo == Abstract!Spec

\* What send() accepted before it first refused a packet: the payloads are
\* numbered by the calls, so these are the ones in their own places.
BeforeRefusal == SubSeq(accepted, 1, Cardinality({i \in 1..Len(accepted) : accepted[i] = i}))

\* On a clean link what reaches the application in the end is what send()
\* accepted before the first refusal, and nothing else: a send() that finds the
\* window full has spent its number, the receiver waits for that number, and
\* what is accepted after it stays in the receiver's buffer.
ReceivedToRefusal == Clean => <>[](received = BeforeRefusal)

\* On a clean link the protocol is a FIFO queue from send() to recv(), and
\* everything send() accepted comes out of it up to the first packet it refused
\* because the window was full (send() of arq_raw_udp.hpp, recv_main).
ArqDelivers == ImplementsFifo /\ ReceivedToRefusal

-----------------------------------------------------------------------------
(* Statements of the documentation that the code does not satisfy. *)

\* arq_raw_udp.cpp:229-232: a packet "before" the cumulative ACK is "already
\* counted in the cumulative ack"; so whatever is acknowledged has arrived.
AckedHasArrived ==
    acked \subseteq Range(delivered) \union {rx_buffer[s] : s \in DOMAIN rx_buffer}

\* arq_raw_udp.cpp:339: after an in-order packet recv_main will "Walk any
\* buffered contig seqs", so the successor of the base is never in the buffer.
NoContiguousLeftBehind ==
    rx_initialized => (rx_base_seq + 1) % SeqSpace \notin DOMAIN rx_buffer

\* raw_udp_datagram.hpp:122: for max_retransmits, "0 = unlimited".
ZeroMeansUnlimited == MaxRetransmits = 0 => abandoned = {}
=============================================================================
