# Verification of NimRTC

TLA+ modules for the parts of NimRTC where order, loss, time, threads and
arithmetic decide whether the code is right, the TLC runs that check them on
small instances, and TLAPS proofs of the properties that matter most for every
value of the constants. `PROJECT.json` lists every component, the source lines
behind every definition, the runs, the mutants, the findings, the hazards and
the theorems.

```
tlasany Scheduler.tla                            parse
tlc -workers 2 -config Scheduler.cfg MCScheduler model-check one run
tlapm SchedulerProofs.tla                        check the proofs
```

## 1. The system

NimRTC is a real-time media engine in C++. `NimRTCEngine` owns the parts below
and drives them from `tick()`, on the application's thread. Other threads are
those of the libraries (libjuice, usrsctp, msquic) and the few the code starts
itself: the ICE consent tracker, the two threads of the ARQ socket and the
cadence thread of the video source.

```
 video source -> pipeline --+                    estimator
 send_audio (timeline) -----+-> SRTP protect -> scheduler -> ICE transport -> network
                                    ^ keys                        |
                              DTLS session <---- records ---------+
                                                                  |
 playout <- jitter buffers, timeline <- SRTP unprotect <- demultiplexer
 data channels: SCTP over DTLS, WebTransport over QUIC, or raw UDP with ARQ
 signalling: SDP offer and answer -> roles, fingerprints, codecs, extensions
```

| Part | Source (under `src/src`) | Model |
|---|---|---|
| send scheduler | `modules/sched` | `Scheduler` |
| bandwidth estimation, AIMD and goog-cc | `modules/bwe` | `BandwidthEstimator` |
| video jitter buffer | `modules/video_jb` | `VideoJitterBuffer` |
| video sender and receiver, RTCP feedback, H.264 payloads | `modules/video_pipeline`, `video_rtcp_feedback`, `video_payload` | `VideoPipeline` |
| video source, frames, sinks, statistics | `modules/video_source`, `video_frame`, `video_sink`, `video_stats` | `VideoCapture` |
| audio jitter buffer, engine receive path | `modules/jb`, `engine/engine_timeline.cpp` | `JitterBuffer`, `EngineAudio` |
| cross-end timeline | `modules/rtp/src/timeline.cpp`, `engine/engine_timeline.cpp` | `Timeline` |
| RTP and RTCP packets | `modules/rtp` | `RtpCodec` |
| ICE transport, consent tracker | `modules/ice` | `IceTransport` |
| DTLS session over wolfSSL, handshake reassembler | `modules/dtls` | `DtlsSession`, `HandshakeReassembler` |
| DTLS session over GmSSL | `dtls` | `GmsslSession` |
| SRTP context | `modules/srtp` | `SrtpContext` |
| engine keying | `engine/engine_transport.cpp`, `engine_media.cpp` | `EngineKeying` over `DtlsSession`, `SrtpContext` |
| signalling, SDP | `engine/engine_signaling.cpp`, `modules/sdp` | `EngineSignaling` over `Sdp` |
| raw UDP with ARQ | `raw_udp` | `ArqRawUdp`, abstract `FifoDelivery` |
| SCTP socket, data channel, DCEP | `sctp`, `modules/datachannel` | `SctpSocket`, `SctpDataChannel` |
| WebTransport session, listener, HTTP/3, data channel | `web_transport` | `WtSession`, `WtHttp3`, `WtDataChannel` |
| QPACK | `web_transport/src/web_transport_qpack.cpp` | `Qpack` |
| plugin registry | `core` | `PluginRegistry` |
| transport strategies, selector, stacks | `transport` | `TransportStack` |
| engine life cycle | `engine` | `EngineLifecycle` over the two above |
| profiles and their JSON files | `modules/assembly` | `Assembly` |
| audio and video codecs, audio processing, sockets, logging, adapters | | no: see section 8 |

## 2. Conventions

A public method that holds its mutex throughout is one action. A method is cut
into several where it releases a lock, is read by another thread, or waits. A
definition keeps the name of its function; one whose name starts with a capital
is a part of a function, a library's step or the environment. An operator
`X_Something` directly before `X` is a mutated form of `X`: the property it is
named for in `PROJECT.json` must fail when it takes the place of `X`.

A module that has several interesting configurations takes a constant set of
them, and a variable fixed at `Init` holds the one chosen. Components that
belong together share a run in the same way: a variable of the MC module
(`layer`, `stage`, `driver`, `phase`, `plane`, `part`) says which of them a
behaviour exercises, and the others stay at idle values. The state spaces are
then added and not multiplied. Where components really interact (engine over
jitter buffer; engine over DTLS and SRTP; channel over socket; engine over
registry and stacks) the modules are composed.

History variables record what callers did and saw. No guard reads one, except
where a comment says that it bounds the behaviour.

## 3. The modules

### Sending

**Scheduler.** `queues` are the five FIFO queues by priority, `stream_buckets`
the three of the per-stream layer. Every method runs under `mu_`: `enqueue`
(with the overflow loop), `Drain` (`drain_with`; a
callback is the number of packets it accepts from each queue before it refuses),
`on_bwe_update` (with the trim), `set_stream_priority` (which moves what is
queued), `enqueue_for_stream`, `SelectNext`, `reset`. Packet bytes are left out
because every record has size 0 and counts as the average.

**BandwidthEstimator.** One estimator, AIMD or goog-cc, as a record: current and
smoothed rate, time of the last change, cooldown, smallest RTT. Loss counts on
its rising edge, receiver estimates, decrease, increase with the 32-bit sums of
the code, smoothing, pacing, new limits and `reset`. Rates are in a space of
`RateSpace` values instead of 2^32, and a conversion from a double out of range
(undefined in C++) may give any value.

**VideoPipeline.** `push_frame` with the packetizer (single units, STAP-A,
FU-A), the retransmission cache and `retransmit`; `push_rtp` with the sequence
tracker, FU-A reassembly and the drain; NACK, PLI and FIR packed, sent and
parsed. `flush_video_feedback` takes the pending report out first and drops it
where the receiver is closed, ICE is down, there is no SRTCP session or the send
fails. A NAL unit is its frame, its place and its size.

**VideoCapture.** The cadence thread of `MemoryVideoSource` (`Wake`, `Produce`,
`Call`, `Relock`) against an application that starts, stops, waits and closes
through the plugin adapter; the counted frame buffers and the plane layout of
every format; the two sinks; the statistics with their freeze detection.

### Receiving

**VideoJitterBuffer.** `buckets_` by RTP timestamp, the frames forced out by
`tick`, the frame counter and the media clock. `insert` covers fragment assembly,
the in-flight cap and the tracker; `tick`, `pop_frame_at`, `reset`. The network
hands over each packet of a stream any number of times in any order. Sequence
numbers and timestamps keep their wrap. The caller is a host that calls in any
order, or the engine: its `handle_rtp` inserts a packet, pops until nothing is
due, calls `tick` and pops again, all with the packet's time of arrival
(`caller`, `drain_ends`). Nothing else calls `tick`, so time alone moves no frame.

**JitterBuffer, EngineAudio.** The buffer is a record and its operations
functions of it, so that `EngineAudio` can push and pop in one step, as
`handle_rtp` does. A `driver` chosen at the start is the engine or a host that
calls push, pop, flush, reset and a new configuration in any order.

**Timeline.** One direction of one SSRC: a sender that stamps frames and sends
Sender Reports, and the receiver's `SenderReportTracker` with its window, the
slope fit in integer arithmetic, the abs-send-time anchor and the published
capture time. RTP and NTP counters wrap; the media clock may drift and pause.

**RtpCodec.** The RTP builder, whose state outlives a build and whose setters
come in any order, the parser, the search for an extension element, sender and
receiver reports, generic NACKs, compound packets, and the adapter that takes a
packet apart and builds it again. Packets are bytes; a 32-bit field is a pair of
16-bit halves, because TLC's integers are narrower.

### Connecting

**IceTransport.** Three processes: the application (open, close, set the remote
description), libjuice (candidates, states, bindings; external) and the consent
tracker thread. `close()` is cut at the join, the tracker at its wait, its check
and its callback. libjuice takes one remote description per agent and refuses an
ICE restart, which the code ignores (`given` against `agent_remote`).

**DtlsSession, SrtpContext, EngineKeying.** A DTLS session is a record: state,
role, generation of the handshake, flights, keys. A handshake is its four
flights; wolfSSL's part is external, and may fail in four places (`Faults`): the
handshake, reading the certificate, the key export, and setting a restart up.
Without a pin every certificate passes; a fingerprint in another hash clears the
pin. `EngineKeying` has two engines, one of each role, and descriptions that come
later: they set `dtls_is_client`, and the session's role and pin where the state
of the session still allows it. `tick()` is cut where it reads what libjuice's thread may change:
`TickPoll` (scheduler drain and flap poll), `TickDrain` (`drain_dtls` and
`maybe_install_srtp_keys`), then a packet at a time. `send_audio` and
`send_video` run between ticks. A key is the pair of a handshake and a side.

**HandshakeReassembler.** Buffers by message number, the checks of a first and of
a later fragment, completion, collection by age, and `clear` at a new handshake.
Any fragment of the current handshake may arrive at any time, cut in any way;
fragments of an earlier one do not, as the header asks of the caller.

**GmsslSession.** Two sessions, each with its loopback socket pair, the bytes
pending in front of it, the handshake pump, pinning, key derivation and close;
each step of `open()` may fail.

**Sdp, EngineSignaling.** The munger writes a description as lines, the parser
reads them back, and what passes between two engines is always the lines. The
channel delays, reorders, repeats and loses them. One setup replaces the second
engine by another stack, with session-level attributes, lines that do not parse
and an ICE restart.

### Data

**ArqRawUdp.** One direction between two endpoints: `tx_pending`, `rx_buffer`,
`rx_delivered` and two channels. `send()` is three steps (number taken,
pushed, written), because the number is taken outside the lock; an iteration of
`recv_main` (a data or an acknowledgement frame) and a pass of `retransmit_main`
are one step each. The network loses, copies and reorders as the link says. Both
ends may close and open again. `FifoDelivery` is what a clean link promises:
what is received is a prefix of what was accepted.

**SctpSocket, SctpDataChannel.** Two sockets in one process, each with an
application thread, and the library's worker thread that runs notifications and
the two receive callbacks. usrsctp is the association and what it has still to
hand over. The channel adds the DCEP exchange, adoption of a remote OPEN, sends
and close.

**WtSession, WtHttp3, WtDataChannel.** The table of msquic handles, the wrappers
the session owns and the payloads it lends; msquic's events interleave with the
client constructor and with `close()`. The listener's start and stop and the
HTTP/3 handler hand an accepted connection to a session. msquic's worker takes
the steps of a callback one by one: the session's callback is copied under its
lock, then called; the channel looks at `opened_`, and installs itself on the
peer's stream or reads its header afterwards; `on_message` is copied and called.
`close()` fits between any two of them.

**Qpack.** Prefixed integers, strings and the Huffman code as functions of
bytes, the dynamic table with evictions, the encoder stream and field sections
both ways. The peer is a conforming encoder.

### The engine around them

**PluginRegistry, TransportStack, EngineLifecycle.** The registry is a value: the
entries by category and id. A strategy names stacks, a stack is made from the
registry, and each part is null, made or open. An engine goes through
construction, `pre_open`, `open` in its phases, `close` and destruction; the
step chooses which calls of the plugins fail. A slot holds the number of the
initialisation that filled it, so a stale pointer shows.

**Assembly.** Built-in profiles, the registry of profiles, the builder, and the
JSON round trip; a document is a function on the keys it has.

## 4. The runs

| Run | States | Parts | What is shown |
|---|---|---|---|
| `scheduler` | 48 k | both scheduler layers; estimators | every packet is queued, sent, dropped or vetoed exactly once; FIFO per stream; a drain that is not refused takes from a queue only when it has emptied the higher ones; what a trim leaves fits the rate; repeated drains empty the queues; rates stay within their limits; no stretch of time pays for two increases |
| `video_jb` | 276 k | jitter buffer; pipeline; source, frames, statistics | a bucket leaves exactly one way, and a timestamp is handed out again only after its bucket was reaped; units arrive fragment for fragment and retransmissions are what was sent; every loss is in one report and no key-frame request is merged away; the source is quiet after idle and close joins; frozen time is counted once; frames are whole; after each packet the engine handles no frame is past its deadline |
| `engine_audio` | 421 k | engine or host over the audio buffer; timeline; packets | every packet is buffered or in one played frame; a frame waits its own delay; polling empties the buffer; the published capture time is the sender's within the stated error; what is built is parsed back |
| `engine_keying` | 242 k | signalling; keying | keys in force are those of the last finished handshake, with no other begun; engines that installed as client and server decrypt each other's media; a certificate other than the announced one is never keyed; completed exchanges leave one client, unless one overlapped the start of DTLS, and one view of what was agreed; media gets keyed |
| `data_plane` | 447 k | SCTP; WebTransport; QPACK; ARQ | a channel is as opened and in order; handles go back once and in order but for two failures, payloads exactly once; one session per request and its bytes intact; sections decode to what was encoded, for bases less than 64 above the count; after close SCTP is silent and WebTransport delivers at most what was past its check; the ARQ receiver never goes back, and on a clean link it implements `FifoDelivery` and delivers all up to the first refused send |
| `engine` | 115 k | life cycle; stacks; profiles; ICE; GmSSL; reassembler | an open engine is wired to its own plugins; a saved profile loads as it was; no callback after close, no lost wake-up and a clean reopening of ICE; GmSSL sessions connect; a message put together is the message sent; plugins are left open on three paths and no other; a silent peer is reported and close returns |

Six more runs each check one sentence of the documentation that the code does
not keep:

| Run | Sentence | What happens |
|---|---|---|
| `scheduler_control_dropped` | control messages are "never dropped by scheduler" | the overflow loop reaches the control queue |
| `arq_first_packet_lost` | a number before the cumulative ack is "already counted" | the first packet is lost, the second becomes the base, and its ack clears the first |
| `video_jb_delivered_twice` | an emitted bucket is kept so that a late packet is discarded | the next `tick()` erases the bucket |
| `video_pipeline_nalu_lost` | the fragments of unit i are in `large_fragments[i]`, and what fits no aggregate goes out alone | only oversized units are appended, so the index is of another unit; a unit of about MTU size is in no packet |
| `engine_open_retry` | a failed initialisation leaves the engine re-callable | `ice_t_` stays set and the next `open()` takes the initialisation for done |
| `qpack_split_instruction` | incomplete trailing data is buffered until the next call | what was complete before it stays in the buffer and is applied again |

### Bounds, and why they are enough

- `scheduler`: depth 3, four enqueues, three of the five priorities (highest,
  one in the middle, lowest), rates that mean no limit, a limit of 0 and a limit
  of 1. Overflow, trim and veto each happen with packets above and below. A
  behaviour uses one of the two layers, which share only the clock and a byte
  counter. Estimators: a space of 4096 rates, two configurations, three calls at
  steps of 100, 600 and 9000 ms, on both sides of the cooldown and past the
  point where the sum wraps.
- `video_jb`: two streams (fragments between plain frames; a frame of four
  packets), adaptive and fixed, under a host and under the engine, cap 2, up to
  five arrivals, a wait of 2 units, spaces of 16; five
  pipeline setups with an MTU of 12, a cache of 3 and a first number of 14, so
  that numbers wrap and the cache overflows; six setups of the ends.
- `engine_audio`: three packets in two frames, adaptive and fixed, arrivals up
  to time 2 and five units of time; the timeline at a scale of 40 ticks a second
  with counters of 64 and 512, which both wrap within the first frames, four frames, a drift of 0 or 1
  and one pause; packets with up to 2 CSRCs, 3 setters, ids at the edges of both
  extension forms, paddings 1 and 255, 1 and 31 report blocks.
- `engine_keying`: twenty-three keying setups, each with one or two of: a lost
  record, a flap at one side or both, a wrong certificate, a later description
  that swaps the roles or announces another certificate, one of the four failures,
  either side sending; five signalling setups: a close, crossing offers, two
  offers from one side, one exchange after another, another stack.
- `data_plane`: seven SCTP setups (announcements of both partially reliable
  kinds, a send against a close, two sends, an unreliable channel, a socket
  without a channel, sockets made together) and thirteen of WebTransport; QPACK with a
  table of 8 bytes, an entry overhead of 3 and five instructions, so that entries
  are evicted and the insert count wraps; ARQ with a space of 8 numbers, window
  3, first number 7, and five links: one that loses, copies and reorders three
  packets; the same with a retransmission and a reopened end for two; two callers
  of `send()`; a clean link with two calls more than the window; a clean link with
  a spurious retransmission. Longer
  sessions, more messages per channel and other mixes rest on the proofs.
- `engine`: eight configurations, five fault sets, two initialisations, one
  channel; ICE with two opens, a timeout of two units, a tracker that may be one
  late, one queued callback; GmSSL with room for one piece in the socket and
  seven failures; messages of 3 and 2 bytes, five arrivals, four ticks, one
  restart.

`CHECK_DEADLOCK FALSE` is set where the bounds let a behaviour end: the
environment has used up its sends, opens or flaps. `Scheduler.cfg` and
`VideoJb.cfg` do without; there the MC modules have a step for a caller that is
done.

## 5. Fairness

- Scheduler: weak fairness of a drain. The engine drains on each `tick()`.
  `DrainsOut` needs no fairness of the callback: a refused packet leaves its
  queue too.
- ARQ: one weak fairness of all of opening, the callers' next step in `send()`,
  `recv_main` and the application's `recv()`: while one of them can go on, one
  does. None of the retransmit thread. `ReceivedToRefusal` is claimed for the
  clean link alone.
- Audio buffer: weak fairness of a consumer that polls and of the clock
  (`PlaysOut`). The engine does not poll: it pops when a packet arrives. Nor does
  it for video, where nothing is assumed and `NoneOverdue` speaks of the moment
  after a packet.
- Video source: weak fairness of the cadence thread, whose waits have a timeout
  and whose callback returns, and of the join.
- ICE: weak fairness of the tracker thread, of the thread that closes and of the
  clock, assumed in every behaviour of the `engine` run. Nothing is assumed of
  libjuice.
- Keying: weak fairness of the ticks and of ICE coming up; strong fairness of a
  drain that hits the retransmission timer, because the timer stays armed while
  ticks that find it not yet due interleave; strong fairness of receiving a
  record that is sent again and again. Losses are bounded. `KeysGetInstalled`
  excepts a lost last flight, a closed engine, a refused certificate and a flap.

## 6. What is proved

Twenty-four theorems in eight modules, each for every value of the constants.
The assumptions are named in the module they are about (`SchedulerAssumption`,
`BweAssumption`, `JitterBufferAssumption`, `KeyingAssumption`, `IceAssumption`,
`MessageLengths`, `VcAssumption`, `ArqAssumption`, `DcAssumption`,
`WtAssumption`, `ProfileAssumption`) and ask for types and for what the code's
configuration guarantees, such as a minimum rate below the maximum; TLC
evaluates each of them in the run of its module. One more limits what the ARQ
theorems say: `OneCycle`, that the packets a session sends and one window fit
the sequence space. The protocol has nothing that tells a number from the same number one cycle later,
and a copy the network keeps that long is taken for new. The caps on calls and
packets are arbitrary, so the bounds of section 4 play no part here.

| Module | Theorem | Property it proves |
|---|---|---|
| `SchedulerProofs` | `L0Invariant`, `DepthBounded`, `FifoWithinPriority` | the strengthening, the depth limit, order within a queue |
| | `PacketsConserved` | `Conservation` |
| | `PriorityIsStrict` | `StrictPriority` |
| | `TrimAlwaysFits` | `BweTrimFits` |
| `TransportProofs` | `RateAlwaysWithinLimits` | `RateWithinLimits` |
| | `TimeCreditedOnce` | `NoTimeCreditedTwice` |
| | `TrackerStaysContained` | `TrackerContained` |
| `MediaProofs` | `ThreadQuietWhenIdle` | `QuietWhenIdle` |
| | `FrozenOnce` | `FrozenTimeBounded` |
| | `FramesWaitTheirDelay` | `WaitsItsDelay` |
| `EngineKeyingProofs` | `PinnedBeforeKeyed` | `PinBeforeKeys` |
| | `KeysAreCurrent` | `InstalledIsCurrent` |
| | `MediaAlwaysOpens` | `DecryptsWhatItGets` |
| | `ReassemblyIsExact` | `ReassemblyExact` |
| | `ProfilesRoundTrip` | `SavedProfileLoads` |
| `ArqRawUdpProofs` | `ReceiverNeverGoesBack` | `ReceiverInOrder` |
| | `CleanLinkIsFifo` | the refinement of `FifoDelivery`, the safety half of `ArqDelivers` |
| `SctpDataChannelProofs` | `ClosedStaysSilent` | the SCTP half of `CloseEndsDelivery` |
| | `ChannelStaysAsOpened` | `ChannelAsOpened` |
| `WtDataChannelProofs` | `WtReleasesOnce` | `ReleasedOnce` |
| | `WtCloseEndsInbound` | the WebTransport half of `CloseEndsDelivery` |
| `DataPlaneProofs` | `PlanesCloseEndsDelivery` | `CloseEndsDelivery` of the composition |

None of the properties is inductive as it stands. What each proof adds:

- **Scheduler.** `L0Inv` is the types of the queues, the depth limit,
  `Conservation` and `Fifo`. The depth limit needs the types; `Conservation`
  needs the total to be a sum of five lengths; `Fifo` says of each queue that its
  times increase, come after the last one that left and not after the clock,
  which survives an append, a pop at the front and an advance of the clock.
  There are lemmas on sums of lengths and on popping, lemmas on ordered queues,
  and one lemma per action. The trim is the step with content: it removes from
  several queues at once, each by a computed amount. `StrictPriority` and
  `BweTrimFits` are action properties and follow from the same lemmas.
- **Estimators.** `BweInv` adds to the limits the types of the record and the
  limits of the smoothed rate. The moving average and the decrease are not
  linear; a lemma each shows that they stay between their arguments.
  `NoTimeCreditedTwice` bounds the rate by the time up to now; the next increase
  would not preserve it, because it pays for time since the last change. So
  `CreditInv` says that the rate is paid for up to the last change, and the sum
  of two rounded-down shares is at most the rounded-down share of the sum.
- **Video source and statistics.** `SourceInv`: `thread_exited_` is set only when
  the loop is over, an idle that was reported rests on it, and a source that is
  gone was joined. `StatsInv`: the frozen time lies between the first frame and
  the last one rendered, which is where the next freeze begins.
- **Audio.** `AudioInv`: the map of frames and the map of arrivals have the same
  keys, and delays are natural numbers; the age that is compared at a pop is then
  that of the frame handed out.
- **Reassembler.** `HrInv`: a buffer is determined by the bytes that came since it
  was made, it is never a whole message, and where there is no buffer no bytes
  count. A message handed on is then the one sent in this attempt.
- **ICE.** `IceInv` has three parts: how the tracker thread, its flag and the place
  `open()` and `close()` have reached fit together; that while a binding is fresh
  the clock was set no earlier and no loss has been reported; and that libjuice
  calls back only between gathering and destruction, so a new agent begins clean.
- **Keying.** `KeyInv`: every session is sound (keys belong to the handshake that
  made them, a finished handshake has passed the comparison with the pin it had,
  or had none), the pin is one of those announced to this engine, an engine that
  was only ever told of another certificate has a session that refused or has not
  finished, and an open engine with installed keys has those of its own session,
  which is Connected or failed to restart.
- **Media between the two engines.** `AgreeInv` says what `DecryptsWhatItGets`
  rests on: the SRTP sessions of both engines are made from the halves of the
  first handshake and from no other, the one each engine took at its
  installation by its `dtls_is_client`. It relates the stage each session has
  reached to the flights under way. An engine starts a handshake anew only when
  its session is through, and then the other session has answered all of it; and
  a handshake after the first exports no keys, because `rehandshake` has dropped
  what the export needs. A packet in the scheduler or on the wire is then in the
  clear or protected under the half that the receiver has.
- **Profiles.** `AsmInv`: every profile there is has all the fields and its two
  enumerations in range. Saving drops the blocks that hold only defaults and
  loading puts them back; the lemmas go block by block (saved, loaded, default),
  and the theorem splits on what a document can hold.
- **ARQ, order.** `ArqInv`: every frame, pending packet and unfinished call carries
  the number its `send()` drew, and when the receiver has a base there is a packet
  at which it stands; what it holds lies in the window of that packet, and what was
  handed up is in order and reaches that packet at most. Numbers wrap,
  so the proof never compares them: it works on the packet behind a number, and
  `OneCycle` makes the number determine the packet. Lemmas on `%` (number of a
  sum, difference of numbers, injectivity) carry it over.
- **ARQ, refinement.** `CleanInv` is about links that neither lose nor reorder and
  have one caller. A call of `send()` that finds the window full uses up a number;
  a packet is *unbroken* when no call up to it was refused. The receiver has
  delivered exactly the packets 1 to some `Reached`, all of them unbroken; each
  frame on the wire finds the unbroken packets before its own delivered or ahead
  of it; and no unbroken packet is in neither place. Behind a gap nothing is
  delivered any more. A window of one packet is the odd case: the check of the
  window then refuses the next number in order, so nothing is delivered after the
  first packet, and the part about frames is only claimed up to there.
- **SCTP, silence.** `SilentInv`: past a step of `close()` the callback that step
  takes away is gone, and past the second one a worker that holds `recv_mu_` finds
  nothing to call.
- **SCTP, a channel as opened.** `ChanInv` numbers the payloads of a reliable
  ordered channel: what was handed up, what the worker holds and what is still in
  the library never decrease in this order, and none is above the number of
  sends (`ServedInTurn`). Of the announcement it says that an OPEN under way is
  the one the opener's configuration encodes to, and that an ACK under way
  means that the other end has adopted what that encoding decodes to
  (`Acked`). The worker may be between reading a message and adopting it, while
  either application sends; every step either leaves the queues alone, appends
  behind them or moves their head to the worker. What is expressible in DCEP
  survives encoding and decoding, for every lifetime and count of 16 bits.
- **WebTransport.** `HandleInv` states for every point the constructor, `close()`,
  the listener and the shutdown events can have reached which of the handles are
  open; `PayloadInv` that a buffer is freed exactly when msquic is done with it. For
  stream handles each step has to show a fate for every stream (`HandleFate`): left
  as it was, closed once by its holder, given up after its shutdown event, or newly
  opened where none was; the fates keep `StreamsHeldOnce`, and a failed
  `StreamStart` is the only one that closes twice. `LateInv` says of every place the
  worker can have reached what it still carries: an event that began after `close()`
  carries nothing that can reach `on_message` unless its stream was installed while
  `close()` ran, and at most one worker was past the look at `opened_`.
- **Data planes together.** A step of the composition is a step of one plane and
  leaves the others alone, so the invariants of the planes hold of it.

Only model-checked:

- everything under fairness: `DrainsOut`, `CloseJoins`, `PlaysOut`,
  `KeysGetInstalled`, `ConsentLive`, and `ReceivedToRefusal`, the other half of
  `ArqDelivers`;
- what rests on folds, recursion or `SelectSeq`, where a proof needs induction
  over data: `StreamFifo`, `PacketsAccounted`, `CodecRoundTrip`, `SectionsDecode`,
  `CaptureFaithful`, `StreamsServedOnce`, `SentUnchanged`, `FramesOnce`,
  `NoneOverdue`, `FramesWhole` and `FeedbackMerged` (payloads put together, sequences of NAL
  units, sums over planes, bit masks);
- `OneClient` and `NegotiationAgrees`, whose descriptions are sequences of lines
  that are written and parsed back;
- `OpenIsWired`, `LeaksAccounted` and `GmConnects`, whose steps are long
  compositions of phases, each with its own failures.

## 7. Sentences of the documentation that do not hold

Besides the six of section 4. Each of these is a definition of its module.
Naming it in the component's `.cfg` (with the constants given, where others are
needed) makes TLC show why.

| Module | Definition | What the code does instead | Constants |
|---|---|---|---|
| `Scheduler` | `VetoKeepsPacket` | a packet the callback refuses has already left its queue and is lost | |
| | `VetoStopsDrain` | a refusal ends the walk of its own queue, the lower ones go on | |
| | `BweDropsLowestFirst` | the trim keeps packets of a lower class while it drops from a higher one | |
| | `DrainWithinBweBudget` | a limit that rounds to 0 is read as no limit | |
| | `QueuedStreamPacketsStay` | `set_stream_priority` moves what is queued | |
| `ArqRawUdp` | `NoContiguousLeftBehind` | the walk after an in-order packet starts one number early and finds nothing | |
| | `ZeroMeansUnlimited` | with 0 a packet is given up at its first timeout | |
| `VideoJitterBuffer` | `CompleteHasEveryPacket` | a frame whose middle or first packet is missing is handed out as complete | |
| | `BitstreamInOrder` | payloads are put together in the order of arrival | |
| | `ForcedTaggedIncomplete` | a complete frame the timer gets first is forced out as complete | |
| | `MediaClockMonotonic` | the media clock jumps back at a wrap | `WrapSetups`, spaces of 8 |
| | `OverflowDropsOldest` | the cap drops the smallest timestamp, which after a wrap is the newest | `WrapSetups`, spaces of 8 |
| `VideoCapture` | `StartReturns` | a start after a stop assigns to a joinable thread and ends the process | `restarts` in the setup |
| `JitterBuffer` | `EmitsInTimestampOrder` | the map is ordered by the raw timestamp, across a wrap too | `WrappingStream` |
| | `NothingDueBehindHead` | an early frame that came late holds back later ones that are due | |
| | `PacketCap` | nothing trims the buffer | `TightCap` |
| | `FlushInArrivalOrder` | `flush` goes by timestamp | |
| `EngineAudio` | `PayloadAlive` | the frame popped holds views into an earlier datagram | |
| `IceTransport` | `NoLossInHandshake` | the consent clock starts at `open()` | |
| | `OncePerLoss` | the check fires and rearms the clock, and fires again after every timeout while the peer stays silent | |
| | `CandidatesOfThisAgent` | `close()` leaves the candidates of the last agent | |
| | `RemoteApplied` | libjuice refuses a second description, and the error is ignored | |
| `EngineKeying` | `AudioProtected` | audio that is sent before the keys are there leaves in the clear | |
| | `LostFlightRecovered` | a Connected server does not repeat its last flight | |
| | `KeyingMaterialAvailable` | a re-handshake clears the holder that export needs | |
| | `ClearedPinFails` | a fingerprint in another hash clears the pin, and without a pin every certificate passes | |
| | `HalvesAgree` | a description sets `dtls_is_client` also where `set_role()` refuses it, and both engines take the same half | |
| `EngineSignaling` | `OneClientHello` | an exchange that overlaps the start of DTLS leaves two sessions of one role | |
| `SctpDataChannel` | `DeliveredOnce`, `OnlyUserPayloads` | both receive callbacks forward a message, and the one without PPID forwards DCEP messages too | |
| | `ClosedIsFinal` | a late COMM_UP takes the state back to established | |
| | `LibraryReady` | the process-wide flag is set before the library is initialised | |
| | `UpIsEstablished` | `connect()` writes its state after the association may have come up | |

Found while reading, without a definition of their own:

- ARQ. A packet that fills a gap and is buffered too is handed up twice. A refused
  `send()` has used up its number: the receiver waits for it, and nothing accepted
  afterwards is handed up.
- Signalling. A late answer to an earlier offer is taken for an offer and
  answered. Crossing offers leave two clients or two servers; `OneClient` is
  claimed for exchanges in turn. The parser skips 13 characters of
  `ice-options:` and 17 of `connection-address:`; `a=ssrc` is written back with
  a second colon, `t=` as an attribute.
- WebTransport. Data after a wrong stream signal is delivered from its second
  chunk on, although the comment says "deliver nothing further on this stream"
  (`web_transport_data_channel.cpp:350`). The constructor overwrites a connected
  state. `max_retransmits` of 0 sends nothing. A terminal state may be overwritten
  by a late event. `close()` says that late data "cannot reach a closed channel"
  (line 110): data of the channel's own stream does reach `on_message`, so does a
  message that was past the check of `opened_`, and so does all of a peer stream
  that is installed while `close()` runs. After a failed `StreamStart` the stream is closed twice
  (`web_transport_msquic_session.cpp:806` and 224), after a failed
  `SetConfiguration` the connection (`web_transport_msquic_listener.cpp:997` and
  1236); after its shutdown event a session's stream is never closed
  (`web_transport_msquic_session.cpp:398`). `ReleasedOnce` names the first two and
  does not ask for the third.
- QPACK. The sign of Delta Base is read from bit 0x40, so a base 64 or more above
  the count decodes wrongly. `decode` does not leave
  its output empty on failure. The advertised capacity is 0 although the header
  says otherwise. A malformed Huffman string on the encoder stream waits for
  more data for ever.
- SCTP. Unreliable travels as reliable in DCEP and `ordered` does not travel.
  A channel closed from its own message callback locks `recv_mu_` twice.
- RTP. `walk_one_byte` and `walk_two_byte` read other element layouts than the
  builder writes. Padding is one byte longer than its count. `parse_nack` reads
  to the end of the span and not to the length field.
- Timeline. Inbound and outbound frame numbers share one map. A late older
  report replaces a newer one. `send_audio` numbers packets with function-local
  statics that all engines share.
- Reassembler. The record number it makes up does enter wolfSSL's replay window.
- GmSSL. A second `open()`, after a failure or a close, reports success and does
  nothing. Bytes fed before `open()` are dropped. The fingerprint called SHA-256
  is computed with SM3. A server never sees the client's certificate, so its pin
  is skipped.
- Life cycle. `pre_open` twice replaces the session and loses its TURN servers.
  The identifiers a classic stack asks for are not the registered ones, so it
  stops at RTP. The engine never starts its session. A user's factory under a
  built-in name is replaced at the first `open()`. `dtls_name = "gmssl"` does not
  resolve.
  Plugins are destroyed while open when an initialisation runs again, when an
  engine is destroyed that was never opened, and when a video sink or source was
  set after `close()`.
- DTLS. `open()` makes the wolfSSL context with the server's method and the role is
  set later; that `wolfSSL_connect` works on such a context is wolfSSL's matter, and
  the model has a failing handshake. When a restart cannot be set up the session is
  Failed and the engine goes on with the old keys.
- Profiles. A transport block with nothing but budgets is not saved. Parameters
  of the estimator beyond two are lost. Nothing turns a profile into an
  `EngineConfig`.
- Estimators. Nothing in the sources calls `on_feedback`. A decrease does not
  set the time of the last change. The smallest RTT is never forgotten.
- Video. The receiver has no timer: the last frame of a burst stays in the jitter
  buffer until another packet comes. A feedback report that cannot be sent is
  dropped and its losses are not reported again. A retransmitted packet is labelled with the highest number. A lost FU-A
  fragment gives a truncated unit. An MTU of at most 2 does not end. The capture
  time of the source never advances. The encoder is not connected to the source.

## 8. Not modelled

- Opus, H.264, the hardware encoders and decoders, audio processing: signal
  processing and driver calls. Their control is a call into a library and a
  check of its result.
- Socket wrappers, factories, plugin adapters and the C API: they convert and
  forward.
- `session` and `track`: holders of values. Logging: output. The example
  programs: hosts of the engine.
- wolfSSL, GmSSL, libjuice, libsrtp, usrsctp and msquic appear as what the code
  around them relies on, marked external in the map. libsrtp's replay window and
  wolfSSL's growing timeout are left out.
- The adaptive delay tracker is floating point; both buffers see it as any delay
  in its range.
- SDP attributes that are carried over unread (`fmtp`, `rtcp-fb`, `msid`), the
  URI table and the transport-wide feedback of the RTP parser, which nothing in
  the engine calls, VP8 and VP9 descriptors, GPU buffers, pixel arithmetic, the
  ref-frame map of the timeline.
- Time in the ARQ: any pending packet may be overdue.
- Memory lifetime of objects (a channel that outlives its session, a stream
  pointer kept past its completion) beyond the handles and payloads of
  `ReleasedOnce`, and data races on counters.

## 9. Further hazards

`PROJECT.json` lists the hazards that bite hardest. These were met too; most of
them are exercised by the same runs, or are behind a sentence of section 7:

- `scheduler.cpp:371`: A bandwidth update trims several queues against one shared budget; which class pays depends on the order of the walk.
- `scheduler.cpp:94`: The packet budget is a truncating division: small targets become 0, which the drain reads as unlimited.
- `arq_raw_udp.cpp:340`: A gap is filled after later packets were buffered: the walk over the buffer must deliver all of them and leave the base at the last one delivered.
- `arq_raw_udp.cpp:316`: A retransmitted packet arrives again after it was delivered or while it is buffered.
- `arq_raw_udp.cpp:383`: A packet is given up after its last retransmission while later ones are in flight: the receiver waits for the hole forever.
- `arq_raw_udp.hpp:193`: close() frees the socket after it joined the receive thread but before it stops the retransmit thread, and send() reads the pointer without a lock.
- `arq_raw_udp.hpp:281`: The statistics are plain integers incremented by the caller, the receive thread and the retransmit thread without a common lock.
- `video_jitter_buffer.cpp:559`: The in-flight cap is enforced before a frame is added and again by the timer, over a map that also holds frames already handed out.
- `video_jitter_buffer.cpp:258`: Packets of a frame arrive out of order: the payload must be put together in sequence order and the frame must not be taken for complete too early.
- `video_jitter_buffer.cpp:284`: Sequence numbers and timestamps wrap inside a frame, between frames and in the map's order.
- `jitter_buffer.cpp:246`: Packets of different frames arrive out of order or across the timestamp wrap while the map is ordered by the raw timestamp.
- `jitter_buffer.cpp:287`: flush, reset and reconfiguration between pushes and pops must leave counter, maps and target delay in step.
- `jitter_buffer.cpp:201`: Nothing bounds the buffer when frames are not popped as fast as they are pushed.
- `engine_timeline.cpp:259`: The jitter buffer keeps views of datagrams across calls of handle_rtp and reads them when a later packet arrives.
- `engine_timeline.cpp:260`: Audio is popped only when another packet of the same SSRC arrives and one frame at most per packet: the last frames of a talk spurt wait for the next one, and a backlog never shrinks.
- `ice.cpp:491`: The consent callback runs on the tracker's own thread: a close() from inside it would wait for itself.
- `ice.cpp:609`: libjuice delivers packets and states until the agent is destroyed; what is left over must not be seen by the next agent.
- `ice.cpp:361`: A remote description may be set before the agent exists; it has to reach the agent before gathering starts.
- `ice.cpp:583`: When gathering fails the agent stays: a second open() reports success without candidates and without a tracker.
- `ice.cpp:594`: close() does not clear the gathered candidates and the gathering flag, so a reopened transport reports them at once.
- `ice.cpp:588`: The consent clock starts at open() and not when a pair is selected, so a handshake longer than the timeout is followed by a loss at once.
- `dtls_wolfssl_session.cpp:1919`: connect, flap, re-handshake: the second handshake completes without keying material.
- `engine_transport.cpp:735`: The poll compares the ICE state with the one at the last tick, so a flap between two ticks is not seen by either engine or by one of them.
- `engine_transport.cpp:763`: When only one engine sees the flap it restarts alone, and its peer's Connected session ignores the new handshake.
- `srtp.cpp:412`: Sessions are kept per SSRC and made once: a second installation of keys changes the master keys and not the sessions.
- `engine_transport.cpp:718`: ICE may go down between the flap poll and drain_dtls, or between a received record and the drain after it; a session may then be Connected with its keys not installed.
- `dtls_wolfssl_session.cpp:1640`: Each retransmission doubles wolfSSL's timeout, and once it saturates the handshake fails for good.
- `dtls_wolfssl_session.cpp:1360`: open() remembers that it was called before it succeeds: after a failure the next open() reports success.
- `engine_media.cpp:533`: The audio sequence number and timestamp are function-local statics: two engines in a process share one sequence space.
- `engine_signaling.cpp:551`: Each end resolves its DTLS role from the one description it reads, so the pair agrees only if offer and answer were read in their turn.
- `parser.cpp:496`: A fingerprint in the session part must reach a media part that has none, or the handshake runs with nothing pinned.
- `usrsctp_socket.cpp:1031`: connect() writes kConnecting after usrsctp_connect() has returned: a COMM_UP handled in between on the usrsctp thread is overwritten and the waiter times out.
- `usrsctp_socket.cpp:276`: The flag of the process-wide initialisation is set before the library is initialised, so a second socket may go on with a library that is not up.
- `sctp_data_channel.cpp:174`: open() installs a receive callback with and one without PPID, and the socket calls both for each message: what the application gets per message depends on which of the two forwards it.
- `sctp_data_channel.cpp:211`: close() clears the callbacks while the usrsctp thread may be in one of them or about to enter it.
- `usrsctp_socket.cpp:478`: The receive callbacks run under recv_mu_: a channel closed from its own message callback takes the mutex again.
- `web_transport_msquic_session.cpp:738`: The constructor writes kConnecting after ConnectionStart(): a CONNECTED event handled in between is overwritten and the session never becomes usable.
- `web_transport_msquic_session.cpp:563`: Stream and connection shutdown events, close() and the destructors each may release a handle; after SHUTDOWN_COMPLETE the wrapper forgets it.
- `web_transport_msquic_listener.cpp:1192`: A CONNECT request may be followed by more frames on the same stream and by data before the session has taken the stream over.
- `video_pipeline.cpp:913`: A compound RTCP datagram is refused half way; the requests before the malformed part have already been counted.
- `video_source.cpp:205`: stop() does not join, so start() after stop() assigns to a thread that is still joinable and the process ends.
- `goog_cc_bwe.cpp:113`: The smallest RTT seen is never forgotten: after a move to a longer path every feedback is taken for overuse.
- `engine_transport.cpp:627`: A DTLS backend that cannot be resolved leaves an engine that looks open but never encrypts.
- `engine_media.cpp:112`: A plugin is replaced or the engine destroyed while the old plugin is open, so that its threads and sockets are never closed.
- `engine.cpp:326`: A WebTransport channel keeps a raw pointer to the session the engine owns; close() destroys the session while the application still holds the channel.
- `timeline.cpp:521`: A Sender Report that arrives late replaces a newer one; packets from before the report are placed by it too.
- `timeline.cpp:663`: When the host stops capturing the media clock stands still. A neighbour from before the pause then gives an anchor that is wrong by the pause, and it is used as long as the two estimates agree within the tolerance.
- `dtls_wolfssl_session.cpp:1514`: A datagram whose first record is a fragment is dropped as a whole once the fragment is kept: the records behind it never reach wolfSSL.
- `builder.cpp:335`: A report with more than 31 blocks, a negative 24-bit loss count, a padding of 255 bytes and an id at the edge of the two element forms are each encoded by one function and decoded by another.
