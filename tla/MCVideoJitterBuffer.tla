------------------------ MODULE MCVideoJitterBuffer ------------------------
(***************************************************************************)
(* Streams for TLC: packets of a few frames, the markers on the last one   *)
(* of each, with and without FU-A fragments, with and without wrap.        *)
(***************************************************************************)
EXTENDS VideoJitterBuffer

Packet(s, t, m, k) == [seq |-> s, ts |-> t, marker |-> m, kind |-> k]

\* A fragmented frame between two frames of one packet.
FragmentedStream ==
    <<Packet(0, 0, TRUE, "nal"),
      Packet(1, 2, FALSE, "start"), Packet(2, 2, FALSE, "mid"),
      Packet(3, 2, TRUE, "end"),
      Packet(4, 4, TRUE, "nal")>>

\* One frame of four packets, the last one a bare marker.
LongFrame ==
    <<Packet(0, 0, FALSE, "nal"), Packet(1, 0, FALSE, "nal"),
      Packet(2, 0, FALSE, "nal"), Packet(3, 0, TRUE, "empty")>>

\* Four frames of one packet each, the timestamps wrapping after the second.
WrappingFrames ==
    <<Packet(0, 6, TRUE, "nal"), Packet(1, 7, TRUE, "nal"),
      Packet(2, 0, TRUE, "nal"), Packet(3, 1, TRUE, "nal")>>

\* One frame of three packets whose sequence numbers wrap after the first.
WrappingSeqs ==
    <<Packet(7, 0, FALSE, "nal"), Packet(0, 0, FALSE, "nal"),
      Packet(1, 0, TRUE, "nal")>>

Setup(stream, engine, adaptive, delays, arrived, last, time, reset_calls) ==
    [stream |-> stream, engine |-> engine, adaptive |-> adaptive, delays |-> delays,
     max_delay |-> CHOOSE d \in delays : \A e \in delays : e <= d,
     max_arrivals |-> arrived, last_arrival |-> last, max_time |-> time,
     max_resets |-> reset_calls]

\* The fixed window over both streams, the adaptive one with a reset; under a
\* host that calls at will, and under the engine.
AllSetups ==
    {Setup(FragmentedStream, FALSE, FALSE, {0}, 3, 2, 4, 0),
     Setup(FragmentedStream, FALSE, TRUE, {1, 2}, 3, 1, 4, 1),
     Setup(LongFrame, FALSE, FALSE, {0}, 5, 0, 3, 0),
     Setup(FragmentedStream, TRUE, FALSE, {0}, 4, 3, 3, 0),
     Setup(FragmentedStream, TRUE, TRUE, {1, 2}, 3, 3, 3, 1)}

\* Timestamps that wrap, with SeqSpace = TsSpace = 8: the clock and the map's
\* order of the sentences MediaClockMonotonic and OverflowDropsOldest.
WrapSetups == {Setup(WrappingFrames, TRUE, a, {1}, 4, 1, 3, 0) : a \in BOOLEAN}
\* A fixed window without a reset.
OneSetup == {Setup(FragmentedStream, TRUE, FALSE, {0}, 4, 2, 2, 0)}
=============================================================================
