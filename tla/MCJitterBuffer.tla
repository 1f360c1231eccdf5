---------------------------- MODULE MCJitterBuffer ----------------------------
(* Small instances of the audio jitter buffer. *)
EXTENDS JitterBuffer

\* Two packets of one frame and one of the next.
ThreePackets == <<0, 0, 1>>

\* A stream that crosses the end of the timestamp space.
WrappingStream == <<3, 0>>

\* Adaptive and fixed playout, with and without a configured delay.
BothModes ==
    {[adaptive |-> TRUE,  initial_delay |-> 1, max_packets |-> 8],
     [adaptive |-> TRUE,  initial_delay |-> 0, max_packets |-> 8],
     [adaptive |-> FALSE, initial_delay |-> 1, max_packets |-> 8]}

EngineDefault == {[adaptive |-> TRUE, initial_delay |-> 1, max_packets |-> 8]}

TightCap == {[adaptive |-> TRUE, initial_delay |-> 1, max_packets |-> 2]}
=============================================================================
