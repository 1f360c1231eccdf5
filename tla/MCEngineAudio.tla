----------------------------- MODULE MCEngineAudio -----------------------------
(* The engine's audio path over the instances of the jitter buffer, the    *)
(* timeline of the same packets, or the packets as bytes; a behaviour is   *)
(* of one of the three.                                                    *)
EXTENDS EngineAudio, MCJitterBuffer, Timeline, RtpCodec

\* Both counters wrap within the first frames.
NearWrap == {[unix |-> 790, rtp |-> 470]}

\* A configuration the clamps change: the window cannot hold the minimum.
ClampedFilter == {SlopeFilterConfig(3, 2, 2000)}

\* Fields with every byte in use, both element forms, a payload type with the
\* marker's bit, and a loss count of either sign.
High == <<65535, 1>>
MCSources == {<<9, 10>>}
MCHeaders ==
    [ssrc |-> {High}, seq |-> {65535}, timestamp |-> {<<1, 32768>>},
     payload_type |-> {111, 255}, marker |-> {TRUE}]
MCExtensions ==
    {[type |-> kExtProfileOneByte, data |-> <<33, 7, 9, 48, 1>>], [type |-> 7, data |-> <<>>]}
MCSendTimes == {16777215, 33554434}
MCPayloads == {<<128, 0, 3>>}
Block(lost) ==
    [ssrc |-> High, fraction |-> 255, lost |-> lost, highest |-> <<1, 65535>>,
     jitter |-> <<0, 9>>, last_sr |-> <<5, 6>>, delay |-> <<7, 8>>]
MCReportBlocks == {[n |-> 1, block |-> Block(-1)], [n |-> 31, block |-> Block(8388607)]}
MCReportFields ==
    [k \in {kSR, kRR, kRTPFB} |->
        CASE k = kSR -> [ssrc |-> High, ntp |-> <<High, <<2, 3>>>>, rtp |-> <<4, 5>>,
                         packets |-> <<0, 6>>, octets |-> <<7, 0>>]
          [] k = kRR -> [ssrc |-> High]
          [] OTHER -> [ssrc |-> High, media |-> <<8, 9>>]]
MCNackEntries == {[packet_id |-> 65535, blp |-> 32769]}

mcVars == <<engineVars, tlVars, rtpVars>>

CodecIdle ==
    /\ pb = NewPacketBuilder /\ setters = 0 /\ compound = <<>> /\ reports = <<>>
    /\ rcb = None /\ asked = NothingAsked

TlIdle ==
    /\ \E start \in NearWrap : snd = NewSender(start, 0)
    /\ wire = {} /\ trk = NewTracker /\ pub = NoCapture

AudioIdle ==
    /\ now = 0 /\ arrivals = 0 /\ calls = 0 /\ out = <<>> /\ played = <<>>
    /\ jb = New(CHOOSE c \in Configs : TRUE)

MCInit ==
    \/ EngineInit /\ TlIdle /\ CodecIdle
    \/ driver = "timeline" /\ AudioIdle /\ TlInit /\ CodecIdle
    \/ driver = "packets" /\ AudioIdle /\ TlIdle /\ RtpCodecInit

AudioStep(A) == driver \notin {"timeline", "packets"} /\ A /\ UNCHANGED <<tlVars, rtpVars>>

MCNext ==
    \/ AudioStep(EngineNext)
    \/ driver = "timeline" /\ TlNext /\ UNCHANGED <<engineVars, rtpVars>>
    \/ driver = "packets" /\ RtpCodecNext /\ UNCHANGED <<engineVars, tlVars>>

MCSpec ==
    MCInit /\ [][MCNext]_mcVars
    /\ WF_mcVars(AudioStep(Poll)) /\ WF_mcVars(AudioStep(Pass))

(* The types and bounds of the jitter buffer and of the tracker.           *)
MCTypeOK == TypeOK /\ TlTypeOK
=============================================================================
