---------------------------- MODULE MCDataPlane ----------------------------
(***************************************************************************)
(* Instances of the data planes.  Init chooses SCTP, WebTransport, its QPACK *)
(* decoder or raw UDP with ARQ, and one scenario of it; the others stand     *)
(* still.                                                                    *)
(***************************************************************************)
EXTENDS SctpDataChannel, WtDataChannel, Qpack, MCArqRawUdp

VARIABLE plane
vars == <<plane, dcAll, wtAll, qpVars, arqVars>>

(***************************************************************************)
(* SCTP: who opens with which parameters, who sends, who closes             *)
(***************************************************************************)
cfgTTL == [DefaultConfig EXCEPT !.reliability = "kPartialReliableTTL", !.label = "cmd",
                                !.max_packet_lifetime_ms = 3000]
cfgCount == [DefaultConfig EXCEPT !.reliability = "kPartialReliableCount", !.label = "cmd",
                                  !.max_retransmits = 3]
cfgUnreliable == [DefaultConfig EXCEPT !.reliability = "kUnreliable", !.label = "telemetry"]
DcBase == [channels |-> Ends, together |-> FALSE, listeners |-> {"b"}, stops |-> {},
           openers |-> {}, configures |-> {}, cfg |-> [e \in Ends |-> DefaultConfig],
           sends |-> [e \in Ends |-> 0], closes |-> {}]
MCDcSetups ==
    { [DcBase EXCEPT !.openers = {"a"}, !.configures = {"a"}, !.cfg["a"] = cfgTTL],
      [DcBase EXCEPT !.openers = {"a"}, !.configures = {"a"}, !.cfg["a"] = cfgCount],
      [DcBase EXCEPT !.sends["a"] = 1, !.closes = {"b"}],
      [DcBase EXCEPT !.sends["a"] = 2],
      [DcBase EXCEPT !.configures = {"a"}, !.cfg["a"] = cfgUnreliable, !.sends["a"] = 1],
      [DcBase EXCEPT !.channels = {"b"}, !.sends["a"] = 1],
      [DcBase EXCEPT !.together = TRUE, !.stops = {"a"}] }

(***************************************************************************)
(* WebTransport: what fails, what the peer sends, how the session ends      *)
(***************************************************************************)
Client == [side |-> "client", fails |-> {}, opens |-> {}, ends |-> {}, dgram |-> {},
           aborts |-> FALSE, peer |-> <<>>, files |-> {}, win32 |-> FALSE, keeps |-> TRUE,
           channel |-> "none", retransmits |-> 1, reopens |-> FALSE, sends |-> 1,
           reads |-> FALSE, streams |-> 4]
Server == [Client EXCEPT !.side = "server", !.files = {"wtserver_key.pem", "wtserver_cert.pem"},
                         !.sends = 2]
CtorCalls == {"RegistrationOpen", "ConfigurationOpen", "ConnectionOpen",
              "ConnectionSetConfiguration", "ConnectionStart"}
StartCalls == {"RegistrationOpen", "ConfigurationOpen", "LoadCredential", "ListenerOpen",
               "ListenerStart", "ConnectionSetConfiguration"}
PeerBidi(d) == [kind |-> "bidi", data |-> d]
PeerUni(d) == [kind |-> "uni", data |-> d]
Request == PeerBidi(<<"h1", "connect">>)
RequestTwice == PeerBidi(<<"h1", "connect", "h1", "connect">>)
MCWtSetups ==
    { [Client EXCEPT !.fails = CtorCalls, !.ends = {"close", "transport", "peer", "destroy"}],
      [Client EXCEPT !.sends = 2, !.fails = {"StreamOpen", "StreamStart", "StreamSend"},
         !.opens = {"bidi", "uni"}, !.ends = {"close", "peer", "destroy"}, !.aborts = TRUE,
         !.streams = 2],
      [Client EXCEPT !.ends = {"close", "peer", "channel"}, !.reopens = TRUE,
         !.dgram = {"send", "state", "recv"}, !.fails = {"DatagramSend"},
         !.channel = "kUnreliable"],
      [Client EXCEPT !.sends = 2, !.ends = {"channel", "peer"}, !.reopens = TRUE,
         !.channel = "kPartialReliableTTL", !.fails = {"StreamOpen", "StreamSend"}],
      [Client EXCEPT !.ends = {"channel", "close"}, !.reads = TRUE, !.streams = 2,
         !.channel = "kPartialReliableCount", !.peer = <<PeerBidi(<<"odd", "d1">>)>>],
      [Server EXCEPT !.sends = 1, !.fails = StartCalls, !.ends = {"stop"}],
      [Server EXCEPT !.sends = 1, !.win32 = TRUE, !.files = {"wtserver_hash.txt"},
         !.fails = {"StreamOpen", "StreamStart", "StreamSend"}, !.ends = {"stop", "peer"},
         !.peer = <<PeerUni(<<"t0", "s1", "settings">>), PeerUni(<<"t2", "q">>),
                    PeerUni(<<"t3">>)>>],
      [Server EXCEPT !.sends = 3, !.fails = {"StreamSend"}, !.ends = {"stop", "close"},
         !.peer = <<RequestTwice, Request>>, !.streams = 3],
      [Server EXCEPT !.ends = {"stop", "peer", "destroy"}, !.dgram = {"state"},
         !.peer = <<Request>>],
      [Server EXCEPT !.ends = {"channel"}, !.channel = "kReliableOrdered", !.reopens = TRUE,
         !.peer = <<Request, PeerBidi(<<"sig", "sid", "d1", "d2">>)>>],
      [Server EXCEPT !.ends = {"channel"}, !.channel = "kReliableOrdered", !.streams = 5,
         !.peer = <<Request, PeerBidi(<<"sig", "sid", "d1">>), PeerBidi(<<"sig", "sid", "d1">>)>>],
      [Server EXCEPT !.keeps = FALSE, !.ends = {"stop", "peer"},
         !.peer = <<RequestTwice, PeerUni(<<"t0">>)>>],
      [Server EXCEPT !.sends = 3, !.ends = {"stop"},
         !.peer = <<Request, PeerUni(<<"t0">>), PeerBidi(<<"sig", "sid", "d1", "d2">>)>>] }
MCStreams == {"x1", "x2", "x3", "x4", "x5"}

Init ==
    /\ plane \in {"sctp", "webtransport", "qpack", "arq"}
    /\ DcInit /\ WtInit /\ QpInit /\ ArqInit
    /\ plane # "sctp" => dcSetup = CHOOSE d \in DcSetups : TRUE
    /\ plane # "webtransport" => wtSetup = CHOOSE w \in WtSetups : TRUE
    /\ plane # "arq" => link = CHOOSE l \in Links : l.lossy
Next == \/ plane = "sctp" /\ DcNext /\ UNCHANGED <<plane, wtAll, qpVars, arqVars>>
        \/ plane = "webtransport" /\ WtNext /\ UNCHANGED <<plane, dcAll, qpVars, arqVars>>
        \/ plane = "qpack" /\ QpNext /\ UNCHANGED <<plane, dcAll, wtAll, arqVars>>
        \/ plane = "arq" /\ ArqNext /\ UNCHANGED <<plane, dcAll, wtAll, qpVars>>
Spec == Init /\ [][Next]_vars /\ ArqFair
QpackSpec == Init /\ plane = "qpack" /\ [][Next]_vars

\* Values of every plane's state.
TypeOK == DcTypeOK /\ WtTypeOK /\ ArqTypeOK

\* What on_message receives from a peer stream is the payload of that stream,
\* in order, without the header, however RECEIVE events split it and whatever
\* close() and open() do meanwhile, unless the stream was installed on a closed
\* channel, which drops its header.
Received(x) ==
    LET mine == SelectSeq(got, LAMBDA m : m.via = "peer" /\ m.x = x)
        upTo[n \in 0..Len(mine)] == IF n = 0 THEN <<>> ELSE upTo[n - 1] \o mine[n].bytes
    IN  upTo[Len(mine)]
PeerPayloadIntact ==
    \A x \in Streams \ wc.stray : quic.from[x] # 0 =>
      LET whole == wtSetup.peer[quic.from[x]].data
      IN  try_decode_header(whole) = "ok" =>
            /\ Len(Received(x)) <= Len(Payload(whole))
            /\ Received(x) = SubSeq(Payload(whole), 1, Len(Received(x)))

\* A stream of the peer is served once, wherever RECEIVE events cut it: a
\* CONNECT starts one session at most, and a data stream's payload arrives
\* unchanged behind its header (process_request_frames, on_peer_stream_data).
StreamsServedOnce == PeerPayloadIntact /\ OneSessionPerRequest

\* Once close() has returned, an SCTP channel calls on_message no more.  A
\* WebTransport channel calls it for one datagram or peer-stream message that
\* was past the look at opened_, and for none whose event starts later, opened
\* again or not, unless its peer stream was installed while close() ran; data of
\* its own stream is not stopped by close() and not covered (close() of both
\* data channels).
CloseEndsDelivery ==
    [][SilentOnceClosed /\ LateInboundIgnored]_vars /\ []OneAfterClose
=============================================================================
