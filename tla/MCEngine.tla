------------------------------- MODULE MCEngine -------------------------------
(***************************************************************************)
(* Instances of the engine's life, of a transport session, of the assembly *)
(* of profiles, of the ICE transport, of two GmSSL sessions and of the     *)
(* handshake reassembler.  Init chooses one; the others stand still.       *)
(***************************************************************************)
EXTENDS EngineLifecycle, Assembly, IceTransport, GmsslSession, HandshakeReassembler

VARIABLE part
vars == <<part, lifeAll, asmAll, tses, iceVars, gmVars, hrVars>>

DefaultEngine == [EngineConfig EXCEPT !.scheduler_enabled = TRUE]
                 @@ [BackendConfig EXCEPT !.web_transport_peer_host = "peer"]
MCConfigs ==
    { DefaultEngine,
      [DefaultEngine EXCEPT !.datachannel_backend = "sctp", !.transport_strategy_name = "sfu-relay",
                            !.dtls_name = "guomi_sm4"],
      [DefaultEngine EXCEPT !.datachannel_backend = "", !.datachannel_name = "mine",
                            !.transport_strategy_name = "agent-gateway", !.bwe_name = "typo"],
      [DefaultEngine EXCEPT !.transport_strategy_name = "teleop-ultra-low-latency",
                            !.bwe_name = "", !.scheduler_enabled = FALSE, !.video_codec_name = "",
                            !.codec_name = "none", !.web_transport_name = "typo"],
      [DefaultEngine EXCEPT !.transport_strategy_name = "shell", !.datachannel_name = "",
                            !.datachannel_backend = "", !.web_transport_peer_host = ""],
      [DefaultEngine EXCEPT !.transport_strategy_name = "typo"],
      [DefaultEngine EXCEPT !.datachannel_backend = "typo"],
      [DefaultEngine EXCEPT !.dtls_name = "typo", !.transport_strategy_name = "cross-network-peer"] }
MCFaults == {{}, {"ice_open"}, {"dtls_open", "channel"}, {"stack"},
             {"audio3a", "codec", "bwe", "wt", "video_sink", "video_source"}}
MCUser == {<<"datachannel", "mine">>}
MCStatic == {<<"dtls_session", "guomi_sm4">>}
MCBuilt == {"codec", "video_codec", "video_receiver", "video_sender", "video_sink", "video_source"}

(***************************************************************************)
(* Profiles an application adds, files written by hand, builder overrides  *)
(***************************************************************************)
MCUserProfiles ==
    { [Profile EXCEPT !.name = "mine", !.tm_stack = "webrtc-classic", !.tm_p99 = 90],
      [Profile EXCEPT !.name = "budget", !.tm_p99 = 90, !.sc_impl = "",
                      !.sc_strategy = "kFixedRate", !.bwe_min_kbps = 60] }
MCDocuments == { [name |-> "old", sc_strategy |-> "weighted_fair", bwe_impl |-> "goog-cc"],
                 [name |-> "call", jb_mode |-> "interactive", tc_enabled |-> TRUE] }
MCOverrides ==
    { [transport_name |-> "quic"], [timeline_enabled |-> TRUE], [datachannel_enabled |-> FALSE],
      [k \in BweFields |-> IF k = "bwe_impl" THEN "goog-cc" ELSE Profile[k]],
      [k \in SchedulerFields |-> IF k = "sc_strategy" THEN "kFixedRate" ELSE Profile[k]],
      [k \in JbFields |-> IF k = "jb_mode" THEN "kInteractive" ELSE Profile[k]] }

\* The state of a part that stands still.
AsmIdle == profiles_ = <<>> /\ profile_ = Profile /\ files = {} /\ builds = 0
LifeIdle == LifeInit /\ cfg = DefaultEngine
Init ==
    /\ IceInit /\ GmInit /\ HrInit
    /\ \/ part = "life" /\ LifeInit /\ AsmIdle /\ tses = NoTransport
       \/ part = "assembly" /\ LifeIdle /\ AsmInit /\ tses = NoTransport
       \/ part = "transport" /\ LifeIdle /\ AsmIdle /\ TsInit
       \/ part \in {"ice", "gmssl", "reassembly"} /\ LifeIdle /\ AsmIdle /\ tses = NoTransport
Next == \/ part = "life" /\ LifeNext /\ UNCHANGED <<part, asmAll, tses, iceVars, gmVars, hrVars>>
        \/ part = "assembly" /\ AsmNext /\ UNCHANGED <<part, lifeAll, tses, iceVars, gmVars, hrVars>>
        \/ part = "transport" /\ TsNext /\ UNCHANGED <<part, lifeAll, asmAll, iceVars, gmVars, hrVars>>
        \/ part = "ice" /\ IceNext /\ UNCHANGED <<part, lifeAll, asmAll, tses, gmVars, hrVars>>
        \/ part = "gmssl" /\ GmNext /\ UNCHANGED <<part, lifeAll, asmAll, tses, iceVars, hrVars>>
        \/ part = "reassembly" /\ HrNext /\ UNCHANGED <<part, lifeAll, asmAll, tses, iceVars, gmVars>>
Spec == Init /\ [][Next]_vars /\ IceFair
\* Values of the state of all parts.
TypeOK == LifeTypeOK /\ AsmTypeOK /\ IceTypeOK /\ GmTypeOK /\ HrTypeOK
\* Which plugins an engine leaks is known.  Over any mixture of pre_open(), failed
\* and repeated opens, set plugins, close() and destruction, a plugin is destroyed
\* without close() only when the initialisation is run again (the audio plugins),
\* when an engine is destroyed that was never opened, and when a video sink or source
\* was set after close(); a closed engine holds nothing else that runs, and neither
\* does a closed transport session (set_video_sink() and set_video_source() of
\* engine_media.cpp, make_plugin(), close() and ~NimRTCEngine() of engine.cpp).
LeaksAccounted == DropsAccounted /\ ClosedHoldsLate /\ SessionReleased
OneDescription == {"sdp"}
MCMessages == (0 :> [type |-> "client_hello", len |-> 3]) @@ (1 :> [type |-> "certificate", len |-> 2])
=============================================================================
