------------------------------- MODULE Assembly -------------------------------
(***************************************************************************)
(* Profiles (src/modules/assembly): the built-in ones, the registry of     *)
(* profiles, the builder that starts from one and overrides parts of it,   *)
(* and the JSON files profiles are saved to and loaded from.               *)
(*                                                                         *)
(* A profile is a record of the fields below, the nested blocks written    *)
(* flat (sc_ scheduler, bwe_, jb_, tm_ transport.media, tc_                *)
(* transport.control).  A JSON document is a function on the keys it       *)
(* contains; a block is present when one of its keys is.  Rates are in     *)
(* kbit/s, and 0 stands for an optional number that is not set.  Of        *)
(* bwe.params, whose other fields no document carries, min_kbps stands for *)
(* all of those.                                                           *)
(***************************************************************************)
EXTENDS Integers

CONSTANTS
    UserProfiles,    \* profiles the application registers
    UserDocuments,   \* JSON documents written by hand
    Overrides,       \* what the builder's overrides are given: partial profiles
    MaxBuilds        \* bound: builder calls

\* The blocks of a profile with their defaults.
Implementations ==
    [name |-> "", transport_name |-> "ice", sdp_name |-> "webrtc", rtp_name |-> "webrtc",
     jb_name |-> "adaptive", audio3a_name |-> "webrtc_apm", codec_name |-> "opus",
     bwe_name |-> "aimd", scheduler_name |-> "default"]
AudioConfig ==
    [timeline_enabled |-> FALSE, datachannel_enabled |-> FALSE,
     audio_sample_rate_hz |-> 48000, audio_channels |-> 1, audio_payload_type |-> 111]
BweConfig == [bwe_impl |-> "aimd", bwe_initial |-> 1000, bwe_max |-> 10000, bwe_min_kbps |-> 30]
JitterBufferConfig ==
    [jb_impl |-> "adaptive", jb_mode |-> "kLowLatency", jb_initial |-> 40, jb_min |-> 10,
     jb_max |-> 200]
SchedulerConfig ==
    [sc_enabled |-> TRUE, sc_strategy |-> "kStrictPriority", sc_control |-> 10, sc_audio |-> 8,
     sc_video |-> 4, sc_best_effort |-> 1, sc_impl |-> "strict_priority",
     sc_avg_packet |-> 1200, sc_max_depth |-> 8192, sc_protect |-> TRUE]
TransportStackConfig ==
    [strategy |-> "", tm_stack |-> "", tm_p99 |-> 0, tc_enabled |-> FALSE, tc_stack |-> "",
     tc_p99 |-> 0, tc_freq |-> 0, tc_reliability |-> "", tc_ttl |-> 0]
Blocks == {Implementations, AudioConfig, BweConfig, JitterBufferConfig, SchedulerConfig,
           TransportStackConfig}
Fields == UNION {DOMAIN b : b \in Blocks}
Profile == [k \in Fields |-> (CHOOSE b \in Blocks : k \in DOMAIN b)[k]]

BweFields == DOMAIN BweConfig
JbFields == DOMAIN JitterBufferConfig
SchedulerFields == DOMAIN SchedulerConfig
TransportFields == DOMAIN TransportStackConfig

\* A value of the C++ struct: its fields, with the two enumerations in their range.
Modes == {"kLowLatency", "kLive", "kInteractive"}
Strategies == {"kStrictPriority", "kWeightedFair", "kFixedRate"}
IsProfile(p) ==
    /\ p = [k \in Fields |-> p[k]]
    /\ p.jb_mode \in Modes /\ p.sc_strategy \in Strategies
ASSUME ProfileAssumption ==
    /\ \A p \in UserProfiles : IsProfile(p)
    /\ \A o \in Overrides : /\ "jb_mode" \in DOMAIN o => o["jb_mode"] \in Modes
                            /\ "sc_strategy" \in DOMAIN o => o["sc_strategy"] \in Strategies

default_impl_for(s) == CASE s = "kWeightedFair" -> "weighted_fair"
                         [] s = "kFixedRate" -> "fixed_rate"
                         [] OTHER -> "strict_priority"
resolve_scheduler_impl(p) ==
    IF p.sc_impl # "" THEN p.sc_impl ELSE default_impl_for(p.sc_strategy)

(***************************************************************************)
(* The built-in profiles                                                   *)
(***************************************************************************)
ts(p, s, media, p99) == [p EXCEPT !.strategy = s, !.tm_stack = media, !.tm_p99 = p99]
ts_control(p, p99, freq) ==
    [p EXCEPT !.tc_enabled = TRUE, !.tc_stack = "raw-udp-arq", !.tc_p99 = p99, !.tc_freq = freq,
              !.tc_reliability = "reliable_ordered"]
ts_browser_call(p, p99) == ts(p, "browser-call", "webrtc-classic", p99)
ts_sfu_relay(p) == ts(p, "sfu-relay", "webrtc-classic", 200)
ts_teleop_ultra_low_latency(p) ==
    [ts_control(ts(p, "teleop-ultra-low-latency", "raw-udp-arq", 100), 50, 200)
        EXCEPT !.tc_ttl = 100]
ts_agent_gateway(p, p99) == ts_control(ts(p, "agent-gateway", "webrtc-classic", 200), p99, 100)
ts_sfu_agent(p) == ts_control(ts_sfu_relay(p), 100, 50)
Bwe(p, initial, max) == [p EXCEPT !.bwe_initial = initial, !.bwe_max = max]
Jb(p, initial, min, max) == [p EXCEPT !.jb_initial = initial, !.jb_min = min, !.jb_max = max]
\* Neither coder, 3A, jitter buffer nor estimator.
Bare(p) == [p EXCEPT !.jb_name = "", !.audio3a_name = "", !.codec_name = "", !.bwe_name = "",
                     !.jb_impl = "", !.jb_initial = 0, !.jb_min = 0, !.jb_max = 0]

kProfileCall == ts_browser_call(Bwe([Profile EXCEPT !.name = "call"], 1000, 10000), 200)
kProfileLive ==
    ts_browser_call(Jb(Bwe([Profile EXCEPT !.name = "live", !.sc_strategy = "kWeightedFair",
                                !.sc_impl = "weighted_fair", !.jb_mode = "kLive"],
                           2000, 20000), 80, 30, 500), 300)
kProfileTransport ==
    ts_sfu_relay(Bare([Profile EXCEPT !.name = "transport", !.sc_enabled = FALSE]))
kProfileAgent ==
    ts_agent_gateway(Jb(Bwe([Profile EXCEPT !.name = "agent", !.timeline_enabled = TRUE,
                                            !.datachannel_enabled = TRUE],
                            500, 5000), 30, 5, 150), 80)
kProfileTeleop ==
    ts_teleop_ultra_low_latency(
        Jb(Bwe([Profile EXCEPT !.name = "teleop", !.audio3a_name = "", !.timeline_enabled = TRUE,
                               !.datachannel_enabled = TRUE, !.sc_control = 20],
               2000, 20000), 20, 5, 100))
kProfileRelay ==
    [ts_sfu_relay(Bare([Profile EXCEPT !.name = "relay", !.sc_enabled = FALSE]))
        EXCEPT !.audio_sample_rate_hz = 0, !.audio_channels = 0, !.audio_payload_type = 0]
kProfileAgentGateway == [kProfileAgent EXCEPT !.name = "agent-gateway"]
kProfileRelayAgent ==
    ts_sfu_agent(Bwe([Bare(Profile) EXCEPT !.name = "relay-agent", !.audio3a_name = "webrtc_apm",
                          !.timeline_enabled = TRUE, !.datachannel_enabled = TRUE,
                          !.sc_control = 20], 1000, 10000))
kProfileAgentLowLatency ==
    ts_agent_gateway(Jb([kProfileAgent EXCEPT !.name = "agent-low-latency"], 20, 5, 120), 60)
BuiltIns == {kProfileCall, kProfileLive, kProfileTransport, kProfileAgent, kProfileTeleop,
             kProfileRelay, kProfileAgentGateway, kProfileRelayAgent, kProfileAgentLowLatency}

(***************************************************************************)
(* JSON                                                                    *)
(***************************************************************************)
ModeName(m) == CASE m = "kLive" -> "live" [] m = "kInteractive" -> "interactive"
                 [] OTHER -> "low_latency"
string_to_jitter_buffer_mode(s) ==
    CASE s = "live" -> "kLive" [] s = "interactive" -> "kInteractive" [] OTHER -> "kLowLatency"
string_to_scheduler_strategy(s) ==
    CASE s = "weighted_fair" -> "kWeightedFair" [] s = "fixed_rate" -> "kFixedRate"
      [] OTHER -> "kStrictPriority"

OptionalNumbers == {"tm_p99", "tc_p99", "tc_freq", "tc_ttl"}
\* Mutant: the transport block is written only with a strategy.
Written_StrategyOnly(p) ==
    LET unset == {k \in OptionalNumbers : p[k] = 0}
                 \cup {k \in {"strategy", "tc_reliability"} : p[k] = ""}
    IN (Fields \ {"bwe_min_kbps"}) \ (IF p.strategy # "" THEN unset ELSE TransportFields)
\* An optional number, the strategy or the reliability is written when set; the
\* transport block is written at all only for one of three of its fields.
Written(p) ==
    LET transport == p.strategy # "" \/ p.tm_stack # "" \/ p.tc_enabled
        unset == {k \in OptionalNumbers : p[k] = 0}
                 \cup {k \in {"strategy", "tc_reliability"} : p[k] = ""}
    IN (Fields \ {"bwe_min_kbps"}) \ (IF transport THEN unset ELSE TransportFields)
profile_to_json_string(p) ==
    [k \in Written(p) |->
        CASE k = "jb_mode" -> ModeName(p.jb_mode)
          [] k = "sc_strategy" -> default_impl_for(p.sc_strategy)
          [] k = "sc_impl" -> resolve_scheduler_impl(p)
          [] OTHER -> p[k]]

\* What a block that is present says of a key it lacks.
JsonDefault == [Profile EXCEPT !.sc_impl = ""]
BlockOf(k) == CASE k \in BweFields -> BweFields [] k \in JbFields -> JbFields
                [] k \in SchedulerFields -> SchedulerFields [] OTHER -> {k}
profile_from_json_file(d) ==
    LET Raw(k) == IF k \in DOMAIN d THEN d[k]
                  ELSE IF BlockOf(k) \cap DOMAIN d # {} THEN JsonDefault[k] ELSE Profile[k]
        mode == IF "jb_mode" \in DOMAIN d THEN string_to_jitter_buffer_mode(d["jb_mode"])
                ELSE "kLowLatency"
        strat == IF "sc_strategy" \in DOMAIN d THEN string_to_scheduler_strategy(d["sc_strategy"])
                 ELSE "kStrictPriority"
    IN [k \in Fields |->
          CASE k = "jb_mode" -> mode
            [] k = "sc_strategy" -> strat
            [] k = "sc_impl" -> IF Raw("sc_impl") # "" THEN Raw("sc_impl") ELSE default_impl_for(strat)
            [] OTHER -> Raw(k)]

(***************************************************************************)
(* The registry of profiles and the builder                                *)
(***************************************************************************)
VARIABLES
    profiles_,   \* the registered profiles, by name
    profile_,    \* the builder's profile
    files,       \* JSON documents on disk
    builds       \* builder calls made
asmAll == <<profiles_, profile_, files, builds>>

AsmInit ==
    /\ profiles_ = [n \in {p.name : p \in BuiltIns} |-> CHOOSE p \in BuiltIns : p.name = n]
    /\ profile_ = Profile /\ files = UserDocuments /\ builds = 0

\* Replaces the profile of the same name.
register_profile(p) ==
    profiles_' = [n \in DOMAIN profiles_ \cup {p.name} |-> IF n = p.name THEN p ELSE profiles_[n]]
RegisterUser ==
    /\ \E p \in UserProfiles : register_profile(p)
    /\ UNCHANGED <<profile_, files, builds>>
Build == builds < MaxBuilds /\ builds' = builds + 1
\* An unknown name leaves the builder's profile as it is.
load_profile ==
    /\ Build
    /\ \E n \in DOMAIN profiles_ \cup {"typo"} :
          profile_' = IF n \in DOMAIN profiles_ THEN profiles_[n] ELSE profile_
    /\ UNCHANGED <<profiles_, files>>
\* Each override replaces a whole block, or one name or flag.
override ==
    /\ Build
    /\ \E o \in Overrides :
          profile_' = [k \in Fields |-> IF k \in DOMAIN o THEN o[k] ELSE profile_[k]]
    /\ UNCHANGED <<profiles_, files>>
save_profile ==
    /\ Build
    /\ files' = files \cup {profile_to_json_string(profile_)}
    /\ UNCHANGED <<profiles_, profile_>>
\* A profile loaded from a file is registered under its name.
load_file ==
    /\ \E d \in files : register_profile(profile_from_json_file(d))
    /\ UNCHANGED <<profile_, files, builds>>
AsmNext == RegisterUser \/ load_profile \/ override \/ save_profile \/ load_file
AsmSpec == AsmInit /\ [][AsmNext]_asmAll

AsmTypeOK ==
    /\ DOMAIN profile_ = Fields /\ builds \in 0..MaxBuilds
    /\ \A n \in DOMAIN profiles_ : profiles_[n].name = n /\ DOMAIN profiles_[n] = Fields

\* A document can hold this profile: its transport block, if it has one, is
\* declared by its strategy, stack or control flag, its scheduler names an
\* implementation, and its estimator is given only the parameters of the schema.
Portable(p) ==
    /\ p.bwe_min_kbps = Profile.bwe_min_kbps /\ p.sc_impl # ""
    /\ \/ p.strategy # "" \/ p.tm_stack # "" \/ p.tc_enabled
       \/ \A k \in TransportFields : p[k] = Profile[k]
Reload(p) == profile_from_json_file(profile_to_json_string(p))
\* A profile the builder has made that is saved and loaded again is the same
\* profile when a document can hold it; and whatever was lost on the way is lost once: a second round
\* trip changes nothing more (assembly.cpp, "so the round-trip is byte-identical").
SavedProfileLoads ==
    /\ Portable(profile_) => Reload(profile_) = profile_
    /\ Reload(Reload(profile_)) = Reload(profile_)
=============================================================================
