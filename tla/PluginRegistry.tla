---------------------------- MODULE PluginRegistry ----------------------------
(***************************************************************************)
(* The plugin registry (src/core) as a value: a set of entries, one per    *)
(* category and id, each with the factory registered under it.  A factory  *)
(* is "built-in" or "user"; NoFactory is the null pointer of a failed      *)
(* lookup.  Every call takes the category's mutex, so it is one step of    *)
(* whoever makes it.                                                       *)
(***************************************************************************)
CONSTANT Built    \* the optional modules in this build, a set of categories

NoFactory == "none"
Categories ==
    {"transport", "ice_transport", "rtp", "sdp", "jb", "audio3a", "codec", "audio_decoder",
     "audio_receiver", "video_codec", "video_source", "video_sink", "video_receiver",
     "video_sender", "bwe", "scheduler", "datachannel", "dtls_session", "sctp_socket", "raw_udp",
     "transport_stack", "web_transport"}
Optional == {"codec", "video_codec", "video_receiver", "video_sender", "video_sink",
             "video_source"}
Entry(c, i, f) == [category |-> c, id |-> i, factory |-> f]

get(reg, c, i) ==
    LET Found == {e \in reg : e.category = c /\ e.id = i}
    IN IF Found = {} THEN NoFactory ELSE (CHOOSE e \in Found : TRUE).factory
\* Overwrites the entry of the same id.
register_one(reg, c, i, f) ==
    {e \in reg : e.category # c \/ e.id # i} \cup {Entry(c, i, f)}
unregister_one(reg, c, i) == {e \in reg : e.category # c \/ e.id # i}

\* A NIMRTC_REGISTER_* macro registers through a Registrar, by category.
Registrar(reg, c, i, f) == IF c \in Categories THEN register_one(reg, c, i, f) ELSE reg
\* The categories whose entries can be taken out again.
Unregistrable == {"datachannel", "web_transport"}

\* The entry points a module's register_default_plugins() fills, by category.
kDefaultRegistrars ==
    {<<"audio3a", "webrtc">>, <<"audio3a", "webrtc_apm">>, <<"bwe", "aimd">>,
     <<"bwe", "goog-cc">>, <<"datachannel", "sctp">>, <<"video_codec", "h264">>,
     <<"transport", "ice">>, <<"ice_transport", "ice">>, <<"jb", "adaptive">>,
     <<"codec", "opus">>, <<"rtp", "webrtc">>, <<"scheduler", "strict_priority">>,
     <<"sdp", "webrtc">>, <<"video_receiver", "reference">>, <<"video_sender", "reference">>,
     <<"video_sink", "headless">>, <<"video_sink", "pinned">>, <<"video_source", "memory">>,
     <<"dtls_session", "wolfssl">>, <<"sctp_socket", "stub">>, <<"raw_udp", "arq">>,
     <<"transport_stack", "default">>, <<"transport_stack", "webrtc-classic">>,
     <<"transport_stack", "raw-udp-arq">>, <<"web_transport", "msquic">>,
     <<"datachannel", "web_transport">>}
Defaults == {d \in kDefaultRegistrars : d[1] \in Optional => d[1] \in Built}

\* Each module registers once per process (a static latch); the first call
\* writes over whatever the same ids held.
register_all_default_plugins(reg, latched) ==
    IF latched THEN reg
    ELSE {e \in reg : <<e.category, e.id>> \notin Defaults}
         \cup {Entry(d[1], d[2], "built-in") : d \in Defaults}
=============================================================================
