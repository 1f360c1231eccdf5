---------------------------- MODULE EngineLifecycle ----------------------------
(***************************************************************************)
(* The life of an engine (src/engine): construction, pre_open(), open(),   *)
(* close(), destruction, the phases in which open() builds the transport   *)
(* session, the plugins and the DTLS session, and the data channels and    *)
(* video plugins the application sets while the engine lives.              *)
(*                                                                         *)
(* Each call is one step of the application's thread.  What its plugins    *)
(* answer is chosen by the step: `bad' is the set of calls that fail.  A   *)
(* plugin slot holds 0 when empty and otherwise the number of the          *)
(* initialisation that filled it; ice_t_ and the pointers injected into    *)
(* ICE are such numbers too.                                               *)
(***************************************************************************)
EXTENDS TransportStack, FiniteSets, TLC

CONSTANTS
    EngineConfigs,   \* the EngineConfig values tried
    StaticPlugins,   \* factories registered before main by a macro: <<category, id>>
    UserPlugins,     \* factories the application registers later
    FaultSets,       \* which calls fail together
    MaxInits,        \* bound: runs of init_modules_once
    MaxSets,         \* bound: set_video_sink and set_video_source calls
    MaxChannels      \* bound: data channels the application holds at a time

Slots == {"bwe", "scheduler", "audio3a", "codec", "video_sink", "video_source",
          "video_receiver", "video_sender", "video_codec"}
VideoSlots == {s \in Slots : s \notin {"bwe", "scheduler", "audio3a", "codec"}}

VARIABLES
    cfg,        \* the configuration the engine was constructed with
    registry,   \* the process-wide plugin registry
    latched,    \* the default plugins were registered
    unregistered, \* user factories not registered yet
    eng,        \* the engine
    channels,   \* data channels the application holds, by the session they point into
    sets        \* set_video_sink and set_video_source calls made
lifeAll == <<cfg, registry, latched, unregistered, eng, channels, sets>>

\* The plugins and strategy an engine is configured with when nothing is set.
EngineConfig ==
    [transport_name |-> "ice", dtls_name |-> "", transport_strategy_name |-> "",
     bwe_name |-> "aimd", scheduler_enabled |-> FALSE, scheduler_name |-> "strict_priority",
     audio3a_name |-> "webrtc_apm", codec_name |-> "opus", video_sink_name |-> "headless",
     video_codec_name |-> "h264"]
BackendConfig ==
    [datachannel_backend |-> "web_transport", datachannel_name |-> "sctp", web_transport_name |-> "msquic",
     web_transport_peer_host |-> ""]

NoSession == [media |-> NoStack, control |-> NoStack]
\* What the pimpl holds: session, SRTP context, fallback coders, WebTransport session.
NewImpl == [session |-> NoSession, srtp |-> FALSE, null3a |-> FALSE, opus |-> FALSE, wt |-> 0]
\* The engine itself.  `pre', `opened' and `asked' record what was called, `failed'
\* what went wrong, `dropped' the plugins destroyed without close(), and `late' the
\* video plugins set after close(), for the guards and properties.
NewEngine ==
    [state |-> "Constructed", inits |-> 0, rc |-> "ok", media |-> "", control |-> "", dc |-> "",
     ice_t |-> 0, ice_cb |-> "none", ice_bwe |-> 0, ice_sched |-> 0, turn |-> FALSE,
     slot |-> [s \in Slots |-> 0], running |-> FALSE,
     pre |-> FALSE, failed |-> {}, dropped |-> {}, asked |-> FALSE, opened |-> FALSE,
     late |-> {}] @@ NewImpl

LifeInit ==
    /\ cfg \in EngineConfigs
    /\ registry = UNION {Registrar({}, u[1], u[2], "user") : u \in StaticPlugins}
    /\ latched = FALSE /\ unregistered = UserPlugins
    /\ eng = NewEngine /\ channels = {} /\ sets = 0

(***************************************************************************)
(* Plugins                                                                 *)
(***************************************************************************)
\* Factory, create, open: a failure leaves the slot empty.  What the slot
\* held before is destroyed, not closed.
make_plugin(reg, e, s, name, bad) ==
    LET ok == get(reg, s, name) # NoFactory /\ s \notin bad
    IN [e EXCEPT !.slot[s] = IF ok THEN e.inits ELSE 0,
                 !.dropped = IF e.slot[s] # 0 THEN @ \cup {s} ELSE @]
MakeIfEmpty(reg, e, s, name, bad) == IF e.slot[s] # 0 THEN e ELSE make_plugin(reg, e, s, name, bad)

\* The null ICE ignores every setter.
TakesSetters(e) == e.session.media.ice # "null"
\* ICE gets both, made or not.
init_bwe_scheduler(reg, e, bad) ==
    LET WithBwe(x) == IF cfg.bwe_name = "" THEN x ELSE MakeIfEmpty(reg, x, "bwe", cfg.bwe_name, bad)
        WithScheduler(x) == IF ~cfg.scheduler_enabled THEN x
                            ELSE MakeIfEmpty(reg, x, "scheduler", cfg.scheduler_name, bad)
        Handed(x) == IF ~TakesSetters(x) THEN x
                     ELSE [x EXCEPT !.ice_bwe = x.slot["bwe"], !.ice_sched = x.slot["scheduler"]]
    IN Handed(WithScheduler(WithBwe(e)))
shutdown_bwe_scheduler(e) ==
    [e EXCEPT !.slot["bwe"] = 0, !.slot["scheduler"] = 0, !.ice_bwe = 0, !.ice_sched = 0]

\* Without a plugin the engine falls back to a pass-through 3A and, when built
\* with Opus, to an Opus coder of its own.
init_audio_modules(reg, e, bad) ==
    LET Fallback(x) == [x EXCEPT !.null3a = @ \/ x.slot["audio3a"] = 0,
                                 !.opus = @ \/ (x.slot["codec"] = 0 /\ "codec" \in Built)]
    IN Fallback(make_plugin(reg, make_plugin(reg, e, "audio3a", cfg.audio3a_name, bad),
                            "codec", cfg.codec_name, bad))

init_video_plugins(reg, e, bad) ==
    LET Make(x, s, name) == MakeIfEmpty(reg, x, s, name, bad)
        Codec(x) == IF cfg.video_codec_name = "" THEN x ELSE Make(x, "video_codec", cfg.video_codec_name)
    IN Codec(Make(Make(Make(Make(e, "video_sink", cfg.video_sink_name), "video_source", "memory"),
                       "video_receiver", "reference"), "video_sender", "reference"))
shutdown_video_plugins(e) ==
    [e EXCEPT !.slot = [s \in Slots |-> IF s \in VideoSlots THEN 0 ELSE @[s]], !.running = FALSE]

(***************************************************************************)
(* Phases                                                                  *)
(***************************************************************************)
init_transport_strategy(e) ==
    LET name == cfg.transport_strategy_name
        req == requirements_from_profile_input(name, 0)
    IN IF name = "shell" THEN [e EXCEPT !.media = "default", !.control = ""]
       ELSE IF req = Unknown THEN [e EXCEPT !.rc = "kEngineInvalidParam"]
       ELSE [e EXCEPT !.media = select(req).media, !.control = select(req).control]

\* The new session replaces the old one before it is known to have a media
\* stack.  A stack without ICE yields a null reference, and the configuration
\* calls that follow go through it.
init_transport_session(reg, e, bad) ==
    LET scfg == [StackConfig EXCEPT !.ice_id = cfg.transport_name,
                                    !.dtls_id = IF cfg.dtls_name = "" THEN @ ELSE cfg.dtls_name]
        Replaced(ses) == [e EXCEPT !.session = ses,
                                   !.ice_cb = IF ses.media.errors THEN "stack" ELSE "none",
                                   !.ice_bwe = 0, !.ice_sched = 0, !.turn = FALSE]
        Configured(x) == IF x.session.media = NoStack THEN [x EXCEPT !.rc = "kEngineInternal"]
                         ELSE IF x.session.media.ice = "none"
                         THEN [x EXCEPT !.rc = "crash", !.state = "Crashed"]
                         ELSE [x EXCEPT !.ice_t = e.inits]
    IN Configured(Replaced(make_transport_instance(reg, e.media, e.control, scfg, bad)))

Backend == IF cfg.datachannel_backend = "" THEN cfg.datachannel_name ELSE cfg.datachannel_backend
\* The SCTP family takes datachannel_name as its factory, and as disabled when empty.
sctp_backend(e) == IF cfg.datachannel_name = "" THEN e ELSE [e EXCEPT !.dc = cfg.datachannel_name]
\* A missing session factory is only warned about.
web_transport_backend(e) == [e EXCEPT !.dc = "web_transport"]
\* A legacy name other than "sctp" is a factory id and not a family.
init_datachannel_registry(e) ==
    LET direct == cfg.datachannel_backend = "" /\ Backend # "sctp"
    IN CASE Backend = "" -> e
         [] Backend # "" /\ direct -> [e EXCEPT !.dc = Backend]
         [] ~direct /\ Backend = "sctp" -> sctp_backend(e)
         [] ~direct /\ Backend = "web_transport" -> web_transport_backend(e)
         [] OTHER -> [e EXCEPT !.dc = "", !.rc = "kEngineInternal"]

NoDtlsByDesign == {"raw-udp-arq", "default"}
\* What is left when DTLS is settled: the engine's callbacks go to ICE.
CallbacksSet(e) == [e EXCEPT !.ice_cb = IF TakesSetters(e) THEN "engine" ELSE @]
\* Mutant: any stack may go without DTLS.
init_dtls_handshake_Degrade(e, bad) ==
    IF e.session.media.dtls # "none" /\ "dtls_open" \in bad
    THEN [e EXCEPT !.srtp = TRUE, !.rc = "kDtlsOpenFailed"]
    ELSE IF e.session.media.dtls # "none"
    THEN CallbacksSet([e EXCEPT !.srtp = TRUE, !.session.media.dtls = "open"])
    ELSE CallbacksSet([e EXCEPT !.srtp = TRUE])
init_dtls_handshake(e, bad) ==
    IF e.session.media.dtls # "none" /\ "dtls_open" \in bad
    THEN [e EXCEPT !.srtp = TRUE, !.rc = "kDtlsOpenFailed"]
    ELSE IF e.session.media.dtls # "none"
    THEN CallbacksSet([e EXCEPT !.srtp = TRUE, !.session.media.dtls = "open"])
    ELSE IF e.media \in NoDtlsByDesign THEN CallbacksSet([e EXCEPT !.srtp = TRUE])
    ELSE [e EXCEPT !.srtp = TRUE, !.rc = "kEngineInternal"]

\* The phases in order, up to the first that fails.
init_modules_once(reg, e, bad) ==
    LET Session(x) == IF x.rc # "ok" THEN x ELSE init_transport_session(reg, x, bad)
        Plugins(x) == IF x.rc # "ok" THEN x
                      ELSE init_datachannel_registry(
                               init_audio_modules(reg, init_bwe_scheduler(reg, x, bad), bad))
        Dtls(x)    == IF x.rc # "ok" THEN x ELSE init_dtls_handshake(x, bad)
        Ended(x)   == [x EXCEPT !.failed = IF x.rc # "ok" /\ x.ice_t # 0 THEN @ \cup {"init"} ELSE @]
    IN Ended(Dtls(Plugins(Session(init_transport_strategy([e EXCEPT !.inits = @ + 1, !.rc = "ok"])))))

(***************************************************************************)
(* The application's calls                                                 *)
(***************************************************************************)
\* A user factory is registered under an id, in place of any other.
RegisterPlugin ==
    \E u \in unregistered :
        /\ registry' = Registrar(registry, u[1], u[2], "user")
        /\ unregistered' = unregistered \ {u}
        /\ UNCHANGED <<cfg, latched, eng, channels, sets>>
\* It is taken out, and registered no more.
UnregisterPlugin ==
    \E u \in UserPlugins :
        /\ u[1] \in Unregistrable /\ get(registry, u[1], u[2]) = "user"
        /\ registry' = unregister_one(registry, u[1], u[2])
        /\ UNCHANGED <<cfg, latched, unregistered, eng, channels, sets>>

\* The first thing an initialisation does; the latch makes it once per process.
RegisterDefaults(needed) ==
    /\ registry' = IF needed THEN register_all_default_plugins(registry, latched) ELSE registry
    /\ latched' = (latched \/ needed)
    /\ UNCHANGED <<cfg, unregistered, channels, sets>>

\* Documented to be called at most once; the code does not check.
pre_open(bad) ==
    /\ eng.state = "Constructed" /\ ~eng.pre /\ eng.inits < MaxInits
    /\ RegisterDefaults(TRUE)
    /\ eng' = init_modules_once(register_all_default_plugins(registry, latched),
                                [eng EXCEPT !.pre = TRUE], bad)

\* ICE is opened; on failure the engine lets go of it and may be opened again.
open_transport(reg, e, bad) ==
    IF "ice_open" \in bad /\ e.session.media.ice = "made"
    THEN [e EXCEPT !.rc = "kEngineInternal", !.ice_t = 0, !.failed = @ \cup {"ice"}]
    ELSE LET v == init_video_plugins(reg, e, bad)
         IN [v EXCEPT !.rc = "ok", !.state = "Open", !.opened = TRUE,
                      !.session.media.ice = IF @ = "made" THEN "open" ELSE @]
\* The modules are made unless ice_t_ shows that they exist already.
open(bad) ==
    /\ eng.state = "Constructed" /\ (eng.ice_t = 0 => eng.inits < MaxInits)
    /\ RegisterDefaults(eng.ice_t = 0)
    /\ LET reg == register_all_default_plugins(registry, latched)
           Transport(e) == IF e.rc # "ok" THEN e ELSE open_transport(reg, e, bad)
       IN eng' = Transport(IF eng.ice_t = 0 THEN init_modules_once(reg, eng, bad)
                           ELSE [eng EXCEPT !.rc = "ok"])

\* ICE first, then the plugins, the session with its stacks, SRTP and WebTransport.
TornDown(e) ==
    LET e1 == shutdown_bwe_scheduler(shutdown_video_plugins(e))
    IN [e1 EXCEPT !.session = session_close(@), !.ice_t = 0, !.ice_cb = "none",
                  !.slot["audio3a"] = 0, !.slot["codec"] = 0, !.null3a = FALSE, !.opus = FALSE,
                  !.srtp = FALSE, !.wt = 0, !.state = "Closed"]
Unaffected == UNCHANGED <<cfg, registry, latched, unregistered>>
close ==
    /\ eng.state = "Open"
    /\ eng' = TornDown(eng)
    /\ Unaffected /\ UNCHANGED <<channels, sets>>
\* The destructor closes an open engine; the members of any other are
\* destroyed as they are.
destroy ==
    /\ eng.state \in {"Constructed", "Open", "Closed"}
    /\ LET e == IF eng.state = "Open" THEN TornDown(eng) ELSE eng
       IN eng' = [NewEngine EXCEPT !.state = "Destroyed", !.inits = e.inits,
                     !.opened = e.opened, !.late = e.late,
                     !.dropped = e.dropped \cup {s \in Slots : e.slot[s] # 0}]
    /\ Unaffected /\ UNCHANGED <<channels, sets>>

\* Mutant: the plugin in the slot is not closed before it is replaced.
set_video_NoClose(s, opens) ==
    /\ eng.state \notin {"Destroyed", "Crashed"} /\ sets < MaxSets
    /\ sets' = sets + 1
    /\ eng' = [eng EXCEPT !.slot[s] = IF opens THEN MaxInits + 1 ELSE 0,
                          !.dropped = IF eng.slot[s] # 0 THEN @ \cup {s} ELSE @,
                          !.late = IF opens /\ eng.state = "Closed" THEN @ \cup {s} ELSE @ \ {s}]
    /\ Unaffected /\ UNCHANGED channels
\* set_video_sink and set_video_source: close the old one, open the new one if
\* one is given, drop it if it does not open.  They ask nothing of the engine's
\* state.
set_video(s, opens) ==
    /\ eng.state \notin {"Destroyed", "Crashed"} /\ sets < MaxSets
    /\ sets' = sets + 1
    /\ eng' = [eng EXCEPT !.slot[s] = IF opens THEN MaxInits + 1 ELSE 0,
                          !.running = @ /\ s # "video_source",
                          !.late = IF opens /\ eng.state = "Closed" THEN @ \cup {s} ELSE @ \ {s}]
    /\ Unaffected /\ UNCHANGED channels
start_video ==
    /\ eng.state = "Open" /\ eng.slot["video_source"] # 0 /\ ~eng.running
    /\ eng' = [eng EXCEPT !.running = TRUE]
    /\ Unaffected /\ UNCHANGED <<channels, sets>>
stop_video ==
    /\ eng.running
    /\ eng' = [eng EXCEPT !.running = FALSE]
    /\ Unaffected /\ UNCHANGED <<channels, sets>>

\* Refused (-1) until there is an ICE transport to add it to; accepted, and
\* forgotten, by the null ICE.
add_turn_server ==
    /\ eng.state = "Constructed" /\ eng.ice_t # 0 /\ ~eng.asked
    /\ eng' = [eng EXCEPT !.turn = TakesSetters(eng), !.asked = TRUE]
    /\ Unaffected /\ UNCHANGED <<channels, sets>>

\* A WebTransport channel points into the engine's session, which the first
\* channel makes; the session stays even if the channel fails.
wt_channel(bad) ==
    LET wtf == get(registry, "web_transport", cfg.web_transport_name) # NoFactory
        ses == IF eng.wt # 0 THEN eng.wt
               ELSE IF cfg.web_transport_peer_host = "" \/ ~wtf \/ "wt" \in bad THEN 0
               ELSE eng.inits
    IN [ses |-> ses, made |-> ses # 0 /\ wtf /\ "channel" \notin bad]
\* Every other backend's channel comes from the registry alone.
registry_channel(bad) ==
    [ses |-> 0, made |-> get(registry, "datachannel", eng.dc) # NoFactory /\ "channel" \notin bad]
create_data_channel(bad) ==
    /\ eng.state = "Open" /\ eng.dc # "" /\ Cardinality(channels) < MaxChannels
    /\ LET c == IF eng.dc = "web_transport" THEN wt_channel(bad) ELSE registry_channel(bad)
       IN /\ eng' = IF eng.dc = "web_transport" THEN [eng EXCEPT !.wt = c.ses] ELSE eng
          /\ channels' = IF c.made THEN channels \cup {<<Cardinality(channels), eng.dc, c.ses>>}
                         ELSE channels
    /\ Unaffected /\ UNCHANGED sets
\* The application destroys a channel.
release_channel ==
    /\ \E c \in channels : channels' = channels \ {c}
    /\ Unaffected /\ UNCHANGED <<eng, sets>>

LifeNext ==
    \/ RegisterPlugin \/ UnregisterPlugin
    \/ \E bad \in FaultSets : pre_open(bad) \/ open(bad) \/ create_data_channel(bad)
    \/ \E s \in {"video_sink", "video_source"}, opens \in BOOLEAN : set_video(s, opens)
    \/ close \/ destroy \/ start_video \/ stop_video \/ add_turn_server \/ release_channel

(***************************************************************************)
(* Properties                                                              *)
(***************************************************************************)
LifeTypeOK ==
    /\ cfg \in EngineConfigs /\ latched \in BOOLEAN /\ sets \in 0..MaxSets
    /\ eng.state \in {"Constructed", "Open", "Closed", "Destroyed", "Crashed"}
    /\ eng.inits \in 0..MaxInits /\ eng.ice_t \in 0..MaxInits
    /\ eng.slot \in [Slots -> 0..(MaxInits + 1)] /\ eng.dropped \subseteq Slots
    /\ eng.failed \subseteq {"init", "ice"}

\* ICE works for the engine: its callbacks, its bandwidth estimator, its scheduler.
IceWired ==
    /\ eng.ice_cb = "engine"
    /\ eng.ice_bwe = eng.slot["bwe"] /\ eng.ice_sched = eng.slot["scheduler"]
    /\ "ice" \notin eng.failed => eng.turn = eng.asked
Wired ==
    /\ eng.ice_t = eng.inits /\ eng.srtp
    /\ \/ eng.session.media.ice = "open" /\ IceWired
       \/ eng.session.media.ice = "null" /\ eng.media \in NoDtlsByDesign
    /\ eng.session.media.dtls = "open" \/ eng.media \in NoDtlsByDesign
    /\ (eng.slot["audio3a"] # 0 \/ eng.null3a)
\* An engine that reports itself open is wired up: ice_t_ is the transport of the
\* session it owns and is open, with the engine's callbacks and the bandwidth
\* estimator and scheduler that exist now, DTLS is open unless the stack has none
\* by design, and a TURN server accepted earlier is still configured.  The stacks
\* that have no ICE by design have the null ICE, which takes none of this.  Engines
\* whose initialisation failed half-way before are excepted (open() of
\* engine.cpp and the phases of engine_transport.cpp).
OpenIsWired == eng.state = "Open" /\ "init" \notin eng.failed => Wired
\* The same with no exception: after a failed open() the caller may call it again.
RecallableOpen == eng.state = "Open" => Wired
\* A closed engine holds nothing that runs, except a video sink or source that was
\* set after close(): the setters do not look at the state.
ClosedHoldsLate ==
    eng.state = "Closed" =>
        /\ {s \in Slots : eng.slot[s] # 0} = eng.late
        /\ eng.session.media.raw = "none" /\ eng.session.control.raw = "none"
        /\ eng.session.media.dtls = "none" /\ eng.session.media.ice \in {"none", "null"}
        /\ eng.ice_t = 0 /\ eng.wt = 0 /\ ~eng.srtp /\ ~eng.running
\* A plugin is destroyed without close() on three paths only: the audio plugins,
\* when the initialisation is run again; every plugin of an engine that was never
\* opened; a video sink or source set after close().
DropsAccounted ==
    \A s \in eng.dropped :
        \/ s \in {"audio3a", "codec"} /\ eng.inits > 1
        \/ eng.state = "Destroyed" /\ (~eng.opened \/ s \in eng.late)
=============================================================================
