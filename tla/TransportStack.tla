---------------------------- MODULE TransportStack ----------------------------
(***************************************************************************)
(* Transport strategies, the capability selector and the stacks            *)
(* (src/transport): which stacks a strategy names, what a stack's factory  *)
(* creates from the registry, and what start() and close() do to it.       *)
(*                                                                         *)
(* A part of a stack is "none" (null pointer), "null" (a stateless         *)
(* stand-in), "made" or "open".  p99 budgets are milliseconds, 0 when      *)
(* unset.  A call that fails is named in the set `bad' of the operator     *)
(* that makes it.                                                          *)
(***************************************************************************)
EXTENDS Integers, PluginRegistry

Requirements(bi, hf, p99) ==
    [needs_browser_interop |-> bi, needs_high_freq_control |-> hf, prefer_quic |-> FALSE,
     max_p99_ms |-> p99]
kStrategies ==
    [n \in {"browser-call", "teleop-ultra-low-latency", "agent-gateway", "sfu-relay",
            "cross-network-peer"} |->
        CASE n = "browser-call" -> Requirements(TRUE, FALSE, 200)
          [] n = "teleop-ultra-low-latency" -> Requirements(FALSE, TRUE, 50)
          [] n = "agent-gateway" -> Requirements(TRUE, TRUE, 100)
          [] n = "sfu-relay" -> Requirements(TRUE, FALSE, 200)
          [] n = "cross-network-peer" -> Requirements(TRUE, FALSE, 150)]
kStrategyNames == DOMAIN kStrategies
Unknown == Requirements(FALSE, FALSE, -1)    \* stands for the exception of an unknown name
\* No name is the engine's default.
strategy_by_name(n) == IF n = "" THEN kStrategies["browser-call"]
                       ELSE IF n \in kStrategyNames THEN kStrategies[n] ELSE Unknown
\* A profile overrides the media budget; its control fields stay with the caller.
requirements_from_profile_input(n, media_max_p99_ms) ==
    LET base == strategy_by_name(n)
    IN IF base = Unknown \/ media_max_p99_ms = 0 THEN base
       ELSE [base EXCEPT !.max_p99_ms = media_max_p99_ms]

\* The four selection rules: the stack ids chosen for the media and control planes.
select(req) ==
    LET hf == req.needs_high_freq_control
    IN [media |-> CASE req.needs_browser_interop -> "webrtc-classic"
                    [] ~req.needs_browser_interop /\ hf -> "raw-udp-arq"
                    [] ~req.needs_browser_interop /\ ~hf /\ req.prefer_quic -> "webrtc-quic"
                    [] OTHER -> "webrtc-classic",
        control |-> IF hf THEN "raw-udp-arq" ELSE ""]

\* A measured p99 against the budget: recorded, and an error only when enforced.
validate_p99_budget(max_p99_ms, measured, enforce) ==
    IF max_p99_ms # 0 /\ measured > max_p99_ms /\ enforce THEN "kEngineConfig" ELSE "ok"

(***************************************************************************)
(* Stacks                                                                  *)
(***************************************************************************)
StackConfig == [ice_id |-> "ice", dtls_id |-> "wolfssl", sctp_id |-> "usrsctp", rtp_id |-> "nim",
                raw_id |-> ""]
TsConfigs == {[StackConfig EXCEPT !.rtp_id = r, !.sctp_id = s, !.raw_id = "typo"] :
                 r \in {"nim", "webrtc"}, s \in {"usrsctp", "stub"}}
NoStack == [id |-> "none", ice |-> "none", dtls |-> "none", rtp |-> "none", sctp |-> "none",
            raw |-> "none", errors |-> FALSE, raw_id |-> ""]
Stack(i, cfg) == [NoStack EXCEPT !.id = i, !.raw_id = cfg.raw_id]
\* The parts in the order the factory creates them.
Parts == <<"ice", "dtls", "rtp", "sctp">>
Category(p) == CASE p = "ice" -> "ice_transport" [] p = "dtls" -> "dtls_session"
                 [] p = "rtp" -> "rtp" [] p = "sctp" -> "sctp_socket"
IdOf(p, cfg) == CASE p = "ice" -> cfg.ice_id [] p = "dtls" -> cfg.dtls_id
                  [] p = "rtp" -> cfg.rtp_id [] p = "sctp" -> cfg.sctp_id
\* The classic factory stops at the first part it cannot resolve and returns
\* the stack wired so far; it connects ICE's error callback only at the end.
classic_create(reg, cfg) ==
    LET Resolves(k) == get(reg, Category(Parts[k]), IdOf(Parts[k], cfg)) # NoFactory
        Reached(p) == \E k \in 1..4 : Parts[k] = p /\ \A j \in 1..k : Resolves(j)
        Made(p) == IF Reached(p) THEN "made" ELSE "none"
    IN [Stack("webrtc-classic", cfg) EXCEPT
            !.ice = Made("ice"), !.dtls = Made("dtls"), !.rtp = Made("rtp"),
            !.sctp = Made("sctp"), !.errors = Reached("sctp")]
\* The raw-UDP and shell stacks answer with stateless stand-ins.
null_create(i, cfg) == [Stack(i, cfg) EXCEPT !.ice = "null", !.rtp = "null", !.sctp = "null"]

stack_create(reg, i, cfg, bad) ==
    IF i = "" \/ get(reg, "transport_stack", i) = NoFactory \/ "stack" \in bad THEN NoStack
    ELSE IF i = "webrtc-classic" THEN classic_create(reg, cfg) ELSE null_create(i, cfg)

\* A session with no media id is empty; the control stack is made even when
\* the media stack could not be.
make_transport_instance(reg, media, control, cfg, bad) ==
    IF media = "" THEN [media |-> NoStack, control |-> NoStack]
    ELSE [media |-> stack_create(reg, media, cfg, bad),
          control |-> stack_create(reg, control, cfg, {})]

\* start(): ICE, DTLS, RTP and SCTP in turn, a failure only logged; the raw-UDP
\* stack builds its ARQ session once, from its id or from "arq"; the shell does nothing.
stack_start(reg, s, bad) ==
    LET Opened(p) == IF s[p] = "made" /\ p \notin bad THEN "open" ELSE s[p]
        Arq == get(reg, "raw_udp", s.raw_id) # NoFactory \/ get(reg, "raw_udp", "arq") # NoFactory
    IN CASE s.id = "webrtc-classic" ->
              [s EXCEPT !.ice = Opened("ice"), !.dtls = Opened("dtls"), !.rtp = Opened("rtp"),
                        !.sctp = Opened("sctp")]
         [] s.id = "raw-udp-arq" /\ s.raw = "none" /\ Arq /\ "raw" \notin bad ->
              [s EXCEPT !.raw = "open"]
         [] OTHER -> s
\* close() destroys the parts; the stack object stays.
stack_close(s) ==
    IF s.id = "webrtc-classic"
    THEN [s EXCEPT !.ice = "none", !.dtls = "none", !.rtp = "none", !.sctp = "none"]
    ELSE [s EXCEPT !.raw = "none"]

session_start(reg, ses, bad) ==
    [media |-> stack_start(reg, ses.media, bad), control |-> stack_start(reg, ses.control, bad)]
session_close(ses) == [media |-> stack_close(ses.media), control |-> stack_close(ses.control)]

(***************************************************************************)
(* A session an application makes for itself, without an engine            *)
(***************************************************************************)
VARIABLE tses    \* its requirements and its stacks, what is registered, the last verdict
NoTransport == [req |-> Unknown, ses |-> [media |-> NoStack, control |-> NoStack],
                reg |-> {}, up |-> FALSE, verdict |-> "ok"]
TsInit ==
    \E missing \in {{}, {"raw_udp"}, {"transport_stack"}} :
        tses = [NoTransport EXCEPT !.reg =
                {e \in register_all_default_plugins({}, FALSE) : e.category \notin missing}]
TsMake ==
    \E n \in kStrategyNames \cup {"", "typo"}, p99 \in {0, 40}, cfg \in TsConfigs :
        LET req == requirements_from_profile_input(n, p99)
        IN /\ req # Unknown
           /\ tses' = [tses EXCEPT !.req = req, !.up = FALSE,
                        !.ses = make_transport_instance(tses.reg, select(req).media,
                                                        select(req).control, cfg, {})]
TsStart == \E bad \in {{}, {"ice"}, {"raw"}} :
    tses' = [tses EXCEPT !.ses = session_start(tses.reg, @, bad), !.up = TRUE]
TsClose == tses' = [tses EXCEPT !.ses = session_close(@), !.up = FALSE]
TsMeasure ==
    \E ms \in {40, 100, 101}, enforce \in BOOLEAN :
        /\ tses.req # Unknown
        /\ tses' = [tses EXCEPT !.verdict = validate_p99_budget(tses.req.max_p99_ms, ms, enforce)]
TsNext == TsMake \/ TsStart \/ TsClose \/ TsMeasure
\* A session that is not started has no part running, so closing it leaves no
\* socket and no ARQ session behind, however often it was started and closed.
SessionReleased ==
    ~tses.up => \A s \in {tses.ses.media, tses.ses.control} :
                 \A p \in {"ice", "dtls", "rtp", "sctp", "raw"} : s[p] # "open"
=============================================================================
