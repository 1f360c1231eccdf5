------------------------------ MODULE WtHttp3 ------------------------------
(***************************************************************************)
(* The server side of WebTransport: the msquic listener with its start-up   *)
(* and stop sequences, and the HTTP/3 handler of an accepted connection     *)
(* (control stream, frame reassembly, Extended CONNECT), which hands the    *)
(* connection to a WtSession.  One listener, one connection.                *)
(*                                                                          *)
(* A frame on a stream is two tokens, its head and its body, so that a      *)
(* RECEIVE can end inside it; what a body says is the token itself.         *)
(***************************************************************************)
EXTENDS WtSession

VARIABLES lsn,          \* the listener: phase and the connections_ list
          h3            \* ServerConnCtx and its Http3Handler

h3Vars == <<lsn, h3>>

(***************************************************************************)
(* Listener start-up                                                        *)
(***************************************************************************)
find_credential_file(name) == name \in wtSetup.files
\* The possible results of ConfigurationLoadCredential.
LoadResult == IF Fails("LoadCredential") THEN BOOLEAN ELSE {TRUE}
load_cert_hash_tls_credential ==
    IF find_credential_file("wtserver_hash.txt") THEN LoadResult ELSE {FALSE}
load_cert_file_tls_credential ==
    IF find_credential_file("wtserver_key.pem") /\ find_credential_file("wtserver_cert.pem")
    THEN LoadResult ELSE {FALSE}
load_tls_credential == IF wtSetup.win32 THEN load_cert_hash_tls_credential
                                        ELSE load_cert_file_tls_credential

NoListener == [phase |-> "down", conns |-> FALSE]
StartSteps == <<"RegistrationOpen", "ConfigurationOpen", "credential", "ListenerOpen",
                "ListenerStart">>
StartUnwinds == << {}, {"reg"}, {"reg", "cfg"}, {"reg", "cfg"}, {"reg", "cfg", "lst"} >>
StartFails(k) == IF StartSteps[k] = "credential" THEN FALSE \in load_tls_credential
                                                 ELSE Fails(StartSteps[k])
ListenerImpl ==
    /\ wtSetup.side = "server" /\ lsn.phase = "down"
    /\ \/ \E k \in DOMAIN StartSteps :
            /\ StartFails(k)
            /\ hq' = CloseAll(Opened(hq, StartUnwinds[k]), StartUnwinds[k])
            /\ lsn' = [lsn EXCEPT !.phase = "threw"]
       \/ /\ TRUE \in load_tls_credential
          /\ hq' = Opened(hq, {"reg", "cfg", "lst"})
          /\ lsn' = [lsn EXCEPT !.phase = "running"]
    /\ UNCHANGED <<wtSetup, quic, ss, st, pay, h3>>

\* NEW_CONNECTION: listed first, then configured; the failure path closes the
\* handle and leaves it in the list.
quic_listener_callback ==
    /\ lsn.phase = "running" /\ hq["conn"] = "none" /\ WkIdle
    /\ lsn' = [lsn EXCEPT !.conns = TRUE]
    /\ \/ /\ Fails("ConnectionSetConfiguration")
          /\ hq' = [hq EXCEPT !["conn"] = "closed"]
          /\ UNCHANGED <<quic, h3>>
       \/ /\ hq' = [hq EXCEPT !["conn"] = "open"]
          /\ quic' = [quic EXCEPT !.conn = "handshake", !.ctx = "h3"]
          /\ h3' = [h3 EXCEPT !.alive = TRUE]
    /\ UNCHANGED <<wtSetup, ss, st, pay>>

\* stop(): the listener, then every listed connection, whose shutdown events
\* msquic still delivers, then the configuration and the registration.
StopBegins ==
    /\ lsn.phase = "running" /\ "stop" \in wtSetup.ends
    /\ lsn' = [lsn EXCEPT !.phase = "stopping"]
    /\ hq' = CloseAll(hq, {"lst"})
    /\ quic' = IF hq["conn"] = "open" /\ quic.conn # "done"
               THEN [quic EXCEPT !.conn = "closing"] ELSE quic
    /\ UNCHANGED <<wtSetup, ss, st, pay, h3>>

NobodyListens == quic.ctx \in Sessions /\ ~Alive(quic.ctx)
StopEnds ==
    /\ lsn.phase = "stopping"
    /\ quic.conn \in {"idle", "done"} \/ NobodyListens
    /\ lsn' = [phase |-> "stopped", conns |-> FALSE]
    /\ hq' = CloseAll(hq, {"cfg", "reg"} \cup IF lsn.conns THEN {"conn"} ELSE {})
    /\ UNCHANGED <<wtSetup, quic, ss, st, pay, h3>>

(***************************************************************************)
(* The HTTP/3 handler                                                       *)
(***************************************************************************)
NoH3Stream == [known |-> FALSE, role |-> "kUnknown", buf |-> <<>>, answered |-> FALSE]
NoH3 == [alive |-> FALSE, ready |-> FALSE, known |-> FALSE, enabled |-> FALSE,
         settings |-> FALSE, qpackFed |-> <<>>, str |-> [x \in Streams |-> NoH3Stream],
         sessions |-> [x \in Streams |-> 0]]
ToH3 == WkIdle /\ quic.ctx = "h3" /\ h3.alive /\ hq["conn"] = "open"
H3Stream(kind) == [NoStream EXCEPT !.kind = kind, !.by = "h3", !.handle = TRUE, !.live = TRUE]

\* CONNECTED: open the control stream and send SETTINGS; ready either way.
send_settings(x, p) ==
    \/ /\ Fails("StreamOpen")
       /\ UNCHANGED <<hq, st, pay>>
    \/ /\ Fails("StreamStart")
       /\ hq' = CloseAll(Opened(hq, {x}), {x})
       /\ UNCHANGED <<st, pay>>
    \/ /\ Fails("StreamSend")
       /\ hq' = CloseAll(Opened(hq, {x}), {x})
       /\ pay' = OutboundPayload(p, TRUE)
       /\ UNCHANGED st
    \/ /\ hq' = Opened(hq, {x})
       /\ pay' = OutboundPayload(p, FALSE)
       /\ st' = [st EXCEPT ![x] = H3Stream("uni")]

H3Connected ==
    /\ ToH3 /\ quic.conn = "handshake" /\ StreamLeft
    /\ \E p \in FreshPayload : send_settings(NewStream, p)
    /\ quic' = [quic EXCEPT !.conn = "up"]
    /\ h3' = [h3 EXCEPT !.ready = TRUE]
    /\ UNCHANGED <<wtSetup, ss, lsn>>

\* Shutdown by transport or peer is only logged; completion frees the context.
H3ShutdownInitiated ==
    /\ ToH3 /\ wtSetup.ends \cap {"transport", "peer"} # {} /\ quic.conn \in {"handshake", "up"}
    /\ quic' = [quic EXCEPT !.conn = "closing"]
    /\ UNCHANGED <<wtSetup, hq, ss, st, pay, lsn, h3>>

H3ShutdownComplete ==
    /\ ToH3 /\ quic.conn = "closing" /\ \A x \in Streams : ~st[x].live
    /\ quic' = [quic EXCEPT !.conn = "done"]
    /\ h3' = [h3 EXCEPT !.alive = FALSE]
    /\ UNCHANGED <<wtSetup, hq, ss, st, pay, lsn>>

H3DatagramState ==
    /\ ToH3 /\ quic.conn = "up" /\ "state" \in wtSetup.dgram
    /\ \E enabled \in BOOLEAN : h3' = [h3 EXCEPT !.known = TRUE, !.enabled = enabled]
    /\ UNCHANGED <<wtSetup, hq, quic, ss, st, pay, lsn>>

PeerStarts == /\ quic.conn = "up" /\ quic.started < Len(wtSetup.peer) /\ StreamLeft
PeerStream == wtSetup.peer[quic.started + 1]
PeerStarted(x) == [quic EXCEPT !.started = @ + 1, !.wire[x] = PeerStream.data,
                                !.from[x] = quic.started + 1]

H3PeerStreamStarted ==
    /\ ToH3 /\ PeerStarts
    /\ quic' = PeerStarted(NewStream)
    /\ hq' = Opened(hq, {NewStream})
    /\ st' = [st EXCEPT ![NewStream] = H3Stream(PeerStream.kind)]
    /\ h3' = [h3 EXCEPT !.str[NewStream] =
                [NoH3Stream EXCEPT !.known = TRUE,
                   !.role = IF PeerStream.kind = "uni" THEN "kUnknown" ELSE "kRequest"]]
    /\ UNCHANGED <<wtSetup, ss, pay, lsn>>

\* Complete frames at the front of buf, and what stays buffered.
FrameBodies(buf) == [i \in 1..(Len(buf) \div 2) |-> buf[2 * i]]
FrameRest(buf) == SubSeq(buf, 2 * (Len(buf) \div 2) + 1, Len(buf))

UniRole(type) == CASE type = "t0" -> "kControl" [] type = "t2" -> "kEncoder"
                   [] OTHER -> "kPush"
\* The role and the bytes left once the type of a unidirectional stream is known.
Resolved(s, data) ==
    LET buf == s.buf \o data
    IN  IF s.role = "kUnknown" THEN [role |-> UniRole(Head(buf)), buf |-> Tail(buf)]
                               ELSE [role |-> s.role, buf |-> buf]

process_request_frames(h, x, buf) == [h EXCEPT !.str[x].buf = FrameRest(buf)]
process_control_frames(h, x, buf) ==
    [h EXCEPT !.str[x].buf = FrameRest(buf),
              !.settings = @ \/ "settings" \in Range(FrameBodies(buf))]
on_encoder_data(h, x, buf) == [h EXCEPT !.qpackFed = @ \o buf, !.str[x].buf = <<>>]

on_stream_data(h, x, data) ==
    LET r == Resolved(h.str[x], data)
        g == [h EXCEPT !.str[x].role = r.role, !.str[x].buf = h.str[x].buf \o data]
    IN  CASE r.role = "kRequest" -> process_request_frames(g, x, r.buf)
          [] r.role = "kControl" -> process_control_frames(g, x, r.buf)
          [] r.role = "kEncoder" -> on_encoder_data(g, x, r.buf)
          [] OTHER -> g

\* A HEADERS frame starts a session only on a stream not yet answered.
parse_headers(x, data) ==
    LET r == Resolved(h3.str[x], data)
    IN  /\ r.role = "kRequest" /\ ~h3.str[x].answered
        /\ "connect" \in Range(FrameBodies(r.buf))

FreshSession == {s \in Sessions : ss[s].phase = "none" /\ quic.ctx # s}
Seed == [known |-> h3.known, enabled |-> h3.enabled]
\* Answer 200, build the session on the connection and give it to the callback;
\* without one the session is destroyed at once and the context dangles.
on_webtransport_request(x, h, q) ==
    LET g == [h EXCEPT !.str[x].answered = TRUE]
    IN  \E p \in FreshPayload :
          \/ /\ Fails("StreamSend")
             /\ pay' = OutboundPayload(p, TRUE)
             /\ h3' = g /\ quic' = q /\ UNCHANGED ss
          \/ LET s == CHOOSE s \in FreshSession : TRUE IN
               /\ FreshSession # {}
               /\ pay' = OutboundPayload(p, FALSE)
               /\ h3' = [g EXCEPT !.sessions[x] = @ + 1]
               /\ ss' = [ss EXCEPT ![s] = [ServerSession(Seed) EXCEPT
                           !.phase = IF wtSetup.keeps THEN "ready" ELSE "destroyed"]]
               /\ quic' = [q EXCEPT !.ctx = s]

H3Fires(x) == WkIdle /\ st[x].live /\ st[x].by = "h3" /\ hq[x] = "open" /\ h3.alive

\* RECEIVE on a stream the handler owns: k tokens arrive.
quic_server_stream_callback(x) ==
    /\ H3Fires(x) /\ quic.conn = "up" /\ h3.str[x].known
    /\ \E k \in 1..Len(quic.wire[x]) :
         LET data == SubSeq(quic.wire[x], 1, k)
             h == on_stream_data(h3, x, data)
             q == [quic EXCEPT !.wire[x] = SubSeq(@, k + 1, Len(@))]
         IN  \/ parse_headers(x, data) /\ on_webtransport_request(x, h, q)
             \/ ~parse_headers(x, data) /\ h3' = h /\ quic' = q /\ UNCHANGED <<pay, ss>>
    /\ UNCHANGED <<wtSetup, hq, st, lsn>>

\* SHUTDOWN_COMPLETE of a stream: forget it and close its handle.
H3StreamClosed(x) ==
    /\ H3Fires(x) /\ quic.conn = "closing"
    /\ h3' = [h3 EXCEPT !.str[x] = NoH3Stream]
    /\ hq' = CloseAll(hq, {x})
    /\ st' = [st EXCEPT ![x].live = FALSE, ![x].handle = FALSE]
    /\ UNCHANGED <<wtSetup, quic, ss, pay, lsn>>

WtServerNext ==
    \/ ListenerImpl \/ quic_listener_callback \/ StopBegins \/ StopEnds
    \/ H3Connected \/ H3ShutdownInitiated \/ H3ShutdownComplete \/ H3DatagramState
    \/ H3PeerStreamStarted
    \/ \E x \in Streams : quic_server_stream_callback(x) \/ H3StreamClosed(x)
=============================================================================
