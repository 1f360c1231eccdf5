--------------------------- MODULE WtDataChannel ---------------------------
(***************************************************************************)
(* WebTransportDataChannel on a WtSession, client or server, with the peer  *)
(* as the environment: what send() maps to, how inbound datagrams, own and  *)
(* peer-initiated streams reach on_message, and what close() unregisters.   *)
(* The msquic worker runs a callback in steps: it copies the callback under *)
(* the lock, calls it, the channel reads opened_, and only then acts; the   *)
(* engine thread can act between any two of them.  The header buffer of the *)
(* peer stream is not locked; close() clears it before or after a parse.    *)
(***************************************************************************)
EXTENDS WtHttp3

VARIABLES wc,           \* the channel object
          got           \* on_message calls: which way, which stream, what

wtAll == <<wtVars, h3Vars, wc, got>>

Rels == {"kReliableOrdered", "kUnreliable", "kPartialReliableTTL", "kPartialReliableCount"}
NoChannel == [sess |-> "none", opened |-> FALSE, attached |-> FALSE, rel |-> "kReliableOrdered",
              ready |-> FALSE, raw |-> "none", peer |-> "none", done |-> FALSE, pending |-> <<>>,
              expired |-> FALSE, count |-> 0, opens |-> 0,
              stray |-> {},     \* history: peer streams installed while closed
              after |-> 0]      \* history: deliveries since close(), own stream apart
NoWork == [what |-> "idle", cb |-> "none", x |-> "none", bytes |-> <<>>, late |-> FALSE]
InvolvesChannel == wtSetup.channel # "none"

(***************************************************************************)
(* Engine-thread calls                                                      *)
(***************************************************************************)
\* create_data_channel on the session, with its callbacks, then open(cfg).
create_data_channel(s) ==
    /\ InvolvesChannel /\ wc.sess = "none" /\ Quiet(s)
    /\ wc' = [NoChannel EXCEPT !.sess = s, !.attached = TRUE, !.rel = wtSetup.channel,
                !.count = IF wtSetup.channel = "kPartialReliableCount"
                          THEN wtSetup.retransmits ELSE 0]
    /\ ss' = [ss EXCEPT ![s].dcb = TRUE, ![s].pcb = TRUE]
    /\ UNCHANGED <<wtSetup, hq, quic, st, pay, lsn, h3, got>>

attach_session_callbacks ==
    /\ wc.sess # "none" /\ ~wc.attached /\ Quiet(wc.sess) /\ wtSetup.reopens
    /\ ss' = [ss EXCEPT ![wc.sess].dcb = TRUE, ![wc.sess].pcb = TRUE]
    /\ wc' = [wc EXCEPT !.attached = TRUE]
    /\ UNCHANGED <<wtSetup, hq, quic, st, pay, lsn, h3, got>>

\* Outcomes of ensure_stream_open; x is "none" when the channel has no stream.
ensure_stream_open(c) ==
    IF c.ready THEN {Outcome(hq, st, ss, c.raw)}
    ELSE IF ~MayOpen(c.sess) \/ ~StreamLeft THEN {Outcome(hq, st, ss, "none")}
    ELSE OpenStream(c.sess, [BidiStream(c.sess) EXCEPT !.cb = "own"])
WithStream(c, o) == [c EXCEPT !.raw = IF o.x # "none" THEN o.x ELSE @,
                              !.ready = @ \/ o.x # "none"]

WcOpen ==
    /\ wc.sess # "none" /\ ~wc.opened /\ Alive(wc.sess)
    /\ wc.opens < IF wtSetup.reopens THEN 2 ELSE 1
    /\ \E o \in IF wc.rel = "kUnreliable" THEN {Outcome(hq, st, ss, "none")} ELSE ensure_stream_open(wc) :
         /\ Apply(o)
         /\ wc' = [WithStream(wc, o) EXCEPT !.opened = TRUE, !.opens = @ + 1]
    /\ UNCHANGED <<wtSetup, quic, pay, lsn, h3, got>>

\* TTL passed or count used up: the stream, even a new one, is reset and forgotten.
GivesUp(c) == \/ c.rel = "kPartialReliableTTL" /\ c.expired
              \/ c.rel = "kPartialReliableCount" /\ c.count = 0
Spent(c) == IF c.rel = "kPartialReliableCount" THEN [c EXCEPT !.count = @ - 1] ELSE c
\* A raw pointer to a wrapper the session has dropped does nothing here.
RawUsable(f, c) == c.raw # "none" /\ f[c.raw].by = c.sess
SendRaw(f, c) ==
    IF RawUsable(f, c) /\ f[c.raw].handle /\ ~f[c.raw].closed
    THEN \E p \in FreshPayload, rejected \in BOOLEAN :
           (rejected => Fails("StreamSend")) /\ pay' = OutboundPayload(p, rejected)
    ELSE UNCHANGED pay

WcSendStream ==
    /\ wc.opened /\ wc.rel # "kUnreliable" /\ Alive(wc.sess) /\ FreshPayload # {}
    /\ \E o \in ensure_stream_open(wc) :
         LET c == WithStream(wc, o)
             f == IF c.ready /\ GivesUp(c) /\ RawUsable(o.st, c) THEN BidiReset(o.st, c.raw) ELSE o.st
         IN  /\ Apply([o EXCEPT !.st = f])
             /\ wc' = CASE ~c.ready -> c
                       [] c.ready /\ GivesUp(c) -> [c EXCEPT !.raw = "none", !.ready = FALSE]
                       [] OTHER -> Spent(c)
             /\ IF c.ready /\ ~GivesUp(c) THEN SendRaw(f, c) ELSE UNCHANGED pay
    /\ UNCHANGED <<wtSetup, quic, lsn, h3, got>>

WcSendDatagram ==
    /\ wc.opened /\ wc.rel = "kUnreliable" /\ Alive(wc.sess)
    /\ \E p \in FreshPayload : send_datagram(wc.sess, p)
    /\ UNCHANGED <<lsn, h3, wc, got>>

DeadlinePasses ==
    /\ wc.rel = "kPartialReliableTTL" /\ wc.sess # "none" /\ ~wc.expired
    /\ wc' = [wc EXCEPT !.expired = TRUE]
    /\ UNCHANGED <<wtVars, h3Vars, got>>

detach_peer_stream(f, c) == IF c.peer # "none" /\ f[c.peer].by = c.sess
                            THEN set_on_data(f, c.peer, "none") ELSE f

\* A channel with nothing open, attached or installed is closed already.
Closable == /\ wc.sess # "none" /\ "channel" \in wtSetup.ends
            /\ wc.opened \/ wc.attached \/ wc.peer # "none"
ClosedChannel == [wc EXCEPT !.opened = FALSE, !.ready = FALSE, !.raw = "none", !.peer = "none",
                            !.done = FALSE, !.pending = <<>>, !.attached = FALSE, !.after = 0]

\* Mutant: close() does not take its callbacks from the session.
WcClose_KeepsCallbacks ==
    /\ Closable /\ wc' = ClosedChannel
    /\ st' = detach_peer_stream(IF RawUsable(st, wc) THEN BidiClose(st, wc.raw) ELSE st, wc)
    /\ UNCHANGED <<wtSetup, hq, ss, quic, pay, lsn, h3, got>>

WcClose ==
    /\ Closable /\ wc' = ClosedChannel
    /\ st' = detach_peer_stream(IF RawUsable(st, wc) THEN BidiClose(st, wc.raw) ELSE st, wc)
    /\ ss' = [ss EXCEPT ![wc.sess].dcb = FALSE, ![wc.sess].pcb = FALSE]
    /\ UNCHANGED <<wtSetup, hq, quic, pay, lsn, h3, got>>

(***************************************************************************)
(* Inbound, on the msquic worker                                            *)
(***************************************************************************)
Deliver(via, x, bytes) == got' = Append(got, [via |-> via, x |-> x, bytes |-> bytes])
Late == wc.sess # "none" /\ ~wc.opened /\ ~wc.attached   \* close() has returned
WorkerGoesOn(w) == quic' = [quic EXCEPT !.wk = w]

\* Unidirectional: aborted and closed.  Bidirectional: wrapped, and echoed when
\* nobody subscribed; a subscriber's callback is copied.
on_peer_stream_started(s) ==
    /\ ToSession(s) /\ PeerStarts
    /\ IF PeerStream.kind = "uni"
       THEN /\ hq' = CloseAll(Opened(hq, {NewStream}), {NewStream})
            /\ quic' = PeerStarted(NewStream)
            /\ UNCHANGED <<ss, st>>
       ELSE /\ hq' = Opened(hq, {NewStream})
            /\ ss' = [ss EXCEPT ![s].streams = @ \cup {NewStream}]
            /\ st' = [st EXCEPT ![NewStream] =
                        [BidiStream(s) EXCEPT !.cb = IF ss[s].pcb THEN "none" ELSE "echo"]]
            /\ quic' = [PeerStarted(NewStream) EXCEPT !.wk =
                          IF ss[s].pcb THEN [NoWork EXCEPT !.what = "start", !.x = NewStream]
                                       ELSE NoWork]
    /\ UNCHANGED <<wtSetup, pay, lsn, h3, wc, got>>

\* The channel takes a peer stream only while it is open, and looks once.
on_peer_stream ==
    /\ quic.wk.what = "start"
    /\ WorkerGoesOn(IF wc.opened /\ wc.rel # "kUnreliable"
                    THEN [quic.wk EXCEPT !.what = "install"] ELSE NoWork)
    /\ UNCHANGED <<wtSetup, hq, ss, st, pay, lsn, h3, wc, got>>

InstallPeerStream ==
    /\ quic.wk.what = "install"
    /\ LET x == quic.wk.x
           f == detach_peer_stream(st, wc)
       IN  /\ st' = IF f[x].by = wc.sess THEN set_on_data(f, x, "peer") ELSE f
           /\ wc' = [wc EXCEPT !.peer = x, !.done = FALSE, !.pending = <<>>,
                               !.stray = IF wc.opened THEN @ ELSE @ \cup {x}]
    /\ WorkerGoesOn(NoWork)
    /\ UNCHANGED <<wtSetup, hq, ss, pay, lsn, h3, got>>

\* RECEIVE: queue the bytes and copy the callback, under recv_mutex_.
ReceiveBegins(x) ==
    /\ StreamFires(x) /\ st[x].kind = "bidi" /\ quic.conn = "up"
    /\ \E k \in 1..Len(quic.wire[x]) :
         LET bytes == SubSeq(quic.wire[x], 1, k)
         IN  /\ st' = on_receive(x, bytes)
             /\ quic' = [quic EXCEPT !.wire[x] = SubSeq(@, k + 1, Len(@)),
                           !.wk = IF st[x].handle /\ st[x].cb # "none"
                                  THEN [what |-> "stream", cb |-> st[x].cb, x |-> x,
                                        bytes |-> bytes, late |-> Late]
                                  ELSE NoWork]
    /\ UNCHANGED <<wtSetup, hq, ss, pay, lsn, h3, wc, got>>

\* The callback of the channel's own stream does not look at opened_; nor
\* does the echo.
ReceiveCalls ==
    /\ quic.wk.what = "stream" /\ quic.wk.cb # "peer"
    /\ \/ quic.wk.cb = "own" /\ Deliver("own", quic.wk.x, quic.wk.bytes) /\ UNCHANGED pay
       \/ /\ quic.wk.cb # "own" /\ UNCHANGED got
          /\ \/ \E p \in FreshPayload : BidiSend(quic.wk.x, p)
             \/ (~BidiUsable(quic.wk.x) \/ FreshPayload = {}) /\ UNCHANGED pay
    /\ WorkerGoesOn(NoWork)
    /\ UNCHANGED <<wtSetup, hq, ss, st, lsn, h3, wc>>

\* The callback of a peer stream: opened_, then the header, then on_message.
PeerDataChecks ==
    /\ quic.wk.what = "stream" /\ quic.wk.cb = "peer"
    /\ WorkerGoesOn(IF wc.opened THEN [quic.wk EXCEPT !.what = "parse"] ELSE NoWork)
    /\ UNCHANGED <<wtSetup, hq, ss, st, pay, lsn, h3, wc, got>>

\* Header of a WebTransport data stream: the signal, then the session id.
Payload(buf) == SubSeq(buf, 3, Len(buf))
try_decode_header(buf) == IF buf[1] # "sig" THEN "other" ELSE IF Len(buf) < 2 THEN "split" ELSE "ok"
Onward(bytes) == IF bytes = <<>> THEN NoWork ELSE [quic.wk EXCEPT !.what = "deliver", !.bytes = bytes]

\* Mutant: a header that is split over two chunks is not put together.
on_peer_stream_data_NoPending ==
    LET data == quic.wk.bytes
    IN  /\ quic.wk.what = "parse"
        /\ wc' = [wc EXCEPT !.done = TRUE]
        /\ WorkerGoesOn(Onward(IF wc.done \/ Len(data) < 2 THEN data ELSE Payload(data)))
        /\ UNCHANGED <<wtSetup, hq, ss, st, pay, lsn, h3, got>>

on_peer_stream_data ==
    LET buf == wc.pending \o quic.wk.bytes
        h == IF wc.done THEN "done" ELSE try_decode_header(buf)
    IN  /\ quic.wk.what = "parse"
        /\ wc' = CASE h = "done" -> wc
                   [] h = "split" -> [wc EXCEPT !.pending = buf]
                   [] OTHER -> [wc EXCEPT !.done = TRUE, !.pending = <<>>]
        /\ WorkerGoesOn(CASE h = "done" -> Onward(quic.wk.bytes)
                          [] h = "ok" -> Onward(Payload(buf))
                          [] OTHER -> NoWork)
        /\ UNCHANGED <<wtSetup, hq, ss, st, pay, lsn, h3, got>>

\* DATAGRAM_RECEIVED: the session copies its callback, then calls it.
DatagramBegins(s) ==
    /\ ToSession(s) /\ quic.conn = "up" /\ "recv" \in wtSetup.dgram /\ quic.dgrams < 2
    /\ quic' = [quic EXCEPT !.dgrams = @ + 1,
                  !.wk = IF ss[s].dcb THEN [NoWork EXCEPT !.what = "dgram", !.cb = "dgram",
                                              !.late = Late, !.bytes = <<"dg">>] ELSE NoWork]
    /\ UNCHANGED <<wtSetup, hq, ss, st, pay, lsn, h3, wc, got>>

on_session_datagram ==
    /\ quic.wk.what = "dgram"
    /\ WorkerGoesOn(IF wc.opened /\ wc.rel = "kUnreliable"
                    THEN [quic.wk EXCEPT !.what = "deliver"] ELSE NoWork)
    /\ UNCHANGED <<wtSetup, hq, ss, st, pay, lsn, h3, wc, got>>

\* on_message, for what has passed the look at opened_.
OnMessage ==
    /\ quic.wk.what = "deliver"
    /\ Deliver(quic.wk.cb, quic.wk.x, quic.wk.bytes)
    /\ wc' = [wc EXCEPT !.after = IF wc.opened THEN @ ELSE @ + 1]
    /\ WorkerGoesOn(NoWork)
    /\ UNCHANGED <<wtSetup, hq, ss, st, pay, lsn, h3>>

(***************************************************************************)
(* The composed system                                                      *)
(***************************************************************************)
WtInit ==
    /\ wtSetup \in WtSetups
    /\ hq = [h \in Handles |-> "none"]
    /\ quic = [conn |-> "idle", ctx |-> "none", started |-> 0, dgrams |-> 0,
               wire |-> [x \in Streams |-> <<>>],
               from |-> [x \in Streams |-> 0], wk |-> NoWork]
    /\ ss = [s \in Sessions |-> NoSession]
    /\ st = [x \in Streams |-> NoStream]
    /\ pay = [p \in Payloads |-> NoPayload]
    /\ lsn = NoListener /\ h3 = NoH3 /\ wc = NoChannel /\ got = <<>>

WtChannelNext ==
    \/ WcOpen \/ WcSendStream \/ WcSendDatagram \/ DeadlinePasses \/ WcClose
    \/ attach_session_callbacks \/ on_peer_stream \/ InstallPeerStream \/ ReceiveCalls
    \/ PeerDataChecks \/ on_peer_stream_data \/ on_session_datagram \/ OnMessage
    \/ \E s \in Sessions :
         create_data_channel(s) \/ on_peer_stream_started(s) \/ DatagramBegins(s)
    \/ \E x \in Streams : ReceiveBegins(x)

WtNext == \/ WtSessionNext /\ UNCHANGED <<h3Vars, wc, got>>
          \/ WtServerNext /\ UNCHANGED <<wc, got>>
          \/ WtChannelNext

\* Values of the WebTransport state.
WtTypeOK ==
    /\ hq \in [Handles -> {"none", "open", "closed", "twice"}]
    /\ \A s \in Sessions : ss[s].state \in WtState /\ ss[s].streams \subseteq Streams
    /\ \A p \in Payloads : pay[p].own \in {"none", "msquic", "dgram", "tracked", "done"}
    /\ wc.rel \in Rels /\ quic.ctx \in Sessions \cup {"none", "h3"}

\* Registration, configuration and listener are closed at most once, and inside
\* out, whichever constructor call failed and whoever ends the session: a server
\* session never closes what it borrowed from the listener.  The connection is
\* closed twice only after a failed SetConfiguration, by the listener's callback
\* and by stop().
RootsClosedInOrder ==
    /\ hq["reg"] # "twice" /\ hq["cfg"] # "twice" /\ hq["lst"] # "twice"
    /\ hq["conn"] = "twice" => Fails("ConnectionSetConfiguration")
    /\ hq["reg"] = "closed" => hq["cfg"] # "open"
    /\ hq["cfg"] = "closed" => hq["conn"] # "open" /\ hq["lst"] # "open"

\* A stream that msquic still serves is held by one wrapper or by the HTTP/3
\* handler, and a handle that is held is open, so that no destructor, event or
\* close() closes it again; only a failed StreamStart closes a stream twice.
\* (After SHUTDOWN_COMPLETE a session's wrapper forgets the handle and nobody
\* closes it; the property does not ask for that close.)
StreamsHeldOnce ==
    \A x \in Streams : /\ st[x].live => st[x].handle
                       /\ st[x].handle => hq[x] = "open"
                       /\ hq[x] = "twice" => Fails("StreamStart")

\* Every payload handed to msquic is freed exactly once, when msquic is done
\* with it and not before: not on the intermediate SENT notification of a
\* datagram, not for a send that was rejected and already freed.
PayloadOwnership == \A p \in Payloads : pay[p].freed = IF pay[p].own = "done" THEN 1 ELSE 0

\* Nothing msquic gave out goes back to it twice or out of order, except the
\* connection after a failed SetConfiguration and a stream after a failed
\* StreamStart; a send buffer is freed exactly once (the session's destructors
\* and shutdown callbacks).
ReleasedOnce == RootsClosedInOrder /\ StreamsHeldOnce /\ PayloadOwnership

\* However often a request stream repeats its CONNECT and wherever RECEIVE
\* events cut the frames, it starts one session at most.
OneSessionPerRequest == \A x \in Streams : h3.sessions[x] <= 1

WtSpec == WtInit /\ [][WtNext]_wtAll

\* A datagram or a peer-stream chunk whose event starts after close() returned
\* never reaches on_message, not even when the channel is opened again while
\* the event is in flight; the exception is a peer stream whose start overlapped
\* close() and was installed on the closed channel.
LateInboundIgnored ==
    got' # got /\ got'[Len(got')].via \in {"dgram", "peer"} /\ quic.wk.late =>
      got'[Len(got')].x \in wc.stray

\* Between close() and the next open() at most one datagram or peer-stream
\* message reaches on_message: the one whose look at opened_ came before.
OneAfterClose == wc.after <= 1
=============================================================================
