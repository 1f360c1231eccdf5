----------------------------- MODULE WtSession -----------------------------
(***************************************************************************)
(* The WebTransport session over msquic: the handles it opens, the stream   *)
(* wrappers it owns, the payloads it lends to msquic and the state it       *)
(* reports.  msquic itself is external; it appears as the handle table hq,  *)
(* the connection and stream life cycle in quic, and the events it fires.   *)
(* An engine-thread call is one step, except session close() and the client *)
(* constructor, which the worker thread can interleave with.                *)
(***************************************************************************)
EXTENDS Naturals, Sequences, FiniteSets, Functions

CONSTANTS Sessions,     \* session objects; the client uses one
          Streams,      \* stream handles msquic may hand out
          MaxPayloads,  \* bound on OutboundPayload objects
          WtSetups      \* the scenarios of an instance, one chosen by Init

VARIABLES wtSetup,      \* which side runs, what may fail, what the peer does
          hq,           \* HQUIC handles: "none", "open", "closed", "twice"
          quic,         \* msquic: connection phase, who gets its events, peer data
          ss,           \* MsQuicSessionImpl objects
          st,           \* stream wrappers
          pay           \* OutboundPayload objects

wtVars == <<wtSetup, hq, quic, ss, st, pay>>

WtState == {"kConnecting", "kConnected", "kClosing", "kClosed", "kFailed"}
Roots == {"reg", "cfg", "lst", "conn"}
Handles == Roots \cup Streams
Payloads == 1..MaxPayloads
Fails(api) == api \in wtSetup.fails

ASSUME WtAssumption ==
    /\ Streams \cap Roots = {} /\ "none" \notin Streams
    /\ Sessions # {} /\ {"none", "h3", "dead"} \cap Sessions = {}
    /\ \A w \in WtSetups : 1..w.sends \subseteq Payloads

\* Closing a handle msquic has already taken back is recorded, not repaired.
HandleClose(h) == IF h = "open" THEN "closed" ELSE "twice"
CloseAll(f, S) == [h \in Handles |-> IF h \in S THEN HandleClose(f[h]) ELSE f[h]]
Opened(f, S) == [h \in Handles |-> IF h \in S THEN "open" ELSE f[h]]

(***************************************************************************)
(* Outbound payloads.  own: who may still read the bytes.                   *)
(***************************************************************************)
NoPayload == [own |-> "none", freed |-> 0]
\* The next payload object, if the bound leaves one.
FreshPayload == {p \in 1..wtSetup.sends : pay[p].own = "none" /\ \A q \in 1..(p - 1) : pay[q].own # "none"}
OutboundPayload(p, rejected) ==
    IF rejected THEN [pay EXCEPT ![p] = [own |-> "done", freed |-> 1]]
                ELSE [pay EXCEPT ![p] = [own |-> "msquic", freed |-> 0]]
release_outbound_payload(p) == [pay EXCEPT ![p].freed = @ + 1]

(***************************************************************************)
(* Stream wrappers                                                          *)
(***************************************************************************)
NoStream == [kind |-> "none", by |-> "none", handle |-> FALSE, closed |-> FALSE,
             cb |-> "none", q |-> <<>>, fin |-> FALSE, live |-> FALSE]
BidiStream(by) == [NoStream EXCEPT !.kind = "bidi", !.by = by, !.handle = TRUE,
                                   !.live = TRUE]
UniStream(by) == [BidiStream(by) EXCEPT !.kind = "uni"]
NewStream == CHOOSE x \in Streams : hq[x] = "none"
StreamLeft == /\ \E x \in Streams : hq[x] = "none"
              /\ Cardinality({x \in Streams : hq[x] # "none"}) < wtSetup.streams
Wrapped(x) == st[x].kind = "bidi" /\ st[x].by \in Sessions

\* The destructors of the wrappers in S: a handle still held is closed.
DropWrappers(f, S) == CloseAll(f, {x \in S : st[x].handle})
Dropped(S) == [x \in Streams |->
                 IF x \in S THEN [st[x] EXCEPT !.by = "dead", !.handle = FALSE,
                                                !.live = @ /\ ~st[x].handle]
                            ELSE st[x]]

BidiUsable(x) == st[x].handle /\ ~st[x].closed
BidiSend(x, p) ==
    /\ BidiUsable(x)
    /\ \E rejected \in BOOLEAN :
         /\ rejected => Fails("StreamSend")
         /\ pay' = OutboundPayload(p, rejected)

UniSend(x, p) ==
    /\ BidiUsable(x)
    /\ \E rejected \in BOOLEAN :
         /\ rejected => Fails("StreamSend")
         /\ pay' = OutboundPayload(p, rejected)
         /\ st' = [st EXCEPT ![x].closed = ~rejected]

\* Pull-side read; the queue also holds what the callback was already given.
BidiRecv(x) ==
    /\ Wrapped(x) /\ wtSetup.reads /\ st[x].handle /\ st[x].q # <<>>
    /\ st' = [st EXCEPT ![x].q = Tail(@)]
    /\ UNCHANGED <<wtSetup, hq, quic, ss, pay>>

set_on_data(f, x, cb) == [f EXCEPT ![x].cb = cb]
StreamShut(f, x) == [f EXCEPT ![x].closed = @ \/ f[x].handle]
BidiClose(f, x) == StreamShut(f, x)
BidiReset(f, x) == StreamShut(f, x)
UniClose(f, x) == StreamShut(f, x)

UniReset(x) ==
    /\ st[x].kind = "uni" /\ st[x].by \in Sessions /\ st[x].handle
    /\ st' = StreamShut(st, x)
    /\ UNCHANGED <<wtSetup, hq, quic, ss, pay>>

on_receive(x, bytes) == [st EXCEPT ![x].q = IF st[x].handle THEN Append(@, bytes) ELSE @]

on_peer_send_shutdown(x) == [st EXCEPT ![x].fin = TRUE]
on_peer_send_aborted(x) == [st EXCEPT ![x].fin = TRUE, ![x].closed = TRUE]
on_peer_receive_aborted(x) == [st EXCEPT ![x].closed = TRUE]
\* The wrapper forgets its handle; nobody calls StreamClose for it afterwards.
on_stream_closed(x) == [st EXCEPT ![x].closed = TRUE, ![x].handle = FALSE,
                                  ![x].live = FALSE]

(***************************************************************************)
(* The session object                                                       *)
(***************************************************************************)
NoSession == [phase |-> "none", state |-> "kConnecting", closing |-> FALSE,
              conn |-> FALSE, cfg |-> FALSE, reg |-> FALSE, owns |-> FALSE,
              dcb |-> FALSE, pcb |-> FALSE, known |-> FALSE, enabled |-> FALSE,
              streams |-> {}]
Alive(s) == ss[s].phase \in {"started", "ready", "closing1", "closing2"}
Quiet(s) == ss[s].phase = "ready"

\* Client constructor: each failing call unwinds what was opened before it.
CtorSteps == <<"RegistrationOpen", "ConfigurationOpen", "ConnectionOpen",
               "ConnectionSetConfiguration", "ConnectionStart">>
CtorUnwinds == << {}, {"reg"}, {"reg", "cfg"}, {"reg", "cfg", "conn"},
                  {"reg", "cfg", "conn"} >>
ClientSession == CHOOSE s \in Sessions : TRUE
MsQuicSessionImpl(s) ==
    /\ wtSetup.side = "client" /\ s = ClientSession /\ ss[s].phase = "none"
    /\ \/ \E k \in DOMAIN CtorSteps :
            /\ Fails(CtorSteps[k])
            /\ hq' = CloseAll(Opened(hq, CtorUnwinds[k]), CtorUnwinds[k])
            /\ ss' = [ss EXCEPT ![s].phase = "threw"]
            /\ UNCHANGED quic
       \/ /\ hq' = Opened(hq, {"reg", "cfg", "conn"})
          /\ ss' = [ss EXCEPT ![s] = [NoSession EXCEPT !.phase = "started", !.conn = TRUE,
                                       !.cfg = TRUE, !.reg = TRUE, !.owns = TRUE]]
          /\ quic' = [quic EXCEPT !.conn = "handshake", !.ctx = s]
    /\ UNCHANGED <<wtSetup, st, pay>>

\* The last line of the constructor, after ConnectionStart has returned.
CtorStoresConnecting(s) ==
    /\ ss[s].phase = "started"
    /\ ss' = [ss EXCEPT ![s].state = "kConnecting", ![s].phase = "ready"]
    /\ UNCHANGED <<wtSetup, hq, quic, st, pay>>

\* Server side: the listener's handles are borrowed, the state is connected.
ServerSession(seed) ==
    [NoSession EXCEPT !.phase = "ready", !.state = "kConnected", !.conn = TRUE,
       !.cfg = TRUE, !.reg = TRUE, !.known = seed.known,
       !.enabled = seed.known /\ seed.enabled]

MayOpen(s) == Quiet(s) /\ ss[s].state = "kConnected" /\ ~ss[s].closing /\ ss[s].conn

\* What opening a stream with wrapper w can do; x is "none" for nullptr.  When
\* StreamStart fails the handle is closed here and by the wrapper's destructor.
Outcome(f, g, k, x) == [hq |-> f, st |-> g, ss |-> k, x |-> x]
OpenStream(s, w) ==
    LET x == NewStream
        ok == Outcome(Opened(hq, {x}), [st EXCEPT ![x] = w],
                      [ss EXCEPT ![s].streams = @ \cup {x}], x)
        failed(f) == Outcome(f, st, ss, "none")
    IN  {ok} \cup (IF Fails("StreamOpen") THEN {failed(hq)} ELSE {})
             \cup (IF Fails("StreamStart")
                   THEN {failed(CloseAll(CloseAll(Opened(hq, {x}), {x}), {x}))} ELSE {})
Apply(o) == hq' = o.hq /\ st' = o.st /\ ss' = o.ss

open_bidi_stream(s) ==
    /\ MayOpen(s) /\ StreamLeft /\ "bidi" \in wtSetup.opens
    /\ \E o \in OpenStream(s, BidiStream(s)) : Apply(o)
    /\ UNCHANGED <<wtSetup, quic, pay>>

open_uni_stream(s) ==
    /\ MayOpen(s) /\ StreamLeft /\ "uni" \in wtSetup.opens
    /\ \E o \in OpenStream(s, UniStream(s)) : Apply(o)
    /\ UNCHANGED <<wtSetup, quic, pay>>

SendOnStream(s) ==
    /\ Quiet(s)
    /\ \E x \in ss[s].streams, p \in FreshPayload :
         \/ st[x].kind = "bidi" /\ BidiSend(x, p) /\ UNCHANGED st
         \/ st[x].kind = "uni" /\ UniSend(x, p)
    /\ UNCHANGED <<wtSetup, hq, quic, ss>>

\* An unknown peer state is left to msquic; a known refusal is answered here.
send_datagram(s, p) ==
    /\ ss[s].state = "kConnected"
    /\ ~(ss[s].known /\ ~ss[s].enabled)
    /\ \E rejected \in BOOLEAN :
         /\ rejected => Fails("DatagramSend")
         /\ pay' = IF rejected THEN OutboundPayload(p, TRUE)
                   ELSE [pay EXCEPT ![p] = [own |-> "dgram", freed |-> 0]]
    /\ UNCHANGED <<wtSetup, hq, quic, ss, st>>

\* close(): flag and state, then the streams, then the connection.
CloseBegins(s) ==
    /\ Quiet(s) /\ "close" \in wtSetup.ends /\ ~ss[s].closing
    /\ ss' = [ss EXCEPT ![s].closing = TRUE, ![s].state = "kClosing",
                        ![s].phase = "closing1"]
    /\ UNCHANGED <<wtSetup, hq, quic, st, pay>>

CloseStreams(s) ==
    /\ ss[s].phase = "closing1"
    /\ ss' = [ss EXCEPT ![s].phase = "closing2"]
    /\ st' = [x \in Streams |-> IF x \in ss[s].streams THEN BidiClose(st, x)[x] ELSE st[x]]
    /\ UNCHANGED <<wtSetup, hq, quic, pay>>

ShutConn(s, q) == IF ss[s].conn /\ ss[s].owns /\ q.conn \in {"handshake", "up"}
                  THEN [q EXCEPT !.conn = "closing"] ELSE q
CloseConnection(s) ==
    /\ ss[s].phase = "closing2"
    /\ quic' = ShutConn(s, quic)
    /\ ss' = [ss EXCEPT ![s].phase = "ready", ![s].conn = @ /\ ss[s].owns]
    /\ UNCHANGED <<wtSetup, hq, st, pay>>

\* The destructor closes, then drops the wrappers; the connection keeps its
\* context pointer, and what its later events would do is not modelled.
DestroySession(s) ==
    /\ Quiet(s) /\ "destroy" \in wtSetup.ends
    /\ quic' = IF ss[s].closing THEN quic ELSE ShutConn(s, quic)
    /\ hq' = DropWrappers(hq, ss[s].streams)
    /\ st' = Dropped(ss[s].streams)
    /\ ss' = [ss EXCEPT ![s].phase = "destroyed", ![s].streams = {}]
    /\ UNCHANGED <<wtSetup, pay>>

(***************************************************************************)
(* Connection events, dispatched to the session that owns the context       *)
(***************************************************************************)
WkIdle == quic.wk.what = "idle"
ToSession(s) == WkIdle /\ quic.ctx = s /\ Alive(s) /\ hq["conn"] = "open"

on_connected(s) ==
    /\ ToSession(s) /\ quic.conn = "handshake"
    /\ quic' = [quic EXCEPT !.conn = "up"]
    /\ ss' = [ss EXCEPT ![s].state = "kConnected"]
    /\ UNCHANGED <<wtSetup, hq, st, pay>>

on_shutdown_initiated_by_transport(s) ==
    /\ ToSession(s) /\ "transport" \in wtSetup.ends /\ quic.conn \in {"handshake", "up"}
    /\ quic' = [quic EXCEPT !.conn = "closing"]
    /\ ss' = [ss EXCEPT ![s].state = "kFailed"]
    /\ UNCHANGED <<wtSetup, hq, st, pay>>

on_shutdown_initiated_by_peer(s) ==
    /\ ToSession(s) /\ "peer" \in wtSetup.ends /\ quic.conn = "up"
    /\ quic' = [quic EXCEPT !.conn = "closing"]
    /\ ss' = [ss EXCEPT ![s].state = "kClosing"]
    /\ UNCHANGED <<wtSetup, hq, st, pay>>

\* Whatever the state was, it becomes kClosed; owned handles are closed inside out.
on_shutdown_complete(s) ==
    /\ ToSession(s) /\ quic.conn = "closing"
    /\ \A x \in Streams : ~st[x].live
    /\ quic' = [quic EXCEPT !.conn = "done"]
    /\ hq' = CloseAll(DropWrappers(hq, ss[s].streams),
                      IF ss[s].owns THEN {h \in {"conn", "cfg", "reg"} :
                                            ss[s].conn \/ h # "conn"} ELSE {})
    /\ st' = Dropped(ss[s].streams)
    /\ ss' = [ss EXCEPT ![s].state = "kClosed", ![s].streams = {}, ![s].conn = FALSE,
                        ![s].cfg = @ /\ ~ss[s].owns, ![s].reg = @ /\ ~ss[s].owns]
    /\ UNCHANGED <<wtSetup, pay>>

on_datagram_state_changed(s) ==
    /\ ToSession(s) /\ quic.conn = "up" /\ "state" \in wtSetup.dgram
    /\ \E enabled \in BOOLEAN :
         ss' = [ss EXCEPT ![s].known = TRUE, ![s].enabled = enabled]
    /\ UNCHANGED <<wtSetup, hq, quic, st, pay>>

(***************************************************************************)
(* Completion and stream events                                             *)
(***************************************************************************)
\* SEND_COMPLETE of a stream send, and the two kinds of datagram notification;
\* a cancelled datagram gets the final one without the other.
SendComplete(p) ==
    /\ pay[p].own = "msquic"
    /\ pay' = [release_outbound_payload(p) EXCEPT ![p].own = "done"]
    /\ UNCHANGED <<wtSetup, hq, quic, ss, st>>

\* Mutant: the intermediate SENT notification frees the payload as well.
DatagramSendState_FreesOnSent(p, final) ==
    /\ pay[p].own = "dgram" \/ (final /\ pay[p].own = "tracked")
    /\ pay' = [release_outbound_payload(p) EXCEPT ![p].own = IF final THEN "done" ELSE "tracked"]
    /\ UNCHANGED <<wtSetup, hq, quic, ss, st>>

DatagramSendState(p, final) ==
    /\ pay[p].own = "dgram" \/ (final /\ pay[p].own = "tracked")
    /\ pay' = IF final THEN [release_outbound_payload(p) EXCEPT ![p].own = "done"]
                       ELSE [pay EXCEPT ![p].own = "tracked"]
    /\ UNCHANGED <<wtSetup, hq, quic, ss, st>>

StreamFires(x) == WkIdle /\ st[x].live /\ st[x].by \in Sessions /\ hq[x] = "open"

\* PEER_SEND_SHUTDOWN and the two aborts, on a bidirectional stream.
quic_stream_callback_bidi(x) ==
    /\ StreamFires(x) /\ st[x].kind = "bidi" /\ wtSetup.aborts
    /\ st' \in {on_peer_send_shutdown(x), on_peer_send_aborted(x), on_peer_receive_aborted(x)}
    /\ UNCHANGED <<wtSetup, hq, quic, ss, pay>>

\* SHUTDOWN_COMPLETE of a stream: both directions done, or the connection going.
StreamShutdownComplete(x) ==
    /\ StreamFires(x)
    /\ st[x].closed \/ quic.conn = "closing"
    /\ st' = on_stream_closed(x)
    /\ UNCHANGED <<wtSetup, hq, quic, ss, pay>>

WtSessionNext ==
    \/ \E s \in Sessions :
         \/ MsQuicSessionImpl(s) \/ CtorStoresConnecting(s)
         \/ open_bidi_stream(s) \/ open_uni_stream(s) \/ SendOnStream(s)
         \/ CloseBegins(s) \/ CloseStreams(s) \/ CloseConnection(s) \/ DestroySession(s)
         \/ on_connected(s) \/ on_shutdown_initiated_by_transport(s)
         \/ on_shutdown_initiated_by_peer(s) \/ on_shutdown_complete(s)
         \/ on_datagram_state_changed(s)
         \/ "send" \in wtSetup.dgram /\ Quiet(s) /\ \E p \in FreshPayload : send_datagram(s, p)
    \/ \E p \in Payloads : SendComplete(p) \/ \E final \in BOOLEAN : DatagramSendState(p, final)
    \/ \E x \in Streams :
         BidiRecv(x) \/ UniReset(x) \/ quic_stream_callback_bidi(x) \/ StreamShutdownComplete(x)
=============================================================================
