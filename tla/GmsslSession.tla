---------------------------- MODULE GmsslSession ----------------------------
(***************************************************************************)
(* The GmSSL backend of the DTLS seam: the library only speaks to a stream *)
(* socket, so each session owns a loopback TCP pair, writes what arrives   *)
(* from the peer into one end and drains what the library wrote from it.   *)
(* The handshake advances inside feed_inbound and take_outbound; whatever  *)
(* the socket does not take waits in inbound_pending_.                     *)
(*                                                                         *)
(* Source: dtls/src/dtls_gmssl_session.cpp.  Two sessions, "a" and "b",    *)
(* whose host relays the records of each to the other in order.  The bytes *)
(* of a handshake flight are two tokens, its header and its body.  The     *)
(* library's own handshake is external: four flights, the client's first.  *)
(***************************************************************************)
EXTENDS Integers, Sequences

CONSTANTS
    SocketRoom,    \* tokens each direction of the loopback socket holds
    GmFailures,    \* steps of open() that may fail
    GmCalls        \* bound on set_role, set_peer_fingerprint and close calls

VARIABLES gms, relay, gmCalls    \* sessions, records under way, calls made

gmVars == <<gms, relay, gmCalls>>

Sides == {"a", "b"}
Other(x) == IF x = "a" THEN "b" ELSE "a"

Flights == 1..4
Tokens(f) == <<<<f, "head">>, <<f, "body">>>>

NoKeys == [client |-> "none", server |-> "none"]
ZeroKeys == [client |-> "zero", server |-> "zero"]

NewGmssl(role) ==
    [role |-> role, is_client |-> FALSE, state |-> "Initial",
     open_called |-> FALSE, conn_inited |-> FALSE, socket |-> FALSE,
     in |-> <<>>, pending |-> <<>>, out |-> <<>>,
     expected_peer_fp |-> "unset", local_fp |-> "empty", on_complete_cb |-> TRUE,
     outcome |-> <<>>, srtp_keys |-> ZeroKeys, prf_fails |-> FALSE,
     flight |-> 1, part |-> 0, broken |-> FALSE,
     FED |-> <<>>, READ |-> <<>>, LOST |-> FALSE]

Final == {"Connected", "Failed", "Closed"}

----------------------------------------------------------------------------
(* External: tls_do_handshake.  It writes the flights of its own role and  *)
(* reads the others token by token until the socket would block, the last  *)
(* flight is through, or a token is not the one the handshake expects.     *)

Sends(s) == (s.flight % 2 = 1) = s.is_client

tls_step(s) ==
    LET flight == Tokens(s.flight)
    IN CASE s.flight > 4 \/ s.broken -> s
         [] s.flight <= 4 /\ ~s.broken /\ ~s.socket -> [s EXCEPT !.broken = TRUE]
         [] s.flight <= 4 /\ ~s.broken /\ s.socket /\ Sends(s) ->
                IF Len(s.out) >= SocketRoom THEN s
                ELSE [s EXCEPT !.out = Append(@, flight[s.part + 1]),
                               !.part = (@ + 1) % 2,
                               !.flight = @ + s.part]
         [] OTHER ->
                IF s.in = <<>> THEN s
                ELSE IF Head(s.in) # flight[s.part + 1]
                     THEN [s EXCEPT !.in = Tail(@), !.READ = Append(@, Head(s.in)),
                                    !.broken = TRUE]
                     ELSE [s EXCEPT !.in = Tail(@), !.READ = Append(@, Head(s.in)),
                                    !.part = (@ + 1) % 2,
                                    !.flight = @ + s.part]

tls_do_handshake(s) ==
    LET run[n \in 0..9] == IF n = 0 THEN s ELSE tls_step(run[n - 1]) IN run[9]

----------------------------------------------------------------------------
(* The loopback socket.                                                    *)

Minimum(m, n) == IF m < n THEN m ELSE n

\* Mutant: new bytes go to the socket ahead of the ones that wait.
push_inbound_bytes_Overtakes(s, data) ==
    LET room == Minimum(Len(data), SocketRoom - Len(s.in))
    IN IF ~s.socket THEN [s EXCEPT !.LOST = @ \/ data # <<>>]
       ELSE [s EXCEPT !.in = @ \o SubSeq(data, 1, room),
                      !.pending = @ \o SubSeq(data, room + 1, Len(data))]

\* What waits goes first; what the socket does not take waits on.  (The exit for
\* send() == 0, which would drop the rest, is not taken: a stream socket answers 0
\* only to a send of no bytes, and the loop sends none.)
push_inbound_bytes(s, data) ==
    LET merged == s.pending \o data
        room   == Minimum(Len(merged), SocketRoom - Len(s.in))
    IN IF ~s.socket THEN [s EXCEPT !.LOST = @ \/ data # <<>>]
       ELSE [s EXCEPT !.in = @ \o SubSeq(merged, 1, room),
                      !.pending = SubSeq(merged, room + 1, Len(merged))]

flush_inbound_pending(s) ==
    IF s.pending = <<>> \/ ~s.socket THEN s ELSE push_inbound_bytes(s, <<>>)

\* One record per read of the socket.
drain_outbound(s) == [s EXCEPT !.out = <<>>]

----------------------------------------------------------------------------
(* The handshake.                                                          *)

\* The certificate of the peer is there only on the client's side: the server
\* never asks for one, and its pin is then skipped.
verify_peer_cert_sha256(s) ==
    \/ s.expected_peer_fp = "unset"
    \/ ~s.is_client
    \/ s.expected_peer_fp = "peer"

\* The key block, cut into the client's and the server's write keys.
derive_srtp_keys(s) ==
    IF s.prf_fails THEN NoKeys ELSE [client |-> "first", server |-> "second"]

export_srtp_keys(s) == [s EXCEPT !.srtp_keys = derive_srtp_keys(s)]

\* Keys that cannot be derived leave the session connected without any.
on_handshake_complete(s) == export_srtp_keys([s EXCEPT !.state = "Connected"])

Complete(s, status) ==
    IF s.on_complete_cb
    THEN [s EXCEPT !.on_complete_cb = FALSE, !.outcome = Append(@, status)]
    ELSE s

pump_handshake(s) ==
    LET Come(t) ==
            CASE t.flight > 4 /\ verify_peer_cert_sha256(t) ->
                    Complete(on_handshake_complete(t), "ok")
              [] t.flight > 4 /\ ~verify_peer_cert_sha256(t) ->
                    Complete([t EXCEPT !.state = "Failed"], "corrupt")
              [] t.flight <= 4 /\ t.broken ->
                    Complete([t EXCEPT !.state = "Failed"], "internal")
              [] OTHER -> t
    IN IF ~s.conn_inited \/ s.state \in {"Connected", "Failed"} THEN s
       ELSE Come(tls_do_handshake([s EXCEPT !.state = IF @ = "Initial" THEN "HelloSent" ELSE @]))

\* At most 16 passes; from the second on only while bytes still wait.
feed_inbound(s, bytes) ==
    LET Left(t, n) == [s |-> t, on |-> /\ t.conn_inited /\ t.state \notin Final
                                       /\ n = 1 \/ t.pending # <<>>]
        Again(p, n) == IF ~p.on THEN p ELSE Left(pump_handshake(flush_inbound_pending(p.s)), n)
        pass[n \in 0..16] ==
            IF n = 0
            THEN [s |-> push_inbound_bytes([s EXCEPT !.FED =
                            IF s.socket THEN @ \o bytes ELSE @], bytes),
                  on |-> TRUE]
            ELSE Again(pass[n - 1], n)
    IN IF bytes = <<>> THEN s ELSE pass[16].s

\* Drains, then up to eight passes that pump and drain until nothing changes.
take_outbound(s) ==
    LET Drained(p, t) == [s |-> drain_outbound(t), records |-> p.records \o t.out,
                          on |-> ~(t.state \in Final /\ t.out = <<>>)]
        Again(p) == IF ~p.on THEN p ELSE Drained(p, pump_handshake(flush_inbound_pending(p.s)))
        pass[n \in 0..8] ==
            IF n = 0
            THEN [s |-> drain_outbound(s), records |-> s.out, on |-> s.conn_inited]
            ELSE Again(pass[n - 1])
        Result(p) == [s |-> p.s, records |-> p.records]
    IN Result(pass[8])

----------------------------------------------------------------------------
(* The session's life.                                                     *)

(* open() runs once: a second call reports success whatever the first one  *)
(* came to.  A loopback pair that cannot be made leaves the connection     *)
(* initialised without a socket.                                           *)
setup_context(s) == [s EXCEPT !.is_client = (s.role = "client")]

set_certificates(fail) == fail # "certificate"

open_socket_pair(s, fail) == [s EXCEPT !.socket = (fail # "socket")]

\* A certificate file that cannot be read again leaves the fingerprint empty.
compute_local_fingerprint(s, fail) ==
    IF fail = "pem" THEN s ELSE [s EXCEPT !.local_fp = "own"]

create_tls_object(s, fail) ==
    LET t == open_socket_pair([s EXCEPT !.conn_inited = TRUE], fail)
    IN CASE fail = "init" -> s
         [] fail # "init" /\ ~t.socket -> t
         [] OTHER -> compute_local_fingerprint(t, fail)

gm_open(s, fail) ==
    LET t == [s EXCEPT !.open_called = TRUE, !.prf_fails = (fail = "prf")]
    IN CASE s.open_called -> s
         [] ~s.open_called /\ fail = "context" -> t
         [] ~s.open_called /\ fail # "context" /\ ~set_certificates(fail) -> setup_context(t)
         [] OTHER -> create_tls_object(setup_context(t), fail)

teardown(s) ==
    [s EXCEPT !.conn_inited = FALSE, !.socket = FALSE, !.in = <<>>, !.out = <<>>,
              !.pending = <<>>, !.state = "Closed"]

\* A wrong algorithm or length clears the pin.
set_peer_fingerprint(s, fp) ==
    [s EXCEPT !.expected_peer_fp = IF fp = "malformed" THEN "unset" ELSE fp]

\* Accepted as long as the handshake has not begun, after open() too, when the
\* context has already been made for the other role.
gm_set_role(s, role) ==
    IF s.state \in {"Closed", "Initial"} THEN [s EXCEPT !.role = role] ELSE s

srtp_keying_material(s) ==
    IF s.state = "Connected" THEN s.srtp_keys ELSE NoKeys

export_srtp_key_material(s) ==
    IF srtp_keying_material(s) = NoKeys THEN "NotReady" ELSE "ok"

----------------------------------------------------------------------------
GmInit ==
    /\ gms = [x \in Sides |-> NewGmssl(IF x = "a" THEN "client" ELSE "server")]
    /\ relay = [x \in Sides |-> <<>>]
    /\ gmCalls = 0

GmOpen(x, fail) ==
    /\ ~gms[x].open_called
    /\ gms' = [gms EXCEPT ![x] = gm_open(@, fail)]
    /\ UNCHANGED <<relay, gmCalls>>

Limited(x, s) ==
    /\ gmCalls < GmCalls
    /\ gmCalls' = gmCalls + 1
    /\ gms' = [gms EXCEPT ![x] = s]
    /\ UNCHANGED relay

GmTake(x) ==
    LET taken == take_outbound(gms[x])
    IN /\ gms' = [gms EXCEPT ![x] = taken.s]
       /\ relay' = [relay EXCEPT ![x] = @ \o taken.records]
       /\ <<gms, relay>>' # <<gms, relay>>
       /\ UNCHANGED gmCalls

\* The host hands over whatever part of the records it has.
GmFeed(x, n) ==
    LET from == Other(x)
    IN /\ n \in 1..Len(relay[from])
       /\ gms' = [gms EXCEPT ![x] = feed_inbound(@, SubSeq(relay[from], 1, n))]
       /\ relay' = [relay EXCEPT ![from] = SubSeq(@, n + 1, Len(@))]
       /\ UNCHANGED gmCalls

GmRelay(x) == \E n \in 1..8 : GmFeed(x, n)

GmNext ==
    \E x \in Sides :
        \/ \E fail \in GmFailures : GmOpen(x, fail)
        \/ \E role \in {"client", "server"} :
              gms[x].role # role /\ Limited(x, gm_set_role(gms[x], role))
        \/ \E fp \in {"peer", "else", "malformed"} :
              Limited(x, set_peer_fingerprint(gms[x], fp))
        \/ Limited(x, teardown(gms[x]))
        \/ GmTake(x)
        \/ GmRelay(x)

----------------------------------------------------------------------------
GmTypeOK ==
    \A x \in Sides :
        /\ Len(gms[x].in) <= SocketRoom
        /\ Len(gms[x].out) <= SocketRoom
        /\ gms[x].state = "Connected" => gms[x].outcome = <<"ok">>
        /\ export_srtp_key_material(gms[x]) = "ok"
              => gms[x].state = "Connected" /\ srtp_keying_material(gms[x]) # ZeroKeys

(* The library reads the peer's bytes exactly once and in order, however   *)
(* little the socket takes at a time (push_inbound_bytes: "no inbound byte *)
(* is ever dropped").                                                      *)
GmStreamIntact ==
    \A x \in Sides :
        gms[x].socket => gms[x].FED = gms[x].READ \o gms[x].in \o gms[x].pending

(* No handshake is stranded: when two sessions of opposite roles were open *)
(* before the first record reached them, with the right certificate pinned *)
(* or none, and the host has nothing left to relay or to drain, both are   *)
(* connected.                                                              *)
Able ==
    /\ gms["a"].is_client # gms["b"].is_client
    /\ \A x \in Sides : /\ gms[x].conn_inited /\ gms[x].socket
                        /\ ~gms[x].LOST
                        /\ gms[x].expected_peer_fp # "else"
                        /\ gms[x].outcome # <<"corrupt">>

Quiet ==
    \A x \in Sides : /\ relay[x] = <<>>
                     /\ take_outbound(gms[x]) = [s |-> gms[x], records |-> <<>>]

GmConnects == Able /\ Quiet => \A x \in Sides : gms[x].state = "Connected"
=============================================================================
