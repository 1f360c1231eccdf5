----------------------------- MODULE DtlsSession -----------------------------
(***************************************************************************)
(* One DTLS session over wolfSSL (src/modules/dtls), as operators on the   *)
(* session's record: what each call of the engine leaves behind.           *)
(*                                                                         *)
(* wolfSSL is external: a handshake is its four flights, named by the      *)
(* generations of the two SSL objects that exchange them, and a call of    *)
(* the library that may fail is in broken from when it starts to fail (a   *)
(* fatal alert of the peer included).  The cookie round is left out, and   *)
(* so are fragments (the reassembler) and application data, which change   *)
(* nothing here.                                                           *)
(***************************************************************************)
EXTENDS Integers

Roles == {"client", "server"}
Other(p) == IF p = "client" THEN "server" ELSE "client"

Nullopt == <<>>    \* srtp_keys_ holds no value
Zeros == <<0, 0>>  \* it holds a value that was never filled

Live == {"Initial", "HelloSent"}  \* states in which pump_handshake() does work

\* The certificate a session is pinned to: the one the peer has, another, or none.
Pins == {"peer", "other", "none"}

\* What can fail: the handshake for good, reading or hashing the peer's
\* certificate, the export of the keys, setting up another SSL object.
Faults == {"handshake", "certificate", "export", "setup"}

\* DtlsSessionWolfSSL(cfg) and open(), with the pin the first description set.
NewSession(role, pin) ==
    [role |-> role, pin |-> pin, state |-> "Initial", keys |-> Zeros, broken |-> {},
     gen |-> 1, step |-> "start", peer |-> 0, outbound |-> {}]

\* set_peer_fingerprint(): one that is not 32 bytes of sha-256 clears the pin.
set_peer_fingerprint(s, fp) == [s EXCEPT !.pin = IF fp \in Pins THEN fp ELSE "none"]

\* set_role(): heard only before the handshake starts.
set_role(s, role) == IF s.state \in {"Initial", "Closed"} THEN [s EXCEPT !.role = role] ELSE s

-----------------------------------------------------------------------------
(* wolfSSL: external. *)

\* A flight of the handshake between client object c and server object s.
Flight(kind, c, s) == [kind |-> kind, c |-> c, s |-> s]

Emit(s, step, peer, f) ==
    [s EXCEPT !.step = step, !.peer = peer, !.outbound = @ \cup {f}]

\* wolfSSL_connect() with the flights in: at most one.
Connect(s, in) ==
    CASE s.step = "start" -> Emit(s, "hello", 0, Flight("hello", s.gen, 0))
      [] s.step = "hello" /\ \E f \in in : f.kind = "reply" /\ f.c = s.gen ->
           LET f == CHOOSE f \in in : TRUE
           IN Emit(s, "finish", f.s, Flight("finish", s.gen, f.s))
      [] s.step = "finish" /\ Flight("done", s.gen, s.peer) \in in ->
           [s EXCEPT !.step = "done"]
      [] OTHER -> s

\* wolfSSL_accept() with the flights in: at most one.
Accept(s, in) ==
    CASE s.step = "start" /\ \E f \in in : f.kind = "hello" ->
           LET f == CHOOSE f \in in : TRUE
           IN Emit(s, "reply", f.c, Flight("reply", f.c, s.gen))
      [] s.step = "reply" /\ Flight("hello", s.peer, 0) \in in ->
           Emit(s, "reply", s.peer, Flight("reply", s.peer, s.gen))
      [] s.step = "reply" /\ Flight("finish", s.peer, s.gen) \in in ->
           Emit(s, "done", s.peer, Flight("done", s.peer, s.gen))
      [] OTHER -> s

\* The flight wolfSSL_dtls_got_timeout() sends again.
LastFlight(s) ==
    CASE s.step = "hello" -> {Flight("hello", s.gen, 0)}
      [] s.step = "finish" -> {Flight("finish", s.gen, s.peer)}
      [] s.step = "reply" -> {Flight("reply", s.peer, s.gen)}
      [] OTHER -> {}

\* What the two sides derive from a finished handshake.
Exported(s) == IF s.role = "client" THEN <<s.gen, s.peer>> ELSE <<s.peer, s.gen>>

-----------------------------------------------------------------------------

\* export_srtp_keys() fills the value, if there is one, or drops it when the
\* library exports nothing.
export_srtp_keys(s) ==
    IF s.keys = Nullopt THEN s
    ELSE [s EXCEPT !.keys = IF "export" \in s.broken THEN Nullopt ELSE Exported(s)]

on_handshake_complete(s) == export_srtp_keys([s EXCEPT !.state = "Connected"])

\* Without a pin every certificate will do.
verify_peer_spki(s) == s.pin = "none" \/ (s.pin = "peer" /\ "certificate" \notin s.broken)

\* Mutant: the certificate is not compared.
Finish_NotPinned(s) == on_handshake_complete(s)

\* wolfSSL reports success.
Finish(s) ==
    IF verify_peer_spki(s) THEN on_handshake_complete(s)
    ELSE [s EXCEPT !.state = "Failed"]

pump_handshake(s, in) ==
    IF s.state \notin Live THEN s
    ELSE IF "handshake" \in s.broken THEN [s EXCEPT !.state = "Failed"]
    ELSE LET t == IF s.role = "client" THEN Connect(s, in) ELSE Accept(s, in)
             u == [t EXCEPT !.state = "HelloSent"]
         IN IF u.step = "done" THEN Finish(u) ELSE u

\* A handshake record arrives; a Connected session hands it to wolfSSL_read(),
\* whose answer stays in send_buf_.
feed_inbound(s, f) == pump_handshake(s, {f})

\* Mutant: nothing is sent again.
DtlsTick_NoRetransmit(s, fired) == s

\* tick(): fired is whether the retransmission timer ran out.
DtlsTick(s, fired) ==
    IF s.state \in Live /\ fired THEN [s EXCEPT !.outbound = @ \cup LastFlight(s)]
    ELSE s

\* take_outbound(): the records it returns, and the session it leaves.
Repumped(s) == IF s.outbound = {} THEN pump_handshake(s, {}) ELSE s
Outbound(s) == Repumped(s).outbound
take_outbound(s) == [Repumped(s) EXCEPT !.outbound = {}]

srtp_keying_material(s) == IF s.state = "Connected" THEN s.keys ELSE Nullopt

\* rehandshake() of a Connected session: a new SSL object and its first flight, or
\* neither (gen, step and peer then still tell of the object that was torn down).
rehandshake(s) ==
    IF "setup" \in s.broken
    THEN [s EXCEPT !.state = "Failed", !.keys = Nullopt, !.outbound = {}]
    ELSE pump_handshake([s EXCEPT !.state = "Initial", !.keys = Nullopt,
                                  !.gen = @ + 1, !.step = "start", !.peer = 0,
                                  !.outbound = {}], {})

\* teardown()
DtlsClose(s) == [s EXCEPT !.state = "Closed"]

Kinds == {"hello", "reply", "finish", "done"}

IsSession(s) ==
    /\ s.role \in Roles /\ s.pin \in Pins /\ s.broken \subseteq Faults
    /\ s.state \in Live \cup {"Connected", "Failed", "Closed"}
    /\ s.keys \in {Nullopt} \cup (Nat \X Nat) /\ s.gen \in Nat /\ s.peer \in Nat
    /\ s.step \in {"start"} \cup Kinds
    /\ s.outbound \subseteq [kind : Kinds, c : Nat, s : Nat]
=============================================================================
