---------------------------- MODULE EngineKeying ----------------------------
(***************************************************************************)
(* Two engines keying their media (src/engine): ICE comes up and flaps,    *)
(* tick() polls it, drives the DTLS session and installs the SRTP keys,    *)
(* and media is protected, queued, sent and received meanwhile.            *)
(*                                                                         *)
(* Steps.  libjuice changes the ICE state on its own thread, so tick() is  *)
(* cut where the engine reads that state: poll_ice_flap (with the drain of *)
(* the scheduler before it), drain_dtls, and each packet dispatched by     *)
(* recv().                                                                 *)
(*                                                                         *)
(* The engines are named for the roles their DTLS sessions start with, as  *)
(* the first exchange of descriptions resolved them (EngineSignaling).     *)
(* Later descriptions may come at any time, with another role or another   *)
(* fingerprint.                                                            *)
(*                                                                         *)
(* Abstractions.  An ICE state is up (Connected, Completed) or not.  The   *)
(* records and packets on the wire and in the scheduler's queue are sets:  *)
(* they may be reordered and delayed, and a record may be lost.  A media   *)
(* packet is its receiver, its stream and the key it is protected with.    *)
(***************************************************************************)
EXTENDS DtlsSession, SrtpContext

CONSTANT
    Setups   \* the situations the two engines are started in: records of
             \*   pin       what the first description pinned the session to
             \*   later     the descriptions that come later: to whom, the role
             \*             they resolve to, the fingerprint they announce
             \*   faults    the calls of wolfSSL that may fail at the engine
             \*   sends     the streams the engine sends
             \*   flaps     bound: times ICE goes down at the engine
             \*   losses    bound: DTLS records lost

\* A fingerprint in a description: that of the certificate the peer has, of
\* another, one of another kind than sha-256, or none.
Announcements == {"peer", "other", "unsupported", "absent"}
Descriptions == [to : Roles, role : Roles, fp : Announcements]

ASSUME KeyingAssumption ==
    Setups \subseteq [pin : [Roles -> Pins], later : SUBSET Descriptions,
                      faults : [Roles -> SUBSET Faults], sends : [Roles -> SUBSET Streams],
                      flaps : [Roles -> Nat], losses : Nat]

VARIABLES
    ice,         \* ICE is up at this engine, as libjuice sees it
    open,        \* state_ is kOpen
    tick,        \* where the engine is in tick()
    last_ice_state, ice_connected_once, ice_rehandshake_armed,
    dtls, srtp, srtp_installed, dtls_is_client,
    queue,       \* packets waiting in the scheduler
    records,     \* DTLS records on the wire: the receiver and the flight
    media,       \* media packets on the wire
    setup,       \* the one of Setups that was chosen
    flaps, losses,
    coming,      \* the later descriptions that have not come yet
    final_lost,  \* history: the last flight of a handshake was lost
    announced,   \* history: the pins the descriptions asked for
    installed_as \* history: dtls_is_client when the keys were installed

poll == <<last_ice_state, ice_connected_once, ice_rehandshake_armed>>
keying == <<dtls, srtp, srtp_installed, installed_as>>
roles == <<dtls_is_client, coming, announced>>
link == <<setup, flaps, losses, final_lost>>
vars == <<ice, open, tick, poll, keying, roles, queue, records, media, link>>

Init ==
    /\ ice = [p \in Roles |-> FALSE] /\ open = [p \in Roles |-> TRUE]
    /\ tick = [p \in Roles |-> "idle"]
    /\ last_ice_state = [p \in Roles |-> FALSE]
    /\ ice_connected_once = [p \in Roles |-> FALSE]
    /\ ice_rehandshake_armed = [p \in Roles |-> FALSE]
    /\ setup \in Setups
    /\ dtls = [p \in Roles |-> NewSession(p, setup.pin[p])]
    /\ dtls_is_client = [p \in Roles |-> p = "client"] /\ coming = setup.later
    /\ announced = [p \in Roles |-> {setup.pin[p]}]
    /\ installed_as = dtls_is_client
    /\ srtp = [p \in Roles |-> NewContext]
    /\ srtp_installed = [p \in Roles |-> FALSE]
    /\ queue = [p \in Roles |-> {}]
    /\ records = {} /\ media = {}
    /\ flaps = [p \in Roles |-> 0] /\ losses = 0 /\ final_lost = FALSE

To(p, flights) == {[to |-> p, flight |-> f] : f \in flights}

\* The master key of one side of a handshake: its half of the exported material.
Half(side, km) == <<side, km[1], km[2]>>

-----------------------------------------------------------------------------
(* Media.  A packet is protected when it is built, and queued. *)

Packet(p, x, key) == [to |-> Other(p), stream |-> x, key |-> key]

\* The packets of this engine that are queued or on the wire: at most one (a bound).
Under(p) == queue[p] \cup {m \in media : m.to = Other(p)}

Protect(p, x) ==
    /\ x \in setup.sends[p] /\ Under(p) = {}
    /\ IF srtp_installed[p]
       THEN /\ srtp' = [srtp EXCEPT ![p] = get_outbound(@, x)]
            /\ queue' = [queue EXCEPT ![p] =
                    @ \cup protect_rtp(srtp'[p].outbound[x], Packet(p, x, NoKey))]
       ELSE /\ queue' = [queue EXCEPT ![p] = @ \cup {Packet(p, x, NoKey)}]
            /\ UNCHANGED srtp

send_audio(p) ==
    /\ open[p] /\ tick[p] = "idle" /\ dtls[p].state = "Connected"
    /\ Protect(p, "audio")
    /\ UNCHANGED <<ice, open, tick, poll, dtls, srtp_installed, installed_as, roles,
                   records, media, link>>

\* The sender's packet callback, under send_video(): no DTLS state is asked for.
send_video(p) ==
    /\ open[p] /\ tick[p] = "idle"
    /\ Protect(p, "video")
    /\ UNCHANGED <<ice, open, tick, poll, dtls, srtp_installed, installed_as, roles,
                   records, media, link>>

-----------------------------------------------------------------------------
(* tick() *)

\* drain_with() of the scheduler: libjuice drops what is sent while ICE is down.
DrainQueue(p) ==
    /\ queue' = [queue EXCEPT ![p] = {}]
    /\ media' = IF ice[p] THEN media \cup queue[p] ELSE media

\* Mutant: the keys of the old session stay in force.
Rekey_KeepsInstalled(p) ==
    /\ dtls' = [dtls EXCEPT ![p] = rehandshake(@)]
    /\ UNCHANGED srtp_installed

\* The old keys go out of force, unless the restart could not be set up.
Rekey(p) ==
    /\ dtls' = [dtls EXCEPT ![p] = rehandshake(@)]
    /\ srtp_installed' = [srtp_installed EXCEPT ![p] = @ /\ "setup" \in dtls[p].broken]

\* poll_ice_flap_for_rehandshake().  The cookie round makes the first flight of
\* the SSL object that is given up worthless.
PollDown(p) ==
    /\ ~ice[p]
    /\ ice_rehandshake_armed' = [ice_rehandshake_armed EXCEPT
            ![p] = @ \/ (last_ice_state[p] /\ ice_connected_once[p])]
    /\ UNCHANGED <<ice_connected_once, dtls, srtp_installed, records>>

PollUp(p) ==
    /\ ice[p]
    /\ IF last_ice_state[p]
       THEN UNCHANGED <<ice_connected_once, ice_rehandshake_armed, dtls,
                        srtp_installed, records>>
       ELSE IF ~ice_connected_once[p]
       THEN /\ ice_connected_once' = [ice_connected_once EXCEPT ![p] = TRUE]
            /\ UNCHANGED <<ice_rehandshake_armed, dtls, srtp_installed, records>>
       ELSE /\ ice_rehandshake_armed' = [ice_rehandshake_armed EXCEPT ![p] = FALSE]
            /\ IF ice_rehandshake_armed[p] /\ dtls[p].state = "Connected"
               THEN /\ Rekey(p)
                    /\ records' = {r \in records :
                            ~(r.to = Other(p) /\ r.flight.kind = "hello")}
               ELSE UNCHANGED <<dtls, srtp_installed, records>>
            /\ UNCHANGED ice_connected_once

TickPoll(p) ==
    /\ open[p] /\ tick[p] = "idle"
    /\ tick' = [tick EXCEPT ![p] = "drain"]
    /\ DrainQueue(p)
    /\ last_ice_state' = [last_ice_state EXCEPT ![p] = ice[p]]
    /\ PollDown(p) \/ PollUp(p)
    /\ UNCHANGED <<ice, open, srtp, installed_as, roles, link>>

\* Mutant: every engine takes itself for the DTLS server.
OwnSide_AlwaysServer(p) == "server"

\* dtls_is_client, and not the session's role, decides which half is this engine's.
OwnSide(p) == IF dtls_is_client[p] THEN "client" ELSE "server"

\* maybe_install_srtp_keys(), with the session d as drain_dtls() leaves it.
Install(p, d) ==
    LET km == srtp_keying_material(d)
    IN IF srtp_installed[p] \/ km = Nullopt
       THEN UNCHANGED <<srtp, srtp_installed, installed_as>>
       ELSE /\ srtp' = [srtp EXCEPT ![p] = derive_keys_for_local(
                    derive_keys_for_remote(@, Half(Other(OwnSide(p)), km)),
                    Half(OwnSide(p), km))]
            /\ srtp_installed' = [srtp_installed EXCEPT ![p] = TRUE]
            /\ installed_as' = [installed_as EXCEPT ![p] = dtls_is_client[p]]

\* drain_dtls() on the session s: send what is outbound, install the keys once
\* it is Connected.
drain_dtls(p, s, rest) ==
    /\ dtls' = [dtls EXCEPT ![p] = take_outbound(s)]
    /\ records' = rest \cup To(Other(p), Outbound(s))
    /\ Install(p, dtls'[p])

TickDrain(p, fired) ==
    /\ tick[p] = "drain"
    /\ tick' = [tick EXCEPT ![p] = "recv"]
    /\ IF ice[p] THEN drain_dtls(p, DtlsTick(dtls[p], fired), records)
       ELSE UNCHANGED <<keying, records>>
    /\ UNCHANGED <<ice, open, poll, roles, queue, media, link>>

-----------------------------------------------------------------------------
(* recv(), and on_transport_recv() for each packet. *)

\* A handshake record; drain_dtls() only while ICE is up.
RecvRecord(p) ==
    /\ tick[p] = "recv"
    /\ \E r \in records :
        /\ r.to = p
        /\ LET s == feed_inbound(dtls[p], r.flight)
           IN IF ice[p] THEN drain_dtls(p, s, records \ {r})
              ELSE /\ dtls' = [dtls EXCEPT ![p] = s]
                   /\ records' = records \ {r}
                   /\ UNCHANGED <<srtp, srtp_installed, installed_as>>
    /\ UNCHANGED <<ice, open, tick, poll, roles, queue, media, link>>

\* A media packet: once the keys are installed it is unprotected or dropped,
\* before that it is dispatched as it came.
RecvMedia(p) ==
    /\ tick[p] = "recv"
    /\ \E m \in media : m.to = p /\ media' = media \ {m}
    /\ srtp' = IF srtp_installed[p] THEN [srtp EXCEPT ![p] = get_inbound(@)] ELSE srtp
    /\ UNCHANGED <<ice, open, tick, poll, dtls, srtp_installed, installed_as, roles,
                   queue, records, link>>

RecvEnd(p) ==
    /\ tick[p] = "recv"
    /\ tick' = [tick EXCEPT ![p] = "idle"]
    /\ UNCHANGED <<ice, open, poll, keying, roles, queue, records, media, link>>

\* close(): the transport session and the SRTP context go, the flags stay.
close(p) ==
    /\ open[p] /\ tick[p] = "idle"
    /\ open' = [open EXCEPT ![p] = FALSE]
    /\ ice' = [ice EXCEPT ![p] = FALSE]
    /\ dtls' = [dtls EXCEPT ![p] = DtlsClose(@)]
    /\ srtp' = [srtp EXCEPT ![p] = NewContext]
    /\ queue' = [queue EXCEPT ![p] = {}]
    /\ UNCHANGED <<tick, poll, srtp_installed, installed_as, roles, records, media, link>>

\* process_remote_sdp(): another description.  set_role() is ignored once the
\* handshake has started; dtls_is_client and the pin follow the description.  (While
\* the session has not started a change of its role is EngineSignaling's subject.)
LaterDescription(p) ==
    /\ open[p] /\ tick[p] = "idle"
    /\ \E d \in coming :
        /\ d.to = p /\ set_role(dtls[p], d.role).role = p
        /\ coming' = coming \ {d}
        /\ dtls_is_client' = [dtls_is_client EXCEPT ![p] = d.role = "client"]
        /\ LET s == set_role(dtls[p], d.role)
               t == IF d.fp = "absent" THEN s ELSE set_peer_fingerprint(s, d.fp)
           IN /\ dtls' = [dtls EXCEPT ![p] = t]
              /\ announced' = [announced EXCEPT ![p] = @ \cup {t.pin}]
    /\ UNCHANGED <<ice, open, tick, poll, srtp, srtp_installed, installed_as, queue,
                   records, media, link>>

-----------------------------------------------------------------------------
(* libjuice, wolfSSL and the network: external. *)

IceUp(p) ==
    /\ open[p] /\ ~ice[p]
    /\ ice' = [ice EXCEPT ![p] = TRUE]
    /\ UNCHANGED <<open, tick, poll, keying, roles, queue, records, media, link>>

IceDown(p) ==
    /\ ice[p] /\ flaps[p] < setup.flaps[p]
    /\ ice' = [ice EXCEPT ![p] = FALSE]
    /\ flaps' = [flaps EXCEPT ![p] = @ + 1]
    /\ UNCHANGED <<open, tick, poll, keying, roles, queue, records, media, setup, losses,
                   final_lost>>

Lose ==
    /\ losses < setup.losses
    /\ losses' = losses + 1
    /\ \E r \in records :
        /\ records' = records \ {r}
        /\ final_lost' = (final_lost \/ r.flight.kind = "done")
    /\ UNCHANGED <<ice, open, tick, poll, keying, roles, queue, media, setup, flaps>>

\* A call of wolfSSL fails from now on.
Fail(p) ==
    /\ \E f \in setup.faults[p] \ dtls[p].broken :
        dtls' = [dtls EXCEPT ![p].broken = @ \cup {f}]
    /\ UNCHANGED <<ice, open, tick, poll, srtp, srtp_installed, installed_as, roles, queue,
                   records, media, link>>

-----------------------------------------------------------------------------

Step(p) ==
    \/ send_audio(p) \/ send_video(p) \/ TickPoll(p)
    \/ \E fired \in BOOLEAN : TickDrain(p, fired)
    \/ RecvRecord(p) \/ RecvMedia(p) \/ RecvEnd(p) \/ close(p) \/ LaterDescription(p)
    \/ IceUp(p) \/ IceDown(p) \/ Fail(p)

Next == (\E p \in Roles : Step(p)) \/ Lose

Spec == Init /\ [][Next]_vars

\* The host calls tick() again and again, the retransmission timer runs out when
\* nothing arrives, and the network delivers what is sent again and again.
KeyingFairness ==
    \A p \in Roles :
        /\ WF_vars(IceUp(p)) /\ WF_vars(TickPoll(p)) /\ WF_vars(RecvEnd(p))
        /\ SF_vars(TickDrain(p, TRUE)) /\ WF_vars(TickDrain(p, FALSE))
        /\ SF_vars(RecvRecord(p))
FairSpec == Spec /\ KeyingFairness

-----------------------------------------------------------------------------
(* Properties. *)

Gens(p) == 1..flaps[p] + 1
Keys == {NoKey} \cup (Roles \X Gens("client") \X Gens("server"))
Sessions(direction) == {NoSession} \cup ({direction} \X Keys)
Packets == [to : Roles, stream : Streams, key : Keys]

\* The state of both engines stays in its types; in particular an engine starts
\* no more handshakes than ICE has gone down and up again.
TypeOK ==
    /\ {ice, open, last_ice_state, ice_connected_once, ice_rehandshake_armed,
        srtp_installed, dtls_is_client, installed_as} \subseteq [Roles -> BOOLEAN]
    /\ tick \in [Roles -> {"idle", "drain", "recv"}]
    /\ \A p \in Roles :
        /\ IsSession(dtls[p])
        /\ dtls[p].gen \in Gens(p) /\ dtls[p].peer \in {0} \cup Gens(Other(p))
        /\ srtp[p] \in [inbound_key : Keys, outbound_key : Keys,
                        inbound : Sessions("inbound"),
                        outbound : [Streams -> Sessions("outbound")]]
        /\ queue[p] \subseteq Packets
    /\ media \subseteq Packets
    /\ coming \subseteq setup.later /\ announced \in [Roles -> SUBSET Pins]
    /\ setup \in Setups /\ losses \in 0..setup.losses
    /\ \A p \in Roles : flaps[p] \in 0..setup.flaps[p]

\* Keys in force are those of the last handshake the session finished, and no other
\* has begun: while srtp_installed is set on an open engine, both master keys are
\* halves of that handshake, and the session is Connected or, after a restart that
\* could not be set up, Failed (maybe_install_srtp_keys, and the reset in
\* poll_ice_flap_for_rehandshake).
InstalledIsCurrent ==
    \A p \in Roles : open[p] /\ srtp_installed[p] =>
        /\ dtls[p].step = "done"
        /\ \/ dtls[p].state = "Connected"
           \/ dtls[p].state = "Failed" /\ "setup" \in dtls[p].broken
        /\ {srtp[p].outbound_key, srtp[p].inbound_key}
                = {Half(s, Exported(dtls[p])) : s \in Roles}

\* A protected packet, wherever it is, opens under the keys of an engine that has
\* keys, if the two installed theirs with different values of dtls_is_client: they
\* then agree on whose half is whose, and no packet protected under one handshake
\* meets the keys of another (the receive path would drop it).
DecryptsWhatItGets ==
    \A p \in Roles :
        open[p] /\ srtp_installed[p] /\ installed_as[p] # installed_as[Other(p)] =>
            \A m \in media \cup queue[Other(p)] :
                m.to = p /\ m.key # NoKey => unprotect_rtp(get_inbound(srtp[p]).inbound, m)

\* An engine whose descriptions have all announced, in sha-256, a certificate the
\* peer does not have never gets a session with it, keys or protected media,
\* whatever is lost, repeated or restarted (pump_handshake: pinning runs before the
\* keys are exported).
PinBeforeKeys ==
    \A p \in Roles : announced[p] = {"other"} =>
        /\ dtls[p].state # "Connected" /\ ~srtp_installed[p]
        /\ \A m \in Under(p) : m.key = NoKey

\* Media gets keyed: both engines install keys, unless an engine is closed,
\* restarts its handshake or refuses the certificate, wolfSSL fails, or the last
\* flight of the handshake is lost.
KeysGetInstalled ==
    <>(\/ \A p \in Roles : srtp_installed[p]
       \/ \E p \in Roles :
            \/ ~open[p] \/ dtls[p].gen > 1 \/ dtls[p].broken # {}
            \/ dtls[p].state = "Failed"
       \/ final_lost)

-----------------------------------------------------------------------------
(* Statements of the documentation that the code does not keep. *)

\* dtls_session_iface.hpp, srtp_keying_material: available once Connected.
KeyingMaterialAvailable ==
    \A p \in Roles :
        dtls[p].state = "Connected" => srtp_keying_material(dtls[p]) # Nullopt

\* dtls_wolfssl_session.cpp, set_peer_fingerprint: once the pin is cleared the next
\* handshake fails.
ClearedPinFails ==
    \A p \in Roles : announced[p] \subseteq {"other", "none"} => dtls[p].state # "Connected"

\* engine_impl.hpp, dtls_is_client: it tells the half of the keying material that is
\* this engine's, so that the other has the other half.
HalvesAgree ==
    \A p \in Roles : open[p] /\ srtp_installed[p] =>
        \A m \in media \cup queue[Other(p)] :
            m.to = p /\ m.key # NoKey => unprotect_rtp(get_inbound(srtp[p]).inbound, m)

\* engine_media.cpp, send_audio: no audio leaves in the clear.
AudioProtected ==
    \A p \in Roles : \A m \in Under(p) : m.stream = "audio" => m.key # NoKey

\* dtls_wolfssl_session.cpp, tick: a lost flight does not hang the handshake.
LostFlightRecovered ==
    <>(\/ \A p \in Roles : srtp_installed[p]
       \/ \E p \in Roles :
            ~open[p] \/ dtls[p].gen > 1 \/ dtls[p].state = "Failed")
=============================================================================
