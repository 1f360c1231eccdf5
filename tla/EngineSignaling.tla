-------------------------- MODULE EngineSignaling --------------------------
(***************************************************************************)
(* The signalling plane of two engines, or of one engine and another peer:  *)
(* create_offer, process_remote_sdp and close, over a signalling channel    *)
(* that can delay, reorder, repeat and lose descriptions.  A description    *)
(* travels as the lines the munger wrote and arrives through the parser.    *)
(* Meanwhile the DTLS sessions of the ends start, each when ICE is up.      *)
(***************************************************************************)
EXTENDS Sdp, TLC

CONSTANTS Engines,      \* the two ends
          MaxVersion,   \* bound on the o= version an exchange reaches
          SessionIds,   \* what make_session_id() draws from, in order
          SgSetups      \* the scenarios of an instance, one chosen by Init

VARIABLES sgSetup, sg, wire, used
sgVars == <<sgSetup, sg, wire, used>>

kAbsSendTimeDefaultLocalId == 4
kAbsSendTimeUri == "abs-send-time"
kStaticRates == <<RtpMap("0", 8000), RtpMap("8", 8000), RtpMap("9", 8000)>>
Supported == {"audio", "video", "application"}

kOtherHash == "sha-1"   \* a fingerprint that is not sha-256

\* role is the DTLS session's own.
NewEngine == [open |-> TRUE, local_session_id |-> "", role |-> "server", dtls_is_client |-> FALSE,
              dtls_local_setup |-> "", started |-> FALSE, overlap |-> FALSE, pin |-> "", creds |-> "", local_abs_send_time_id |-> 0,
              remote_abs_send_time_id |-> 0, rates |-> <<>>, local_sdp |-> SessionDescription,
              remote |-> SessionDescription, pending |-> FALSE, disturbed |-> FALSE]
Cfg(e) == sgSetup.cfg[e]
OtherEnd(e) == CHOOSE f \in Engines : f # e
NextId == SessionIds[used + 1]
Message(to, d) == [to |-> to, lines |-> to_sdp(d)]

(***************************************************************************)
(* create_offer                                                             *)
(***************************************************************************)
AbsSendTime(id) == <<ExtMap(id, "sendrecv", kAbsSendTimeUri)>>
OfferMedia(e, type, mid, fmts, extra) ==
    [MediaDescription EXCEPT !.type = type, !.formats = [i \in DOMAIN fmts |-> fmts[i].fmt],
       !.mid = mid, !.rtcp_mux = type # "application", !.ice_ufrag = Cfg(e).ufrag,
       !.ice_pwd = Cfg(e).pwd, !.ice_options = "trickle", !.dtls_setup = "actpass",
       !.fp = Cfg(e).fp, !.rtpmap = fmts, !.candidates = Cfg(e).candidates,
       !.extmap = IF type # "application" /\ Cfg(e).timeline_enabled
                  THEN AbsSendTime(kAbsSendTimeDefaultLocalId) ELSE <<>>,
       !.extra_attrs = extra]
Offer(e) ==
    LET m == <<OfferMedia(e, "audio", "0", <<RtpMap("111", 48000)>>, <<Extra("ssrc", "1")>>)>>
             \o (IF Cfg(e).video THEN <<OfferMedia(e, "video", "1", <<RtpMap("96", 90000)>>,
                                                   <<Extra("ssrc", "1")>>)>> ELSE <<>>)
             \o (IF Cfg(e).sctp THEN <<OfferMedia(e, "application", "2", <<>>,
                                     <<Extra("sctp-port", Cfg(e).sctp_port)>>)>> ELSE <<>>)
    IN  [SessionDescription EXCEPT !.sid = NextId, !.version = 1, !.media = m,
                                   !.bundle_mids = [i \in DOMAIN m |-> m[i].mid]]

create_offer(e) ==
    /\ sgSetup.offers[e] > 0 /\ used < Len(SessionIds)
    /\ used' = used + 1
    /\ sgSetup' = [sgSetup EXCEPT !.offers[e] = @ - 1]
    /\ sg' = [sg EXCEPT ![e].local_session_id = NextId, ![e].local_sdp = Offer(e),
                ![e].pending = TRUE,
                ![e].local_abs_send_time_id = IF Cfg(e).timeline_enabled
                                              THEN kAbsSendTimeDefaultLocalId ELSE @]
    /\ wire' = Append(wire, Message(OtherEnd(e), Offer(e)))

(***************************************************************************)
(* process_remote_sdp                                                       *)
(***************************************************************************)
remote_is_answer(e, r) == sg[e].local_session_id # "" /\ r.sid = sg[e].local_session_id

\* The first declaration of a payload type wins; the static ones fill the rest.
remote_clock_rate_hz(r) ==
    LET add(m, x) == IF x.rate = 0 \/ \E i \in DOMAIN m : m[i].fmt = x.fmt THEN m ELSE Append(m, x)
        all == FlattenSeq([i \in DOMAIN r.media |-> r.media[i].rtpmap])
    IN  FoldLeft(add, <<>>, all \o kStaticRates)

\* Session-level credentials when both parts are there, else the first media
\* block with both; nothing is applied without credentials.
ExtraOf(r, k) == LET s == SelectSeq(r.extra_attrs, LAMBDA x : x.name = k /\ x.value # "")
                 IN  IF s = <<>> THEN "" ELSE Last(s).value
IceCredentials(r) ==
    LET full(u, p) == u # "" /\ p # ""
        media == SelectSeq(r.media, LAMBDA m : full(m.ice_ufrag, m.ice_pwd))
    IN  IF full(ExtraOf(r, "ice-ufrag"), ExtraOf(r, "ice-pwd")) THEN ExtraOf(r, "ice-ufrag")
        ELSE IF media # <<>> THEN media[1].ice_ufrag ELSE ""

\* Mutant: the answer's setup is not read.
DesiredRole_AlwaysServer(answer, setup) == "server"
\* An answer commits the roles; an offer is always answered as the server.
DesiredRole(answer, setup) == IF answer /\ setup = "passive" THEN "client" ELSE "server"
SetupOf(role) == IF role = "client" THEN "active" ELSE "passive"
FirstSupported(r) == SelectSeq(r.media, LAMBDA m : m.type \in Supported)

PeerSends(x) == x.uri = kAbsSendTimeUri /\ x.dir \in {"sendrecv", "sendonly"} /\ x.id \in 1..255
\* Read once: an id learned earlier is kept.
RemoteExtId(e, r) ==
    LET ids == SelectSeq(FlattenSeq([i \in DOMAIN r.media |->
                   IF r.media[i].type = "application" THEN <<>> ELSE r.media[i].extmap]), PeerSends)
        old == sg[e].remote_abs_send_time_id
    IN  IF Cfg(e).timeline_enabled /\ old = 0 /\ ids # <<>> THEN ids[1].id ELSE old

\* pending and disturbed are history: an offer without its answer so far, and
\* whether a description came out of turn, an offer that met an offer or one of
\* an exchange since replaced; overlap too, whether a description came when one
\* session had started and the other had not.
OutOfTurn(e, r) == \/ ~remote_is_answer(e, r) /\ sg[e].pending
                   \/ used > 0 /\ r.sid # SessionIds[used]
\* An ICE agent keeps the credentials it has (libjuice refuses a restart, and the
\* refusal is ignored); a session that has started keeps its role (set_role); a
\* fingerprint in another hash clears the pin (set_peer_fingerprint).
Applied(e, r) ==
    LET answer == remote_is_answer(e, r)
        first == FirstSupported(r)
        role == DesiredRole(answer, first[1].dtls_setup)
        base == [sg[e] EXCEPT !.rates = remote_clock_rate_hz(r), !.remote = r,
                   !.creds = IF @ = "" THEN IceCredentials(r) ELSE @,
                   !.remote_abs_send_time_id = RemoteExtId(e, r),
                   !.pending = @ /\ ~answer, !.disturbed = @ \/ OutOfTurn(e, r),
                   !.overlap = @ \/ sg[e].started # sg[OtherEnd(e)].started]
    IN  IF first = <<>> THEN base
        ELSE [base EXCEPT !.role = IF sg[e].started THEN @ ELSE role,
                          !.dtls_is_client = role = "client", !.dtls_local_setup = SetupOf(role),
                          !.pin = CASE first[1].fp = "" -> @
                                    [] first[1].fp = kOtherHash -> ""
                                    [] OTHER -> first[1].fp]

InverseDirection(dir) == CASE dir = "sendonly" -> "recvonly" [] dir = "recvonly" -> "sendonly" [] OTHER -> dir
AnswerExtId(e) == IF sg[e].local_abs_send_time_id # 0 THEN sg[e].local_abs_send_time_id
                  ELSE kAbsSendTimeDefaultLocalId
\* sctp-port is echoed when an attribute of that name was read.
SctpAttrs(e, rm) ==
    LET port == SelectSeq(rm.extra_attrs, LAMBDA x : x.name = "sctp-port" /\ x.value # "")
    IN  IF port # <<>> THEN port ELSE <<Extra("sctp-port", Cfg(e).sctp_port)>>
AnswerMedia(e, k, rm, count) ==
    [MediaDescription EXCEPT !.type = rm.type, !.formats = rm.formats,
       !.direction = InverseDirection(rm.direction), !.mid = IF rm.mid = "" THEN count ELSE rm.mid,
       !.rtcp_mux = rm.type # "application", !.ice_ufrag = Cfg(e).ufrag, !.ice_pwd = Cfg(e).pwd,
       !.dtls_setup = IF k.dtls_local_setup = "" THEN "active" ELSE k.dtls_local_setup,
       !.fp = Cfg(e).fp, !.rtpmap = IF rm.type = "application" THEN <<>> ELSE rm.rtpmap,
       !.extmap = IF rm.type # "application" /\ Cfg(e).timeline_enabled
                  THEN AbsSendTime(AnswerExtId(e)) ELSE <<>>,
       !.candidates = Cfg(e).candidates,
       !.extra_attrs = CASE rm.type = "video" -> <<Extra("ssrc", "1")>>
                         [] rm.type = "application" -> SctpAttrs(e, rm)
                         [] OTHER -> <<>>]
Answer(e, k, r) ==
    LET rms == FirstSupported(r)
        m == [i \in DOMAIN rms |-> AnswerMedia(e, k, rms[i], ToString(Len(r.media)))]
    IN  [SessionDescription EXCEPT !.sid = r.sid, !.version = r.version + 1, !.media = m,
           !.bundle_mids = IF m = <<>> THEN r.bundle_mids ELSE [i \in DOMAIN m |-> m[i].mid]]

\* Delivery of message i; a repeated one stays on the wire.
Rest(i, kept) == IF kept THEN wire ELSE RemoveAt(wire, i)
process_remote_sdp(i, kept) ==
    LET e == wire[i].to
        r == parse(wire[i].lines)
        k == Applied(e, r)
        reply == IF remote_is_answer(e, r) \/ OtherEnd(e) \in sgSetup.foreign THEN <<>>
                 ELSE <<Message(OtherEnd(e), Answer(e, k, r))>>
        echo == IF FirstSupported(r) # <<>> /\ Cfg(e).timeline_enabled /\ ~remote_is_answer(e, r)
                   /\ \E m \in DOMAIN r.media : r.media[m].type \in {"audio", "video"}
                THEN AnswerExtId(e) ELSE sg[e].local_abs_send_time_id
    IN  /\ (kept => sgSetup.repeats > 0) /\ r.version < MaxVersion
        /\ sgSetup' = [sgSetup EXCEPT !.repeats = IF kept THEN @ - 1 ELSE @]
        /\ IF sg[e].open /\ r # ParseError
           THEN /\ sg' = [sg EXCEPT ![e] = [k EXCEPT !.local_abs_send_time_id = echo]]
                /\ wire' = Rest(i, kept) \o reply
           ELSE wire' = Rest(i, kept) /\ UNCHANGED sg
        /\ UNCHANGED used

(***************************************************************************)
(* close, and the signalling channel                                        *)
(***************************************************************************)
SgClose(e) ==
    /\ e \in sgSetup.closes /\ sg[e].open
    /\ sg' = [sg EXCEPT ![e].open = FALSE]
    /\ UNCHANGED <<sgSetup, wire, used>>

SgLose(i) ==
    /\ sgSetup.losses > 0
    /\ sgSetup' = [sgSetup EXCEPT !.losses = @ - 1]
    /\ wire' = RemoveAt(wire, i)
    /\ UNCHANGED <<sg, used>>

\* tick() finds ICE up, which takes credentials at both ends, and pumps the DTLS
\* session for the first time.
StartDtls(e) ==
    /\ sg[e].open /\ ~sg[e].started /\ sg[e].creds # ""
    /\ sgSetup.foreign = {} => sg[OtherEnd(e)].creds # ""
    /\ sg' = [sg EXCEPT ![e].started = TRUE,
                        ![e].overlap = @ \/ \E f \in Engines : sg[f].pending]
    /\ UNCHANGED <<sgSetup, wire, used>>

\* The other stack sends the descriptions of its script, in order.
ForeignSends ==
    /\ sgSetup.script # <<>>
    /\ wire' = Append(wire, Head(sgSetup.script))
    /\ sgSetup' = [sgSetup EXCEPT !.script = Tail(@)]
    /\ UNCHANGED <<sg, used>>

SgInit ==
    /\ sgSetup \in SgSetups
    /\ sg = [e \in Engines |-> NewEngine]
    /\ wire = <<>> /\ used = 0

SgNext ==
    \/ \E e \in Engines : create_offer(e) \/ SgClose(e) \/ StartDtls(e)
    \/ \E i \in DOMAIN wire : SgLose(i) \/ \E kept \in BOOLEAN : process_remote_sdp(i, kept)
    \/ ForeignSends
SgSpec == SgInit /\ [][SgNext]_sgVars
-----------------------------------------------------------------------------
(* Properties. *)

\* Every description so far came in its turn, and no offer waits for an answer.
Settled == \A e \in Engines : ~sg[e].disturbed /\ ~sg[e].pending

\* The signalling state stays in its types.
SgTypeOK ==
    /\ sgSetup.repeats \in Nat /\ sgSetup.losses \in Nat /\ used \in 0..Len(SessionIds)
    /\ \A e \in Engines :
        /\ sg[e].role \in {"client", "server"} /\ sg[e].dtls_is_client \in BOOLEAN
        /\ sg[e].dtls_local_setup \in {"", "active", "passive"}
        /\ sg[e].local_abs_send_time_id \in 0..255 /\ sg[e].remote_abs_send_time_id \in 0..255

Resolved(e) == sg[e].dtls_local_setup # ""

\* Whatever is lost, repeated or reordered within an exchange, and however many
\* exchanges follow one another in either direction, a completed exchange leaves two
\* engines that take different halves of the keying material; and the DTLS sessions
\* are one client and one server, unless an exchange overlapped their start, which
\* fixes the role of an end (process_remote_sdp, an end at a time; set_role).
OneClient ==
    Settled /\ sgSetup.foreign = {} /\ (\A e \in Engines : Resolved(e)) =>
        /\ \E e \in Engines : sg[e].dtls_is_client /\ ~sg[OtherEnd(e)].dtls_is_client
        /\ (\A e \in Engines : ~sg[e].overlap) =>
             \E e \in Engines : sg[e].role = "client" /\ sg[OtherEnd(e)].role = "server"

\* engine_signaling.cpp, process_remote_sdp: "a NimRTC-to-NimRTC session still has
\* exactly one ClientHello sender".  Not kept when an exchange overlaps the start.
OneClientHello ==
    Settled /\ sgSetup.foreign = {} /\ (\A e \in Engines : Resolved(e)) =>
        \E e \in Engines : sg[e].role = "client" /\ sg[OtherEnd(e)].role = "server"

\* An end that has read a fingerprint in sha-256 is pinned to the certificate its peer
\* announced, whether it stood in the session or in the media part
\* (set_peer_fingerprint in process_remote_sdp, the parser's inheritance).
PinnedWithRole ==
    \A e \in Engines : LET first == FirstSupported(sg[e].remote) IN
        Resolved(e) /\ first # <<>> /\ first[1].fp \notin {"", kOtherHash} =>
            sg[e].pin = Cfg(OtherEnd(e)).fp

\* What was negotiated is one thing at both ends: an end that has read a sha-256
\* fingerprint has pinned the certificate its peer announced, and the ICE agents of
\* two engines have each other's credentials.  An answer that was applied has
\* the offer's media, in its order, with its mids, formats and clock rates and
\* the inverse directions; and send times are read under the id the peer writes
\* them with (process_remote_sdp, through the munger and the parser).
NegotiationAgrees ==
    PinnedWithRole /\ \A e \in Engines :
        /\ sgSetup.foreign = {} /\ Resolved(e) => sg[e].creds = Cfg(OtherEnd(e)).ufrag
        /\ sgSetup.foreign = {} /\ sg[e].remote_abs_send_time_id # 0 =>
                sg[e].remote_abs_send_time_id = sg[OtherEnd(e)].local_abs_send_time_id
        /\ remote_is_answer(e, sg[e].remote) =>
            LET o == sg[e].local_sdp  a == sg[e].remote
            IN  /\ Len(a.media) = Len(o.media) /\ a.bundle_mids = o.bundle_mids
                /\ a.version = o.version + 1
                /\ \A i \in DOMAIN o.media :
                     /\ a.media[i].type = o.media[i].type /\ a.media[i].mid = o.media[i].mid
                     /\ a.media[i].direction = InverseDirection(o.media[i].direction)
                     /\ a.media[i].rtpmap = o.media[i].rtpmap
=============================================================================
