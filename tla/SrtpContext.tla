----------------------------- MODULE SrtpContext -----------------------------
(***************************************************************************)
(* The SRTP context of an engine (src/modules/srtp): the two master keys   *)
(* and the sessions made from them.  Inbound packets of every stream share *)
(* the session of ssrc 0.  libsrtp is external: a session works in the     *)
(* direction it was made for, and a packet authenticates under the key it  *)
(* was protected with and no other.                                        *)
(***************************************************************************)

CONSTANT Streams  \* the SSRCs this side sends

NoKey == <<>>
NoSession == <<>>

-----------------------------------------------------------------------------
(* SrtpSession: a direction and the key libsrtp holds for it. *)

\* SrtpSession::Impl::install()
InstallSession(direction, key) == <<direction, key>>

\* Both refuse an empty key.
init_from_master_key(key) ==
    IF key = NoKey THEN NoSession ELSE InstallSession("outbound", key)
init_from_master_key_inbound(key) ==
    IF key = NoKey THEN NoSession ELSE InstallSession("inbound", key)

\* The packets that come out of protecting m: none when libsrtp refuses.
protect_rtp(s, m) ==
    IF s = NoSession THEN {}
    ELSE IF s[1] = "outbound" THEN {[m EXCEPT !.key = s[2]]} ELSE {}

\* Whether m opens.
unprotect_rtp(s, m) ==
    IF s = NoSession THEN FALSE ELSE s = InstallSession("inbound", m.key)

-----------------------------------------------------------------------------

NewContext ==
    [inbound_key |-> NoKey, outbound_key |-> NoKey,
     inbound |-> NoSession, outbound |-> [x \in Streams |-> NoSession]]

derive_keys_for_remote(c, key) == [c EXCEPT !.inbound_key = key]
derive_keys_for_local(c, key) == [c EXCEPT !.outbound_key = key]

\* get_session(0, incoming): the session made earlier, or a new one.
get_inbound(c) ==
    IF c.inbound # NoSession THEN c
    ELSE [c EXCEPT !.inbound = init_from_master_key_inbound(c.inbound_key)]

\* get_session(x, outgoing)
get_outbound(c, x) ==
    IF c.outbound[x] # NoSession THEN c
    ELSE [c EXCEPT !.outbound[x] = init_from_master_key(c.outbound_key)]
=============================================================================
