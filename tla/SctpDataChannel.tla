--------------------------- MODULE SctpDataChannel ---------------------------
(***************************************************************************)
(* SctpDataChannel (src/modules/datachannel/src/sctp_data_channel.cpp) over *)
(* two UsrsctpSockets, with the DCEP handshake of src/sctp/src/dcep.cpp.    *)
(* The engine thread opens the channel, announces it, sends and closes; the *)
(* worker thread runs the two receive callbacks of SctpSocket and the       *)
(* user's on_message inside them.                                           *)
(***************************************************************************)
EXTENDS SctpSocket

CONSTANTS Labels,   \* the labels of channels
          DcSetups  \* what each end does: whether it has a channel, its
                    \* configuration, who announces the channel, how many messages
                    \* it sends, whether it closes

uint16_t == 0..65535
DataChannelReliability == {"kReliableOrdered", "kUnreliable",
                           "kPartialReliableTTL", "kPartialReliableCount"}
DataChannelConfig == [label : Labels, reliability : DataChannelReliability,
                      max_retransmits : uint16_t, max_packet_lifetime_ms : uint16_t, ordered : BOOLEAN]

ASSUME DcAssumption ==
    /\ \E a, b \in Ends : a # b /\ Ends = {a, b}
    /\ "" \in Labels
    /\ \A d \in DcSetups : d.cfg \in [Ends -> DataChannelConfig]

VARIABLES ch,       \* the members of each SctpDataChannel
          msgs,     \* what on_message was called with, per end
          sent      \* the messages handed to send() and accepted, per end

dcVars == <<dcSetup, ch, msgs, sent>>
dcAll == <<sctpVars, dcVars>>

DefaultConfig == [label |-> "", reliability |-> "kReliableOrdered", max_retransmits |-> 0,
                  max_packet_lifetime_ms |-> 0, ordered |-> TRUE]
NewChannel == [sock |-> TRUE, opened |-> FALSE, dcep_open_sent |-> FALSE,
               cfg |-> DefaultConfig, on_state |-> "none", cb |-> TRUE]

DcInit ==
    /\ SctpInit
    /\ dcSetup \in DcSetups
    /\ ch = [e \in Ends |-> [NewChannel EXCEPT !.sock = (e \in dcSetup.channels)]]
    /\ msgs = [e \in Ends |-> <<>>]
    /\ sent = [e \in Ends |-> <<>>]

-----------------------------------------------------------------------------
(* DCEP (dcep.cpp): a configuration as it travels in DATA_CHANNEL_OPEN.     *)

kDcepAck == [type |-> "ack"]

\* kUnreliable travels as a reliable channel; "ordered" does not travel at all.
dcep_encode_open(cfg) ==
    [type |-> "open", label |-> cfg.label,
     channel_type |-> CASE cfg.reliability = "kPartialReliableTTL" -> "timed"
                        [] cfg.reliability = "kPartialReliableCount" -> "rexmit"
                        [] OTHER -> "reliable",
     param |-> CASE cfg.reliability = "kPartialReliableTTL" -> cfg.max_packet_lifetime_ms
                 [] cfg.reliability = "kPartialReliableCount" -> cfg.max_retransmits
                 [] OTHER -> 0]

\* Mutant: the parameter of a timed channel is read as a retransmit count.
dcep_decode_open_OneParam(m) ==
    [label |-> m.label, ordered |-> TRUE,
     reliability |-> IF m.channel_type = "reliable" THEN "kReliableOrdered"
                     ELSE "kPartialReliableCount",
     max_retransmits |-> m.param, max_packet_lifetime_ms |-> 0]

dcep_decode_open(m) ==
    [label |-> m.label, ordered |-> TRUE,
     reliability |-> CASE m.channel_type = "timed" -> "kPartialReliableTTL"
                       [] m.channel_type = "rexmit" -> "kPartialReliableCount"
                       [] OTHER -> "kReliableOrdered",
     max_retransmits |-> IF m.channel_type = "rexmit" THEN m.param ELSE 0,
     max_packet_lifetime_ms |-> IF m.channel_type = "timed" THEN m.param ELSE 0]

dcep_ppid_for_config(cfg) == kPpidBinary

-----------------------------------------------------------------------------
(* Engine thread.                                                           *)

OnState(e, s) == IF ch[e].cb THEN s ELSE ch[e].on_state
Ready(e) == pc[e] = "idle"

\* open(): the PPID callback is installed first ...
ChOpen(e) ==
    /\ Ready(e) /\ ~ch[e].opened /\ ch[e].sock /\ ~RecvLocked(e)
    /\ sk' = [sk EXCEPT ![e].on_recv_ppid = TRUE]
    /\ Go(e, "open2")
    /\ UNCHANGED <<lib, assoc, inbox, wk, dcVars>>

\* ... then the legacy one, and the channel reports "connecting" and "open".
ChOpenLegacy(e) ==
    /\ pc[e] = "open2" /\ ~RecvLocked(e)
    /\ sk' = [sk EXCEPT ![e].on_recv = TRUE]
    /\ ch' = [ch EXCEPT ![e].opened = TRUE, ![e].on_state = OnState(e, "open")]
    /\ Go(e, "idle")
    /\ UNCHANGED <<lib, assoc, inbox, wk, dcSetup, msgs, sent>>

\* open(cfg) stores the configuration and nothing else.
ChOpenCfg(e) ==
    /\ Ready(e) /\ e \in dcSetup.configures
    /\ ch[e].cfg # dcSetup.cfg[e] /\ ~ch[e].dcep_open_sent /\ sent[e] = <<>>
    /\ ch' = [ch EXCEPT ![e].cfg = dcSetup.cfg[e]]
    /\ UNCHANGED <<sctpVars, dcSetup, msgs, sent>>

Unordered(cfg) == cfg.reliability = "kUnreliable" \/ ~cfg.ordered

\* route_send(): the QoS of the stored configuration picks the socket's send.
route_send(e, m, ok) ==
    LET cfg == ch[e].cfg IN
    IF ~ch[e].opened \/ ~ch[e].sock THEN ~ok /\ UNCHANGED inbox
    ELSE CASE cfg.reliability = "kReliableOrdered" ->
                send_stream_with_ppid(e, m, dcep_ppid_for_config(cfg), ok)
           [] cfg.reliability = "kUnreliable" ->
                send_datagram_with_ppid(e, m, dcep_ppid_for_config(cfg), ok)
           [] OTHER ->
                send_partial_reliable_with_ppid(e, m, dcep_ppid_for_config(cfg),
                                                Unordered(cfg), ok)

ChSend(e) ==
    LET m == [type |-> "user", n |-> Len(sent[e]) + 1] IN
    /\ Ready(e) /\ e \in dcSetup.channels /\ m.n <= dcSetup.sends[e]
    /\ \E ok \in BOOLEAN :
         /\ route_send(e, m, ok)
         /\ sent' = IF ok THEN [sent EXCEPT ![e] = Append(@, ch[e].cfg.reliability)] ELSE sent
         /\ ch' = IF ok THEN ch ELSE [ch EXCEPT ![e].on_state = OnState(e, "error")]
    /\ UNCHANGED <<lib, sk, pc, assoc, wk, dcSetup, msgs>>

send_dcep_open(e) ==
    /\ Ready(e) /\ e \in dcSetup.openers
    /\ ch[e].opened /\ ch[e].sock /\ ~ch[e].dcep_open_sent
    /\ ch[e].cfg = dcSetup.cfg[e]
    /\ \E ok \in BOOLEAN :
         /\ send_stream_with_ppid(e, dcep_encode_open(ch[e].cfg), kPpidDcep, ok)
         /\ ch' = IF ok THEN [ch EXCEPT ![e].dcep_open_sent = TRUE]
                  ELSE [ch EXCEPT ![e].on_state = OnState(e, "error")]
    /\ UNCHANGED <<lib, sk, pc, assoc, wk, dcSetup, msgs, sent>>

\* The owner of a socket without a channel uses its plain sends.
PlainSend(e) ==
    LET m == [type |-> "plain", n |-> Len(sent[e]) + 1] IN
    /\ Ready(e) /\ e \notin dcSetup.channels /\ m.n <= dcSetup.sends[e]
    /\ \E qos \in {"kReliableOrdered", "kUnreliable", "kPartialReliableTTL"}, ok \in BOOLEAN :
         /\ CASE qos = "kReliableOrdered" -> SocketSendStream(e, m, ok)
              [] qos = "kUnreliable" -> SocketSendDatagram(e, m, ok)
              [] OTHER -> SocketSendPartialReliable(e, m, ok)
         /\ sent' = IF ok THEN [sent EXCEPT ![e] = Append(@, qos)] ELSE sent
    /\ UNCHANGED <<lib, sk, pc, assoc, wk, dcSetup, ch, msgs>>

\* close(): first the legacy callback is cleared, under recv_mu_ ...
ChClose(e) ==
    /\ Ready(e) /\ ~RecvLocked(e) /\ e \in dcSetup.closes
    /\ sk' = [sk EXCEPT ![e].on_recv = FALSE]
    /\ Go(e, "close2")
    /\ UNCHANGED <<lib, assoc, inbox, wk, dcVars>>

\* ... then the PPID one ...
ChClosePpid(e) ==
    /\ pc[e] = "close2" /\ ~RecvLocked(e)
    /\ sk' = [sk EXCEPT ![e].on_recv_ppid = FALSE]
    /\ Go(e, "close3")
    /\ UNCHANGED <<lib, assoc, inbox, wk, dcVars>>

\* ... then the socket goes, the user is told "closed" and both user callbacks
\* are dropped.  The destructor does not take recv_mu_: a worker that entered
\* after the two calls holds it and finds no callback.
ChCloseSocket(e) ==
    /\ pc[e] = "close3"
    /\ DestroySocket(e)
    /\ ch' = [ch EXCEPT ![e] = [@ EXCEPT !.sock = FALSE, !.opened = FALSE, !.cb = FALSE,
                                !.dcep_open_sent = FALSE, !.on_state = OnState(e, "closed")]]
    /\ Go(e, "closed")
    /\ UNCHANGED <<lib, wk, dcSetup, msgs, sent>>

-----------------------------------------------------------------------------
(* Worker thread: both callbacks run for every payload, the legacy one      *)
(* first, under the same recv_mu_.                                          *)

on_sctp_recv(e, body) == msgs' = [msgs EXCEPT ![e] = Append(@, body)]

RecvLegacy ==
    /\ wk.stage = "legacy"
    /\ IF wk.run THEN on_sctp_recv(wk.e, wk.ev.body) ELSE UNCHANGED msgs
    /\ wk' = [wk EXCEPT !.stage = "ppid", !.run = sk[wk.e].on_recv_ppid]
    /\ UNCHANGED <<lib, sk, pc, assoc, inbox, dcSetup, ch, sent>>

\* on_sctp_recv_with_ppid(): a user payload, an unknown PPID, an ACK, or the
\* start of an OPEN, whose fields are copied into cfg_ while the engine thread
\* may read it.
RecvPpid ==
    /\ wk.stage = "ppid"
    /\ LET e == wk.e
           b == wk.ev.body
       IN IF ~wk.run THEN wk' = Idle /\ UNCHANGED <<msgs, ch>>
          ELSE IF wk.ev.ppid \in {kPpidString, kPpidBinary}
          THEN wk' = Idle /\ on_sctp_recv(e, b) /\ UNCHANGED ch
          ELSE IF wk.ev.ppid # kPpidDcep
          THEN wk' = Idle /\ UNCHANGED <<msgs, ch>>
          ELSE IF b = kDcepAck
          THEN /\ wk' = Idle
               /\ ch' = [ch EXCEPT ![e].on_state = OnState(e, "open")]
               /\ UNCHANGED msgs
          ELSE /\ wk' = [wk EXCEPT !.stage = "adopt"]
               /\ ch' = [ch EXCEPT ![e].cfg.label = dcep_decode_open(b).label,
                                   ![e].cfg.reliability = dcep_decode_open(b).reliability]
               /\ UNCHANGED msgs
    /\ UNCHANGED <<lib, sk, pc, assoc, inbox, dcSetup, sent>>

\* The remaining fields, the ACK, and the report "open".
RecvAdopt ==
    /\ wk.stage = "adopt"
    /\ LET e == wk.e
           p == dcep_decode_open(wk.ev.body)
       IN /\ \E ok \in BOOLEAN : send_stream_with_ppid(e, kDcepAck, kPpidDcep, ok)
          /\ ch' = [ch EXCEPT ![e].cfg = [@ EXCEPT !.ordered = p.ordered,
                                 !.max_retransmits = p.max_retransmits,
                                 !.max_packet_lifetime_ms = p.max_packet_lifetime_ms],
                              ![e].on_state = OnState(e, "open")]
    /\ wk' = Idle
    /\ UNCHANGED <<lib, sk, pc, assoc, dcSetup, msgs, sent>>

DcNext ==
    \/ SctpNext /\ UNCHANGED dcVars
    \/ \E e \in Ends : \/ ChOpen(e) \/ ChOpenLegacy(e) \/ ChOpenCfg(e) \/ ChSend(e)
                       \/ send_dcep_open(e) \/ PlainSend(e)
                       \/ ChClose(e) \/ ChClosePpid(e) \/ ChCloseSocket(e)
    \/ RecvLegacy \/ RecvPpid \/ RecvAdopt

DcSpec == DcInit /\ [][DcNext]_dcAll

-----------------------------------------------------------------------------
(* Properties.                                                              *)

DcTypeOK ==
    /\ \A e \in Ends : /\ sk[e].state \in UsrsctpSocketState
                       /\ assoc[e] \in {"none", "listening", "connecting", "up", "down"}
                       /\ Len(inbox[e]) <= MaxEvents + 1
                       /\ ch[e].cfg \in DataChannelConfig
    /\ wk.stage \in {"idle", "legacy", "ppid", "adopt"}

\* close() waits for the callback that is running (recv_mu_) before it takes
\* the callbacks away: once it has returned, on_message is never called again and
\* no report follows "closed" (sctp_data_channel.cpp, close()).
SilentOnceClosed ==
    \A e \in Ends : pc[e] = "closed" => msgs'[e] = msgs[e] /\ ch'[e].on_state = ch[e].on_state

\* The payloads of a reliable ordered channel surface in the order they were
\* sent, whichever of the two callbacks hands them over.
AllReliable(e) == \A i \in 1..Len(sent[e]) : sent[e][i] = "kReliableOrdered"
ReliableInOrder ==
    \A e \in Ends : AllReliable(Peer(e)) =>
       \A i, j \in 1..Len(msgs[e]) :
          i < j /\ msgs[e][i].type = "user" /\ msgs[e][j].type = "user"
          => msgs[e][i].n <= msgs[e][j].n

\* When one end announces a channel that DCEP can express and hears the ACK,
\* the other end, if it has no configuration of its own, has taken over all of it.
Expressible(cfg) ==
    /\ cfg.ordered /\ cfg.reliability # "kUnreliable"
    /\ cfg.reliability # "kPartialReliableCount" => cfg.max_retransmits = 0
    /\ cfg.reliability # "kPartialReliableTTL" => cfg.max_packet_lifetime_ms = 0
AckPending(e) == \E i \in 1..Len(inbox[e]) :
                    inbox[e][i].kind = "data" /\ inbox[e][i].body = kDcepAck
AckMeansAgreed ==
    \A e \in Ends :
       /\ dcSetup.openers = {e} /\ Peer(e) \notin dcSetup.configures
       /\ Expressible(dcSetup.cfg[e]) /\ AckPending(e)
       => ch[Peer(e)].cfg = dcSetup.cfg[e]

\* A channel behaves as it was opened: reliable ordered payloads surface in
\* order, and an ACK means that the two ends agree on the configuration
\* (sctp_data_channel.cpp, send() and the DCEP handlers).
ChannelAsOpened == ReliableInOrder /\ AckMeansAgreed

\* Every byte of user data surfaces once, as the callback comments describe.
DeliveredOnce ==
    \A e \in Ends : \A i, j \in 1..Len(msgs[e]) :
       i # j /\ msgs[e][i].type = "user" => msgs[e][i] # msgs[e][j]
\* Only user payloads reach on_message.
OnlyUserPayloads == \A e \in Ends : \A i \in 1..Len(msgs[e]) : msgs[e][i].type = "user"
\* kClosed is final.
ClosedIsFinal == [][\A e \in Ends : sk[e].state = "kClosed" => sk'[e].state = "kClosed"]_dcAll
\* After s_acquire_global_init() the library is initialised.
LibraryReady == \A e \in Ends : pc[e] \notin {"new", "init"} => lib.ready
\* Once COMM_UP is delivered on a live association the socket says so.
UpIsEstablished ==
    \A e \in Ends : assoc[e] = "up" /\ inbox[e] = <<>> /\ wk = Idle /\ pc[e] = "idle"
                    => sk[e].state = "kEstablished"
=============================================================================
