----------------------------- MODULE SctpSocket -----------------------------
(***************************************************************************)
(* UsrsctpSocket (src/sctp/src/usrsctp_socket.cpp): the SCTP association    *)
(* under a data channel.  Two sockets live in one process; each is driven   *)
(* by its own engine thread (program point pc[e]) while usrsctp's worker    *)
(* thread (wk) delivers notifications and payloads.  The library itself is  *)
(* external: assoc[e] is its association, inbox[e] what it has still to     *)
(* hand to the receive callback of socket e.                                *)
(***************************************************************************)
EXTENDS Naturals, Sequences, FiniteSets

CONSTANTS Ends,     \* the two sockets
          MaxEvents \* bound on the events waiting for one socket

VARIABLES dcSetup,  \* what the application does in this behaviour: who listens, who
                    \* closes a socket, whether sockets are built at the same time
          lib,      \* g_usrsctp_initialized, and whether usrsctp_init() has run
          sk,       \* the members of each UsrsctpSocket
          pc,       \* where the engine thread of each socket is
          assoc,    \* usrsctp's association, per socket
          inbox,    \* usrsctp's undelivered events, per socket
          wk        \* usrsctp's worker thread

sctpVars == <<lib, sk, pc, assoc, inbox, wk>>

UsrsctpSocketState == {"kUnbound", "kListening", "kConnecting", "kEstablished", "kClosed"}
Notifications == {"COMM_UP", "COMM_LOST", "CANT_STR_ASSOC", "SHUTDOWN_COMP",
                  "RESTART", "PEER_ADDR_CHANGE"}

kPpidDcep == 50
kPpidString == 51
kPpidBinary == 53

Peer(e) == CHOOSE f \in Ends : f # e
Note(n) == [kind |-> "notif", n |-> n]
Idle == [stage |-> "idle"]
NewSocket == [sock |-> FALSE, bound |-> FALSE, state |-> "kUnbound",
              on_recv |-> FALSE, on_recv_ppid |-> FALSE]

SctpInit ==
    /\ lib = [flag |-> FALSE, ready |-> FALSE]
    /\ sk = [e \in Ends |-> NewSocket]
    /\ pc = [e \in Ends |-> "new"]
    /\ assoc = [e \in Ends |-> "none"]
    /\ inbox = [e \in Ends |-> <<>>]
    /\ wk = Idle

Go(e, p) == pc' = [pc EXCEPT ![e] = p]
SetState(e, s) == sk' = [sk EXCEPT ![e].state = s]

\* recv_mu_ of socket e is held by the worker while it runs the callbacks.
RecvLocked(e) == wk.stage # "idle" /\ wk.e = e

-----------------------------------------------------------------------------
(* Construction.  The flag is claimed by compare-and-swap before the        *)
(* winner runs usrsctp_init(); the loser goes straight on.                  *)

\* The compare-and-swap that opens s_acquire_global_init().
s_acquire_global_init(e) ==
    /\ pc[e] = "new"
    /\ dcSetup.together \/ \A f \in Ends : pc[f] \notin {"init", "socket"}
    /\ Go(e, IF lib.flag THEN "socket" ELSE "init")
    /\ lib' = [lib EXCEPT !.flag = TRUE]
    /\ UNCHANGED <<sk, assoc, inbox, wk>>

\* Only the winner runs usrsctp_init() and registers the loopback addresses.
usrsctp_init(e) ==
    /\ pc[e] = "init"
    /\ Go(e, "socket")
    /\ lib' = [lib EXCEPT !.ready = TRUE]
    /\ UNCHANGED <<sk, assoc, inbox, wk>>

\* The rest of the constructor: usrsctp_socket() gives no socket before the
\* library is initialised, and the constructor then leaves sock_ null.
UsrsctpSocket(e) ==
    /\ pc[e] = "socket"
    /\ Go(e, "idle")
    /\ sk' = [sk EXCEPT ![e].sock = lib.ready]
    /\ UNCHANGED <<lib, assoc, inbox, wk>>

-----------------------------------------------------------------------------
(* listen(), connect(): the library call first, the state afterwards.       *)

\* s_bind_and_configure(): a socket that is already bound cannot be bound
\* again; a bind that succeeds stays in place whatever fails after it.
s_bind_and_configure(e, ok) ==
    /\ ~sk[e].bound \/ ~ok
    /\ sk' = [sk EXCEPT ![e].bound = @ \/ ok]

\* The first part of listen(), up to and including usrsctp_listen().
listen(e) ==
    /\ pc[e] = "idle" /\ e \in dcSetup.listeners
    /\ sk[e].state = "kUnbound" /\ sk[e].sock
    /\ \/ /\ s_bind_and_configure(e, TRUE)
          /\ \/ Go(e, "listening") /\ assoc' = [assoc EXCEPT ![e] = "listening"]
             \/ UNCHANGED <<pc, assoc>>                     \* usrsctp_listen() failed
       \/ s_bind_and_configure(e, FALSE) /\ UNCHANGED <<pc, assoc>>
    /\ UNCHANGED <<lib, inbox, wk>>

\* The first part of connect(), up to and including usrsctp_connect().
connect(e) ==
    /\ pc[e] = "idle" /\ e \notin dcSetup.listeners
    /\ sk[e].state = "kUnbound" /\ sk[e].sock
    /\ \/ /\ s_bind_and_configure(e, TRUE)
          /\ \/ Go(e, "connecting") /\ assoc' = [assoc EXCEPT ![e] = "connecting"]
             \/ UNCHANGED <<pc, assoc>>        \* bad address, or usrsctp_connect() failed
       \/ s_bind_and_configure(e, FALSE) /\ UNCHANGED <<pc, assoc>>
    /\ UNCHANGED <<lib, inbox, wk>>

\* The state that listen() and connect() store once the library call is back.
StateAfterIssue(e) ==
    /\ pc[e] \in {"listening", "connecting"}
    /\ SetState(e, IF pc[e] = "listening" THEN "kListening" ELSE "kConnecting")
    /\ Go(e, "idle")
    /\ UNCHANGED <<lib, assoc, inbox, wk>>

\* wait_for_established() has an answer: established, closed, or a timeout.
wait_for_established(e) == sk[e].state = "kEstablished"

s_sendable_state(s) == s \in {"kEstablished", "kListening", "kConnecting"}

\* ISctpSocket::close(): only the state changes, the association lives on.
SocketClose(e) ==
    /\ pc[e] = "idle" /\ sk[e].sock /\ e \in dcSetup.stops
    /\ sk[e].state # "kClosed"
    /\ SetState(e, "kClosed")
    /\ UNCHANGED <<lib, pc, assoc, inbox, wk>>

\* ~UsrsctpSocket(): kClosed for the waiters, then usrsctp_close() ends the
\* association at both ends and nothing more is delivered to this socket.
DestroySocket(e) ==
    LET f == Peer(e) IN
    /\ sk' = [sk EXCEPT ![e].state = "kClosed", ![e].sock = FALSE]
    /\ assoc' = [assoc EXCEPT ![e] = "down", ![f] = IF @ = "up" THEN "down" ELSE @]
    /\ inbox' = [inbox EXCEPT ![e] = <<>>,
                              ![f] = IF assoc[f] = "up" THEN Append(@, Note("SHUTDOWN_COMP"))
                                     ELSE @]

-----------------------------------------------------------------------------
(* Sending.  The state is checked under state_mu_; usrsctp_sendv() accepts  *)
(* the message when the association is up.                                  *)

Accepts(e) == assoc[e] = "up" /\ Len(inbox[Peer(e)]) < MaxEvents

\* What the library does with an accepted message: in order behind what is
\* already on its way, or, SCTP_UNORDERED, anywhere after the notifications.
Arrives(q, m, unordered) ==
    IF ~unordered THEN {Append(q, m)}
    ELSE {SubSeq(q, 1, i) \o <<m>> \o SubSeq(q, i + 1, Len(q)) :
             i \in {j \in 0..Len(q) : \A k \in (j + 1)..Len(q) : q[k].kind = "data"}}

Sendv(e, m, unordered, lossy) ==
    \E q \in Arrives(inbox[Peer(e)], m, unordered)
             \cup (IF lossy THEN {inbox[Peer(e)]} ELSE {}) :
       inbox' = [inbox EXCEPT ![Peer(e)] = q]

Data(ppid, body) == [kind |-> "data", ppid |-> ppid, body |-> body]

\* What every send asks; ok is the Status it returns.
SendChecks(e, ok) == ok = (sk[e].sock /\ s_sendable_state(sk[e].state) /\ Accepts(e))

\* The plain sends leave the PPID 0; the partially reliable one sets no flags,
\* so it is ordered.
SocketSendStream(e, body, ok) ==
    /\ SendChecks(e, ok)
    /\ IF ok THEN Sendv(e, Data(0, body), FALSE, FALSE) ELSE UNCHANGED inbox

SocketSendDatagram(e, body, ok) ==
    /\ SendChecks(e, ok)
    /\ IF ok THEN Sendv(e, Data(0, body), TRUE, FALSE) ELSE UNCHANGED inbox

SocketSendPartialReliable(e, body, ok) ==
    /\ SendChecks(e, ok)
    /\ IF ok THEN Sendv(e, Data(0, body), FALSE, TRUE) ELSE UNCHANGED inbox

\* The sends of a data channel.
send_stream_with_ppid(e, body, ppid, ok) ==
    /\ SendChecks(e, ok)
    /\ IF ok THEN Sendv(e, Data(ppid, body), FALSE, FALSE) ELSE UNCHANGED inbox

send_datagram_with_ppid(e, body, ppid, ok) ==
    /\ SendChecks(e, ok)
    /\ IF ok THEN Sendv(e, Data(ppid, body), TRUE, FALSE) ELSE UNCHANGED inbox

send_partial_reliable_with_ppid(e, body, ppid, unordered, ok) ==
    /\ SendChecks(e, ok)
    /\ IF ok THEN Sendv(e, Data(ppid, body), unordered, TRUE) ELSE UNCHANGED inbox

-----------------------------------------------------------------------------
(* The worker thread.                                                       *)

s_transition_to(e, next) == SetState(e, next)

handle_notification(e, n) ==
    CASE n = "COMM_UP" -> s_transition_to(e, "kEstablished")
      [] n \in {"COMM_LOST", "CANT_STR_ASSOC", "SHUTDOWN_COMP"} -> s_transition_to(e, "kClosed")
      [] OTHER -> UNCHANGED sk

\* A notification: the whole callback runs under state_mu_.
RecvNotification(e) ==
    /\ wk = Idle /\ inbox[e] # <<>> /\ Head(inbox[e]).kind = "notif"
    /\ handle_notification(e, Head(inbox[e]).n)
    /\ inbox' = [inbox EXCEPT ![e] = Tail(@)]
    /\ UNCHANGED <<lib, pc, assoc, wk>>

\* A payload: the worker takes recv_mu_, finds on_recv_ set or not (wk.run) and
\* is about to call it.
s_instance_recv_cb(e) ==
    /\ wk = Idle /\ inbox[e] # <<>> /\ Head(inbox[e]).kind = "data"
    /\ wk' = [stage |-> "legacy", e |-> e, ev |-> Head(inbox[e]), run |-> sk[e].on_recv]
    /\ inbox' = [inbox EXCEPT ![e] = Tail(@)]
    /\ UNCHANGED <<lib, sk, pc, assoc>>

-----------------------------------------------------------------------------
(* External: what the library and the peer do to an association.            *)

Listener == {e \in Ends : assoc[e] = "listening"}
Connector == {e \in Ends : assoc[e] = "connecting"}

Notify(es, n) == inbox' = [e \in Ends |-> IF e \in es THEN Append(inbox[e], Note(n))
                                          ELSE inbox[e]]
Room(es) == \A e \in es : Len(inbox[e]) < MaxEvents

AssocUp ==
    /\ Listener # {} /\ Connector # {} /\ Room(Ends)
    /\ assoc' = [e \in Ends |-> "up"]
    /\ Notify(Ends, "COMM_UP")
    /\ UNCHANGED <<lib, sk, pc, wk>>

AssocFails(e) ==
    /\ e \in Connector /\ Room({e})
    /\ assoc' = [assoc EXCEPT ![e] = "down"]
    /\ Notify({e}, "CANT_STR_ASSOC")
    /\ UNCHANGED <<lib, sk, pc, wk>>

Up == {e \in Ends : assoc[e] = "up"}
AssocEnds ==
    /\ Up # {} /\ Room(Up)
    /\ assoc' = [e \in Ends |-> IF e \in Up THEN "down" ELSE assoc[e]]
    /\ \E n \in {"COMM_LOST", "SHUTDOWN_COMP"} : Notify(Up, n)
    /\ UNCHANGED <<lib, sk, pc, wk>>

\* Notifications the state machine ignores.
AssocOther(e) ==
    /\ e \in Up /\ Room({e}) /\ inbox[e] = <<>>
    /\ \E n \in {"RESTART", "PEER_ADDR_CHANGE"} : Notify({e}, n)
    /\ UNCHANGED <<lib, sk, pc, assoc, wk>>

SctpNext ==
    \/ \E e \in Ends : \/ s_acquire_global_init(e) \/ usrsctp_init(e) \/ UsrsctpSocket(e)
                       \/ listen(e) \/ connect(e) \/ StateAfterIssue(e) \/ SocketClose(e)
                       \/ RecvNotification(e) \/ s_instance_recv_cb(e)
                       \/ AssocFails(e) \/ AssocOther(e)
    \/ AssocUp \/ AssocEnds
=============================================================================
