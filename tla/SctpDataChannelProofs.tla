----------------------- MODULE SctpDataChannelProofs -----------------------
(***************************************************************************)
(* Proofs about the data channel over SCTP, for every scenario: close()     *)
(* silences it, and a channel behaves as it was opened.                     *)
(***************************************************************************)
EXTENDS SctpDataChannel, TLAPS

-----------------------------------------------------------------------------
(* close() and the receive callbacks. *)

SocketRec == [sock : BOOLEAN, bound : BOOLEAN, state : UsrsctpSocketState,
              on_recv : BOOLEAN, on_recv_ppid : BOOLEAN]
Points == {"new", "init", "socket", "idle", "listening", "connecting", "open2",
           "close2", "close3", "closed"}

SctpTypes ==
    /\ lib \in [flag : BOOLEAN, ready : BOOLEAN]
    /\ sk \in [Ends -> SocketRec] /\ pc \in [Ends -> Points]
    /\ DOMAIN msgs = Ends /\ DOMAIN ch = Ends
    /\ \/ wk = Idle
       \/ /\ wk = [stage |-> wk.stage, e |-> wk.e, ev |-> wk.ev, run |-> wk.run]
          /\ wk.stage \in {"legacy", "ppid", "adopt"} /\ wk.e \in Ends /\ wk.run \in BOOLEAN

\* Past a step of close() its callback is gone, and past the second one a
\* worker that holds recv_mu_ of the socket finds nothing to call.
SilentInv ==
    /\ SctpTypes
    /\ \A e \in Ends :
          /\ pc[e] \in {"close2", "close3", "closed"} => ~sk[e].on_recv
          /\ pc[e] \in {"close3", "closed"} =>
                /\ ~sk[e].on_recv_ppid
                /\ RecvLocked(e) => ~wk.run /\ wk.stage # "adopt"

LEMMA SilentInit == DcInit => SilentInv
BY DEF DcInit, SctpInit, SilentInv, SctpTypes, NewSocket, SocketRec, UsrsctpSocketState, Idle,
       Points, RecvLocked

\* A step that changes the state of sockets only.
LEMMA SilentKept ==
  ASSUME SilentInv, lib' \in [flag : BOOLEAN, ready : BOOLEAN], sk' \in [Ends -> SocketRec],
         pc' \in [Ends -> Points], DOMAIN msgs' = Ends, DOMAIN ch' = Ends, UNCHANGED wk,
         \A e \in Ends : /\ sk'[e].on_recv = sk[e].on_recv
                         /\ sk'[e].on_recv_ppid = sk[e].on_recv_ppid
                         /\ pc'[e] = pc[e] \/ pc'[e] \notin {"close2", "close3", "closed"}
  PROVE  SilentInv'
BY Zenon DEF SilentInv, SctpTypes, RecvLocked

\* A step that moves one socket on and leaves the others alone.
LEMMA SilentMoved ==
  ASSUME SilentInv, NEW e \in Ends, UNCHANGED <<lib, wk, msgs>>, DOMAIN ch' = Ends,
         sk' \in [Ends -> SocketRec], pc' \in [Ends -> Points],
         \A f \in Ends : f # e => sk'[f] = sk[f] /\ pc'[f] = pc[f],
         pc'[e] \in {"close2", "close3", "closed"} => ~sk'[e].on_recv,
         pc'[e] \in {"close3", "closed"} =>
            ~sk'[e].on_recv_ppid /\ (RecvLocked(e) => ~wk.run /\ wk.stage # "adopt")
  PROVE  SilentInv'
<1>1. SctpTypes'
  BY Zenon DEF SilentInv, SctpTypes
<1>2. ASSUME NEW f \in Ends PROVE RecvLocked(f)' <=> RecvLocked(f)
  BY Zenon DEF RecvLocked
<1>3. ASSUME NEW f \in Ends, pc'[f] \in {"close2", "close3", "closed"} PROVE ~sk'[f].on_recv
  BY Zenon, <1>3 DEF SilentInv
<1>4. ASSUME NEW f \in Ends, pc'[f] \in {"close3", "closed"}
      PROVE  ~sk'[f].on_recv_ppid /\ (RecvLocked(f)' => ~wk'.run /\ wk'.stage # "adopt")
  <2>1. CASE f = e
    BY Zenon, <1>2, <1>4, <2>1
  <2>2. CASE f # e
    BY Zenon, <1>2, <1>4, <2>2 DEF SilentInv
  <2> QED BY Zenon, <2>1, <2>2
<1> QED BY Zenon, <1>1, <1>3, <1>4 DEF SilentInv

\* The steps of the socket, but for the worker's receive callback.
LEMMA SocketStepSilent ==
  ASSUME SilentInv, NEW e \in Ends, UNCHANGED dcVars,
         \/ s_acquire_global_init(e) \/ usrsctp_init(e) \/ UsrsctpSocket(e)
         \/ listen(e) \/ connect(e) \/ StateAfterIssue(e) \/ SocketClose(e)
         \/ RecvNotification(e) \/ AssocFails(e) \/ AssocOther(e)
  PROVE  SilentInv'
<1> USE DEF Go, SetState, Points
<1>0. /\ lib \in [flag : BOOLEAN, ready : BOOLEAN] /\ sk \in [Ends -> SocketRec]
      /\ pc \in [Ends -> Points] /\ msgs' = msgs /\ ch' = ch
      /\ DOMAIN msgs' = Ends /\ DOMAIN ch' = Ends
  BY Zenon DEF SilentInv, SctpTypes, dcVars
<1>1. CASE s_acquire_global_init(e)
  <2>1. /\ lib' \in [flag : BOOLEAN, ready : BOOLEAN] /\ UNCHANGED <<sk, wk>>
        /\ pc' \in [Ends -> Points]
        /\ \A f \in Ends : pc'[f] = pc[f] \/ pc'[f] \in {"socket", "init"}
    BY Zenon, <1>0, <1>1 DEF s_acquire_global_init
  <2> QED BY Zenon, <1>0, <2>1, SilentKept
<1>2. CASE usrsctp_init(e)
  <2>1. /\ lib' \in [flag : BOOLEAN, ready : BOOLEAN] /\ UNCHANGED <<sk, wk>>
        /\ pc' \in [Ends -> Points]
        /\ \A f \in Ends : pc'[f] = pc[f] \/ pc'[f] = "socket"
    BY Zenon, <1>0, <1>2 DEF usrsctp_init
  <2> QED BY Zenon, <1>0, <2>1, SilentKept
<1>3. CASE UsrsctpSocket(e)
  <2>1. /\ UNCHANGED <<lib, wk>> /\ sk' \in [Ends -> SocketRec]
        /\ \A f \in Ends : /\ sk'[f].on_recv = sk[f].on_recv
                           /\ sk'[f].on_recv_ppid = sk[f].on_recv_ppid
    BY <1>0, <1>3 DEF UsrsctpSocket, SocketRec
  <2>2. pc' \in [Ends -> Points] /\ \A f \in Ends : pc'[f] = pc[f] \/ pc'[f] = "idle"
    BY Zenon, <1>0, <1>3 DEF UsrsctpSocket
  <2> QED BY Zenon, <1>0, <2>1, <2>2, SilentKept
<1>4. CASE listen(e) \/ connect(e)
  <2>1. UNCHANGED <<lib, wk>> /\ \E ok \in BOOLEAN : s_bind_and_configure(e, ok)
    BY Zenon, <1>4 DEF listen, connect
  <2>2. /\ sk' \in [Ends -> SocketRec]
        /\ \A f \in Ends : /\ sk'[f].on_recv = sk[f].on_recv
                           /\ sk'[f].on_recv_ppid = sk[f].on_recv_ppid
    BY <1>0, <2>1 DEF s_bind_and_configure, SocketRec
  <2>3. /\ pc' \in [Ends -> Points]
        /\ \A f \in Ends : pc'[f] = pc[f] \/ pc'[f] \in {"listening", "connecting"}
    BY Zenon, <1>0, <1>4 DEF listen, connect
  <2> QED BY Zenon, <1>0, <2>1, <2>2, <2>3, SilentKept
<1>5. CASE StateAfterIssue(e) \/ SocketClose(e)
  <2>1. /\ UNCHANGED <<lib, wk>> /\ sk' \in [Ends -> SocketRec]
        /\ \A f \in Ends : /\ sk'[f].on_recv = sk[f].on_recv
                           /\ sk'[f].on_recv_ppid = sk[f].on_recv_ppid
    BY SMTT(20), <1>0, <1>5 DEF StateAfterIssue, SocketClose, SocketRec, UsrsctpSocketState
  <2>2. pc' \in [Ends -> Points] /\ \A f \in Ends : pc'[f] = pc[f] \/ pc'[f] = "idle"
    BY Zenon, <1>0, <1>5 DEF StateAfterIssue, SocketClose
  <2> QED BY Zenon, <1>0, <2>1, <2>2, SilentKept
<1>6. CASE RecvNotification(e)
  <2>1. \/ UNCHANGED sk
        \/ \E s \in UsrsctpSocketState : sk' = [sk EXCEPT ![e].state = s]
    BY Zenon, <1>6 DEF RecvNotification, handle_notification, s_transition_to, UsrsctpSocketState
  <2>2. /\ sk' \in [Ends -> SocketRec]
        /\ \A f \in Ends : /\ sk'[f].on_recv = sk[f].on_recv
                           /\ sk'[f].on_recv_ppid = sk[f].on_recv_ppid
    BY SMTT(20), <1>0, <2>1 DEF SocketRec
  <2>3. UNCHANGED <<lib, pc, wk>>
    BY Zenon, <1>6 DEF RecvNotification
  <2> QED BY Zenon, <1>0, <2>2, <2>3, SilentKept
<1>7. CASE AssocFails(e) \/ AssocOther(e)
  <2>1. UNCHANGED <<lib, sk, pc, wk>>
    BY Zenon, <1>7 DEF AssocFails, AssocOther
  <2> QED BY Zenon, <1>0, <2>1, SilentKept
<1> QED BY Zenon, <1>1, <1>2, <1>3, <1>4, <1>5, <1>6, <1>7

LEMMA AssocStepSilent ==
  ASSUME SilentInv, UNCHANGED dcVars, AssocUp \/ AssocEnds
  PROVE  SilentInv'
BY Zenon, SilentKept DEF AssocUp, AssocEnds, SilentInv, SctpTypes, dcVars

\* open(), send() and the announcement.
LEMMA ChannelStepSilent ==
  ASSUME SilentInv, NEW e \in Ends,
         \/ ChOpen(e) \/ ChOpenLegacy(e) \/ ChOpenCfg(e) \/ ChSend(e)
         \/ send_dcep_open(e) \/ PlainSend(e)
  PROVE  SilentInv'
<1> USE DEF Go, Points
<1>0. /\ lib \in [flag : BOOLEAN, ready : BOOLEAN] /\ sk \in [Ends -> SocketRec]
      /\ pc \in [Ends -> Points] /\ DOMAIN msgs = Ends /\ DOMAIN ch = Ends
  BY Zenon DEF SilentInv, SctpTypes
<1>1. CASE ChOpen(e)
  <2>1. /\ UNCHANGED <<lib, wk, msgs, ch>> /\ pc[e] = "idle" /\ sk' \in [Ends -> SocketRec]
        /\ pc' \in [Ends -> Points] /\ pc'[e] = "open2"
        /\ \A f \in Ends : f # e => sk'[f] = sk[f] /\ pc'[f] = pc[f]
    BY ZenonT(30), <1>0, <1>1 DEF ChOpen, Ready, dcVars, SocketRec
  <2> QED BY Zenon, <1>0, <2>1, SilentMoved
<1>2. CASE ChOpenLegacy(e)
  <2>1. /\ UNCHANGED <<lib, wk, msgs>> /\ DOMAIN ch' = Ends /\ sk' \in [Ends -> SocketRec]
        /\ pc' \in [Ends -> Points] /\ pc'[e] = "idle"
        /\ \A f \in Ends : f # e => sk'[f] = sk[f] /\ pc'[f] = pc[f]
    BY ZenonT(30), <1>0, <1>2 DEF ChOpenLegacy, SocketRec
  <2> QED BY Zenon, <1>0, <2>1, SilentMoved
<1>3. CASE ChOpenCfg(e)
  <2>1. UNCHANGED <<lib, sk, pc, wk, msgs>> /\ DOMAIN ch' = Ends
    BY Zenon, <1>0, <1>3 DEF ChOpenCfg, sctpVars
  <2> QED BY Zenon, <1>0, <2>1, SilentKept
<1>4. CASE ChSend(e) \/ send_dcep_open(e) \/ PlainSend(e)
  <2>1. UNCHANGED <<lib, sk, pc, wk, msgs>> /\ DOMAIN ch' = Ends
    BY Zenon, <1>0, <1>4 DEF ChSend, send_dcep_open, PlainSend
  <2> QED BY Zenon, <1>0, <2>1, SilentKept
<1> QED BY Zenon, <1>1, <1>2, <1>3, <1>4

LEMMA CloseStepSilent ==
  ASSUME SilentInv, NEW e \in Ends, ChClose(e) \/ ChClosePpid(e) \/ ChCloseSocket(e)
  PROVE  SilentInv'
<1> USE DEF Go, Points
<1>0. /\ lib \in [flag : BOOLEAN, ready : BOOLEAN] /\ sk \in [Ends -> SocketRec]
      /\ pc \in [Ends -> Points] /\ DOMAIN msgs = Ends /\ DOMAIN ch = Ends
  BY Zenon DEF SilentInv, SctpTypes
<1>1. CASE ChClose(e)
  <2>1. /\ UNCHANGED <<lib, wk, msgs, ch>> /\ sk' \in [Ends -> SocketRec] /\ ~sk'[e].on_recv
        /\ pc' \in [Ends -> Points] /\ pc'[e] = "close2"
        /\ \A f \in Ends : f # e => sk'[f] = sk[f] /\ pc'[f] = pc[f]
    BY ZenonT(30), <1>0, <1>1 DEF ChClose, dcVars, SocketRec
  <2> QED BY Zenon, <1>0, <2>1, SilentMoved
<1>2. CASE ChClosePpid(e)
  <2>1. /\ UNCHANGED <<lib, wk, msgs, ch>> /\ sk' \in [Ends -> SocketRec]
        /\ sk'[e].on_recv = sk[e].on_recv /\ ~sk'[e].on_recv_ppid /\ pc[e] = "close2"
        /\ pc' \in [Ends -> Points] /\ pc'[e] = "close3" /\ ~RecvLocked(e)
        /\ \A f \in Ends : f # e => sk'[f] = sk[f] /\ pc'[f] = pc[f]
    <3>1. PICK r : r = [sk[e] EXCEPT !.on_recv_ppid = FALSE]
      BY Zenon
    <3>2. r \in SocketRec /\ r.on_recv = sk[e].on_recv /\ ~r.on_recv_ppid
      BY ZenonT(30), <1>0, <3>1 DEF SocketRec
    <3>3. sk' = [sk EXCEPT ![e] = r] /\ pc' = [pc EXCEPT ![e] = "close3"]
      BY Zenon, <1>2, <3>1 DEF ChClosePpid
    <3>4. UNCHANGED <<lib, wk, msgs, ch>> /\ pc[e] = "close2" /\ ~RecvLocked(e)
      BY Zenon, <1>2 DEF ChClosePpid, dcVars
    <3> QED BY Zenon, <1>0, <3>2, <3>3, <3>4
  <2>2. ~sk[e].on_recv
    BY Zenon, <2>1 DEF SilentInv
  <2> QED BY Zenon, <1>0, <2>1, <2>2, SilentMoved
<1>3. CASE ChCloseSocket(e)
  <2>1. /\ UNCHANGED <<lib, wk, msgs>> /\ DOMAIN ch' = Ends
        /\ pc[e] = "close3" /\ pc' \in [Ends -> Points] /\ pc'[e] = "closed"
        /\ \A f \in Ends : f # e => pc'[f] = pc[f]
    BY Zenon, <1>0, <1>3 DEF ChCloseSocket
  <2>2. sk' = [sk EXCEPT ![e].state = "kClosed", ![e].sock = FALSE]
    BY Zenon, <1>3 DEF ChCloseSocket, DestroySocket
  <2>3. /\ sk' \in [Ends -> SocketRec]
        /\ sk'[e].on_recv = sk[e].on_recv /\ sk'[e].on_recv_ppid = sk[e].on_recv_ppid
        /\ \A f \in Ends : f # e => sk'[f] = sk[f]
    <3>1. "kClosed" \in UsrsctpSocketState
      BY Zenon DEF UsrsctpSocketState
    <3>2. PICK q : q = [sk[e] EXCEPT !.state = "kClosed"]
      BY Zenon
    <3>3. q \in SocketRec /\ q.on_recv = sk[e].on_recv /\ q.on_recv_ppid = sk[e].on_recv_ppid
      BY <1>0, <3>1, <3>2 DEF SocketRec
    <3>4. PICK r : r = [q EXCEPT !.sock = FALSE]
      BY Zenon
    <3>5. /\ r \in SocketRec /\ r.on_recv = sk[e].on_recv
          /\ r.on_recv_ppid = sk[e].on_recv_ppid
      BY Zenon, <3>3, <3>4 DEF SocketRec
    <3>6. r = [sk[e] EXCEPT !.state = "kClosed", !.sock = FALSE]
      BY Zenon, <3>2, <3>4
    <3>7. sk' = [sk EXCEPT ![e] = r]
      BY Zenon, <1>0, <2>2, <3>6 DEF SocketRec
    <3> QED BY Zenon, <1>0, <3>5, <3>7
  <2>4. /\ ~sk[e].on_recv /\ ~sk[e].on_recv_ppid
        /\ RecvLocked(e) => ~wk.run /\ wk.stage # "adopt"
    BY Zenon, <2>1 DEF SilentInv
  <2> QED BY ZenonT(30), <2>1, <2>3, <2>4, SilentMoved
<1> QED BY Zenon, <1>1, <1>2, <1>3

\* The worker's callbacks.
LEMMA WorkerStepSilent ==
  ASSUME SilentInv, (\E e \in Ends : s_instance_recv_cb(e) /\ UNCHANGED dcVars)
                    \/ RecvLegacy \/ RecvPpid \/ RecvAdopt
  PROVE  SilentInv'
<1>0. /\ UNCHANGED <<lib, sk, pc>> /\ sk \in [Ends -> SocketRec]
  BY Zenon DEF s_instance_recv_cb, RecvLegacy, RecvPpid, RecvAdopt, SilentInv, SctpTypes
<1>1. DOMAIN msgs' = Ends /\ DOMAIN ch' = Ends
  BY Zenon DEF s_instance_recv_cb, RecvLegacy, RecvPpid, RecvAdopt, on_sctp_recv, SilentInv,
               SctpTypes, dcVars
<1>2. CASE wk' = Idle
  BY Zenon, <1>0, <1>1, <1>2 DEF SilentInv, SctpTypes, RecvLocked, Idle
<1>3. ASSUME NEW e \in Ends, s_instance_recv_cb(e)
      PROVE  SilentInv'
  <2>1. /\ wk' = [stage |-> "legacy", e |-> e, ev |-> wk'.ev, run |-> sk[e].on_recv]
        /\ sk[e].on_recv \in BOOLEAN
    BY Zenon, <1>0, <1>3 DEF s_instance_recv_cb, SocketRec
  <2>2. \A f \in Ends : RecvLocked(f)' => f = e
    BY <2>1 DEF RecvLocked
  <2> QED BY SMTT(20), <1>0, <1>1, <2>1, <2>2 DEF SilentInv, SctpTypes
<1>4. CASE RecvLegacy \/ (RecvPpid /\ wk' # Idle)
  <2>1. /\ wk = [stage |-> wk.stage, e |-> wk.e, ev |-> wk.ev, run |-> wk.run]
        /\ wk.e \in Ends /\ wk.stage \in {"legacy", "ppid"} /\ wk.run \in BOOLEAN
    <3>1. wk.stage \in {"legacy", "ppid"}
      BY Zenon, <1>4 DEF RecvLegacy, RecvPpid
    <3>2. wk # Idle
      BY <3>1 DEF Idle
    <3> QED BY ZenonT(30), <3>1, <3>2 DEF SilentInv, SctpTypes
  <2>2. \E s \in {"ppid", "adopt"}, b \in BOOLEAN :
           /\ wk' = [stage |-> s, e |-> wk.e, ev |-> wk.ev, run |-> b]
           /\ s = "ppid" => b = sk[wk.e].on_recv_ppid
           /\ s = "adopt" => wk.run /\ b
    <3>1. CASE RecvLegacy
      <4>1. wk' = [stage |-> "ppid", e |-> wk.e, ev |-> wk.ev, run |-> sk[wk.e].on_recv_ppid]
        BY Zenon, <2>1, <3>1 DEF RecvLegacy
      <4>2. sk[wk.e].on_recv_ppid \in BOOLEAN
        BY Zenon, <1>0, <2>1 DEF SocketRec
      <4> QED BY Zenon, <4>1, <4>2
    <3>2. CASE RecvPpid /\ wk' # Idle
      <4>1. wk.run /\ wk' = [wk EXCEPT !.stage = "adopt"]
        BY Zenon, <3>2 DEF RecvPpid
      <4>2. wk' = [stage |-> "adopt", e |-> wk.e, ev |-> wk.ev, run |-> wk.run]
        BY Zenon, <2>1, <4>1
      <4> QED BY Zenon, <2>1, <4>1, <4>2
    <3> QED BY Zenon, <1>4, <3>1, <3>2
  <2>3. RecvLocked(wk.e)
    BY Zenon, <2>1 DEF RecvLocked
  <2>4. PICK s \in {"ppid", "adopt"}, b \in BOOLEAN :
           /\ wk' = [stage |-> s, e |-> wk.e, ev |-> wk.ev, run |-> b]
           /\ s = "ppid" => b = sk[wk.e].on_recv_ppid
           /\ s = "adopt" => wk.run /\ b
    BY Zenon, <2>2
  <2>5. wk'.stage = s /\ wk'.e = wk.e /\ wk'.run = b /\ wk'.ev = wk.ev
    BY Zenon, <2>4
  <2>6. SctpTypes'
    BY Zenon, <1>0, <1>1, <2>1, <2>4, <2>5 DEF SilentInv, SctpTypes
  <2>7. ASSUME NEW f \in Ends, pc[f] \in {"close3", "closed"}, RecvLocked(f)'
        PROVE  ~wk'.run /\ wk'.stage # "adopt"
    <3>1. f = wk.e
      BY Zenon, <2>5, <2>7 DEF RecvLocked
    <3>2. ~sk[f].on_recv_ppid /\ ~wk.run
      BY Zenon, <2>3, <2>7, <3>1 DEF SilentInv
    <3> QED BY Zenon, <2>4, <2>5, <3>1, <3>2
  <2> QED BY Zenon, <1>0, <2>6, <2>7 DEF SilentInv
<1> QED BY Zenon, <1>2, <1>3, <1>4 DEF RecvPpid, RecvAdopt

LEMMA SilentNext == SilentInv /\ [DcNext]_dcAll => SilentInv'
<1> SUFFICES ASSUME SilentInv, [DcNext]_dcAll PROVE SilentInv'
  BY Zenon
<1>1. CASE UNCHANGED dcAll
  BY Zenon, <1>1 DEF dcAll, sctpVars, dcVars, SilentInv, SctpTypes, RecvLocked
<1>2. CASE DcNext
  BY Zenon, <1>2, SocketStepSilent, AssocStepSilent, ChannelStepSilent, CloseStepSilent, WorkerStepSilent
     DEF DcNext, SctpNext
<1> QED BY Zenon, <1>1, <1>2

LEMMA SilentStep == SilentInv /\ [DcNext]_dcAll => SilentOnceClosed
<1> SUFFICES ASSUME SilentInv, [DcNext]_dcAll, NEW e \in Ends, pc[e] = "closed"
             PROVE  msgs'[e] = msgs[e] /\ ch'[e] = ch[e]
  BY Zenon DEF SilentOnceClosed
<1>0. DOMAIN msgs = Ends /\ DOMAIN ch = Ends /\ (RecvLocked(e) => ~wk.run /\ wk.stage # "adopt")
  BY Zenon DEF SilentInv, SctpTypes
<1>1. CASE UNCHANGED dcVars
  BY Zenon, <1>1 DEF dcVars
<1>2. CASE UNCHANGED dcAll
  BY Zenon, <1>2 DEF dcAll, dcVars
<1>3. ASSUME NEW f \in Ends,
             \/ ChOpen(f) \/ ChOpenLegacy(f) \/ ChOpenCfg(f) \/ ChSend(f)
             \/ send_dcep_open(f) \/ PlainSend(f)
             \/ ChClose(f) \/ ChClosePpid(f) \/ ChCloseSocket(f)
      PROVE  msgs'[e] = msgs[e] /\ ch'[e] = ch[e]
  <2>1. f # e
    BY Zenon, <1>3 DEF ChOpen, ChOpenLegacy, ChOpenCfg, ChSend, send_dcep_open, PlainSend,
                ChClose, ChClosePpid, ChCloseSocket, Ready
  <2>2. msgs' = msgs
    BY Zenon, <1>3 DEF ChOpen, ChOpenLegacy, ChOpenCfg, ChSend, send_dcep_open, PlainSend,
                ChClose, ChClosePpid, ChCloseSocket, dcVars
  <2>3. ch' = ch \/ \E v : ch' = [ch EXCEPT ![f] = v]
    BY Zenon, <1>3 DEF ChOpen, ChOpenLegacy, ChOpenCfg, ChSend, send_dcep_open, PlainSend,
                ChClose, ChClosePpid, ChCloseSocket, dcVars
  <2> QED BY Zenon, <1>0, <2>1, <2>2, <2>3
<1>4. CASE RecvLegacy \/ RecvPpid \/ RecvAdopt
  <2>1. CASE wk.e = e
    <3>1. RecvLocked(e)
      BY Zenon, <1>4, <2>1 DEF RecvLocked, RecvLegacy, RecvPpid, RecvAdopt
    <3> QED BY Zenon, <1>0, <1>4, <3>1 DEF RecvLegacy, RecvPpid, RecvAdopt
  <2>2. CASE wk.e # e
    <3>1. msgs' = msgs \/ \E v : msgs' = [msgs EXCEPT ![wk.e] = v]
      BY Zenon, <1>4 DEF RecvLegacy, RecvPpid, RecvAdopt, on_sctp_recv
    <3>2. ch' = ch \/ \E v : ch' = [ch EXCEPT ![wk.e] = v]
      BY ZenonT(60), <1>4 DEF RecvLegacy, RecvPpid, RecvAdopt
    <3> QED BY Zenon, <1>0, <2>2, <3>1, <3>2
  <2> QED BY Zenon, <2>1, <2>2
<1> QED BY Zenon, <1>1, <1>2, <1>3, <1>4 DEF DcNext

-----------------------------------------------------------------------------
(* The theorem. *)

LEMMA SilentAlways == DcSpec => []SilentInv
<1> QED BY SilentInit, SilentNext, PTL DEF DcSpec

\* Once close() of an SCTP data channel has returned, no step of the worker,
\* of the other end or of the program calls on_message again or reports
\* another state (sctp_data_channel.cpp, close()).
THEOREM ClosedStaysSilent == DcSpec => [][SilentOnceClosed]_dcAll
<1>1. SilentInv /\ [DcNext]_dcAll => [SilentOnceClosed]_dcAll
  BY Zenon, SilentStep
<1> QED BY <1>1, SilentAlways, PTL DEF DcSpec

-----------------------------------------------------------------------------
(* What is on its way to an end, in order: the events in its inbox, behind   *)
(* them the payload the worker is handing over, behind it what on_message    *)
(* has had.                                                                  *)

DcPayloads == [type : {"user", "plain"}, n : Nat]
Openings == {dcep_encode_open(c) : c \in DataChannelConfig}
Bodies == DcPayloads \cup {kDcepAck} \cup Openings
Events == {Note(n) : n \in Notifications}
            \cup {Data(p, b) : p \in {0, kPpidBinary}, b \in DcPayloads}
            \cup {Data(kPpidDcep, b) : b \in {kDcepAck} \cup Openings}

Body(x) == IF x.kind = "data" THEN x.body ELSE [type |-> "note"]

\* Of two user payloads the first was sent first, or they are the same.
Before(x, y) ==
    x.type = "user" /\ y.type = "user" => x.n \in Nat /\ y.n \in Nat /\ x.n <= y.n

Queued(ms, ws, q, top) ==
    /\ \A i, j \in 1..Len(ms) : i < j => Before(ms[i], ms[j])
    /\ \A i \in 1..Len(ms), j \in 1..Len(q) : Before(ms[i], Body(q[j]))
    /\ \A i \in 1..Len(ms) : Before(ms[i], top) /\ \A b \in ws : Before(ms[i], b)
    /\ \A b \in ws : Before(b, top) /\ \A j \in 1..Len(q) : Before(b, Body(q[j]))
    /\ \A j \in 1..Len(q) : Before(Body(q[j]), top)
    /\ \A j, k \in 1..Len(q) : j < k => Before(Body(q[j]), Body(q[k]))

LEMMA EmptyFacts == \A S : <<>> \in Seq(S) /\ \A q \in Seq(S) : Len(q) \in Nat
OBVIOUS

LEMMA AppendFacts ==
    ASSUME NEW S, NEW q \in Seq(S), NEW x \in S
    PROVE  /\ Append(q, x) \in Seq(S) /\ Len(Append(q, x)) = Len(q) + 1
           /\ \A i \in 1..Len(Append(q, x)) :
                 \/ i \in 1..Len(q) /\ Append(q, x)[i] = q[i]
                 \/ i = Len(q) + 1 /\ Append(q, x)[i] = x
OBVIOUS

LEMMA TailFacts ==
    ASSUME NEW S, NEW q \in Seq(S), q # <<>>
    PROVE  /\ Tail(q) \in Seq(S) /\ Head(q) = q[1] /\ Head(q) \in S /\ 1 \in 1..Len(q)
           /\ \A i \in 1..Len(Tail(q)) : i + 1 \in 1..Len(q) /\ Tail(q)[i] = q[i + 1] /\ 1 < i + 1
           /\ \A i, j \in 1..Len(Tail(q)) : i < j => i + 1 < j + 1
OBVIOUS

LEMMA QueuedSkips ==
    ASSUME NEW S, NEW ms, NEW ws, NEW q \in Seq(S), q # <<>>, NEW top, Queued(ms, ws, q, top)
    PROVE  Queued(ms, ws, Tail(q), top)
BY ZenonT(30), TailFacts DEF Queued

\* The worker takes the first payload off the inbox.
LEMMA QueuedTakes ==
    ASSUME NEW S, NEW ms, NEW q \in Seq(S), q # <<>>, NEW top, Queued(ms, {}, q, top)
    PROVE  Queued(ms, {Body(Head(q))}, Tail(q), top)
<1> DEFINE h == Body(Head(q))
           l == Tail(q)
<1>1. Queued(ms, {}, l, top)
  BY Zenon, QueuedSkips
<1>2. /\ \A i \in 1..Len(ms) : Before(ms[i], h)
      /\ Before(h, top)
  BY Zenon, TailFacts DEF Queued
<1>3. \A j \in 1..Len(l) : Before(h, Body(l[j]))
  <2> SUFFICES ASSUME NEW j \in 1..Len(l) PROVE Before(h, Body(l[j]))
    BY Zenon
  <2>1. j + 1 \in 1..Len(q) /\ l[j] = q[j + 1] /\ 1 < j + 1 /\ 1 \in 1..Len(q) /\ Head(q) = q[1]
    BY Zenon, TailFacts
  <2> QED BY Zenon, <2>1 DEF Queued
<1> HIDE DEF h, l
<1>4. Queued(ms, {h}, l, top)
  BY Zenon, <1>1, <1>2, <1>3 DEF Queued
<1> QED BY Zenon, <1>4 DEF h, l

\* It hands the payload over.
LEMMA QueuedHands ==
    ASSUME NEW S, NEW ms \in Seq(S), NEW b \in S, NEW q, NEW top, top.type = "user",
           Queued(ms, {b}, q, top)
    PROVE  Queued(Append(ms, b), {b}, q, top)
<1>1. Before(b, b)
  <2>1. Before(b, top)
    BY Zenon DEF Queued
  <2> QED BY <2>1 DEF Before
<1> DEFINE l == Append(ms, b)
<1>2. \A i \in 1..Len(l) : \/ i \in 1..Len(ms) /\ l[i] = ms[i]
                           \/ i = Len(ms) + 1 /\ l[i] = b
  BY Zenon, AppendFacts
<1> HIDE DEF l
<1>3. \A i \in 1..Len(ms) : ~(Len(ms) + 1 < i)
  OBVIOUS
<1>4. \A i, j \in 1..Len(l) : i < j => Before(l[i], l[j])
  <2> SUFFICES ASSUME NEW i \in 1..Len(l), NEW j \in 1..Len(l), i < j PROVE Before(l[i], l[j])
    BY Zenon
  <2> QED BY Zenon, <1>1, <1>2, <1>3 DEF Queued
<1>5. Queued(l, {b}, q, top)
  BY Zenon, <1>1, <1>2, <1>4 DEF Queued
<1> QED BY Zenon, <1>5 DEF l

LEMMA QueuedWaits ==
    ASSUME NEW ms, NEW ws, NEW vs, vs \subseteq ws, NEW q, NEW top, Queued(ms, ws, q, top)
    PROVE  Queued(ms, vs, q, top) /\ Queued(ms, vs, <<>>, top)
BY DEF Queued

\* The library queues an event behind the others.
LEMMA QueuedGrows ==
    ASSUME NEW S, NEW ms, NEW ws, NEW q \in Seq(S), NEW x \in S, NEW top, Queued(ms, ws, q, top),
           NEW n \in Nat, top = [type |-> "user", n |-> n], NEW m \in Nat, n <= m,
           Body(x).type = "user" => Body(x) = [type |-> "user", n |-> m] /\ n < m
    PROVE  LET t == [type |-> "user", n |-> m]
           IN Queued(ms, ws, Append(q, x), t) /\ Queued(ms, ws, q, t)
<1> DEFINE t == [type |-> "user", n |-> m]
           l == Append(q, x)
<1>1. \A y : Before(y, top) => Before(y, t) /\ Before(y, Body(x))
  BY DEF Before
<1>2. Before(Body(x), t)
  BY DEF Before
<1>3. \A i \in 1..Len(l) : \/ i \in 1..Len(q) /\ l[i] = q[i]
                           \/ i = Len(q) + 1 /\ l[i] = x
  BY Zenon, AppendFacts
<1>4. \A i \in 1..Len(q) : ~(Len(q) + 1 < i)
  OBVIOUS
<1> HIDE DEF t, l
<1>5. Queued(ms, ws, q, t)
  BY Zenon, <1>1 DEF Queued
<1>6. \A i, j \in 1..Len(l) : i < j => Before(Body(l[i]), Body(l[j]))
  <2> SUFFICES ASSUME NEW i \in 1..Len(l), NEW j \in 1..Len(l), i < j
               PROVE  Before(Body(l[i]), Body(l[j]))
    BY Zenon
  <2>1. ~(Len(q) + 1 < Len(q) + 1)
    OBVIOUS
  <2> QED BY Zenon, <1>1, <1>3, <1>4, <2>1 DEF Queued
<1>7. Queued(ms, ws, l, t)
  BY Zenon, <1>1, <1>2, <1>3, <1>5, <1>6 DEF Queued
<1> QED BY Zenon, <1>5, <1>7 DEF l, t

InQ(q) == {q[i] : i \in 1..Len(q)}

LEMMA InQFacts ==
    ASSUME NEW S, NEW q \in Seq(S)
    PROVE  /\ \A x \in S : InQ(Append(q, x)) = InQ(q) \cup {x}
           /\ q # <<>> => InQ(Tail(q)) \subseteq InQ(q) /\ Head(q) \in InQ(q)
           /\ InQ(q) \subseteq S
           /\ InQ(<<>>) = {}
<1>1. ASSUME NEW x \in S PROVE InQ(Append(q, x)) = InQ(q) \cup {x}
  BY SMT DEF InQ
<1>2. ASSUME q # <<>> PROVE InQ(Tail(q)) \subseteq InQ(q) /\ Head(q) \in InQ(q)
  BY SMT, <1>2 DEF InQ
<1>3. InQ(q) \subseteq S /\ InQ(<<>>) = {}
  BY SMT DEF InQ
<1> QED BY Zenon, <1>1, <1>2, <1>3

\* The library keeps what is on its way and adds what it accepted.
LEMMA ArrivesFacts ==
    ASSUME NEW S, NEW q \in Seq(S), NEW m \in S, NEW unordered \in BOOLEAN,
           NEW r \in Arrives(q, m, unordered)
    PROVE  /\ r \in Seq(S) /\ InQ(r) \subseteq InQ(q) \cup {m}
           /\ ~unordered => r = Append(q, m)
<1>1. CASE ~unordered
  <2>1. r = Append(q, m)
    BY Zenon, <1>1 DEF Arrives
  <2> QED BY Zenon, <2>1, AppendFacts, InQFacts
<1>2. CASE unordered
  <2>1. PICK i \in 0..Len(q) : r = SubSeq(q, 1, i) \o <<m>> \o SubSeq(q, i + 1, Len(q))
    BY ZenonT(30), <1>2 DEF Arrives
  <2> DEFINE u == SubSeq(q, 1, i)
             v == SubSeq(q, i + 1, Len(q))
  <2>2. u \in Seq(S) /\ InQ(u) \subseteq InQ(q)
    BY SMT DEF InQ
  <2>3. v \in Seq(S) /\ InQ(v) \subseteq InQ(q)
    BY SMT DEF InQ
  <2>4. \A x, y \in Seq(S) : x \o y \in Seq(S) /\ InQ(x \o y) \subseteq InQ(x) \cup InQ(y)
    BY SMT DEF InQ
  <2>5. <<m>> \in Seq(S) /\ InQ(<<m>>) = {m}
    BY SMT DEF InQ
  <2> HIDE DEF u, v
  <2>6. u \o <<m>> \in Seq(S) /\ InQ(u \o <<m>>) \subseteq InQ(u) \cup {m}
    BY Zenon, <2>2, <2>4, <2>5
  <2>7. r = (u \o <<m>>) \o v
    BY Zenon, <2>1 DEF u, v
  <2> QED BY Zenon, <1>2, <2>2, <2>3, <2>4, <2>6, <2>7
<1> QED BY Zenon, <1>1, <1>2

LEMMA PeerFacts ==
    \A e \in Ends : /\ Peer(e) \in Ends /\ Peer(e) # e /\ Peer(Peer(e)) = e
                    /\ \A f \in Ends : f \in {e, Peer(e)}
<1> SUFFICES ASSUME NEW e \in Ends
             PROVE  /\ Peer(e) \in Ends /\ Peer(e) # e /\ Peer(Peer(e)) = e
                    /\ \A f \in Ends : f \in {e, Peer(e)}
  BY Zenon
<1>1. PICK a \in Ends, b \in Ends : a # b /\ Ends = {a, b}
  BY Zenon, DcAssumption DEF DcAssumption
<1>2. \A g \in Ends : Peer(g) \in Ends /\ Peer(g) # g
  BY Zenon, <1>1 DEF Peer
<1> QED BY Zenon, <1>1, <1>2

Last(f) == [type |-> "user", n |-> Len(sent[f])]
Handing(e) == IF RecvLocked(e) THEN {wk.ev.body} ELSE {}
ServedInTurn(e) == AllReliable(Peer(e)) => Queued(msgs[e], Handing(e), inbox[e], Last(Peer(e)))

\* What is on its way to an end, and of it what is not about the announcement.
Coming(e) == InQ(inbox[e]) \cup (IF RecvLocked(e) THEN {wk.ev} ELSE {})
Unrelated == {x \in Events : ~(x.kind = "data" /\ x.ppid = kPpidDcep)}

Announced(e) == dcep_encode_open(dcSetup.cfg[e])
Adopted(e) == dcep_decode_open(Announced(e))
Acked(e) ==
    LET f == Peer(e) IN
    dcSetup.openers = {e} /\ f \notin dcSetup.configures =>
       /\ \A x \in Coming(f) : x \in Unrelated \/ x.body = Announced(e)
       /\ \A x \in Coming(e) : x \in Unrelated \/ (x.body = kDcepAck /\ ch[f].cfg = Adopted(e))
       /\ wk.stage = "adopt" => /\ wk.e = f /\ ch[f].cfg.label = Adopted(e).label
                                /\ ch[f].cfg.reliability = Adopted(e).reliability

ChanTypes ==
    /\ inbox \in [Ends -> Seq(Events)] /\ msgs \in [Ends -> Seq(Bodies)]
    /\ sent \in [Ends -> Seq(DataChannelReliability)] /\ dcSetup \in DcSetups
    /\ \A e \in Ends : "cfg" \in DOMAIN ch[e] /\ ch[e].cfg \in DataChannelConfig
    /\ wk.stage # "idle" => wk.ev \in Events /\ wk.ev.kind = "data"
    /\ wk.stage = "adopt" => wk.ev.ppid = kPpidDcep /\ wk.ev.body \in Openings

ChanInv == ChanTypes /\ \A e \in Ends : ServedInTurn(e) /\ Acked(e)

LEMMA ChanInit == DcInit => ChanInv
<1> SUFFICES ASSUME DcInit PROVE ChanInv
  BY Zenon
<1>1. /\ inbox = [e \in Ends |-> <<>>] /\ msgs = [e \in Ends |-> <<>>]
      /\ sent = [e \in Ends |-> <<>>] /\ dcSetup \in DcSetups /\ wk = Idle
      /\ ch = [e \in Ends |-> [NewChannel EXCEPT !.sock = (e \in dcSetup.channels)]]
  BY Zenon DEF DcInit, SctpInit
<1>2. wk.stage = "idle" /\ \A e \in Ends : ~RecvLocked(e)
  BY Zenon, <1>1 DEF Idle, RecvLocked
<1>3. \A e \in Ends : "cfg" \in DOMAIN ch[e] /\ ch[e].cfg \in DataChannelConfig
  <2>1. DefaultConfig \in DataChannelConfig
    <3>1. 0 \in uint16_t
      BY SMT DEF uint16_t
    <3>2. "" \in Labels /\ "kReliableOrdered" \in DataChannelReliability
      BY Zenon, DcAssumption DEF DcAssumption, DataChannelReliability
    <3> QED BY Zenon, <3>1, <3>2 DEF DefaultConfig, DataChannelConfig
  <2>2. \A e \in Ends : "cfg" \in DOMAIN ch[e] /\ ch[e].cfg = DefaultConfig
    BY SMT, <1>1 DEF NewChannel
  <2> QED BY Zenon, <2>1, <2>2
<1>4. ChanTypes
  BY Zenon, <1>1, <1>2, <1>3, EmptyFacts DEF ChanTypes
<1>5. ASSUME NEW e \in Ends PROVE ServedInTurn(e) /\ Acked(e)
  <2>1. msgs[e] = <<>> /\ inbox[e] = <<>>
    BY Zenon, <1>1
  <2>2. \A ws, t : ws = {} => Queued(<<>>, ws, <<>>, t)
    BY SMT DEF Queued
  <2>3. \A g \in Ends : InQ(inbox[g]) = {}
    BY SMT, <1>1 DEF InQ
  <2>4. \A g \in Ends : Coming(g) = {}
    BY Zenon, <1>2, <2>3 DEF Coming
  <2>5. ServedInTurn(e)
    BY Zenon, <1>2, <2>1, <2>2 DEF ServedInTurn, Handing
  <2>6. Acked(e)
    BY Zenon, <1>2, <2>4, PeerFacts DEF Acked
  <2> QED BY Zenon, <2>5, <2>6
<1> QED BY Zenon, <1>4, <1>5 DEF ChanInv

LEMMA AckedSame ==
    ASSUME NEW e \in Ends, Acked(e), dcSetup' = dcSetup, ch'[Peer(e)].cfg = ch[Peer(e)].cfg,
           \A g \in Ends : Coming(g)' \subseteq Coming(g) \cup Unrelated,
           wk'.stage = "adopt" => wk' = wk
    PROVE  Acked(e)'
<1>1. Announced(e)' = Announced(e) /\ Adopted(e)' = Adopted(e)
  BY Zenon DEF Announced, Adopted
<1> QED BY Zenon, <1>1, PeerFacts DEF Acked

LEMMA NoteFacts ==
    \A n \in Notifications : Note(n) \in Events /\ Note(n) \in Unrelated /\ Body(Note(n)).type = "note"
<1> SUFFICES ASSUME NEW n \in Notifications
             PROVE  Note(n) \in Events /\ Note(n) \in Unrelated /\ Body(Note(n)).type = "note"
  BY Zenon
<1>1. Note(n) \in Events
  BY SMT DEF Events
<1>2. Note(n).kind = "notif"
  BY Zenon DEF Note
<1> QED BY Zenon, <1>1, <1>2 DEF Unrelated, Body

LEMMA QueuedUnrelated ==
    ASSUME NEW q \in Seq(Events), NEW x \in Unrelated
    PROVE  Append(q, x) \in Seq(Events) /\ InQ(Append(q, x)) \subseteq InQ(q) \cup Unrelated
<1>1. x \in Events
  BY Zenon DEF Unrelated
<1>2. InQ(Append(q, x)) = InQ(q) \cup {x}
  BY ZenonT(30), <1>1, InQFacts
<1>3. Append(q, x) \in Seq(Events)
  BY Zenon, <1>1, AppendFacts
<1> QED BY Zenon, <1>2, <1>3

\* Steps of the library, and of the engine thread on its socket: nothing but
\* notifications is added to what is on its way.
LEMMA LibraryKeeps ==
    ASSUME ChanInv, UNCHANGED <<wk, msgs, sent, dcSetup>>, DOMAIN inbox' = Ends,
           \A g \in Ends : DOMAIN ch'[g] = DOMAIN ch[g] /\ ch'[g].cfg = ch[g].cfg,
           \A g \in Ends : \/ inbox'[g] = inbox[g] \/ inbox'[g] = <<>>
                           \/ \E n \in Notifications : inbox'[g] = Append(inbox[g], Note(n))
                           \/ inbox[g] # <<>> /\ inbox'[g] = Tail(inbox[g]),
           inbox' = [g \in Ends |-> inbox'[g]]
    PROVE  ChanInv'
<1>0. ChanTypes /\ \A g \in Ends : ServedInTurn(g) /\ Acked(g)
  BY Zenon DEF ChanInv
<1>1. \A g \in Ends : /\ inbox[g] \in Seq(Events)
                      /\ sent[g] \in Seq(DataChannelReliability) /\ Len(sent[g]) \in Nat
  BY Zenon, <1>0, EmptyFacts DEF ChanTypes
<1>2. ASSUME NEW g \in Ends
      PROVE  inbox'[g] \in Seq(Events) /\ InQ(inbox'[g]) \subseteq InQ(inbox[g]) \cup Unrelated
  <2> DEFINE q == inbox[g]
  <2>1. q \in Seq(Events)
    BY Zenon, <1>1
  <2> HIDE DEF q
  <2>2. \A n \in Notifications :
           /\ Append(q, Note(n)) \in Seq(Events)
           /\ InQ(Append(q, Note(n))) \subseteq InQ(q) \cup Unrelated
    BY Zenon, <2>1, NoteFacts, QueuedUnrelated
  <2>3. q # <<>> => Tail(q) \in Seq(Events) /\ InQ(Tail(q)) \subseteq InQ(q)
    BY Zenon, <2>1, TailFacts, InQFacts
  <2>4. <<>> \in Seq(Events) /\ InQ(<<>>) = {}
    BY Zenon, <2>1, EmptyFacts, InQFacts
  <2>5. \/ inbox'[g] = q \/ inbox'[g] = <<>>
        \/ \E n \in Notifications : inbox'[g] = Append(q, Note(n))
        \/ q # <<>> /\ inbox'[g] = Tail(q)
    BY Zenon DEF q
  <2>6. inbox'[g] \in Seq(Events) /\ InQ(inbox'[g]) \subseteq InQ(q) \cup Unrelated
    BY Zenon, <2>1, <2>2, <2>3, <2>4, <2>5
  <2> QED BY Zenon, <2>6 DEF q
<1>3. \A g \in Ends : /\ RecvLocked(g)' <=> RecvLocked(g)
                      /\ Handing(g)' = Handing(g) /\ Last(g)' = Last(g)
                      /\ AllReliable(g)' <=> AllReliable(g)
  BY Zenon DEF RecvLocked, Handing, Last, AllReliable
<1>4. ASSUME NEW g \in Ends, AllReliable(Peer(g))
      PROVE  Queued(msgs[g], Handing(g), inbox'[g], Last(Peer(g)))
  <2> DEFINE top == Last(Peer(g))
             n == Len(sent[Peer(g)])
  <2>1. Queued(msgs[g], Handing(g), inbox[g], top) /\ n \in Nat /\ top = [type |-> "user", n |-> n]
    BY Zenon, <1>0, <1>1, <1>4, PeerFacts DEF ServedInTurn, Last
  <2> HIDE DEF top, n
  <2>2. n <= n
    BY <2>1
  <2>3. ASSUME NEW m \in Notifications, inbox'[g] = Append(inbox[g], Note(m))
        PROVE  Queued(msgs[g], Handing(g), inbox'[g], top)
    <3>1. Note(m) \in Events /\ Body(Note(m)).type # "user"
      BY Zenon, NoteFacts
    <3>2. inbox[g] \in Seq(Events)
      BY Zenon, <1>1
    <3> QED BY SMT, <2>1, <2>2, <2>3, <3>1, <3>2, QueuedGrows
  <2>4. CASE inbox[g] # <<>> /\ inbox'[g] = Tail(inbox[g])
    <3> DEFINE q == inbox[g]
               ms == msgs[g]
               ws == Handing(g)
    <3>1. q \in Seq(Events) /\ q # <<>> /\ Queued(ms, ws, q, top)
      BY Zenon, <1>1, <2>1, <2>4
    <3> HIDE DEF q, ms, ws
    <3>2. Queued(ms, ws, Tail(q), top)
      BY Zenon, <3>1, QueuedSkips
    <3> QED BY Zenon, <2>4, <3>2 DEF q, ms, ws, top
  <2>5. CASE inbox'[g] = <<>>
    <3> DEFINE q == inbox[g]
               ms == msgs[g]
               ws == Handing(g)
    <3>1. Queued(ms, ws, q, top) /\ ws \subseteq ws
      BY Zenon, <2>1
    <3> HIDE DEF q, ms, ws
    <3>2. Queued(ms, ws, <<>>, top)
      BY Zenon, <3>1, QueuedWaits
    <3> QED BY Zenon, <2>5, <3>2 DEF ms, ws, top
  <2> QED BY Zenon, <2>1, <2>3, <2>4, <2>5 DEF top
<1>5. \A g \in Ends : ServedInTurn(g)'
  <2> SUFFICES ASSUME NEW g \in Ends, AllReliable(Peer(g))'
               PROVE  Queued(msgs[g], Handing(g)', inbox'[g], Last(Peer(g))')
    BY Zenon DEF ServedInTurn
  <2>1. Peer(g) \in Ends
    BY Zenon, PeerFacts
  <2>2. AllReliable(Peer(g)) /\ Last(Peer(g))' = Last(Peer(g)) /\ Handing(g)' = Handing(g)
    BY Zenon, <1>3, <2>1
  <2> QED BY Zenon, <1>4, <2>2
<1>6. \A g \in Ends : Coming(g)' \subseteq Coming(g) \cup Unrelated
  BY Zenon, <1>2, <1>3 DEF Coming
<1>7. \A g \in Ends : Acked(g)'
  BY Zenon, <1>0, <1>6, AckedSame, PeerFacts
<1>8. ChanTypes'
  <2>1. inbox' \in [Ends -> Seq(Events)]
    BY Zenon, <1>2
  <2> QED BY Zenon, <1>0, <2>1 DEF ChanTypes
<1> QED BY Zenon, <1>5, <1>7, <1>8 DEF ChanInv

LEMMA SocketStepAgrees ==
  ASSUME ChanInv, NEW e \in Ends, UNCHANGED dcVars,
         \/ s_acquire_global_init(e) \/ usrsctp_init(e) \/ UsrsctpSocket(e)
         \/ listen(e) \/ connect(e) \/ StateAfterIssue(e) \/ SocketClose(e)
         \/ RecvNotification(e) \/ AssocFails(e) \/ AssocOther(e) \/ AssocUp \/ AssocEnds
  PROVE  ChanInv'
<1>0. /\ inbox \in [Ends -> Seq(Events)] /\ UNCHANGED <<msgs, sent, dcSetup, wk>>
      /\ \A g \in Ends : DOMAIN ch'[g] = DOMAIN ch[g] /\ ch'[g].cfg = ch[g].cfg
  BY Zenon DEF ChanInv, ChanTypes, dcVars, s_acquire_global_init, usrsctp_init, UsrsctpSocket,
        listen, connect, StateAfterIssue, SocketClose, RecvNotification, AssocFails, AssocOther,
        AssocUp, AssocEnds
<1>1. CASE UNCHANGED inbox
  BY Zenon, <1>0, <1>1, LibraryKeeps
<1>2. CASE RecvNotification(e)
  <2>1. inbox[e] # <<>> /\ inbox' = [inbox EXCEPT ![e] = Tail(inbox[e])]
    BY Zenon, <1>2 DEF RecvNotification
  <2>2. \A g \in Ends : inbox'[g] = inbox[g] \/ (inbox[g] # <<>> /\ inbox'[g] = Tail(inbox[g]))
    BY Zenon, <1>0, <2>1
  <2>3. DOMAIN inbox' = Ends /\ inbox' = [g \in Ends |-> inbox'[g]]
    BY Zenon, <1>0, <2>1
  <2> QED BY Zenon, <1>0, <2>2, <2>3, LibraryKeeps
<1>3. ASSUME NEW es, NEW n \in Notifications, Notify(es, n)
      PROVE  ChanInv'
  <2>1. \A g \in Ends : inbox'[g] = inbox[g] \/ inbox'[g] = Append(inbox[g], Note(n))
    BY Zenon, <1>0, <1>3 DEF Notify
  <2>2. DOMAIN inbox' = Ends /\ inbox' = [g \in Ends |-> inbox'[g]]
    BY Zenon, <1>0, <1>3 DEF Notify
  <2> QED BY Zenon, <1>0, <2>1, <2>2, LibraryKeeps
<1>4. \/ UNCHANGED inbox \/ RecvNotification(e)
      \/ \E es, n : n \in Notifications /\ Notify(es, n)
  <2>1. {"COMM_UP", "CANT_STR_ASSOC", "COMM_LOST", "SHUTDOWN_COMP", "RESTART", "PEER_ADDR_CHANGE"}
           = Notifications
    BY Zenon DEF Notifications
  <2> QED BY Zenon, <2>1 DEF s_acquire_global_init, usrsctp_init, UsrsctpSocket,
        listen, connect, StateAfterIssue, SocketClose, AssocFails, AssocOther, AssocUp, AssocEnds
<1> QED BY Zenon, <1>1, <1>2, <1>3, <1>4

\* open() and close() of a channel leave its configuration alone.
LEMMA ChannelStepAgrees ==
  ASSUME ChanInv, SctpTypes, NEW e \in Ends,
         ChOpen(e) \/ ChOpenLegacy(e) \/ ChClose(e) \/ ChClosePpid(e) \/ ChCloseSocket(e)
  PROVE  ChanInv'
<1>0. /\ inbox \in [Ends -> Seq(Events)] /\ UNCHANGED <<msgs, sent, dcSetup, wk>>
      /\ DOMAIN ch = Ends /\ \A g \in Ends : "cfg" \in DOMAIN ch[g]
  BY Zenon DEF ChanInv, ChanTypes, SctpTypes, dcVars, ChOpen, ChOpenLegacy, ChClose,
               ChClosePpid, ChCloseSocket
<1>1. \A g \in Ends : DOMAIN ch'[g] = DOMAIN ch[g] /\ ch'[g].cfg = ch[g].cfg
  <2>1. CASE UNCHANGED ch
    BY Zenon, <2>1
  <2>2. CASE ChOpenLegacy(e)
    BY Zenon, <1>0, <2>2 DEF ChOpenLegacy
  <2>3. CASE ChCloseSocket(e)
    BY Zenon, <1>0, <2>3 DEF ChCloseSocket
  <2> QED BY Zenon, <2>1, <2>2, <2>3 DEF ChOpen, ChClose, ChClosePpid, dcVars
<1>2. CASE UNCHANGED inbox
  BY Zenon, <1>0, <1>1, <1>2, LibraryKeeps
<1>3. CASE ChCloseSocket(e)
  <2>1. inbox' = [inbox EXCEPT ![e] = <<>>,
                    ![Peer(e)] = IF assoc[Peer(e)] = "up" THEN Append(@, Note("SHUTDOWN_COMP")) ELSE @]
    BY Zenon, <1>3 DEF ChCloseSocket, DestroySocket
  <2>2. "SHUTDOWN_COMP" \in Notifications
    BY Zenon DEF Notifications
  <2>3. DOMAIN inbox' = Ends /\ inbox' = [g \in Ends |-> inbox'[g]]
    BY Zenon, <1>0, <2>1
  <2>4. \A g \in Ends : \/ inbox'[g] = inbox[g] \/ inbox'[g] = <<>>
                        \/ inbox'[g] = Append(inbox[g], Note("SHUTDOWN_COMP"))
    BY Zenon, <1>0, <2>1, PeerFacts
  <2> QED BY Zenon, <1>0, <1>1, <2>2, <2>3, <2>4, LibraryKeeps
<1> QED BY Zenon, <1>2, <1>3 DEF ChOpen, ChOpenLegacy, ChClose, ChClosePpid

\* open(cfg) at an end that has a configuration of its own.
LEMMA OpenCfgAgrees ==
  ASSUME ChanInv, SctpTypes, NEW e \in Ends, ChOpenCfg(e)
  PROVE  ChanInv'
<1>0. ChanTypes /\ (\A g \in Ends : ServedInTurn(g) /\ Acked(g)) /\ DOMAIN ch = Ends
  BY Zenon DEF ChanInv, SctpTypes
<1>1. /\ UNCHANGED <<inbox, wk, msgs, sent, dcSetup>> /\ e \in dcSetup.configures
      /\ ch' = [ch EXCEPT ![e].cfg = dcSetup.cfg[e]]
  BY Zenon DEF ChOpenCfg, sctpVars
<1>2. dcSetup.cfg[e] \in DataChannelConfig
  BY ZenonT(30), <1>0, DcAssumption DEF ChanTypes, DcAssumption
<1>3. /\ DOMAIN ch'[e] = DOMAIN ch[e] /\ ch'[e].cfg = dcSetup.cfg[e]
      /\ \A g \in Ends : g # e => ch'[g] = ch[g]
  BY Zenon, <1>0, <1>1 DEF ChanTypes
<1>4. ChanTypes'
  BY Zenon, <1>0, <1>1, <1>2, <1>3 DEF ChanTypes
<1>5. \A g \in Ends : ServedInTurn(g)'
  BY Zenon, <1>0, <1>1 DEF ServedInTurn, AllReliable, Handing, RecvLocked, Last
<1>6. ASSUME NEW g \in Ends PROVE Acked(g)'
  <2>1. \A h \in Ends : Coming(h)' = Coming(h)
    BY Zenon, <1>1 DEF Coming, RecvLocked
  <2>2. CASE Peer(g) = e
    BY Zenon, <1>1, <2>2 DEF Acked
  <2>3. CASE Peer(g) # e
    BY ZenonT(30), <1>0, <1>1, <1>3, <2>1, <2>3, AckedSame, PeerFacts
  <2> QED BY Zenon, <2>2, <2>3
<1> QED BY Zenon, <1>4, <1>5, <1>6 DEF ChanInv

\* The worker takes a payload off an inbox.
LEMMA TakeAgrees ==
  ASSUME ChanInv, NEW e \in Ends, s_instance_recv_cb(e), UNCHANGED dcVars
  PROVE  ChanInv'
<1> DEFINE q == inbox[e]
<1>0. /\ ChanTypes /\ (\A g \in Ends : ServedInTurn(g) /\ Acked(g))
      /\ UNCHANGED <<ch, msgs, sent, dcSetup>> /\ q \in Seq(Events) /\ q # <<>>
  BY Zenon DEF ChanInv, ChanTypes, dcVars, s_instance_recv_cb
<1>1. /\ wk = Idle /\ inbox' = [inbox EXCEPT ![e] = Tail(q)] /\ Head(q).kind = "data"
      /\ wk' = [stage |-> "legacy", e |-> e, ev |-> Head(q), run |-> sk[e].on_recv]
  BY Zenon DEF s_instance_recv_cb
<1>2. wk.stage = "idle" /\ wk'.stage = "legacy" /\ wk'.e = e /\ wk'.ev = Head(q)
  BY Zenon, <1>1 DEF Idle
<1>3. /\ \A g \in Ends : ~RecvLocked(g) /\ (RecvLocked(g)' <=> g = e)
      /\ \A g \in Ends : g # e => inbox'[g] = inbox[g]
      /\ inbox'[e] = Tail(q)
  BY Zenon, <1>0, <1>1, <1>2 DEF RecvLocked, ChanTypes
<1>4. /\ Tail(q) \in Seq(Events) /\ InQ(Tail(q)) \subseteq InQ(q)
      /\ Head(q) \in Events /\ Head(q) \in InQ(q)
  BY Zenon, <1>0, TailFacts, InQFacts
<1>5. ChanTypes'
  <2>1. inbox' \in [Ends -> Seq(Events)]
    BY Zenon, <1>0, <1>1, <1>4 DEF ChanTypes
  <2> QED BY Zenon, <1>0, <1>1, <1>2, <1>4, <2>1 DEF ChanTypes
<1>6. \A g \in Ends : Coming(g)' \subseteq Coming(g)
  BY Zenon, <1>2, <1>3, <1>4 DEF Coming
<1>7. \A g \in Ends : Acked(g)'
  BY Zenon, <1>0, <1>2, <1>6, AckedSame, PeerFacts
<1>8. ASSUME NEW g \in Ends, AllReliable(Peer(g))
      PROVE  Queued(msgs[g], Handing(g)', inbox'[g], Last(Peer(g)))
  <2> DEFINE top == Last(Peer(g))
             ms == msgs[g]
  <2>1. Queued(ms, {}, inbox[g], top)
    BY Zenon, <1>0, <1>3, <1>8 DEF ServedInTurn, Handing
  <2>2. CASE g # e
    BY Zenon, <1>3, <2>1, <2>2 DEF Handing
  <2>3. CASE g = e
    <3>1. Handing(g)' = {Body(Head(q))}
      BY Zenon, <1>1, <1>2, <1>3, <2>3 DEF Handing, Body
    <3>2. Queued(ms, {}, q, top)
      BY Zenon, <2>1, <2>3
    <3> HIDE DEF q, ms, top
    <3>3. Queued(ms, {Body(Head(q))}, Tail(q), top)
      BY Zenon, <1>0, <3>2, QueuedTakes
    <3> QED BY Zenon, <1>3, <2>3, <3>1, <3>3 DEF ms, top
  <2> QED BY Zenon, <2>2, <2>3
<1>9. \A g \in Ends : ServedInTurn(g)'
  BY Zenon, <1>0, <1>8 DEF ServedInTurn, AllReliable, Last
<1> QED BY Zenon, <1>5, <1>7, <1>9 DEF ChanInv

-----------------------------------------------------------------------------
(* Sending. *)

LEMMA MessageFacts ==
  /\ \A p, b : /\ Body(Data(p, b)) = b /\ Data(p, b).kind = "data"
               /\ Data(p, b).ppid = p /\ Data(p, b).body = b
  /\ \A b \in DcPayloads, p \in {0, kPpidBinary} : Data(p, b) \in Unrelated /\ Data(p, b) \in Events
  /\ \A c \in DataChannelConfig : /\ dcep_encode_open(c) \in Openings
                                  /\ dcep_encode_open(c).type = "open"
                                  /\ Data(kPpidDcep, dcep_encode_open(c)) \in Events
  /\ Data(kPpidDcep, kDcepAck) \in Events /\ kDcepAck.type = "ack"
<1>1. \A p, b : /\ Body(Data(p, b)) = b /\ Data(p, b).kind = "data"
                /\ Data(p, b).ppid = p /\ Data(p, b).body = b
  BY Zenon DEF Body, Data
<1>2. ASSUME NEW b \in DcPayloads, NEW p \in {0, kPpidBinary}
      PROVE  Data(p, b) \in Unrelated /\ Data(p, b) \in Events
  <2>1. Data(p, b) \in Events
    BY SMT DEF Events
  <2>2. p # kPpidDcep
    BY SMT DEF kPpidBinary, kPpidDcep
  <2> QED BY Zenon, <1>1, <2>1, <2>2 DEF Unrelated
<1>3. ASSUME NEW c \in DataChannelConfig
      PROVE  /\ dcep_encode_open(c) \in Openings /\ dcep_encode_open(c).type = "open"
             /\ Data(kPpidDcep, dcep_encode_open(c)) \in Events
  <2>1. dcep_encode_open(c) \in Openings
    BY Zenon DEF Openings
  <2>2. dcep_encode_open(c).type = "open"
    BY Zenon DEF dcep_encode_open
  <2>3. Data(kPpidDcep, dcep_encode_open(c)) \in Events
    BY SMT, <2>1 DEF Events
  <2> QED BY Zenon, <2>1, <2>2, <2>3
<1>4. Data(kPpidDcep, kDcepAck) \in Events /\ kDcepAck.type = "ack"
  <2>1. Data(kPpidDcep, kDcepAck) \in Events
    BY SMT DEF Events
  <2> QED BY Zenon, <2>1 DEF kDcepAck
<1> QED BY Zenon, <1>1, <1>2, <1>3, <1>4

\* What a send may put on its way: behind the rest when it is reliable, with
\* the number that send() counts.
SentInTurn(q, r, x, told) ==
    r = Append(q, x) /\ (Body(x).type = "user" => Body(x) = [type |-> "user", n |-> told])

Passed(e, r, x) ==
    LET q == inbox[Peer(e)] IN
    \/ sent' = sent /\ (r = q \/ (SentInTurn(q, r, x, 0) /\ Body(x).type # "user"))
    \/ \E k \in DataChannelReliability :
          /\ sent' = [sent EXCEPT ![e] = Append(@, k)]
          /\ k = "kReliableOrdered" => SentInTurn(q, r, x, Len(sent[e]) + 1)

LEMMA SendServes ==
  ASSUME ChanInv, NEW e \in Ends, NEW r, NEW x \in Events, DOMAIN inbox' = Ends,
         inbox' = [inbox EXCEPT ![Peer(e)] = r], msgs' = msgs,
         \A g \in Ends : Handing(g)' \subseteq Handing(g),
         Passed(e, r, x)
  PROVE  \A g \in Ends : ServedInTurn(g)'
<1>0. /\ ChanTypes /\ (\A g \in Ends : ServedInTurn(g))
      /\ inbox \in [Ends -> Seq(Events)] /\ sent \in [Ends -> Seq(DataChannelReliability)]
  BY Zenon DEF ChanInv, ChanTypes
<1> SUFFICES ASSUME NEW g \in Ends, AllReliable(Peer(g))'
             PROVE  Queued(msgs[g], Handing(g)', inbox'[g], Last(Peer(g))')
  BY Zenon DEF ServedInTurn
<1> DEFINE p == Peer(g)
           ms == msgs[g]
           ws == Handing(g)
           vs == Handing(g)'
<1>1. p \in Ends /\ g = Peer(p) /\ (g = Peer(e) <=> p = e)
  BY Zenon, PeerFacts
<1>2. sent[p] \in Seq(DataChannelReliability) /\ Len(sent[p]) \in Nat /\ vs \subseteq ws
  BY Zenon, <1>0, <1>1, EmptyFacts
<1>3. ASSUME AllReliable(p), sent'[p] = sent[p], inbox'[g] = inbox[g]
      PROVE  Queued(ms, vs, inbox'[g], Last(p)')
  <2>1. Last(p)' = Last(p)
    BY Zenon, <1>3 DEF Last
  <2>2. Queued(ms, ws, inbox[g], Last(p))
    BY Zenon, <1>0, <1>3 DEF ServedInTurn
  <2> HIDE DEF ms, ws, vs, p
  <2>3. Queued(ms, vs, inbox[g], Last(p))
    BY Zenon, <1>2, <2>2, QueuedWaits
  <2> QED BY Zenon, <1>3, <2>1, <2>3
<1>4. CASE p # e
  <2>1. sent'[p] = sent[p] /\ inbox'[g] = inbox[g]
    BY Zenon, <1>0, <1>1, <1>4 DEF Passed
  <2>2. AllReliable(p)
    BY Zenon, <2>1 DEF AllReliable
  <2> QED BY Zenon, <1>3, <2>1, <2>2
<1>5. CASE /\ p = e /\ sent' = sent
           /\ \/ r = inbox[Peer(e)]
              \/ SentInTurn(inbox[Peer(e)], r, x, 0) /\ Body(x).type # "user"
  <2>1. AllReliable(p)
    BY Zenon, <1>5 DEF AllReliable
  <2>2. g = Peer(e) /\ inbox'[g] = r
    BY Zenon, <1>0, <1>1, <1>5
  <2>3. CASE r = inbox[g]
    BY Zenon, <1>3, <1>5, <2>1, <2>2, <2>3
  <2>4. CASE r = Append(inbox[g], x) /\ Body(x).type # "user"
    <3> DEFINE n == Len(sent[p])
               q == inbox[g]
               top == Last(p)
    <3>1. q \in Seq(Events) /\ Queued(ms, ws, q, top) /\ n \in Nat /\ top = [type |-> "user", n |-> n]
      BY Zenon, <1>0, <1>1, <1>2, <2>1 DEF ServedInTurn, Last
    <3>2. Last(p)' = top
      BY Zenon, <1>5 DEF Last
    <3> HIDE DEF n, q, top, ms, ws, vs
    <3>3. n <= n
      BY <3>1
    <3>4. Queued(ms, ws, Append(q, x), top)
      BY SMT, <2>4, <3>1, <3>3, QueuedGrows
    <3>5. Queued(ms, vs, Append(q, x), top)
      BY Zenon, <1>2, <3>4, QueuedWaits
    <3>6. Queued(ms, vs, inbox'[g], Last(p)')
      BY Zenon, <2>2, <2>4, <3>2, <3>5 DEF q
    <3> QED BY Zenon, <3>6 DEF ms, vs
  <2> QED BY Zenon, <1>5, <2>2, <2>3, <2>4 DEF SentInTurn
<1>6. ASSUME p = e, NEW k \in DataChannelReliability, sent' = [sent EXCEPT ![e] = Append(@, k)],
             k = "kReliableOrdered" => SentInTurn(inbox[Peer(e)], r, x, Len(sent[e]) + 1)
      PROVE  Queued(ms, vs, inbox'[g], Last(p)')
  <2> DEFINE n == Len(sent[p])
             q == inbox[g]
             top == Last(p)
  <2>1. sent'[p] = Append(sent[p], k) /\ g = Peer(e) /\ inbox'[g] = r
    BY Zenon, <1>0, <1>1, <1>6
  <2>2. k = "kReliableOrdered" /\ AllReliable(p) /\ Last(p)' = [type |-> "user", n |-> n + 1]
    <3>1. /\ Len(sent'[p]) = n + 1 /\ n + 1 \in 1..(n + 1) /\ sent'[p][n + 1] = k
          /\ \A i \in 1..n : i \in 1..(n + 1) /\ sent'[p][i] = sent[p][i]
      BY SMTT(20), <1>2, <2>1
    <3>2. \A i \in 1..(n + 1) : sent'[p][i] = "kReliableOrdered"
      BY Zenon, <3>1 DEF AllReliable
    <3>3. AllReliable(p)
      BY SMTT(20), <3>1, <3>2 DEF AllReliable
    <3> QED BY Zenon, <3>1, <3>2, <3>3 DEF Last
  <2>3. r = Append(q, x) /\ (Body(x).type = "user" => Body(x) = [type |-> "user", n |-> n + 1])
    BY Zenon, <1>6, <2>1, <2>2 DEF SentInTurn
  <2>4. q \in Seq(Events) /\ Queued(ms, ws, q, top) /\ n \in Nat /\ top = [type |-> "user", n |-> n]
    BY Zenon, <1>0, <1>1, <1>2, <2>2 DEF ServedInTurn, Last
  <2> HIDE DEF n, q, top, ms, ws, vs, p
  <2>5. n <= n + 1 /\ n < n + 1 /\ n + 1 \in Nat
    BY SMTT(20), <2>4
  <2>6. Queued(ms, ws, Append(q, x), [type |-> "user", n |-> n + 1])
    BY SMTT(20), <2>3, <2>4, <2>5, QueuedGrows
  <2>7. Queued(ms, vs, Append(q, x), [type |-> "user", n |-> n + 1])
    BY Zenon, <1>2, <2>6, QueuedWaits
  <2> QED BY Zenon, <2>1, <2>2, <2>3, <2>7
<1> QED BY Zenon, <1>4, <1>5, <1>6 DEF Passed

LEMMA SendvFacts ==
  ASSUME ChanInv, NEW e \in Ends, NEW x \in Events, NEW unordered \in BOOLEAN, NEW lossy \in BOOLEAN,
         Sendv(e, x, unordered, lossy)
  PROVE  \E r \in Seq(Events) : /\ inbox' = [inbox EXCEPT ![Peer(e)] = r]
                                /\ InQ(r) \subseteq InQ(inbox[Peer(e)]) \cup {x}
                                /\ ~unordered /\ ~lossy => r = Append(inbox[Peer(e)], x)
<1> DEFINE q == inbox[Peer(e)]
<1>1. q \in Seq(Events)
  BY Zenon, PeerFacts DEF ChanInv, ChanTypes
<1>2. PICK r \in Arrives(q, x, unordered) \cup (IF lossy THEN {q} ELSE {}) :
         inbox' = [inbox EXCEPT ![Peer(e)] = r]
  BY Zenon DEF Sendv
<1> HIDE DEF q
<1>3. CASE r \in Arrives(q, x, unordered)
  <2>1. r \in Seq(Events) /\ InQ(r) \subseteq InQ(q) \cup {x} /\ (~unordered => r = Append(q, x))
    BY SMT, <1>1, <1>3, ArrivesFacts
  <2> QED BY Zenon, <1>2, <2>1 DEF q
<1>4. CASE lossy /\ r = q
  BY Zenon, <1>1, <1>2, <1>4 DEF q
<1> QED BY Zenon, <1>2, <1>3, <1>4

\* A send of the engine thread.
LEMMA SendAgrees ==
  ASSUME ChanInv, NEW e \in Ends, NEW x \in Events, NEW r \in Seq(Events),
         inbox' = [inbox EXCEPT ![Peer(e)] = r], InQ(r) \subseteq InQ(inbox[Peer(e)]) \cup {x},
         UNCHANGED <<wk, msgs, dcSetup>>, Passed(e, r, x),
         sent' \in [Ends -> Seq(DataChannelReliability)],
         \A g \in Ends : DOMAIN ch'[g] = DOMAIN ch[g] /\ ch'[g].cfg = ch[g].cfg,
         x \in Unrelated \/ (e \in dcSetup.openers /\ x.body = Announced(e))
  PROVE  ChanInv'
<1>0. /\ ChanTypes /\ (\A g \in Ends : ServedInTurn(g) /\ Acked(g)) /\ inbox \in [Ends -> Seq(Events)]
  BY Zenon DEF ChanInv, ChanTypes
<1>1. inbox' \in [Ends -> Seq(Events)] /\ DOMAIN inbox' = Ends
  BY Zenon, <1>0
<1>2. ChanTypes'
  BY Zenon, <1>0, <1>1 DEF ChanTypes
<1>3. \A g \in Ends : Handing(g)' \subseteq Handing(g)
  BY Zenon DEF Handing, RecvLocked
<1>4. \A g \in Ends : ServedInTurn(g)'
  BY Zenon, <1>1, <1>3, SendServes
<1>5. Coming(Peer(e))' \subseteq Coming(Peer(e)) \cup {x} /\ Coming(e)' = Coming(e)
  BY Zenon, <1>0, PeerFacts DEF Coming, RecvLocked
<1>6. ASSUME NEW g \in Ends PROVE Acked(g)'
  <2>1. CASE x \in Unrelated
    <3>1. \A h \in Ends : Coming(h)' \subseteq Coming(h) \cup Unrelated
      BY ZenonT(30), <1>5, <2>1, PeerFacts
    <3> QED BY Zenon, <1>0, <3>1, AckedSame, PeerFacts
  <2>2. CASE e \in dcSetup.openers /\ x.body = Announced(e)
    <3>1. Announced(g)' = Announced(g) /\ Adopted(g)' = Adopted(g)
      BY Zenon DEF Announced, Adopted
    <3>2. CASE g = e
      <4> SUFFICES ASSUME dcSetup.openers = {e}, Peer(e) \notin dcSetup.configures
                   PROVE  Acked(e)'
        BY Zenon, <3>2 DEF Acked
      <4> DEFINE f == Peer(e)
      <4>1. /\ \A y \in Coming(f) : y \in Unrelated \/ y.body = Announced(e)
            /\ \A y \in Coming(e) : y \in Unrelated \/ (y.body = kDcepAck /\ ch[f].cfg = Adopted(e))
            /\ wk.stage = "adopt" => /\ wk.e = f /\ ch[f].cfg.label = Adopted(e).label
                                     /\ ch[f].cfg.reliability = Adopted(e).reliability
        BY Zenon, <1>0 DEF Acked
      <4>2. ch'[f].cfg = ch[f].cfg /\ wk' = wk
        BY Zenon, PeerFacts
      <4>3. \A y \in Coming(f)' : y \in Unrelated \/ y.body = Announced(e)
        BY Zenon, <1>5, <2>2, <4>1
      <4> QED BY Zenon, <1>5, <3>1, <3>2, <4>1, <4>2, <4>3 DEF Acked
    <3>3. CASE g # e
      BY Zenon, <2>2, <3>3 DEF Acked
    <3> QED BY Zenon, <3>2, <3>3
  <2> QED BY Zenon, <2>1, <2>2
<1> QED BY Zenon, <1>2, <1>4, <1>6 DEF ChanInv

\* A send that is refused changes what the user is told at most.
LEMMA RefusedAgrees ==
  ASSUME ChanInv, SctpTypes, NEW e \in Ends, UNCHANGED <<inbox, wk, msgs, sent, dcSetup>>,
         NEW s, ch' = ch \/ ch' = [ch EXCEPT ![e].on_state = s]
  PROVE  ChanInv'
<1>1. inbox \in [Ends -> Seq(Events)] /\ DOMAIN ch = Ends /\ \A g \in Ends : "cfg" \in DOMAIN ch[g]
  BY Zenon DEF ChanInv, ChanTypes, SctpTypes
<1>2. \A g \in Ends : DOMAIN ch'[g] = DOMAIN ch[g] /\ ch'[g].cfg = ch[g].cfg
  BY ZenonT(30), <1>1
<1> QED BY Zenon, <1>1, <1>2, LibraryKeeps

LEMMA CountsFacts ==
  ASSUME ChanTypes, NEW e \in Ends, NEW k \in DataChannelReliability,
         sent' = [sent EXCEPT ![e] = Append(@, k)]
  PROVE  /\ sent' \in [Ends -> Seq(DataChannelReliability)] /\ Len(sent[e]) + 1 \in Nat
         /\ [type |-> "user", n |-> Len(sent[e]) + 1] \in DcPayloads
         /\ [type |-> "plain", n |-> Len(sent[e]) + 1] \in DcPayloads
<1>1. sent \in [Ends -> Seq(DataChannelReliability)] /\ sent[e] \in Seq(DataChannelReliability)
  BY Zenon DEF ChanTypes
<1>2. Len(sent[e]) + 1 \in Nat /\ Append(sent[e], k) \in Seq(DataChannelReliability)
  BY SMT, <1>1
<1>3. sent' \in [Ends -> Seq(DataChannelReliability)]
  BY Zenon, <1>1, <1>2
<1> QED BY Zenon, <1>2, <1>3 DEF DcPayloads

LEMMA ChSendAgrees ==
  ASSUME ChanInv, SctpTypes, NEW e \in Ends, ChSend(e)
  PROVE  ChanInv'
<1> DEFINE m == [type |-> "user", n |-> Len(sent[e]) + 1]
           k == ch[e].cfg.reliability
           x == Data(kPpidBinary, m)
<1>0. /\ ChanTypes /\ UNCHANGED <<wk, msgs, dcSetup>> /\ k \in DataChannelReliability
  BY Zenon DEF ChanInv, ChanTypes, ChSend, DataChannelConfig
<1>1. PICK ok \in BOOLEAN :
         /\ route_send(e, m, ok)
         /\ sent' = IF ok THEN [sent EXCEPT ![e] = Append(@, k)] ELSE sent
         /\ ch' = IF ok THEN ch ELSE [ch EXCEPT ![e].on_state = OnState(e, "error")]
  BY Zenon DEF ChSend
<1>2. CASE ~ok
  <2>1. UNCHANGED inbox
    BY Zenon, <1>1, <1>2 DEF route_send, send_stream_with_ppid, send_datagram_with_ppid,
                             send_partial_reliable_with_ppid
  <2> QED BY Zenon, <1>0, <1>1, <1>2, <2>1, RefusedAgrees
<1>3. CASE ok
  <2>1. \E u, l \in BOOLEAN : Sendv(e, x, u, l) /\ (k = "kReliableOrdered" => ~u /\ ~l)
    <3>1. CASE k = "kReliableOrdered"
      BY Zenon, <1>1, <1>3, <3>1 DEF route_send, send_stream_with_ppid, dcep_ppid_for_config
    <3>2. CASE k = "kUnreliable"
      BY Zenon, <1>1, <1>3, <3>2 DEF route_send, send_datagram_with_ppid, dcep_ppid_for_config
    <3>3. CASE k # "kReliableOrdered" /\ k # "kUnreliable"
      <4>1. Sendv(e, x, Unordered(ch[e].cfg), TRUE)
        BY Zenon, <1>1, <1>3, <3>3 DEF route_send, send_partial_reliable_with_ppid, dcep_ppid_for_config
      <4>2. Unordered(ch[e].cfg) \in BOOLEAN
        BY Zenon DEF Unordered
      <4> QED BY Zenon, <3>3, <4>1, <4>2
    <3> QED BY Zenon, <3>1, <3>2, <3>3
  <2>2. PICK u \in BOOLEAN, l \in BOOLEAN : Sendv(e, x, u, l) /\ (k = "kReliableOrdered" => ~u /\ ~l)
    BY Zenon, <2>1
  <2>3. sent' = [sent EXCEPT ![e] = Append(@, k)] /\ ch' = ch
    BY Zenon, <1>1, <1>3
  <2>4. sent' \in [Ends -> Seq(DataChannelReliability)] /\ m \in DcPayloads
    BY Zenon, <1>0, <2>3, CountsFacts
  <2>5. x \in Events /\ x \in Unrelated /\ Body(x) = m
    BY Zenon, <2>4, MessageFacts
  <2> HIDE DEF x, k
  <2>6. PICK r \in Seq(Events) : /\ inbox' = [inbox EXCEPT ![Peer(e)] = r]
                                 /\ InQ(r) \subseteq InQ(inbox[Peer(e)]) \cup {x}
                                 /\ ~u /\ ~l => r = Append(inbox[Peer(e)], x)
    BY ONLY SMTT(20), ChanInv, e \in Ends, u \in BOOLEAN, l \in BOOLEAN, <2>2, <2>5, SendvFacts
  <2>7. Passed(e, r, x)
    BY Zenon, <1>0, <2>2, <2>3, <2>5, <2>6 DEF Passed, SentInTurn
  <2>8. \A g \in Ends : DOMAIN ch'[g] = DOMAIN ch[g] /\ ch'[g].cfg = ch[g].cfg
    BY Zenon, <2>3
  <2> QED BY Zenon, <1>0, <2>4, <2>5, <2>6, <2>7, <2>8, SendAgrees
<1> QED BY Zenon, <1>2, <1>3

LEMMA PlainSendAgrees ==
  ASSUME ChanInv, SctpTypes, NEW e \in Ends, PlainSend(e)
  PROVE  ChanInv'
<1> DEFINE m == [type |-> "plain", n |-> Len(sent[e]) + 1]
           x == Data(0, m)
<1>0. ChanTypes /\ UNCHANGED <<wk, msgs, dcSetup, ch>>
  BY Zenon DEF ChanInv, PlainSend
<1>1. PICK k \in {"kReliableOrdered", "kUnreliable", "kPartialReliableTTL"}, ok \in BOOLEAN :
         /\ CASE k = "kReliableOrdered" -> SocketSendStream(e, m, ok)
              [] k = "kUnreliable" -> SocketSendDatagram(e, m, ok)
              [] OTHER -> SocketSendPartialReliable(e, m, ok)
         /\ sent' = IF ok THEN [sent EXCEPT ![e] = Append(@, k)] ELSE sent
  BY Zenon DEF PlainSend
<1>2. CASE ~ok
  <2>1. UNCHANGED inbox
    BY SMT, <1>1, <1>2 DEF SocketSendStream, SocketSendDatagram, SocketSendPartialReliable
  <2> QED BY ZenonT(30), <1>0, <1>1, <1>2, <2>1, RefusedAgrees
<1>3. CASE ok
  <2>1. \E u, l \in BOOLEAN : Sendv(e, x, u, l) /\ (k = "kReliableOrdered" => ~u /\ ~l)
    BY Zenon, <1>1, <1>3 DEF SocketSendStream, SocketSendDatagram, SocketSendPartialReliable
  <2>2. PICK u \in BOOLEAN, l \in BOOLEAN : Sendv(e, x, u, l) /\ (k = "kReliableOrdered" => ~u /\ ~l)
    BY Zenon, <2>1
  <2>3. sent' = [sent EXCEPT ![e] = Append(@, k)] /\ k \in DataChannelReliability
    BY Zenon, <1>1, <1>3 DEF DataChannelReliability
  <2>4. sent' \in [Ends -> Seq(DataChannelReliability)] /\ m \in DcPayloads
    BY Zenon, <1>0, <2>3, CountsFacts
  <2>5. x \in Events /\ x \in Unrelated /\ Body(x) = m
    BY ZenonT(30), <2>4, MessageFacts
  <2>6. Body(x).type # "user"
    BY SMT, <2>5
  <2> HIDE DEF x
  <2>7. PICK r \in Seq(Events) : /\ inbox' = [inbox EXCEPT ![Peer(e)] = r]
                                 /\ InQ(r) \subseteq InQ(inbox[Peer(e)]) \cup {x}
                                 /\ ~u /\ ~l => r = Append(inbox[Peer(e)], x)
    BY ONLY SMTT(20), ChanInv, e \in Ends, u \in BOOLEAN, l \in BOOLEAN, <2>2, <2>5, SendvFacts
  <2>8. Passed(e, r, x)
    BY ZenonT(30), <2>2, <2>3, <2>6, <2>7 DEF Passed, SentInTurn
  <2>9. \A g \in Ends : DOMAIN ch'[g] = DOMAIN ch[g] /\ ch'[g].cfg = ch[g].cfg
    BY Zenon, <1>0
  <2> QED BY ZenonT(30), <1>0, <2>4, <2>5, <2>7, <2>8, <2>9, SendAgrees
<1> QED BY Zenon, <1>2, <1>3

\* The announcement.
LEMMA AnnounceAgrees ==
  ASSUME ChanInv, SctpTypes, NEW e \in Ends, send_dcep_open(e)
  PROVE  ChanInv'
<1> DEFINE b == dcep_encode_open(ch[e].cfg)
           x == Data(kPpidDcep, b)
<1>0. /\ ChanTypes /\ UNCHANGED <<wk, msgs, dcSetup, sent>> /\ e \in dcSetup.openers
      /\ ch[e].cfg = dcSetup.cfg[e] /\ DOMAIN ch = Ends
  BY Zenon DEF ChanInv, SctpTypes, send_dcep_open
<1>1. PICK ok \in BOOLEAN :
         /\ send_stream_with_ppid(e, b, kPpidDcep, ok)
         /\ ch' = IF ok THEN [ch EXCEPT ![e].dcep_open_sent = TRUE]
                  ELSE [ch EXCEPT ![e].on_state = OnState(e, "error")]
  BY Zenon DEF send_dcep_open
<1>2. CASE ~ok
  <2>1. UNCHANGED inbox
    BY Zenon, <1>1, <1>2 DEF send_stream_with_ppid
  <2> QED BY Zenon, <1>0, <1>1, <1>2, <2>1, RefusedAgrees
<1>3. CASE ok
  <2>1. Sendv(e, x, FALSE, FALSE)
    BY Zenon, <1>1, <1>3 DEF send_stream_with_ppid
  <2>2. x \in Events /\ Body(x) = b /\ b.type = "open" /\ x.body = b
    <3>1. ch[e].cfg \in DataChannelConfig
      BY Zenon, <1>0 DEF ChanTypes
    <3> QED BY ONLY ZenonT(30), <3>1, MessageFacts
  <2>3. x.body = Announced(e) /\ Body(x).type # "user"
    BY Zenon, <1>0, <2>2 DEF Announced
  <2>4. \A g \in Ends : DOMAIN ch'[g] = DOMAIN ch[g] /\ ch'[g].cfg = ch[g].cfg
    <3>1. \A g \in Ends : "cfg" \in DOMAIN ch[g]
      BY Zenon, <1>0 DEF ChanTypes
    <3>2. ch' = [ch EXCEPT ![e].dcep_open_sent = TRUE]
      BY Zenon, <1>1, <1>3
    <3> QED BY Zenon, <1>0, <3>1, <3>2
  <2> HIDE DEF x
  <2>5. PICK r \in Seq(Events) : /\ inbox' = [inbox EXCEPT ![Peer(e)] = r]
                                 /\ InQ(r) \subseteq InQ(inbox[Peer(e)]) \cup {x}
                                 /\ r = Append(inbox[Peer(e)], x)
    <3>1. PICK u \in BOOLEAN, l \in BOOLEAN : Sendv(e, x, u, l) /\ ~u /\ ~l
      BY Zenon, <2>1
    <3> QED BY ONLY SMTT(20), ChanInv, e \in Ends, u \in BOOLEAN, l \in BOOLEAN, <3>1, <2>2, SendvFacts
  <2>6. Passed(e, r, x)
    BY Zenon, <1>0, <2>3, <2>5 DEF Passed, SentInTurn
  <2>7. sent' \in [Ends -> Seq(DataChannelReliability)]
    BY Zenon, <1>0 DEF ChanTypes
  <2> QED BY ZenonT(30), <1>0, <2>2, <2>3, <2>4, <2>5, <2>6, <2>7, SendAgrees
<1> QED BY Zenon, <1>2, <1>3

-----------------------------------------------------------------------------
(* The callbacks. *)

LEMMA EventFacts ==
  ASSUME NEW x \in Events, x.kind = "data"
  PROVE  /\ x.body \in Bodies
         /\ x.ppid = kPpidDcep => x \notin Unrelated /\ (x.body = kDcepAck \/ x.body \in Openings)
<1>1. x \notin {Note(n) : n \in Notifications}
  BY SMT DEF Note
<1>2. CASE \E p \in {0, kPpidBinary}, b \in DcPayloads : x = Data(p, b)
  <2>1. PICK p \in {0, kPpidBinary}, b \in DcPayloads : x = Data(p, b)
    BY Zenon, <1>2
  <2>2. p # kPpidDcep
    BY SMT DEF kPpidBinary, kPpidDcep
  <2>3. x.ppid = p /\ x.body = b
    BY ZenonT(30), <2>1, MessageFacts
  <2> QED BY Zenon, <2>2, <2>3 DEF Bodies
<1>3. CASE \E b \in {kDcepAck} \cup Openings : x = Data(kPpidDcep, b)
  <2>1. PICK b \in {kDcepAck} \cup Openings : x = Data(kPpidDcep, b)
    BY Zenon, <1>3
  <2>2. x.ppid = kPpidDcep /\ x.body = b
    BY ZenonT(30), <2>1, MessageFacts
  <2> QED BY Zenon, <2>2 DEF Bodies, Unrelated
<1> QED BY SMTT(20), <1>1, <1>2, <1>3 DEF Events

LEMMA AckFacts ==
  ASSUME NEW x \in Events, x.kind = "data", x.body = kDcepAck
  PROVE  x \notin Unrelated
<1>1. \A b \in DcPayloads : b # kDcepAck
  BY SMT DEF DcPayloads, kDcepAck
<1>2. x.ppid = kPpidDcep
  <2>1. x \notin {Note(n) : n \in Notifications}
    BY SMT DEF Note
  <2>2. \A p, b : Data(p, b).body = b /\ Data(p, b).ppid = p
    BY ZenonT(30), MessageFacts
  <2>3. \A p \in {0, kPpidBinary}, b \in DcPayloads : x # Data(p, b)
    BY SMT, <1>1, <2>2
  <2>4. \E b \in {kDcepAck} \cup Openings : x = Data(kPpidDcep, b)
    BY SMT, <2>1, <2>3 DEF Events
  <2> QED BY Zenon, <2>2, <2>4
<1> QED BY Zenon, <1>2 DEF Unrelated

LEMMA DecodeFacts ==
  ASSUME NEW o \in Openings
  PROVE  dcep_decode_open(o) \in DataChannelConfig
<1>1. PICK c \in DataChannelConfig : o = dcep_encode_open(c)
  BY Zenon DEF Openings
<1>2. /\ c.label \in Labels /\ c.max_retransmits \in uint16_t /\ c.max_packet_lifetime_ms \in uint16_t
  BY Zenon DEF DataChannelConfig
<1>3. 0 \in uint16_t
  BY SMT DEF uint16_t
<1>4. o.label \in Labels /\ o.param \in uint16_t
  BY SMT, <1>1, <1>2, <1>3 DEF dcep_encode_open
<1> QED BY SMT, <1>3, <1>4 DEF dcep_decode_open, DataChannelConfig, DataChannelReliability

LEMMA WorkerServes ==
  ASSUME ChanInv, wk.stage # "idle", wk.e \in Ends, UNCHANGED <<inbox, sent, dcSetup>>,
         msgs' = msgs \/ msgs' = [msgs EXCEPT ![wk.e] = Append(@, wk.ev.body)],
         wk' = Idle \/ (wk'.stage # "idle" /\ wk'.e = wk.e /\ wk'.ev = wk.ev)
  PROVE  /\ msgs' \in [Ends -> Seq(Bodies)]
         /\ \A g \in Ends : ServedInTurn(g)' /\ Coming(g)' \subseteq Coming(g)
<1> DEFINE f == wk.e
           b == wk.ev.body
<1>0. ChanTypes /\ (\A g \in Ends : ServedInTurn(g)) /\ msgs \in [Ends -> Seq(Bodies)] /\ b \in Bodies
  BY Zenon, EventFacts DEF ChanInv, ChanTypes
<1>1. Idle.stage = "idle"
  BY Zenon DEF Idle
<1>2. /\ \A g \in Ends : RecvLocked(g) <=> g = f
      /\ \A g \in Ends : RecvLocked(g)' => g = f /\ wk'.ev = wk.ev
  BY Zenon, <1>1 DEF RecvLocked
<1>3. \A g \in Ends : Coming(g)' \subseteq Coming(g) /\ Handing(g)' \subseteq Handing(g)
  BY Zenon, <1>2 DEF Coming, Handing
<1>4. Append(msgs[f], b) \in Seq(Bodies)
  BY Zenon, <1>0, AppendFacts
<1>5. msgs' \in [Ends -> Seq(Bodies)]
  BY Zenon, <1>0, <1>4
<1>6. ASSUME NEW g \in Ends, AllReliable(Peer(g))
      PROVE  Queued(msgs'[g], Handing(g)', inbox[g], Last(Peer(g)))
  <2> DEFINE top == Last(Peer(g))
             ms == msgs[g]
             q == inbox[g]
             ws == Handing(g)
             vs == Handing(g)'
  <2>1. Queued(ms, ws, q, top) /\ vs \subseteq ws /\ ms \in Seq(Bodies) /\ top.type = "user"
    BY Zenon, <1>0, <1>3, <1>6 DEF ServedInTurn, Last
  <2>2. CASE msgs'[g] = ms
    <3> HIDE DEF top, ms, q, ws, vs
    <3>1. Queued(ms, vs, q, top)
      BY Zenon, <2>1, QueuedWaits
    <3> QED BY Zenon, <2>2, <3>1 DEF top, ms, q, vs
  <2>3. CASE g = f /\ msgs'[g] = Append(ms, b)
    <3>1. ws = {b}
      BY Zenon, <1>2, <2>3 DEF Handing
    <3> HIDE DEF top, ms, q, ws, vs, b
    <3>2. Queued(Append(ms, b), ws, q, top)
      BY Zenon, <1>0, <2>1, <3>1, QueuedHands
    <3>3. Queued(Append(ms, b), vs, q, top)
      BY Zenon, <2>1, <3>2, QueuedWaits
    <3> QED BY Zenon, <2>3, <3>3 DEF top, q, vs
  <2>4. msgs'[g] = ms \/ (g = f /\ msgs'[g] = Append(ms, b))
    BY Zenon, <1>0
  <2> QED BY Zenon, <2>2, <2>3, <2>4
<1>7. \A g \in Ends : ServedInTurn(g)'
  BY Zenon, <1>6 DEF ServedInTurn, AllReliable, Last
<1> QED BY Zenon, <1>3, <1>5, <1>7

LEMMA BusyFacts ==
  ASSUME SctpTypes, wk.stage # "idle"
  PROVE  /\ wk = [stage |-> wk.stage, e |-> wk.e, ev |-> wk.ev, run |-> wk.run]
         /\ wk.e \in Ends /\ wk.stage \in {"legacy", "ppid", "adopt"}
<1>1. wk # Idle
  BY SMT DEF Idle
<1> QED BY Zenon, <1>1 DEF SctpTypes

LEMMA RecvLegacyAgrees ==
  ASSUME ChanInv, SctpTypes, RecvLegacy
  PROVE  ChanInv'
<1>0. ChanTypes /\ \A g \in Ends : Acked(g)
  BY Zenon DEF ChanInv
<1>1. /\ wk.stage = "legacy" /\ wk.e \in Ends /\ UNCHANGED <<inbox, dcSetup, ch, sent>>
      /\ msgs' = msgs \/ msgs' = [msgs EXCEPT ![wk.e] = Append(@, wk.ev.body)]
      /\ wk' = [wk EXCEPT !.stage = "ppid", !.run = sk[wk.e].on_recv_ppid]
  BY Zenon, BusyFacts DEF RecvLegacy, on_sctp_recv
<1>2. wk'.stage = "ppid" /\ wk'.e = wk.e /\ wk'.ev = wk.ev
  <2>1. wk = [stage |-> wk.stage, e |-> wk.e, ev |-> wk.ev, run |-> wk.run]
    BY Zenon, <1>1, BusyFacts
  <2> QED BY Zenon, <1>1, <2>1
<1>3. /\ msgs' \in [Ends -> Seq(Bodies)]
      /\ \A g \in Ends : ServedInTurn(g)' /\ Coming(g)' \subseteq Coming(g)
  BY Zenon, <1>1, <1>2, WorkerServes
<1>4. \A g \in Ends : Acked(g)'
  BY Zenon, <1>0, <1>1, <1>2, <1>3, AckedSame, PeerFacts
<1>5. ChanTypes'
  BY Zenon, <1>0, <1>1, <1>2, <1>3 DEF ChanTypes
<1> QED BY Zenon, <1>3, <1>4, <1>5 DEF ChanInv

\* What a worker that runs the DCEP part holds, seen from the opener.
LEMMA OpenerFacts ==
  ASSUME ChanInv, wk.stage # "idle", wk.e \in Ends, wk.ev.ppid = kPpidDcep, wk.ev.body # kDcepAck,
         NEW g \in Ends, dcSetup.openers = {g}, Peer(g) \notin dcSetup.configures
  PROVE  wk.e = Peer(g) /\ wk.ev.body = Announced(g)
<1>1. wk.ev \in Events /\ wk.ev.kind = "data" /\ Acked(g)
  BY Zenon DEF ChanInv, ChanTypes
<1>2. wk.ev \in Coming(wk.e) /\ wk.ev \notin Unrelated
  BY Zenon, <1>1, EventFacts DEF Coming, RecvLocked
<1>3. wk.e # g
  BY Zenon, <1>1, <1>2 DEF Acked
<1>4. wk.e = Peer(g)
  BY Zenon, <1>3, PeerFacts
<1> QED BY Zenon, <1>1, <1>2, <1>4 DEF Acked

\* The fields of a configuration, taken over in two parts.
NameFrom(c, p) == [c EXCEPT !.label = p.label, !.reliability = p.reliability]
RestFrom(c, p) == [c EXCEPT !.ordered = p.ordered, !.max_retransmits = p.max_retransmits,
                            !.max_packet_lifetime_ms = p.max_packet_lifetime_ms]

LEMMA PartsFacts ==
  ASSUME NEW c \in DataChannelConfig, NEW p \in DataChannelConfig
  PROVE  /\ NameFrom(c, p) \in DataChannelConfig /\ RestFrom(c, p) \in DataChannelConfig
         /\ NameFrom(c, p).label = p.label /\ NameFrom(c, p).reliability = p.reliability
         /\ c = p => NameFrom(c, p) = p
         /\ c.label = p.label /\ c.reliability = p.reliability => RestFrom(c, p) = p
<1>0. p = [label |-> p.label, reliability |-> p.reliability, max_retransmits |-> p.max_retransmits,
           max_packet_lifetime_ms |-> p.max_packet_lifetime_ms, ordered |-> p.ordered]
  BY Zenon DEF DataChannelConfig
<1>1. c = [label |-> c.label, reliability |-> c.reliability, max_retransmits |-> c.max_retransmits,
           max_packet_lifetime_ms |-> c.max_packet_lifetime_ms, ordered |-> c.ordered]
  BY Zenon DEF DataChannelConfig
<1>2. PICK d : d = [c EXCEPT !.label = p.label, !.reliability = p.reliability]
  BY Zenon
<1>3. d = [label |-> p.label, reliability |-> p.reliability, max_retransmits |-> c.max_retransmits,
           max_packet_lifetime_ms |-> c.max_packet_lifetime_ms, ordered |-> c.ordered]
  BY Zenon, <1>1, <1>2
<1>4. PICK r : r = [c EXCEPT !.ordered = p.ordered, !.max_retransmits = p.max_retransmits,
                             !.max_packet_lifetime_ms = p.max_packet_lifetime_ms]
  BY Zenon
<1>5. r = [label |-> c.label, reliability |-> c.reliability, max_retransmits |-> p.max_retransmits,
           max_packet_lifetime_ms |-> p.max_packet_lifetime_ms, ordered |-> p.ordered]
  BY Zenon, <1>1, <1>4
<1>6. d.label = p.label /\ d.reliability = p.reliability /\ (c = p => d = p)
  BY Zenon, <1>1, <1>3
<1>7. c.label = p.label /\ c.reliability = p.reliability => r = p
  BY Zenon, <1>0, <1>5
<1>8. d \in DataChannelConfig
  BY Zenon, <1>3 DEF DataChannelConfig
<1>9. r \in DataChannelConfig
  BY Zenon, <1>5 DEF DataChannelConfig
<1>10. d = NameFrom(c, p) /\ r = RestFrom(c, p)
  BY Zenon, <1>2, <1>4 DEF NameFrom, RestFrom
<1> QED BY Zenon, <1>6, <1>7, <1>8, <1>9, <1>10

LEMMA RecvPpidAgrees ==
  ASSUME ChanInv, SctpTypes, RecvPpid
  PROVE  ChanInv'
<1>a. PICK f \in Ends : f = wk.e
  BY Zenon, BusyFacts DEF RecvPpid
<1> DEFINE b == wk.ev.body
           p == dcep_decode_open(b)
<1>0. /\ ChanTypes /\ (\A g \in Ends : Acked(g)) /\ DOMAIN ch = Ends
      /\ wk.stage = "ppid" /\ UNCHANGED <<inbox, dcSetup, sent>>
      /\ wk.ev \in Events /\ wk.ev.kind = "data" /\ "cfg" \in DOMAIN ch[f]
  BY Zenon DEF ChanInv, ChanTypes, SctpTypes, RecvPpid
<1>1. /\ wk = [stage |-> wk.stage, e |-> wk.e, ev |-> wk.ev, run |-> wk.run]
      /\ Idle.stage = "idle"
  BY Zenon, <1>0, BusyFacts DEF Idle
<1>2. msgs' = msgs \/ msgs' = [msgs EXCEPT ![f] = Append(@, b)]
  BY Zenon, <1>a DEF RecvPpid, on_sctp_recv
<1>3. CASE /\ wk' = Idle
           /\ ch' = ch \/ ch' = [ch EXCEPT ![f].on_state = OnState(f, "open")]
  <2>1. /\ msgs' \in [Ends -> Seq(Bodies)]
        /\ \A g \in Ends : ServedInTurn(g)' /\ Coming(g)' \subseteq Coming(g)
    BY ZenonT(30), <1>0, <1>2, <1>3, <1>a, WorkerServes
  <2>2. \A g \in Ends : DOMAIN ch'[g] = DOMAIN ch[g] /\ ch'[g].cfg = ch[g].cfg
    BY ZenonT(30), <1>0, <1>3
  <2>3. wk'.stage = "idle"
    BY Zenon, <1>1, <1>3
  <2>4. \A g \in Ends : Acked(g)'
    BY Zenon, <1>0, <2>1, <2>2, <2>3, AckedSame, PeerFacts
  <2>5. ChanTypes'
    BY Zenon, <1>0, <2>1, <2>2, <2>3 DEF ChanTypes
  <2> QED BY Zenon, <2>1, <2>4, <2>5 DEF ChanInv
<1>4. CASE /\ wk.ev.ppid = kPpidDcep /\ b # kDcepAck
           /\ wk' = [wk EXCEPT !.stage = "adopt"]
           /\ ch' = [ch EXCEPT ![f].cfg.label = p.label, ![f].cfg.reliability = p.reliability]
  <2>1. wk'.stage = "adopt" /\ wk'.e = wk.e /\ wk'.ev = wk.ev
    BY Zenon, <1>1, <1>4
  <2>2. /\ msgs' \in [Ends -> Seq(Bodies)]
        /\ \A g \in Ends : ServedInTurn(g)' /\ Coming(g)' \subseteq Coming(g)
    BY ZenonT(30), <1>0, <1>2, <1>a, <2>1, WorkerServes
  <2>3. b \in Openings /\ p \in DataChannelConfig
    BY Zenon, <1>0, <1>4, EventFacts, DecodeFacts
  <2> DEFINE c == ch[f].cfg
             d == ch'[f].cfg
  <2>4. c \in DataChannelConfig
    BY Zenon, <1>0 DEF ChanTypes
  <2>5. /\ DOMAIN ch'[f] = DOMAIN ch[f] /\ d = NameFrom(c, p)
        /\ \A g \in Ends : g # f => ch'[g] = ch[g]
    BY Zenon, <1>0, <1>4 DEF NameFrom
  <2> HIDE DEF p, c, d
  <2>6. d \in DataChannelConfig /\ d.label = p.label /\ d.reliability = p.reliability /\ (c = p => d = p)
    BY ZenonT(30), <2>3, <2>4, <2>5, PartsFacts
  <2>7. ChanTypes'
    <3>1. \A g \in Ends : "cfg" \in DOMAIN ch'[g] /\ ch'[g].cfg \in DataChannelConfig
      BY Zenon, <1>0, <2>5, <2>6 DEF d, ChanTypes
    <3> QED BY ZenonT(30), <1>0, <1>4, <2>1, <2>2, <2>3, <3>1 DEF ChanTypes
  <2>8. ASSUME NEW g \in Ends PROVE Acked(g)'
    <3> SUFFICES ASSUME dcSetup.openers = {g}, Peer(g) \notin dcSetup.configures
                 PROVE  Acked(g)'
      BY Zenon, <1>0 DEF Acked
    <3>1. f = Peer(g) /\ b = Announced(g)
      BY Zenon, <1>0, <1>4, <1>a, OpenerFacts
    <3>2. Announced(g)' = Announced(g) /\ Adopted(g)' = Adopted(g) /\ Adopted(g) = p
      BY Zenon, <1>0, <3>1 DEF Announced, Adopted, p
    <3>3. /\ \A x \in Coming(f) : x \in Unrelated \/ x.body = Announced(g)
          /\ \A x \in Coming(g) : x \in Unrelated \/ (x.body = kDcepAck /\ c = Adopted(g))
      BY ZenonT(30), <1>0, <3>1 DEF Acked, c
    <3>4. Coming(f)' \subseteq Coming(f) /\ Coming(g)' \subseteq Coming(g)
      BY Zenon, <1>0, <2>2
    <3> QED BY ZenonT(30), <1>0, <1>a, <2>1, <2>6, <3>1, <3>2, <3>3, <3>4 DEF Acked, d
  <2> QED BY Zenon, <2>2, <2>7, <2>8 DEF ChanInv
<1> QED BY Zenon, <1>3, <1>4, <1>a DEF RecvPpid

LEMMA RecvAdoptAgrees ==
  ASSUME ChanInv, SctpTypes, RecvAdopt
  PROVE  ChanInv'
<1>a. PICK f \in Ends : f = wk.e
  BY Zenon, BusyFacts DEF RecvAdopt
<1> DEFINE b == wk.ev.body
           p == dcep_decode_open(b)
           c == ch[f].cfg
           d == ch'[f].cfg
           x == Data(kPpidDcep, kDcepAck)
           q == inbox[Peer(f)]
<1>0. /\ ChanTypes /\ (\A g \in Ends : Acked(g)) /\ DOMAIN ch = Ends
      /\ wk.stage = "adopt" /\ wk' = Idle /\ UNCHANGED <<dcSetup, sent, msgs>>
      /\ wk.ev \in Events /\ wk.ev.kind = "data" /\ wk.ev.ppid = kPpidDcep /\ b \in Openings
      /\ "cfg" \in DOMAIN ch[f] /\ c \in DataChannelConfig
      /\ inbox \in [Ends -> Seq(Events)] /\ q \in Seq(Events)
  BY Zenon, PeerFacts DEF ChanInv, ChanTypes, SctpTypes, RecvAdopt
<1>1. /\ ch' = [ch EXCEPT ![f].cfg = [@ EXCEPT !.ordered = p.ordered,
                                 !.max_retransmits = p.max_retransmits,
                                 !.max_packet_lifetime_ms = p.max_packet_lifetime_ms],
                          ![f].on_state = OnState(f, "open")]
      /\ \E ok \in BOOLEAN : send_stream_with_ppid(f, kDcepAck, kPpidDcep, ok)
  BY Zenon, <1>a DEF RecvAdopt
<1>2. /\ p \in DataChannelConfig /\ b # kDcepAck
      /\ x \in Events /\ Body(x).type # "user" /\ x.body = kDcepAck
  <2>1. b.type = "open" /\ kDcepAck.type = "ack"
    BY ZenonT(30), <1>0, MessageFacts DEF Openings
  <2>2. b # kDcepAck
    BY Zenon, <2>1
  <2>3. Body(x) = kDcepAck /\ x.body = kDcepAck /\ x \in Events
    BY ZenonT(30), MessageFacts
  <2>4. Body(x).type # "user"
    BY SMT, <2>1, <2>3
  <2> QED BY Zenon, <1>0, <2>2, <2>3, <2>4, DecodeFacts
<1>3. /\ DOMAIN ch'[f] = DOMAIN ch[f]
      /\ d = RestFrom(c, p) /\ \A g \in Ends : g # f => ch'[g] = ch[g]
  BY Zenon, <1>0, <1>1 DEF RestFrom
<1>4. \E r \in Seq(Events) : /\ inbox' = [inbox EXCEPT ![Peer(f)] = r]
                             /\ InQ(r) \subseteq InQ(q) \cup {x} /\ (r = q \/ r = Append(q, x))
  <2>1. PICK ok \in BOOLEAN : send_stream_with_ppid(f, kDcepAck, kPpidDcep, ok)
    BY Zenon, <1>1
  <2>2. CASE ~ok
    <3>1. inbox' = inbox
      BY Zenon, <2>1, <2>2 DEF send_stream_with_ppid
    <3>2. inbox' = [inbox EXCEPT ![Peer(f)] = q]
      BY Zenon, <1>0, <3>1
    <3> QED BY Zenon, <1>0, <3>2
  <2>3. CASE ok
    <3>1. PICK u \in BOOLEAN, l \in BOOLEAN : Sendv(f, x, u, l) /\ ~u /\ ~l
      BY ZenonT(30), <2>1, <2>3 DEF send_stream_with_ppid
    <3>2. x \in Events
      BY Zenon, <1>2
    <3> HIDE DEF x
    <3>3. \E r \in Seq(Events) : /\ inbox' = [inbox EXCEPT ![Peer(f)] = r]
                                 /\ InQ(r) \subseteq InQ(inbox[Peer(f)]) \cup {x}
                                 /\ r = Append(inbox[Peer(f)], x)
      BY ONLY SMTT(20), ChanInv, f \in Ends, u \in BOOLEAN, l \in BOOLEAN, <3>1, <3>2, SendvFacts
    <3> QED BY Zenon, <3>3
  <2> QED BY Zenon, <2>2, <2>3
<1>5. PICK r \in Seq(Events) : /\ inbox' = [inbox EXCEPT ![Peer(f)] = r]
                               /\ InQ(r) \subseteq InQ(q) \cup {x} /\ (r = q \/ r = Append(q, x))
  BY Zenon, <1>4
<1>6. wk'.stage = "idle" /\ (\A g \in Ends : ~RecvLocked(g)' /\ Handing(g)' \subseteq Handing(g))
  <2>1. wk'.stage = "idle"
    BY Zenon, <1>0 DEF Idle
  <2> QED BY Zenon, <2>1 DEF RecvLocked, Handing
<1>7. /\ inbox' \in [Ends -> Seq(Events)] /\ DOMAIN inbox' = Ends
      /\ Coming(Peer(f))' \subseteq Coming(Peer(f)) \cup {x} /\ Coming(f)' \subseteq Coming(f)
  BY Zenon, <1>0, <1>5, <1>6, PeerFacts DEF Coming
<1>8. \A g \in Ends : ServedInTurn(g)'
  <2>1. Passed(f, r, x)
    BY Zenon, <1>0, <1>2, <1>5 DEF Passed, SentInTurn
  <2> HIDE DEF x
  <2> QED BY ZenonT(30), <1>0, <1>2, <1>5, <1>6, <1>7, <2>1, SendServes
<1>9. ChanTypes'
  <2> HIDE DEF p, c, d
  <2>1. d \in DataChannelConfig
    BY ZenonT(30), <1>0, <1>2, <1>3, PartsFacts
  <2>2. \A g \in Ends : "cfg" \in DOMAIN ch'[g] /\ ch'[g].cfg \in DataChannelConfig
    BY Zenon, <1>0, <1>3, <2>1 DEF ChanTypes, d
  <2> QED BY ZenonT(30), <1>0, <1>6, <1>7, <2>2 DEF ChanTypes
<1>10. ASSUME NEW g \in Ends PROVE Acked(g)'
  <2> SUFFICES ASSUME dcSetup.openers = {g}, Peer(g) \notin dcSetup.configures
               PROVE  Acked(g)'
    BY Zenon, <1>0 DEF Acked
  <2>1. f = Peer(g) /\ b = Announced(g) /\ Peer(f) = g
    BY Zenon, <1>0, <1>2, <1>a, OpenerFacts, PeerFacts
  <2>2. Announced(g)' = Announced(g) /\ Adopted(g)' = Adopted(g) /\ Adopted(g) = p
    BY Zenon, <1>0, <2>1 DEF Announced, Adopted
  <2>3. /\ \A y \in Coming(f) : y \in Unrelated \/ y.body = Announced(g)
        /\ \A y \in Coming(g) : y \in Unrelated \/ y.body = kDcepAck
        /\ c.label = p.label /\ c.reliability = p.reliability
    BY ZenonT(30), <1>0, <2>1, <2>2 DEF Acked
  <2> HIDE DEF p, c, d, x
  <2>4. d = p
    BY ZenonT(30), <1>0, <1>2, <1>3, <2>3, PartsFacts
  <2>5. \A y \in Coming(g)' : y \in Unrelated \/ y.body = kDcepAck
    BY ZenonT(30), <1>2, <1>7, <2>1, <2>3
  <2> QED BY ZenonT(30), <1>6, <1>7, <2>1, <2>2, <2>3, <2>4, <2>5 DEF Acked, d
<1> QED BY Zenon, <1>8, <1>9, <1>10 DEF ChanInv

LEMMA ChanNext == ChanInv /\ SilentInv /\ [DcNext]_dcAll => ChanInv'
<1> SUFFICES ASSUME ChanInv, SilentInv, [DcNext]_dcAll PROVE ChanInv'
  BY Zenon
<1>0. SctpTypes
  BY Zenon DEF SilentInv
<1>1. CASE UNCHANGED dcAll
  <2>1. UNCHANGED <<inbox, wk, msgs, sent, dcSetup, ch>>
    BY Zenon, <1>1 DEF dcAll, sctpVars, dcVars
  <2>2. inbox \in [Ends -> Seq(Events)]
    BY Zenon DEF ChanInv, ChanTypes
  <2> QED BY Zenon, <2>1, <2>2, LibraryKeeps
<1>2. CASE SctpNext /\ UNCHANGED dcVars
  <2>1. PICK a \in Ends : TRUE
    BY Zenon, DcAssumption DEF DcAssumption
  <2>2. CASE AssocUp \/ AssocEnds
    BY Zenon, <1>2, <2>1, <2>2, SocketStepAgrees
  <2> QED BY Zenon, <1>2, <2>2, SocketStepAgrees, TakeAgrees DEF SctpNext
<1>3. ASSUME NEW e \in Ends,
             \/ ChOpen(e) \/ ChOpenLegacy(e) \/ ChOpenCfg(e) \/ ChSend(e)
             \/ send_dcep_open(e) \/ PlainSend(e)
             \/ ChClose(e) \/ ChClosePpid(e) \/ ChCloseSocket(e)
      PROVE  ChanInv'
  BY ZenonT(30), <1>0, <1>3, ChannelStepAgrees, OpenCfgAgrees, ChSendAgrees, AnnounceAgrees, PlainSendAgrees
<1> QED BY ZenonT(30), <1>0, <1>1, <1>2, <1>3, RecvLegacyAgrees, RecvPpidAgrees, RecvAdoptAgrees DEF DcNext

\* What DCEP can express comes out as it went in.
LEMMA ExpressibleTravels ==
  ASSUME NEW c \in DataChannelConfig, Expressible(c)
  PROVE  dcep_decode_open(dcep_encode_open(c)) = c
BY SMT DEF Expressible, dcep_decode_open, dcep_encode_open, DataChannelConfig, DataChannelReliability

LEMMA ChanGives == ChanInv => ChannelAsOpened
<1> SUFFICES ASSUME ChanInv PROVE ChannelAsOpened
  BY Zenon
<1>0. ChanTypes /\ \A e \in Ends : ServedInTurn(e) /\ Acked(e)
  BY Zenon DEF ChanInv
<1>1. ReliableInOrder
  <2> SUFFICES ASSUME NEW e \in Ends, AllReliable(Peer(e)),
                      NEW i \in 1..Len(msgs[e]), NEW j \in 1..Len(msgs[e]),
                      i < j, msgs[e][i].type = "user", msgs[e][j].type = "user"
               PROVE  msgs[e][i].n <= msgs[e][j].n
    BY Zenon DEF ReliableInOrder
  <2> QED BY Zenon, <1>0 DEF ServedInTurn, Queued, Before
<1>2. AckMeansAgreed
  <2> SUFFICES ASSUME NEW e \in Ends, dcSetup.openers = {e}, Peer(e) \notin dcSetup.configures,
                      Expressible(dcSetup.cfg[e]), AckPending(e)
               PROVE  ch[Peer(e)].cfg = dcSetup.cfg[e]
    BY Zenon DEF AckMeansAgreed
  <2>1. PICK i \in 1..Len(inbox[e]) : inbox[e][i].kind = "data" /\ inbox[e][i].body = kDcepAck
    BY Zenon DEF AckPending
  <2> DEFINE x == inbox[e][i]
  <2>2. x \in Coming(e) /\ x \in Events
    <3>1. inbox[e] \in Seq(Events)
      BY ZenonT(30), <1>0 DEF ChanTypes
    <3>2. x \in InQ(inbox[e])
      BY SMTT(20), <2>1 DEF InQ
    <3> QED BY ZenonT(30), <3>1, <3>2, InQFacts DEF Coming
  <2>3. x \notin Unrelated
    BY Zenon, <2>1, <2>2, AckFacts
  <2>4. ch[Peer(e)].cfg = Adopted(e)
    BY Zenon, <1>0, <2>2, <2>3 DEF Acked
  <2>5. dcSetup.cfg[e] \in DataChannelConfig
    BY ZenonT(30), <1>0, DcAssumption DEF ChanTypes, DcAssumption
  <2> QED BY Zenon, <2>4, <2>5, ExpressibleTravels DEF Adopted, Announced
<1> QED BY Zenon, <1>1, <1>2 DEF ChannelAsOpened

\* Whatever the two threads of the two ends do, the payloads of a reliable
\* ordered channel surface in the order they were sent, and an ACK on its way
\* means that the other end has taken over the whole configuration
\* (sctp_data_channel.cpp, send() and the DCEP handlers).
THEOREM ChannelStaysAsOpened == DcSpec => []ChannelAsOpened
<1>1. ChanInv /\ SilentInv /\ [DcNext]_dcAll => ChanInv'
  BY Zenon, ChanNext
<1> QED BY <1>1, ChanInit, ChanGives, SilentAlways, PTL DEF DcSpec
=============================================================================
