------------------------ MODULE WtDataChannelProofs ------------------------
(***************************************************************************)
(* Proofs about the data channel over WebTransport, for every set of       *)
(* sessions, stream handles, payloads and scenarios.                       *)
(***************************************************************************)
EXTENDS WtDataChannel, TLAPS

SessionFields == {"phase", "state", "closing", "conn", "cfg", "reg", "owns", "dcb", "pcb",
                  "known", "enabled", "streams"}
HandleStates == {"none", "open", "closed", "twice"}

WtTypes ==
    /\ wtSetup \in WtSetups /\ hq \in [Handles -> HandleStates]
    /\ lsn \in [phase : {"down", "threw", "running", "stopping", "stopped"}, conns : BOOLEAN]
    /\ DOMAIN ss = Sessions
    /\ \A s \in Sessions : DOMAIN ss[s] = SessionFields /\ ss[s].streams \in SUBSET Streams

-----------------------------------------------------------------------------
(* Registration, configuration, listener and connection. *)

Tree == {"reg", "cfg", "conn"}
Undone(S) == \A h \in S : hq[h] \in {"none", "closed"}

\* The one session of a client owns the three handles until the connection is
\* gone, and closes all of them at once.
ClientHandles ==
    /\ lsn = NoListener /\ ~h3.alive /\ hq["lst"] = "none"
    /\ \A s \in Sessions : s # ClientSession => ss[s].phase = "none"
    /\ CASE ss[ClientSession].phase = "none" -> \A h \in Tree : hq[h] = "none"
         [] ss[ClientSession].phase = "threw" -> Undone(Tree)
         [] OTHER -> /\ ss[ClientSession].owns /\ ss[ClientSession].conn \in BOOLEAN
                     /\ \A h \in Tree : hq[h] = IF ss[ClientSession].conn THEN "open" ELSE "closed"

\* The connection of a listener: none yet, open, or closed when it could not
\* be configured.
Accepted == \/ hq["conn"] = "none" /\ ~lsn.conns
            \/ hq["conn"] = "open" /\ lsn.conns
            \/ hq["conn"] = "closed" /\ lsn.conns /\ Fails("ConnectionSetConfiguration")

\* A listener owns everything, and takes it down in the order of its phases.
ServerHandles ==
    /\ \A s \in Sessions : ~ss[s].owns
    /\ lsn.phase = "down" => ~lsn.conns /\ \A h \in Roots : hq[h] = "none"
    /\ lsn.phase = "threw" => hq["conn"] = "none" /\ Undone(Roots)
    /\ lsn.phase \in {"running", "stopping"} =>
          /\ hq["reg"] = "open" /\ hq["cfg"] = "open" /\ Accepted
          /\ hq["lst"] = IF lsn.phase = "running" THEN "open" ELSE "closed"
    /\ lsn.phase = "stopped" =>
          /\ hq["reg"] = "closed" /\ hq["cfg"] = "closed" /\ hq["lst"] = "closed"
          /\ hq["conn"] # "open" /\ (hq["conn"] = "twice" => Fails("ConnectionSetConfiguration"))

HandleInv ==
    /\ WtTypes
    /\ wtSetup.side = "client" => ClientHandles
    /\ wtSetup.side # "client" => ServerHandles

LEMMA HandleInvOrder == HandleInv => RootsClosedInOrder
<1> SUFFICES ASSUME HandleInv PROVE RootsClosedInOrder
  BY Zenon
<1>0. {"reg", "cfg", "lst", "conn"} \subseteq Roots /\ Tree \subseteq Roots
  BY Zenon DEF Roots, Tree
<1>1. CASE wtSetup.side = "client"
  BY Zenon, <1>0, <1>1 DEF HandleInv, ClientHandles, RootsClosedInOrder, Undone, Tree
<1>2. CASE wtSetup.side # "client"
  BY Zenon, <1>0, <1>2 DEF HandleInv, WtTypes, ServerHandles, RootsClosedInOrder, Undone, Accepted
<1> QED BY Zenon, <1>1, <1>2

LEMMA HandleInit == WtInit => HandleInv
<1> SUFFICES ASSUME WtInit PROVE HandleInv
  BY Zenon
<1>1. WtTypes
  BY Zenon DEF WtInit, WtTypes, NoSession, SessionFields, NoListener, HandleStates
<1>2. ClientSession \in Sessions
  BY Zenon, WtAssumption DEF ClientSession, WtAssumption
<1>3. \A h \in Roots : hq[h] = "none"
  BY Zenon DEF WtInit, Handles
<1>4. lsn = NoListener /\ ~h3.alive /\ \A s \in Sessions : ss[s].phase = "none" /\ ~ss[s].owns
  BY Zenon DEF WtInit, NoH3, NoSession
<1> QED BY Zenon, <1>1, <1>2, <1>3, <1>4 DEF HandleInv, ClientHandles, ServerHandles, NoListener, Roots, Tree

\* Opening and closing streams leaves the four alone.
LEMMA StreamHandles ==
  ASSUME NEW f \in [Handles -> HandleStates], NEW S \in SUBSET Streams
  PROVE  /\ CloseAll(f, S) \in [Handles -> HandleStates] /\ Opened(f, S) \in [Handles -> HandleStates]
         /\ \A h \in Roots : CloseAll(f, S)[h] = f[h] /\ Opened(f, S)[h] = f[h]
<1>1. \A h \in Handles : f[h] \in HandleStates /\ HandleClose(f[h]) \in HandleStates /\ "open" \in HandleStates
  BY Zenon DEF HandleClose, HandleStates
<1>2. \A h \in Roots : h \in Handles /\ h \notin S
  BY Zenon, WtAssumption DEF WtAssumption, Handles
<1> QED BY Zenon, <1>1, <1>2 DEF CloseAll, Opened

LEMMA NewStreamIsFree ==
  ASSUME StreamLeft
  PROVE  NewStream \in Streams /\ hq[NewStream] = "none"
BY Zenon DEF StreamLeft, NewStream

\* A step that leaves the four alone, and the sessions' claims on them.
SameClaim(s) ==
    /\ ss'[s].owns = ss[s].owns /\ ss'[s].conn = ss[s].conn
    /\ \/ ss'[s].phase = ss[s].phase
       \/ ss[s].phase \notin {"none", "threw"} /\ ss'[s].phase \notin {"none", "threw"}
SessionsKept ==
    /\ DOMAIN ss' = Sessions
    /\ \A s \in Sessions :
          /\ DOMAIN ss'[s] = SessionFields /\ ss'[s].streams \in SUBSET Streams
          /\ SameClaim(s) \/ (wtSetup.side # "client" /\ ~ss'[s].owns)

LEMMA HandleKept ==
  ASSUME HandleInv, UNCHANGED <<wtSetup, lsn>>, hq' \in [Handles -> HandleStates],
         \A h \in Roots : hq'[h] = hq[h], SessionsKept,
         wtSetup.side = "client" => h3' = h3
  PROVE  HandleInv'
<1>0. ClientSession \in Sessions
  BY Zenon, WtAssumption DEF ClientSession, WtAssumption
<1>1. WtTypes'
  BY Zenon DEF HandleInv, WtTypes, SessionsKept
<1>2. CASE wtSetup.side = "client"
  <2>1. \A s \in Sessions : SameClaim(s)
    BY Zenon, <1>2 DEF SessionsKept
  <2>2. hq'["lst"] = hq["lst"] /\ \A h \in Tree : hq'[h] = hq[h]
    BY Zenon DEF Roots, Tree
  <2>3. ClientHandles
    BY Zenon, <1>2 DEF HandleInv
  <2>4. lsn' = NoListener /\ ~h3'.alive /\ hq'["lst"] = "none"
    BY Zenon, <1>2, <2>2, <2>3 DEF ClientHandles
  <2>5. \A s \in Sessions : s # ClientSession => ss'[s].phase = "none"
    BY Zenon, <2>1, <2>3 DEF ClientHandles, SameClaim
  <2>6. ClientHandles'
    <3>1. CASE ss[ClientSession].phase = "none"
      BY ZenonT(30), <1>0, <2>1, <2>2, <2>3, <2>4, <2>5, <3>1 DEF ClientHandles, SameClaim, ClientSession
    <3>2. CASE ss[ClientSession].phase = "threw"
      BY ZenonT(30), <1>0, <2>1, <2>2, <2>3, <2>4, <2>5, <3>2 DEF ClientHandles, SameClaim, Undone, ClientSession
    <3>3. CASE ss[ClientSession].phase \notin {"none", "threw"}
      BY SMTT(20), <1>0, <2>1, <2>2, <2>3, <2>4, <2>5, <3>3 DEF ClientHandles, SameClaim, ClientSession
    <3> QED BY Zenon, <3>1, <3>2, <3>3
  <2> QED BY Zenon, <1>1, <1>2, <2>6 DEF HandleInv
<1>3. CASE wtSetup.side # "client"
  <2>1. \A s \in Sessions : ~ss'[s].owns
    BY Zenon, <1>3 DEF SessionsKept, SameClaim, HandleInv, ServerHandles
  <2>2. ServerHandles'
    BY ZenonT(30), <1>3, <2>1 DEF HandleInv, ServerHandles, Undone, Accepted, Fails, Roots
  <2> QED BY Zenon, <1>1, <1>3, <2>2 DEF HandleInv
<1> QED BY Zenon, <1>2, <1>3

LEMMA HandleQuiet ==
  ASSUME HandleInv, UNCHANGED <<wtSetup, lsn, hq, ss>>, wtSetup.side = "client" => h3' = h3
  PROVE  HandleInv'
<1>1. SessionsKept
  BY Zenon DEF HandleInv, WtTypes, SessionsKept, SameClaim
<1>2. hq' \in [Handles -> HandleStates] /\ \A h \in Roots : hq'[h] = hq[h]
  BY Zenon DEF HandleInv, WtTypes
<1> QED BY Zenon, <1>1, <1>2, HandleKept

\* The steps that change a session but neither its handles nor its streams.
LEMMA SessionStepHandles ==
  ASSUME HandleInv, NEW s \in Sessions, UNCHANGED <<lsn, h3>>,
         \/ CtorStoresConnecting(s) \/ CloseBegins(s) \/ CloseStreams(s) \/ CloseConnection(s)
         \/ on_connected(s) \/ on_shutdown_initiated_by_transport(s)
         \/ on_shutdown_initiated_by_peer(s) \/ on_datagram_state_changed(s)
         \/ create_data_channel(s) \/ ((attach_session_callbacks \/ WcClose) /\ wc.sess = s)
  PROVE  HandleInv'
<1>1. UNCHANGED <<wtSetup, hq>>
  BY Zenon DEF CtorStoresConnecting, CloseBegins, CloseStreams, CloseConnection, on_connected,
         on_shutdown_initiated_by_transport, on_shutdown_initiated_by_peer,
         on_datagram_state_changed, create_data_channel, attach_session_callbacks, WcClose
<1>2. DOMAIN ss = Sessions /\ DOMAIN ss[s] = SessionFields
  BY Zenon DEF HandleInv, WtTypes
<1>3. DOMAIN ss' = Sessions /\ \A t \in Sessions : t # s => ss'[t] = ss[t]
  BY ZenonT(30), <1>2 DEF CtorStoresConnecting, CloseBegins, CloseStreams, CloseConnection, on_connected,
         on_shutdown_initiated_by_transport, on_shutdown_initiated_by_peer,
         on_datagram_state_changed, create_data_channel, attach_session_callbacks, WcClose
<1>4. DOMAIN ss'[s] = SessionFields /\ ss'[s].streams = ss[s].streams /\ ss'[s].owns = ss[s].owns
  BY SMTT(20), <1>2 DEF CtorStoresConnecting, CloseBegins, CloseStreams, CloseConnection, on_connected,
         on_shutdown_initiated_by_transport, on_shutdown_initiated_by_peer,
         on_datagram_state_changed, create_data_channel, attach_session_callbacks, WcClose,
         SessionFields
<1>5. \/ ss'[s].phase = ss[s].phase
      \/ ss[s].phase \notin {"none", "threw"} /\ ss'[s].phase \notin {"none", "threw"}
  BY <1>2 DEF CtorStoresConnecting, CloseBegins, CloseStreams, CloseConnection, on_connected,
         on_shutdown_initiated_by_transport, on_shutdown_initiated_by_peer,
         on_datagram_state_changed, create_data_channel, attach_session_callbacks, WcClose,
         SessionFields, Quiet
<1>6. ss'[s].conn = ss[s].conn \/ (wtSetup.side # "client" /\ ~ss'[s].owns)
  <2>1. CASE wtSetup.side # "client"
    BY Zenon, <1>4, <2>1 DEF HandleInv, ServerHandles
  <2>2. CASE CloseConnection(s) /\ wtSetup.side = "client"
    <3>1. s = ClientSession /\ ss[s].phase \notin {"none", "threw"}
      BY Zenon, <2>2 DEF HandleInv, ClientHandles, CloseConnection
    <3>2. ss[s].owns /\ ss[s].conn \in BOOLEAN
      BY Zenon, <2>2, <3>1 DEF HandleInv, ClientHandles
    <3>3. PICK b : b = (ss[s].conn /\ ss[s].owns)
      BY Zenon
    <3>4. ss' = [ss EXCEPT ![s].phase = "ready", ![s].conn = b]
      BY Zenon, <2>2, <3>3 DEF CloseConnection
    <3>5. ss'[s].conn = b
      BY Zenon, <1>2, <3>4 DEF SessionFields
    <3>6. b = ss[s].conn
      BY ZenonT(30), <3>2, <3>3
    <3> QED BY Zenon, <3>5, <3>6
  <2>3. CASE ~CloseConnection(s)
    BY <1>2, <2>3 DEF CtorStoresConnecting, CloseBegins, CloseStreams, on_connected,
         on_shutdown_initiated_by_transport, on_shutdown_initiated_by_peer,
         on_datagram_state_changed, create_data_channel, attach_session_callbacks, WcClose,
         SessionFields
  <2> QED BY Zenon, <2>1, <2>2, <2>3
<1>7. SessionsKept
  <2>1. ASSUME NEW t \in Sessions
        PROVE  /\ DOMAIN ss'[t] = SessionFields /\ ss'[t].streams \in SUBSET Streams
               /\ SameClaim(t) \/ (wtSetup.side # "client" /\ ~ss'[t].owns)
    <3>1. CASE t = s
      BY Zenon, <1>4, <1>5, <1>6, <3>1 DEF SameClaim, HandleInv, WtTypes
    <3>2. CASE t # s
      BY Zenon, <1>3, <3>2 DEF SameClaim, HandleInv, WtTypes
    <3> QED BY Zenon, <3>1, <3>2
  <2> QED BY Zenon, <1>3, <2>1 DEF SessionsKept
<1> QED BY Zenon, <1>1, <1>7, HandleKept DEF HandleInv, WtTypes

\* Opening a stream, however it comes out.
OpenEnds(s, o) == \/ StreamLeft /\ \E w : o \in OpenStream(s, w)
                  \/ \E x : o = Outcome(hq, st, ss, x)

LEMMA OutcomeHandles ==
  ASSUME HandleInv, NEW s \in Sessions, NEW o, OpenEnds(s, o)
  PROVE  /\ o.hq \in [Handles -> HandleStates] /\ \A h \in Roots : o.hq[h] = hq[h]
         /\ \/ o.ss = ss
            \/ \E x \in Streams : o.ss = [ss EXCEPT ![s].streams = @ \cup {x}]
<1>0. hq \in [Handles -> HandleStates]
  BY Zenon DEF HandleInv, WtTypes
<1>1. CASE \E x : o = Outcome(hq, st, ss, x)
  BY <1>0, <1>1 DEF Outcome
<1>2. ASSUME StreamLeft, NEW w, o \in OpenStream(s, w)
      PROVE  /\ o.hq \in [Handles -> HandleStates] /\ \A h \in Roots : o.hq[h] = hq[h]
             /\ \/ o.ss = ss
                \/ \E x \in Streams : o.ss = [ss EXCEPT ![s].streams = @ \cup {x}]
  <2> DEFINE x == NewStream
             one == Opened(hq, {x})
             two == CloseAll(CloseAll(one, {x}), {x})
  <2>1. x \in Streams /\ {x} \in SUBSET Streams
    BY Zenon, <1>2, NewStreamIsFree
  <2>2. \/ o = Outcome(one, [st EXCEPT ![x] = w], [ss EXCEPT ![s].streams = @ \cup {x}], x)
        \/ o = Outcome(hq, st, ss, "none")
        \/ o = Outcome(two, st, ss, "none")
    BY Zenon, <1>2 DEF OpenStream
  <2> HIDE DEF x
  <2>3. one \in [Handles -> HandleStates] /\ \A h \in Roots : one[h] = hq[h]
    BY Zenon, <1>0, <2>1, StreamHandles
  <2> HIDE DEF one
  <2>4. CloseAll(one, {x}) \in [Handles -> HandleStates] /\ \A h \in Roots : CloseAll(one, {x})[h] = hq[h]
    BY Zenon, <2>1, <2>3, StreamHandles
  <2>5. two \in [Handles -> HandleStates] /\ \A h \in Roots : two[h] = hq[h]
    BY Zenon, <2>1, <2>4, StreamHandles
  <2> HIDE DEF two
  <2>6. /\ o.hq = one \/ o.hq = hq \/ o.hq = two
        /\ o.ss = ss \/ o.ss = [ss EXCEPT ![s].streams = @ \cup {x}]
    BY SMTT(20), <2>2 DEF Outcome
  <2> QED BY Zenon, <1>0, <2>1, <2>3, <2>5, <2>6
<1> QED BY Zenon, <1>1, <1>2 DEF OpenEnds

\* Sessions when one of them gets a stream.
LEMMA StreamAdded ==
  ASSUME HandleInv, NEW s \in Sessions,
         \/ ss' = ss
         \/ \E x \in Streams : ss' = [ss EXCEPT ![s].streams = @ \cup {x}]
  PROVE  SessionsKept
<1>1. /\ DOMAIN ss = Sessions
      /\ \A t \in Sessions : DOMAIN ss[t] = SessionFields /\ ss[t].streams \in SUBSET Streams
  BY Zenon DEF HandleInv, WtTypes
<1>2. CASE ss' = ss
  BY Zenon, <1>1, <1>2 DEF SessionsKept, SameClaim
<1>3. ASSUME NEW x \in Streams, ss' = [ss EXCEPT ![s].streams = @ \cup {x}]
      PROVE  SessionsKept
  <2>1. /\ DOMAIN ss' = Sessions /\ DOMAIN ss'[s] = SessionFields
        /\ ss'[s].streams = ss[s].streams \cup {x} /\ SameClaim(s)
        /\ \A t \in Sessions : t # s => ss'[t] = ss[t]
    BY Zenon, <1>1, <1>3 DEF SessionFields, SameClaim
  <2> QED BY ZenonT(30), <1>1, <1>3, <2>1 DEF SessionsKept, SameClaim
<1> QED BY Zenon, <1>2, <1>3

LEMMA OpenStepHandles ==
  ASSUME HandleInv, NEW s \in Sessions, UNCHANGED <<lsn, h3>>,
         \/ open_bidi_stream(s) \/ open_uni_stream(s) \/ on_peer_stream_started(s)
         \/ ((WcOpen \/ WcSendStream) /\ wc.sess = s)
  PROVE  HandleInv'
<1>0. wtSetup' = wtSetup /\ hq \in [Handles -> HandleStates]
  BY Zenon DEF open_bidi_stream, open_uni_stream, on_peer_stream_started, WcOpen, WcSendStream,
         HandleInv, WtTypes
<1>1. CASE on_peer_stream_started(s)
  <2>1. StreamLeft
    BY Zenon, <1>1 DEF on_peer_stream_started, PeerStarts
  <2> DEFINE x == NewStream
  <2>2. x \in Streams /\ {x} \in SUBSET Streams
    BY Zenon, <2>1, NewStreamIsFree
  <2>3. /\ \/ hq' = Opened(hq, {x}) \/ hq' = CloseAll(Opened(hq, {x}), {x})
        /\ ss' = ss \/ ss' = [ss EXCEPT ![s].streams = @ \cup {x}]
    BY Zenon, <1>1 DEF on_peer_stream_started
  <2> HIDE DEF x
  <2>4. hq' \in [Handles -> HandleStates] /\ \A h \in Roots : hq'[h] = hq[h]
    BY <1>0, <2>2, <2>3, StreamHandles
  <2>5. SessionsKept
    BY Zenon, <2>2, <2>3, StreamAdded
  <2> QED BY Zenon, <1>0, <2>4, <2>5, HandleKept
<1>2. CASE ~on_peer_stream_started(s)
  <2>1. \E o : hq' = o.hq /\ ss' = o.ss /\ OpenEnds(s, o)
    <3>1. CASE open_bidi_stream(s) \/ open_uni_stream(s)
      BY Zenon, <3>1 DEF open_bidi_stream, open_uni_stream, Apply, OpenEnds
    <3>2. CASE WcOpen /\ wc.sess = s
      BY Zenon, <3>2 DEF WcOpen, ensure_stream_open, Apply, OpenEnds
    <3>3. CASE WcSendStream /\ wc.sess = s
      <4>1. PICK o \in ensure_stream_open(wc) : \E f : Apply([o EXCEPT !.st = f])
        BY Zenon, <3>3 DEF WcSendStream
      <4>2. \/ StreamLeft /\ o \in OpenStream(s, [BidiStream(s) EXCEPT !.cb = "own"])
            \/ \E x : o = Outcome(hq, st, ss, x)
        BY Zenon, <3>3, <4>1 DEF ensure_stream_open
      <4>3. o = [hq |-> o.hq, st |-> o.st, ss |-> o.ss, x |-> o.x]
        BY <4>2 DEF OpenStream, Outcome
      <4>4. hq' = o.hq /\ ss' = o.ss
        BY Zenon, <4>1, <4>3 DEF Apply
      <4> QED BY Zenon, <4>2, <4>4 DEF OpenEnds
    <3> QED BY Zenon, <1>2, <3>1, <3>2, <3>3
  <2>2. PICK o : hq' = o.hq /\ ss' = o.ss /\ OpenEnds(s, o)
    BY Zenon, <2>1
  <2>3. /\ o.hq \in [Handles -> HandleStates] /\ \A h \in Roots : o.hq[h] = hq[h]
        /\ \/ o.ss = ss
           \/ \E x \in Streams : o.ss = [ss EXCEPT ![s].streams = @ \cup {x}]
    BY ZenonT(30), <2>2, OutcomeHandles
  <2>4. SessionsKept
    BY Zenon, <2>2, <2>3, StreamAdded
  <2> QED BY Zenon, <1>0, <2>2, <2>3, <2>4, HandleKept
<1> QED BY Zenon, <1>1, <1>2

\* The destructor drops the wrappers only.
LEMMA DestroyHandles ==
  ASSUME HandleInv, NEW s \in Sessions, UNCHANGED <<lsn, h3>>, DestroySession(s)
  PROVE  HandleInv'
<1>1. /\ hq \in [Handles -> HandleStates] /\ DOMAIN ss = Sessions
      /\ \A t \in Sessions : DOMAIN ss[t] = SessionFields /\ ss[t].streams \in SUBSET Streams
  BY Zenon DEF HandleInv, WtTypes
<1>2. {x \in ss[s].streams : st[x].handle} \in SUBSET Streams
  BY Zenon, <1>1
<1>3. hq' \in [Handles -> HandleStates] /\ \A h \in Roots : hq'[h] = hq[h]
  BY Zenon, <1>1, <1>2, StreamHandles DEF DestroySession, DropWrappers
<1>4. /\ DOMAIN ss' = Sessions /\ DOMAIN ss'[s] = SessionFields /\ ss'[s].streams = {}
      /\ ss'[s].owns = ss[s].owns /\ ss'[s].conn = ss[s].conn
      /\ ss[s].phase = "ready" /\ ss'[s].phase = "destroyed"
      /\ \A t \in Sessions : t # s => ss'[t] = ss[t]
  BY Zenon, <1>1 DEF DestroySession, SessionFields, Quiet
<1>5. SessionsKept
  BY Zenon, <1>1, <1>4 DEF SessionsKept, SameClaim
<1> QED BY Zenon, <1>3, <1>5, HandleKept DEF DestroySession

\* What opening and closing does to a set of handles, one by one.
LEMMA HandlesAt ==
  ASSUME NEW f \in [Handles -> HandleStates], NEW S \in SUBSET Handles
  PROVE  /\ Opened(f, S) \in [Handles -> HandleStates] /\ CloseAll(f, S) \in [Handles -> HandleStates]
         /\ \A h \in Handles : /\ Opened(f, S)[h] = IF h \in S THEN "open" ELSE f[h]
                               /\ CloseAll(f, S)[h] = IF h \notin S THEN f[h]
                                                      ELSE IF f[h] = "open" THEN "closed" ELSE "twice"
BY Zenon DEF Opened, CloseAll, HandleClose, HandleStates

\* A constructor that throws leaves what it opened closed and the rest alone.
LEMMA UnwoundAt ==
  ASSUME NEW f \in [Handles -> HandleStates], NEW S \in SUBSET Handles
  PROVE  /\ CloseAll(Opened(f, S), S) \in [Handles -> HandleStates]
         /\ \A h \in Handles : CloseAll(Opened(f, S), S)[h] = IF h \in S THEN "closed" ELSE f[h]
<1> DEFINE g == Opened(f, S)
<1>1. g \in [Handles -> HandleStates] /\ \A h \in Handles : g[h] = IF h \in S THEN "open" ELSE f[h]
  BY HandlesAt
<1> HIDE DEF g
<1>2. /\ CloseAll(g, S) \in [Handles -> HandleStates]
      /\ \A h \in Handles : CloseAll(g, S)[h] = IF h \notin S THEN g[h]
                                                ELSE IF g[h] = "open" THEN "closed" ELSE "twice"
  BY Zenon, <1>1, HandlesAt
<1>3. CloseAll(Opened(f, S), S) = CloseAll(g, S)
  BY Zenon DEF g
<1> QED BY Zenon, <1>1, <1>2, <1>3

LEMMA CtorHandles ==
  ASSUME HandleInv, NEW s \in Sessions, UNCHANGED <<lsn, h3>>, MsQuicSessionImpl(s)
  PROVE  HandleInv'
<1>1. /\ hq \in [Handles -> HandleStates] /\ DOMAIN ss = Sessions /\ wtSetup' = wtSetup
      /\ \A t \in Sessions : DOMAIN ss[t] = SessionFields /\ ss[t].streams \in SUBSET Streams
  BY Zenon DEF HandleInv, WtTypes, MsQuicSessionImpl
<1>2. /\ wtSetup.side = "client" /\ s = ClientSession /\ ss[s].phase = "none"
      /\ ClientHandles /\ \A h \in Tree : hq[h] = "none"
  BY Zenon DEF HandleInv, ClientHandles, MsQuicSessionImpl
<1>3. Tree \in SUBSET Handles /\ "lst" \in Handles /\ "lst" \notin Tree
  BY Zenon DEF Tree, Handles, Roots
<1>4. CASE \E k \in DOMAIN CtorSteps : /\ hq' = CloseAll(Opened(hq, CtorUnwinds[k]), CtorUnwinds[k])
                                       /\ ss' = [ss EXCEPT ![s].phase = "threw"]
  <2>1. PICK k \in DOMAIN CtorSteps : /\ hq' = CloseAll(Opened(hq, CtorUnwinds[k]), CtorUnwinds[k])
                                      /\ ss' = [ss EXCEPT ![s].phase = "threw"]
    BY Zenon, <1>4
  <2>2. PICK S : S = CtorUnwinds[k]
    BY Zenon
  <2>3. k \in 1..5
    BY DEF CtorSteps
  <2>4. S \in SUBSET Tree
    BY <2>2, <2>3 DEF CtorUnwinds, Tree
  <2>5. /\ hq' \in [Handles -> HandleStates]
        /\ \A h \in Handles : hq'[h] = IF h \in S THEN "closed" ELSE hq[h]
    BY SMTT(20), <1>1, <1>3, <2>1, <2>2, <2>4, UnwoundAt
  <2>6. /\ DOMAIN ss' = Sessions /\ DOMAIN ss'[s] = SessionFields /\ ss'[s].phase = "threw"
        /\ ss'[s].streams = ss[s].streams /\ \A t \in Sessions : t # s => ss'[t] = ss[t]
    BY Zenon, <1>1, <2>1 DEF SessionFields
  <2>7. hq'["lst"] = hq["lst"] /\ \A h \in Tree : hq'[h] \in {"none", "closed"}
    BY Zenon, <1>2, <1>3, <2>4, <2>5
  <2>8. WtTypes'
    BY Zenon, <1>1, <2>5, <2>6 DEF WtTypes, HandleInv
  <2>9. ClientHandles'
    BY <1>2, <2>6, <2>7 DEF ClientHandles, Undone, ClientSession
  <2> QED BY Zenon, <1>1, <1>2, <2>8, <2>9 DEF HandleInv
<1>5. CASE /\ hq' = Opened(hq, {"reg", "cfg", "conn"})
           /\ ss' = [ss EXCEPT ![s] = [NoSession EXCEPT !.phase = "started", !.conn = TRUE,
                                        !.cfg = TRUE, !.reg = TRUE, !.owns = TRUE]]
  <2>1. /\ hq' \in [Handles -> HandleStates]
        /\ \A h \in Handles : hq'[h] = IF h \in Tree THEN "open" ELSE hq[h]
    BY <1>1, <1>3, <1>5, HandlesAt DEF Tree
  <2>2. /\ DOMAIN ss' = Sessions /\ DOMAIN ss'[s] = SessionFields /\ ss'[s].phase = "started"
        /\ ss'[s].streams = {} /\ ss'[s].owns = TRUE /\ ss'[s].conn = TRUE
        /\ \A t \in Sessions : t # s => ss'[t] = ss[t]
    BY Zenon, <1>1, <1>5 DEF NoSession, SessionFields
  <2>3. WtTypes'
    BY Zenon, <1>1, <2>1, <2>2 DEF WtTypes, HandleInv
  <2>4. hq'["lst"] = hq["lst"] /\ \A h \in Tree : hq'[h] = "open"
    BY Zenon, <1>3, <2>1
  <2>5. ClientHandles'
    BY ZenonT(30), <1>2, <2>2, <2>4 DEF ClientHandles, ClientSession
  <2> QED BY Zenon, <1>1, <1>2, <2>3, <2>5 DEF HandleInv
<1> QED BY Zenon, <1>4, <1>5 DEF MsQuicSessionImpl

LEMMA ShutdownHandles ==
  ASSUME HandleInv, NEW s \in Sessions, UNCHANGED <<lsn, h3>>, on_shutdown_complete(s)
  PROVE  HandleInv'
<1>1. /\ hq \in [Handles -> HandleStates] /\ DOMAIN ss = Sessions /\ wtSetup' = wtSetup
      /\ \A t \in Sessions : DOMAIN ss[t] = SessionFields /\ ss[t].streams \in SUBSET Streams
  BY Zenon DEF HandleInv, WtTypes, on_shutdown_complete
<1> DEFINE f == DropWrappers(hq, ss[s].streams)
           S == IF ss[s].owns THEN {h \in {"conn", "cfg", "reg"} : ss[s].conn \/ h # "conn"} ELSE {}
<1>2. /\ hq["conn"] = "open" /\ ss[s].phase \in {"started", "ready", "closing1", "closing2"}
      /\ hq' = CloseAll(f, S)
      /\ ss' = [ss EXCEPT ![s].state = "kClosed", ![s].streams = {}, ![s].conn = FALSE,
                          ![s].cfg = @ /\ ~ss[s].owns, ![s].reg = @ /\ ~ss[s].owns]
  BY Zenon DEF on_shutdown_complete, ToSession, Alive
<1>3. f \in [Handles -> HandleStates] /\ \A h \in Roots : f[h] = hq[h]
  <2>1. {x \in ss[s].streams : st[x].handle} \in SUBSET Streams
    BY Zenon, <1>1
  <2> QED BY Zenon, <1>1, <2>1, StreamHandles DEF DropWrappers
<1>4. S \in SUBSET Tree /\ Tree \in SUBSET Handles /\ Roots \in SUBSET Handles /\ Tree \in SUBSET Roots
      /\ "lst" \in Roots /\ "lst" \notin Tree
  BY Zenon DEF Tree, Handles, Roots
<1> HIDE DEF f
<1>5. /\ hq' \in [Handles -> HandleStates]
      /\ \A h \in Roots : hq'[h] = IF h \notin S THEN hq[h]
                                   ELSE IF hq[h] = "open" THEN "closed" ELSE "twice"
  BY <1>2, <1>3, <1>4, HandlesAt
<1>6. /\ DOMAIN ss' = Sessions /\ DOMAIN ss'[s] = SessionFields /\ ss'[s].streams = {}
      /\ ss'[s].conn = FALSE /\ ss'[s].owns = ss[s].owns /\ ss'[s].phase = ss[s].phase
      /\ \A t \in Sessions : t # s => ss'[t] = ss[t]
  <2>1. PICK c, r : c = (ss[s].cfg /\ ~ss[s].owns) /\ r = (ss[s].reg /\ ~ss[s].owns)
    BY Zenon
  <2>2. ss' = [ss EXCEPT ![s].state = "kClosed", ![s].streams = {}, ![s].conn = FALSE,
                         ![s].cfg = c, ![s].reg = r]
    BY Zenon, <1>2, <2>1
  <2> QED BY ZenonT(30), <1>1, <2>2 DEF SessionFields
<1>7. CASE wtSetup.side = "client"
  <2>1. ClientHandles /\ s = ClientSession /\ ss[s].owns
    BY Zenon, <1>2, <1>7 DEF HandleInv, ClientHandles
  <2>2. ss[s].conn /\ \A h \in Tree : hq[h] = "open"
    BY Zenon, <1>2, <2>1 DEF ClientHandles, Tree
  <2>3. S = Tree
    BY Zenon, <2>1, <2>2 DEF Tree
  <2>4. hq'["lst"] = hq["lst"] /\ \A h \in Tree : hq'[h] = "closed"
    BY Zenon, <1>4, <1>5, <2>2, <2>3
  <2>5. WtTypes'
    BY ZenonT(30), <1>1, <1>5, <1>6 DEF WtTypes, HandleInv
  <2>6. ClientHandles'
    <3>1. /\ lsn' = NoListener /\ ~h3'.alive /\ hq'["lst"] = "none"
          /\ \A t \in Sessions : t # ClientSession => ss'[t].phase = "none"
      BY <1>6, <2>1, <2>4 DEF ClientHandles
    <3>2. /\ ss'[ClientSession].phase \notin {"none", "threw"}
          /\ ss'[ClientSession].owns /\ ss'[ClientSession].conn = FALSE
      BY Zenon, <1>2, <1>6, <2>1
    <3> QED BY Zenon, <2>4, <3>1, <3>2 DEF ClientHandles, ClientSession
  <2> QED BY Zenon, <1>1, <1>7, <2>5, <2>6 DEF HandleInv
<1>8. CASE wtSetup.side # "client"
  <2>1. ~ss[s].owns
    BY Zenon, <1>8 DEF HandleInv, ServerHandles
  <2>2. \A h \in Roots : hq'[h] = hq[h]
    BY Zenon, <1>5, <2>1
  <2>3. SessionsKept
    BY Zenon, <1>1, <1>6, <1>8, <2>1 DEF SessionsKept, SameClaim
  <2> QED BY Zenon, <1>1, <1>5, <2>2, <2>3, HandleKept
<1> QED BY Zenon, <1>7, <1>8

\* The steps of the listener.
LEMMA ListenerHandles ==
  ASSUME HandleInv, ListenerImpl \/ quic_listener_callback \/ StopBegins \/ StopEnds
  PROVE  HandleInv'
<1>1. /\ hq \in [Handles -> HandleStates] /\ UNCHANGED <<wtSetup, ss>>
      /\ lsn \in [phase : {"down", "threw", "running", "stopping", "stopped"}, conns : BOOLEAN]
  BY Zenon DEF HandleInv, WtTypes, ListenerImpl, quic_listener_callback, StopBegins, StopEnds
<1>2. wtSetup.side # "client"
  <2>1. wtSetup.side = "server" \/ lsn.phase \in {"running", "stopping"}
    BY Zenon DEF ListenerImpl, quic_listener_callback, StopBegins, StopEnds
  <2>2. wtSetup.side = "client" => lsn.phase = "down"
    BY DEF HandleInv, ClientHandles, NoListener
  <2> QED BY Zenon, <2>1, <2>2
<1>3. ServerHandles /\ Roots \in SUBSET Handles /\ Roots = {"reg", "cfg", "lst", "conn"}
  BY Zenon, <1>2 DEF HandleInv, Roots, Handles
<1>4. SUFFICES /\ hq' \in [Handles -> HandleStates] /\ ServerHandles'
               /\ lsn' \in [phase : {"down", "threw", "running", "stopping", "stopped"}, conns : BOOLEAN]
  BY Zenon, <1>1, <1>2 DEF HandleInv, WtTypes
<1>5. \A s \in Sessions : ~ss'[s].owns
  BY Zenon, <1>1, <1>3 DEF ServerHandles
<1>6. CASE ListenerImpl
  <2>1. lsn.phase = "down" /\ ~lsn.conns /\ \A h \in Roots : hq[h] = "none"
    BY Zenon, <1>3, <1>6 DEF ServerHandles, ListenerImpl
  <2>2. ASSUME NEW k \in DOMAIN StartSteps, lsn' = [lsn EXCEPT !.phase = "threw"],
               hq' = CloseAll(Opened(hq, StartUnwinds[k]), StartUnwinds[k])
        PROVE  /\ hq' \in [Handles -> HandleStates] /\ ServerHandles'
               /\ lsn' \in [phase : {"down", "threw", "running", "stopping", "stopped"}, conns : BOOLEAN]
    <3>1. PICK S : S = StartUnwinds[k]
      BY Zenon
    <3>2. k \in 1..5
      BY <2>2 DEF StartSteps
    <3>3. S \in SUBSET Handles /\ S \in SUBSET {"reg", "cfg", "lst"}
      BY <3>1, <3>2 DEF StartUnwinds, Handles, Roots
    <3>4. /\ hq' \in [Handles -> HandleStates]
          /\ \A h \in Handles : hq'[h] = IF h \in S THEN "closed" ELSE hq[h]
      BY <1>1, <2>2, <3>1, <3>3, UnwoundAt
    <3>5. hq'["conn"] = "none" /\ \A h \in Roots : hq'[h] \in {"none", "closed"}
      BY Zenon, <1>3, <2>1, <3>3, <3>4
    <3>6. lsn' = [phase |-> "threw", conns |-> lsn.conns] /\ lsn.conns \in BOOLEAN
      BY Zenon, <1>1, <2>2
    <3> QED BY Zenon, <1>5, <3>4, <3>5, <3>6 DEF ServerHandles, Undone, Roots
  <2>3. ASSUME lsn' = [lsn EXCEPT !.phase = "running"], hq' = Opened(hq, {"reg", "cfg", "lst"})
        PROVE  /\ hq' \in [Handles -> HandleStates] /\ ServerHandles'
               /\ lsn' \in [phase : {"down", "threw", "running", "stopping", "stopped"}, conns : BOOLEAN]
    <3>1. {"reg", "cfg", "lst"} \in SUBSET Handles
      BY Zenon DEF Handles, Roots
    <3>2. /\ hq' \in [Handles -> HandleStates]
          /\ \A h \in Handles : hq'[h] = IF h \in {"reg", "cfg", "lst"} THEN "open" ELSE hq[h]
      BY <1>1, <2>3, <3>1, HandlesAt
    <3>3. hq'["conn"] = "none" /\ hq'["reg"] = "open" /\ hq'["cfg"] = "open" /\ hq'["lst"] = "open"
      BY Zenon, <1>3, <2>1, <3>2
    <3>4. lsn' = [phase |-> "running", conns |-> FALSE]
      BY Zenon, <1>1, <2>1, <2>3
    <3> QED BY Zenon, <1>5, <3>2, <3>3, <3>4 DEF ServerHandles, Accepted
  <2> QED BY Zenon, <1>6, <2>2, <2>3 DEF ListenerImpl
<1>7. CASE quic_listener_callback
  <2>1. /\ lsn.phase = "running" /\ hq["conn"] = "none" /\ lsn' = [lsn EXCEPT !.conns = TRUE]
        /\ \/ Fails("ConnectionSetConfiguration") /\ hq' = [hq EXCEPT !["conn"] = "closed"]
           \/ hq' = [hq EXCEPT !["conn"] = "open"]
    BY Zenon, <1>7 DEF quic_listener_callback
  <2>2. /\ hq' \in [Handles -> HandleStates]
        /\ \A h \in Handles : h # "conn" => hq'[h] = hq[h]
        /\ hq'["conn"] = "open" \/ (Fails("ConnectionSetConfiguration") /\ hq'["conn"] = "closed")
    BY Zenon, <1>1, <1>3, <2>1 DEF HandleStates
  <2>3. lsn' = [phase |-> "running", conns |-> TRUE]
    BY Zenon, <1>1, <2>1
  <2>4. hq'["reg"] = "open" /\ hq'["cfg"] = "open" /\ hq'["lst"] = "open"
    BY Zenon, <1>3, <2>1, <2>2 DEF ServerHandles
  <2> QED BY Zenon, <1>1, <1>5, <2>2, <2>3, <2>4 DEF ServerHandles, Accepted, Fails
<1>8. CASE StopBegins
  <2>1. /\ lsn.phase = "running" /\ lsn' = [lsn EXCEPT !.phase = "stopping"]
        /\ hq' = CloseAll(hq, {"lst"}) /\ {"lst"} \in SUBSET Handles
    BY Zenon, <1>8 DEF StopBegins, Handles, Roots
  <2>2. /\ hq' \in [Handles -> HandleStates]
        /\ \A h \in Handles : hq'[h] = IF h \notin {"lst"} THEN hq[h]
                                       ELSE IF hq[h] = "open" THEN "closed" ELSE "twice"
    BY <1>1, <2>1, HandlesAt
  <2>3. /\ hq'["lst"] = "closed" /\ hq'["reg"] = hq["reg"] /\ hq'["cfg"] = hq["cfg"]
        /\ hq'["conn"] = hq["conn"]
    BY Zenon, <1>3, <2>1, <2>2 DEF ServerHandles
  <2>4. lsn' = [phase |-> "stopping", conns |-> lsn.conns] /\ lsn.conns \in BOOLEAN
    BY Zenon, <1>1, <2>1
  <2> QED BY ZenonT(30), <1>1, <1>3, <1>5, <2>1, <2>2, <2>3, <2>4 DEF ServerHandles, Accepted, Fails
<1>9. CASE StopEnds
  <2>1. PICK S : /\ S = {"cfg", "reg"} \cup IF lsn.conns THEN {"conn"} ELSE {}
                 /\ lsn.phase = "stopping" /\ hq' = CloseAll(hq, S)
                 /\ lsn' = [phase |-> "stopped", conns |-> FALSE]
    BY Zenon, <1>9 DEF StopEnds
  <2>2. S \in SUBSET Handles
    BY Zenon, <2>1 DEF Handles, Roots
  <2>3. /\ hq' \in [Handles -> HandleStates]
        /\ \A h \in Handles : hq'[h] = IF h \notin S THEN hq[h]
                                       ELSE IF hq[h] = "open" THEN "closed" ELSE "twice"
    BY SMTT(20), <1>1, <2>1, <2>2, HandlesAt
  <2>4. /\ hq["reg"] = "open" /\ hq["cfg"] = "open" /\ hq["lst"] = "closed" /\ Accepted
    BY Zenon, <1>3, <2>1 DEF ServerHandles
  <2>5. hq'["reg"] = "closed" /\ hq'["cfg"] = "closed" /\ hq'["lst"] = "closed"
    BY Zenon, <1>3, <2>1, <2>3, <2>4
  <2>6. hq'["conn"] # "open" /\ (hq'["conn"] = "twice" => Fails("ConnectionSetConfiguration"))
    BY Zenon, <1>3, <2>1, <2>3, <2>4 DEF Accepted
  <2> QED BY Zenon, <1>1, <1>5, <2>1, <2>3, <2>5, <2>6 DEF ServerHandles, Fails
<1> QED BY Zenon, <1>6, <1>7, <1>8, <1>9

\* The steps of the HTTP/3 handler, which only a listener starts.
LEMMA Http3Handles ==
  ASSUME HandleInv,
         \/ H3Connected \/ H3ShutdownInitiated \/ H3ShutdownComplete \/ H3DatagramState
         \/ H3PeerStreamStarted
         \/ \E x \in Streams : quic_server_stream_callback(x) \/ H3StreamClosed(x)
  PROVE  HandleInv'
<1>1. /\ hq \in [Handles -> HandleStates] /\ UNCHANGED <<wtSetup, lsn>> /\ DOMAIN ss = Sessions
      /\ \A t \in Sessions : DOMAIN ss[t] = SessionFields /\ ss[t].streams \in SUBSET Streams
  BY Zenon DEF HandleInv, WtTypes, H3Connected, H3ShutdownInitiated, H3ShutdownComplete,
         H3DatagramState, H3PeerStreamStarted, quic_server_stream_callback, H3StreamClosed
<1>2. wtSetup.side # "client"
  BY Zenon DEF HandleInv, ClientHandles, H3Connected, H3ShutdownInitiated, H3ShutdownComplete,
         H3DatagramState, H3PeerStreamStarted, quic_server_stream_callback, H3StreamClosed,
         ToH3, H3Fires
<1>3. \A t \in Sessions : ~ss[t].owns
  BY Zenon, <1>2 DEF HandleInv, ServerHandles
<1>4. hq' \in [Handles -> HandleStates] /\ \A h \in Roots : hq'[h] = hq[h]
  <2>1. \/ UNCHANGED hq
        \/ \E S \in SUBSET Streams : \/ hq' = Opened(hq, S) \/ hq' = CloseAll(hq, S)
                                     \/ hq' = CloseAll(Opened(hq, S), S)
    <3>1. CASE H3Connected \/ H3PeerStreamStarted
      <4>1. {NewStream} \in SUBSET Streams
        BY Zenon, <3>1, NewStreamIsFree DEF H3Connected, H3PeerStreamStarted, PeerStarts
      <4> QED BY Zenon, <3>1, <4>1 DEF H3Connected, H3PeerStreamStarted, send_settings
    <3>2. CASE H3ShutdownInitiated \/ H3ShutdownComplete \/ H3DatagramState
      BY Zenon, <3>2 DEF H3ShutdownInitiated, H3ShutdownComplete, H3DatagramState
    <3>3. CASE \E x \in Streams : quic_server_stream_callback(x) \/ H3StreamClosed(x)
      BY Zenon, <3>3 DEF quic_server_stream_callback, H3StreamClosed
    <3> QED BY Zenon, <3>1, <3>2, <3>3
  <2> QED BY <1>1, <2>1, StreamHandles
<1>5. SessionsKept
  <2>1. \/ UNCHANGED ss
        \/ \E s \in Sessions : ss' = [ss EXCEPT ![s] = [ServerSession(Seed) EXCEPT
                                        !.phase = IF wtSetup.keeps THEN "ready" ELSE "destroyed"]]
    <3>1. ASSUME NEW x \in Streams, quic_server_stream_callback(x)
          PROVE  \/ UNCHANGED ss
                 \/ \E s \in Sessions : ss' = [ss EXCEPT ![s] = [ServerSession(Seed) EXCEPT
                                        !.phase = IF wtSetup.keeps THEN "ready" ELSE "destroyed"]]
      <4>1. UNCHANGED ss \/ \E h, q : on_webtransport_request(x, h, q)
        BY Zenon, <3>1 DEF quic_server_stream_callback
      <4>2. FreshSession # {} => (CHOOSE s \in FreshSession : TRUE) \in Sessions
        BY Zenon DEF FreshSession
      <4> QED BY Zenon, <4>1, <4>2 DEF on_webtransport_request
    <3>2. CASE \/ H3Connected \/ H3ShutdownInitiated \/ H3ShutdownComplete \/ H3DatagramState
               \/ H3PeerStreamStarted \/ \E x \in Streams : H3StreamClosed(x)
      BY Zenon, <3>2 DEF H3Connected, H3ShutdownInitiated, H3ShutdownComplete, H3DatagramState,
                  H3PeerStreamStarted, H3StreamClosed
    <3> QED BY Zenon, <3>1, <3>2
  <2>2. ASSUME NEW s \in Sessions,
               ss' = [ss EXCEPT ![s] = [ServerSession(Seed) EXCEPT
                                        !.phase = IF wtSetup.keeps THEN "ready" ELSE "destroyed"]]
        PROVE  SessionsKept
    <3>1. PICK r : r = ServerSession(Seed)
      BY Zenon
    <3>2. DOMAIN r = SessionFields /\ r.streams = {} /\ r.owns = FALSE
      BY Zenon, <3>1 DEF ServerSession, NoSession, SessionFields
    <3>3. /\ DOMAIN ss' = Sessions /\ DOMAIN ss'[s] = SessionFields /\ ss'[s].streams = {}
          /\ ~ss'[s].owns /\ \A t \in Sessions : t # s => ss'[t] = ss[t]
      BY Zenon, <1>1, <2>2, <3>1, <3>2 DEF SessionFields
    <3> QED BY Zenon, <1>1, <1>2, <1>3, <3>3 DEF SessionsKept
  <2> QED BY Zenon, <1>1, <2>1, <2>2 DEF SessionsKept, SameClaim
<1> QED BY Zenon, <1>1, <1>2, <1>4, <1>5, HandleKept

-----------------------------------------------------------------------------
(* close() of the channel and what the worker still has to deliver. *)

StreamFields == {"kind", "by", "handle", "closed", "cb", "q", "fin", "live"}
ChannelFields == {"sess", "opened", "attached", "rel", "ready", "raw", "peer", "done", "pending",
                  "expired", "count", "opens", "stray", "after"}
WorkFields == {"what", "cb", "x", "bytes", "late"}
QuicFields == {"conn", "ctx", "started", "dgrams", "wire", "from", "wk"}

ChannelTypes ==
    /\ DOMAIN wc = ChannelFields /\ wc.sess \in Sessions \cup {"none"}
    /\ DOMAIN st = Streams /\ \A x \in Streams : DOMAIN st[x] = StreamFields
    /\ DOMAIN quic = QuicFields /\ DOMAIN quic.wk = WorkFields /\ got \in Seq(Range(got))

\* What the worker holds has passed the look at opened_.
WorkPassed(w) == w.what \in {"parse", "deliver"}

\* The session's callbacks lead to the channel that is attached, and the peer
\* callback of a wrapper is the one the channel knows of, open or a stray; so a
\* callback that was copied after close() is neither, strays apart.  What has
\* passed the look at opened_ before close() is still to come after it.
LateInv ==
    /\ ChannelTypes
    /\ wc.opened => wc.sess # "none"
    /\ wc.peer # "none" => wc.opened \/ wc.peer \in wc.stray
    /\ \A s \in Sessions : ss[s].dcb \/ ss[s].pcb => s = wc.sess /\ wc.attached
    /\ \A x \in Streams : st[x].cb = "peer" /\ st[x].by \in Sessions =>
                             wc.peer = x /\ st[x].by = wc.sess
    /\ quic.wk.late => /\ wc.sess # "none"
                       /\ quic.wk.x \in wc.stray \/ (quic.wk.what = "stream" /\ quic.wk.cb # "peer")
    /\ wc.after \in {0, 1} /\ (~wc.opened /\ WorkPassed(quic.wk) => wc.after = 0)

LEMMA LateInit == WtInit => LateInv
<1> SUFFICES ASSUME WtInit PROVE LateInv
  BY Zenon
<1>1. <<>> \in Seq(Range(<<>>))
  OBVIOUS
<1>2. ChannelTypes
  BY Zenon, <1>1 DEF WtInit, ChannelTypes, NoChannel, ChannelFields, NoStream, StreamFields, QuicFields,
     NoWork, WorkFields
<1> QED BY Zenon, <1>2 DEF WtInit, LateInv, NoChannel, NoSession, NoStream, NoWork, WorkPassed

\* Steps that leave the channel alone, register nothing and start nothing.
CallbacksKept == \A s \in Sessions : ss'[s].dcb \/ ss'[s].pcb => ss[s].dcb \/ ss[s].pcb
StreamsKept ==
    /\ DOMAIN st' = Streams
    /\ \A x \in Streams : /\ DOMAIN st'[x] = StreamFields
                          /\ \/ st'[x].cb = st[x].cb /\ st'[x].by = st[x].by
                             \/ st'[x].cb # "peer"
                             \/ st'[x].by \notin Sessions
WorkKept ==
    /\ DOMAIN quic' = QuicFields
    /\ \/ quic'.wk = quic.wk
       \/ /\ DOMAIN quic'.wk = WorkFields
          /\ quic'.wk.late => /\ quic.wk.late /\ quic'.wk.x = quic.wk.x
                              /\ quic.wk.what # "stream" \/ quic.wk.cb = "peer"
          /\ WorkPassed(quic'.wk) => wc.opened \/ WorkPassed(quic.wk)

LEMMA LateKept ==
  ASSUME LateInv, UNCHANGED <<wc, got>>, CallbacksKept, StreamsKept, WorkKept
  PROVE  LateInv'
BY ZenonT(30) DEF LateInv, ChannelTypes, CallbacksKept, StreamsKept, WorkKept

\* One wrapper changes, but not who made it or its callback.
LEMMA OneStream ==
  ASSUME LateInv, NEW x \in Streams, DOMAIN st' = Streams,
         \A y \in Streams : y # x => st'[y] = st[y],
         DOMAIN st'[x] = StreamFields,
         \/ st'[x].cb = st[x].cb /\ st'[x].by = st[x].by
         \/ st'[x].cb # "peer"
         \/ st'[x].by \notin Sessions
  PROVE  StreamsKept
BY Zenon DEF LateInv, ChannelTypes, StreamsKept

LEMMA StreamStepLate ==
  ASSUME WtTypes, LateInv, UNCHANGED <<wc, got>>, NEW x \in Streams,
         \/ BidiRecv(x) \/ UniReset(x) \/ quic_stream_callback_bidi(x) \/ StreamShutdownComplete(x)
  PROVE  LateInv'
<1>1. UNCHANGED <<quic, ss>>
  BY Zenon DEF BidiRecv, UniReset, quic_stream_callback_bidi, StreamShutdownComplete
<1>2. DOMAIN st = Streams /\ DOMAIN st[x] = StreamFields
  BY Zenon DEF LateInv, ChannelTypes
<1>3. /\ DOMAIN st' = Streams /\ \A y \in Streams : y # x => st'[y] = st[y]
      /\ DOMAIN st'[x] = StreamFields /\ st'[x].cb = st[x].cb /\ st'[x].by = st[x].by
  <2>1. CASE BidiRecv(x) \/ UniReset(x)
    BY Zenon, <1>2, <2>1 DEF BidiRecv, UniReset, StreamShut, StreamFields
  <2>2. CASE quic_stream_callback_bidi(x) \/ StreamShutdownComplete(x)
    BY <1>2, <2>2 DEF quic_stream_callback_bidi, StreamShutdownComplete, on_peer_send_shutdown,
       on_peer_send_aborted, on_peer_receive_aborted, on_stream_closed, StreamFields
  <2> QED BY Zenon, <2>1, <2>2
<1>4. StreamsKept
  BY Zenon, <1>3, OneStream
<1>5. CallbacksKept /\ WorkKept
  BY Zenon, <1>1 DEF CallbacksKept, WorkKept, LateInv, ChannelTypes
<1> QED BY Zenon, <1>4, <1>5, LateKept

\* The session's steps that touch no stream.
LEMMA SessionStepLate ==
  ASSUME WtTypes, LateInv, UNCHANGED <<wc, got>>, NEW s \in Sessions,
         \/ MsQuicSessionImpl(s) \/ CtorStoresConnecting(s) \/ CloseBegins(s)
         \/ CloseConnection(s) \/ on_connected(s) \/ on_shutdown_initiated_by_transport(s)
         \/ on_shutdown_initiated_by_peer(s) \/ on_datagram_state_changed(s)
  PROVE  LateInv'
<1>1. /\ DOMAIN ss = Sessions /\ DOMAIN ss[s] = SessionFields /\ DOMAIN quic = QuicFields
  BY Zenon DEF WtTypes, LateInv, ChannelTypes
<1>2. UNCHANGED st
  BY Zenon DEF MsQuicSessionImpl, CtorStoresConnecting, CloseBegins, CloseConnection, on_connected,
         on_shutdown_initiated_by_transport, on_shutdown_initiated_by_peer,
         on_datagram_state_changed
<1>3. DOMAIN quic' = QuicFields /\ quic'.wk = quic.wk
  BY Zenon, <1>1 DEF MsQuicSessionImpl, CtorStoresConnecting, CloseBegins, CloseConnection, on_connected,
         on_shutdown_initiated_by_transport, on_shutdown_initiated_by_peer,
         on_datagram_state_changed, ShutConn, QuicFields
<1>4. \A t \in Sessions : t # s => ss'[t] = ss[t]
  BY Zenon, <1>1 DEF MsQuicSessionImpl, CtorStoresConnecting, CloseBegins, CloseConnection, on_connected,
         on_shutdown_initiated_by_transport, on_shutdown_initiated_by_peer,
         on_datagram_state_changed
<1>5. ss'[s].dcb \/ ss'[s].pcb => ss[s].dcb \/ ss[s].pcb
  <2>1. CASE MsQuicSessionImpl(s)
    <3>1. CASE ss' = [ss EXCEPT ![s].phase = "threw"]
      BY Zenon, <1>1, <3>1 DEF SessionFields
    <3>2. CASE ss' = [ss EXCEPT ![s] = [NoSession EXCEPT !.phase = "started", !.conn = TRUE,
                                          !.cfg = TRUE, !.reg = TRUE, !.owns = TRUE]]
      BY Zenon, <1>1, <3>2 DEF NoSession
    <3> QED BY Zenon, <2>1, <3>1, <3>2 DEF MsQuicSessionImpl
  <2>2. CASE CloseConnection(s)
    <3>1. PICK b : ss' = [ss EXCEPT ![s].phase = "ready", ![s].conn = b]
      BY ZenonT(30), <2>2 DEF CloseConnection
    <3> QED BY Zenon, <1>1, <3>1 DEF SessionFields
  <2>3. CASE \/ CtorStoresConnecting(s) \/ CloseBegins(s) \/ on_connected(s)
             \/ on_shutdown_initiated_by_transport(s) \/ on_shutdown_initiated_by_peer(s)
             \/ on_datagram_state_changed(s)
    BY <1>1, <2>3 DEF CtorStoresConnecting, CloseBegins, on_connected,
         on_shutdown_initiated_by_transport, on_shutdown_initiated_by_peer,
         on_datagram_state_changed, SessionFields
  <2> QED BY ZenonT(30), <2>1, <2>2, <2>3
<1>6. CallbacksKept /\ WorkKept /\ StreamsKept
  BY Zenon, <1>2, <1>3, <1>4, <1>5 DEF CallbacksKept, WorkKept, StreamsKept, LateInv, ChannelTypes
<1> QED BY Zenon, <1>6, LateKept

\* close() of the session, its destructor and SHUTDOWN_COMPLETE.
LEMMA SessionEndsLate ==
  ASSUME WtTypes, LateInv, UNCHANGED <<wc, got>>, NEW s \in Sessions,
         CloseStreams(s) \/ DestroySession(s) \/ on_shutdown_complete(s)
  PROVE  LateInv'
<1>1. /\ DOMAIN ss = Sessions /\ DOMAIN ss[s] = SessionFields /\ DOMAIN quic = QuicFields
      /\ DOMAIN st = Streams /\ \A x \in Streams : DOMAIN st[x] = StreamFields
      /\ ss[s].streams \in SUBSET Streams
  BY Zenon DEF WtTypes, LateInv, ChannelTypes
<1>2. DOMAIN quic' = QuicFields /\ quic'.wk = quic.wk
  BY <1>1 DEF CloseStreams, DestroySession, on_shutdown_complete, ShutConn, QuicFields
<1>3. \A t \in Sessions : t # s => ss'[t] = ss[t]
  BY ZenonT(30), <1>1 DEF CloseStreams, DestroySession, on_shutdown_complete
<1>4. ss'[s].dcb \/ ss'[s].pcb => ss[s].dcb \/ ss[s].pcb
  BY <1>1 DEF CloseStreams, DestroySession, on_shutdown_complete, SessionFields
<1>5. StreamsKept
  <2>1. CASE CloseStreams(s)
    <3>1. \A x \in Streams : st'[x] = IF x \in ss[s].streams THEN BidiClose(st, x)[x] ELSE st[x]
      BY Zenon, <2>1 DEF CloseStreams
    <3>2. \A x \in Streams : LET c == BidiClose(st, x)[x] IN
             DOMAIN c = StreamFields /\ c.cb = st[x].cb /\ c.by = st[x].by
      BY Zenon, <1>1 DEF BidiClose, StreamShut, StreamFields
    <3>3. DOMAIN st' = Streams
      BY Zenon, <2>1 DEF CloseStreams
    <3> QED BY Zenon, <1>1, <3>1, <3>2, <3>3 DEF StreamsKept
  <2>2. CASE DestroySession(s) \/ on_shutdown_complete(s)
    <3>1. st' = Dropped(ss[s].streams)
      BY Zenon, <2>2 DEF DestroySession, on_shutdown_complete
    <3>2. /\ DOMAIN st' = Streams
          /\ \A x \in Streams : IF x \in ss[s].streams
                                THEN st'[x] = [st[x] EXCEPT !.by = "dead", !.handle = FALSE,
                                                            !.live = @ /\ ~st[x].handle]
                                ELSE st'[x] = st[x]
      BY Zenon, <3>1 DEF Dropped
    <3>3. \A x \in ss[s].streams : DOMAIN st'[x] = StreamFields /\ st'[x].by = "dead"
      <4>1. TAKE x \in ss[s].streams
      <4>2. PICK c : c = st[x] /\ DOMAIN c = StreamFields
        BY Zenon, <1>1
      <4>3. st'[x] = [c EXCEPT !.by = "dead", !.handle = FALSE, !.live = @ /\ ~c.handle]
        BY Zenon, <1>1, <3>2, <4>2
      <4> QED BY ONLY ZenonT(30), <4>2, <4>3 DEF StreamFields
    <3>4. "dead" \notin Sessions
      BY Zenon, WtAssumption DEF WtAssumption
    <3> QED BY Zenon, <1>1, <3>2, <3>3, <3>4 DEF StreamsKept
  <2> QED BY Zenon, <2>1, <2>2
<1>6. CallbacksKept /\ WorkKept
  BY Zenon, <1>2, <1>3, <1>4 DEF CallbacksKept, WorkKept
<1> QED BY ZenonT(30), <1>5, <1>6, LateKept

\* The HTTP/3 handler and the listener know nothing of the channel.
LEMMA ServerStepLate ==
  ASSUME WtTypes, LateInv, UNCHANGED <<wc, got>>, WtServerNext
  PROVE  LateInv'
<1>1. /\ DOMAIN ss = Sessions /\ DOMAIN quic = QuicFields
      /\ DOMAIN st = Streams /\ \A x \in Streams : DOMAIN st[x] = StreamFields
  BY Zenon DEF WtTypes, LateInv, ChannelTypes
<1>2. CASE ListenerImpl \/ quic_listener_callback \/ StopBegins \/ StopEnds
  <2>1. UNCHANGED <<ss, st>> /\ DOMAIN quic' = QuicFields /\ quic'.wk = quic.wk
    BY Zenon, <1>1, <1>2 DEF ListenerImpl, quic_listener_callback, StopBegins, StopEnds, QuicFields
  <2> QED BY Zenon, <1>1, <2>1, LateKept DEF CallbacksKept, StreamsKept, WorkKept
<1>3. CASE H3Connected \/ H3ShutdownInitiated \/ H3ShutdownComplete \/ H3DatagramState
           \/ H3PeerStreamStarted
  <2>1. UNCHANGED ss /\ DOMAIN quic' = QuicFields /\ quic'.wk = quic.wk
    BY Zenon, <1>1, <1>3 DEF H3Connected, H3ShutdownInitiated, H3ShutdownComplete, H3DatagramState,
       H3PeerStreamStarted, PeerStarted, QuicFields
  <2>2. \/ UNCHANGED st
        \/ \E kind : NewStream \in Streams /\ st' = [st EXCEPT ![NewStream] = H3Stream(kind)]
    BY Zenon, <1>3, NewStreamIsFree DEF H3Connected, H3ShutdownInitiated, H3ShutdownComplete,
       H3DatagramState, H3PeerStreamStarted, send_settings, PeerStarts
  <2>3. \A kind : DOMAIN H3Stream(kind) = StreamFields /\ H3Stream(kind).by = "h3"
    BY Zenon DEF H3Stream, NoStream, StreamFields
  <2>4. "h3" \notin Sessions
    BY Zenon, WtAssumption DEF WtAssumption
  <2>5. StreamsKept
    BY ZenonT(30), <1>1, <2>2, <2>3, <2>4 DEF StreamsKept
  <2> QED BY Zenon, <2>1, <2>5, LateKept DEF CallbacksKept, WorkKept
<1>4. ASSUME NEW x \in Streams, H3StreamClosed(x)
      PROVE  LateInv'
  <2>1. UNCHANGED <<ss, quic>> /\ st' = [st EXCEPT ![x].live = FALSE, ![x].handle = FALSE]
    BY Zenon, <1>4 DEF H3StreamClosed
  <2>2. /\ DOMAIN st' = Streams /\ \A y \in Streams : y # x => st'[y] = st[y]
        /\ DOMAIN st'[x] = StreamFields /\ st'[x].cb = st[x].cb /\ st'[x].by = st[x].by
    BY Zenon, <1>1, <2>1 DEF StreamFields
  <2>3. StreamsKept
    BY Zenon, <2>2, OneStream
  <2> QED BY Zenon, <1>1, <2>1, <2>3, LateKept DEF CallbacksKept, WorkKept
<1>5. ASSUME NEW x \in Streams, quic_server_stream_callback(x)
      PROVE  LateInv'
  <2>1. \E h, q : /\ \E v : q = [quic EXCEPT !.wire[x] = v]
                  /\ (quic' = q /\ UNCHANGED ss) \/ on_webtransport_request(x, h, q)
    BY Zenon, <1>5 DEF quic_server_stream_callback
  <2>2. PICK h, q : /\ \E v : q = [quic EXCEPT !.wire[x] = v]
                    /\ (quic' = q /\ UNCHANGED ss) \/ on_webtransport_request(x, h, q)
    BY Zenon, <2>1
  <2>3. DOMAIN q = QuicFields /\ q.wk = quic.wk
    BY ZenonT(30), <1>1, <2>2 DEF QuicFields
  <2>4. DOMAIN quic' = QuicFields /\ quic'.wk = quic.wk
    BY Zenon, <2>2, <2>3 DEF on_webtransport_request, QuicFields
  <2>5. \/ UNCHANGED ss
        \/ \E s \in Sessions : ss' = [ss EXCEPT ![s] = [ServerSession(Seed) EXCEPT
                                        !.phase = IF wtSetup.keeps THEN "ready" ELSE "destroyed"]]
    <3>1. FreshSession # {} => (CHOOSE s \in FreshSession : TRUE) \in Sessions
      BY Zenon DEF FreshSession
    <3> QED BY Zenon, <2>2, <3>1 DEF on_webtransport_request
  <2>6. CallbacksKept
    <3>1. PICK r : r = ServerSession(Seed)
      BY Zenon
    <3>2. r.dcb = FALSE /\ r.pcb = FALSE /\ DOMAIN r = SessionFields
      BY Zenon, <3>1 DEF ServerSession, NoSession, SessionFields
    <3>3. ASSUME NEW s \in Sessions,
                 ss' = [ss EXCEPT ![s] = [r EXCEPT
                                        !.phase = IF wtSetup.keeps THEN "ready" ELSE "destroyed"]]
          PROVE  CallbacksKept
      <4>1. ss'[s].dcb = FALSE /\ ss'[s].pcb = FALSE /\ \A t \in Sessions : t # s => ss'[t] = ss[t]
        BY Zenon, <1>1, <3>2, <3>3 DEF SessionFields
      <4> QED BY Zenon, <4>1 DEF CallbacksKept
    <3> QED BY Zenon, <2>5, <3>1, <3>3 DEF CallbacksKept
  <2>7. UNCHANGED st
    BY Zenon, <1>5 DEF quic_server_stream_callback
  <2> QED BY ZenonT(30), <1>1, <2>4, <2>6, <2>7, LateKept DEF StreamsKept, WorkKept
<1> QED BY Zenon, <1>2, <1>3, <1>4, <1>5 DEF WtServerNext

\* Opening a stream does not give it the peer callback.
LEMMA OutcomeStreams ==
  ASSUME WtTypes, LateInv, NEW s \in Sessions, NEW w, NEW o, DOMAIN w = StreamFields, w.cb # "peer",
         \/ StreamLeft /\ o \in OpenStream(s, w)
         \/ \E x : o = Outcome(hq, st, ss, x)
  PROVE  /\ DOMAIN o.st = Streams
         /\ \A x \in Streams : /\ DOMAIN o.st[x] = StreamFields
                               /\ \/ o.st[x].cb = st[x].cb /\ o.st[x].by = st[x].by
                                  \/ o.st[x].cb # "peer"
         /\ \A t \in Sessions : o.ss[t].dcb = ss[t].dcb /\ o.ss[t].pcb = ss[t].pcb
         /\ o = [hq |-> o.hq, st |-> o.st, ss |-> o.ss, x |-> o.x]
<1>1. /\ DOMAIN ss = Sessions /\ DOMAIN ss[s] = SessionFields
      /\ DOMAIN st = Streams /\ \A x \in Streams : DOMAIN st[x] = StreamFields
  BY Zenon DEF WtTypes, LateInv, ChannelTypes
<1>2. /\ o = [hq |-> o.hq, st |-> o.st, ss |-> o.ss, x |-> o.x]
      /\ \/ o.st = st /\ o.ss = ss
         \/ \E x \in Streams : /\ o.st = [st EXCEPT ![x] = w]
                               /\ o.ss = [ss EXCEPT ![s].streams = @ \cup {x}]
  <2>1. CASE \E x : o = Outcome(hq, st, ss, x)
    BY <2>1 DEF Outcome
  <2>2. CASE StreamLeft /\ o \in OpenStream(s, w)
    <3>1. NewStream \in Streams
      BY Zenon, <2>2, NewStreamIsFree
    <3>2. PICK x \in Streams : x = NewStream
      BY Zenon, <3>1
    <3>3. \/ \E f : o = Outcome(f, [st EXCEPT ![x] = w], [ss EXCEPT ![s].streams = @ \cup {x}], x)
          \/ \E f : o = Outcome(f, st, ss, "none")
      BY Zenon, <2>2, <3>2 DEF OpenStream
    <3>4. CASE \E f : o = Outcome(f, st, ss, "none")
      BY <3>4 DEF Outcome
    <3>5. ASSUME NEW f, o = Outcome(f, [st EXCEPT ![x] = w], [ss EXCEPT ![s].streams = @ \cup {x}], x)
          PROVE  /\ o = [hq |-> o.hq, st |-> o.st, ss |-> o.ss, x |-> o.x]
                 /\ o.st = [st EXCEPT ![x] = w] /\ o.ss = [ss EXCEPT ![s].streams = @ \cup {x}]
      BY Zenon, <3>5 DEF Outcome
    <3> QED BY ZenonT(30), <3>3, <3>4, <3>5
  <2> QED BY Zenon, <2>1, <2>2
<1>3. CASE o.st = st /\ o.ss = ss
  BY <1>1, <1>2, <1>3
<1>4. ASSUME NEW x \in Streams, o.st = [st EXCEPT ![x] = w],
             o.ss = [ss EXCEPT ![s].streams = @ \cup {x}]
      PROVE  /\ DOMAIN o.st = Streams
             /\ \A y \in Streams : /\ DOMAIN o.st[y] = StreamFields
                                   /\ \/ o.st[y].cb = st[y].cb /\ o.st[y].by = st[y].by
                                      \/ o.st[y].cb # "peer"
             /\ \A t \in Sessions : o.ss[t].dcb = ss[t].dcb /\ o.ss[t].pcb = ss[t].pcb
  <2>1. \A y \in Streams : o.st[y] = IF y = x THEN w ELSE st[y]
    BY Zenon, <1>1, <1>4
  <2>2. \A t \in Sessions : o.ss[t].dcb = ss[t].dcb /\ o.ss[t].pcb = ss[t].pcb
    BY <1>1, <1>4 DEF SessionFields
  <2> QED BY ZenonT(30), <1>1, <1>4, <2>1, <2>2
<1> QED BY Zenon, <1>2, <1>3, <1>4

LEMMA OpenStepLate ==
  ASSUME WtTypes, LateInv, UNCHANGED <<wc, got>>, NEW s \in Sessions,
         open_bidi_stream(s) \/ open_uni_stream(s) \/ SendOnStream(s)
  PROVE  LateInv'
<1>1. CASE open_bidi_stream(s) \/ open_uni_stream(s)
  <2>1. PICK w \in {BidiStream(s), UniStream(s)} : \E o \in OpenStream(s, w) : StreamLeft /\ Apply(o)
    BY Zenon, <1>1 DEF open_bidi_stream, open_uni_stream
  <2>2. DOMAIN w = StreamFields /\ w.cb # "peer"
    BY Zenon, <2>1 DEF BidiStream, UniStream, NoStream, StreamFields
  <2>3. PICK o \in OpenStream(s, w) : StreamLeft /\ st' = o.st /\ ss' = o.ss
    BY Zenon, <2>1 DEF Apply
  <2>4. /\ DOMAIN o.st = Streams
        /\ \A x \in Streams : /\ DOMAIN o.st[x] = StreamFields
                              /\ \/ o.st[x].cb = st[x].cb /\ o.st[x].by = st[x].by
                                 \/ o.st[x].cb # "peer"
        /\ \A t \in Sessions : o.ss[t].dcb = ss[t].dcb /\ o.ss[t].pcb = ss[t].pcb
    BY SMTT(20), <2>2, <2>3, OutcomeStreams
  <2>5. quic' = quic
    BY Zenon, <1>1 DEF open_bidi_stream, open_uni_stream
  <2>6. StreamsKept /\ CallbacksKept /\ WorkKept
    BY Zenon, <2>3, <2>4, <2>5 DEF StreamsKept, CallbacksKept, WorkKept, LateInv, ChannelTypes
  <2> QED BY Zenon, <2>6, LateKept
<1>2. CASE SendOnStream(s)
  <2>1. /\ DOMAIN st = Streams /\ \A x \in Streams : DOMAIN st[x] = StreamFields
        /\ ss[s].streams \in SUBSET Streams
    BY Zenon DEF WtTypes, LateInv, ChannelTypes
  <2>2. UNCHANGED <<quic, ss>> /\ (st' = st \/ \E x \in Streams : \E b : st' = [st EXCEPT ![x].closed = b])
    BY Zenon, <1>2, <2>1 DEF SendOnStream, UniSend
  <2>3. ASSUME NEW x \in Streams, NEW b, st' = [st EXCEPT ![x].closed = b]
        PROVE  StreamsKept
    <3>1. /\ DOMAIN st' = Streams /\ \A y \in Streams : y # x => st'[y] = st[y]
          /\ DOMAIN st'[x] = StreamFields /\ st'[x].cb = st[x].cb /\ st'[x].by = st[x].by
      BY Zenon, <2>1, <2>3 DEF StreamFields
    <3> QED BY Zenon, <3>1, OneStream
  <2>4. StreamsKept
    BY Zenon, <2>1, <2>2, <2>3 DEF StreamsKept
  <2> QED BY Zenon, <2>2, <2>4, LateKept DEF CallbacksKept, WorkKept, LateInv, ChannelTypes
<1> QED BY Zenon, <1>1, <1>2

\* What on_message has been called with, and the call added last.
LEMMA CallAdded ==
  ASSUME NEW g, g \in Seq(Range(g)), NEW m
  PROVE  /\ Append(g, m) \in Seq(Range(Append(g, m)))
         /\ Append(g, m)[Len(Append(g, m))] = m
<1> DEFINE h == Append(g, m)
<1>1. /\ Len(g) \in Nat /\ DOMAIN g = 1..Len(g) /\ Len(h) = Len(g) + 1 /\ DOMAIN h = 1..Len(h)
      /\ h[Len(h)] = m
  OBVIOUS
<1>2. h \in [1..Len(h) -> Range(h)]
  <2>1. g \in Seq(Range(g) \cup {m})
    OBVIOUS
  <2>2. h \in Seq(Range(g) \cup {m})
    BY SMTT(20), <2>1
  <2> HIDE DEF h
  <2>3. h \in [1..Len(h) -> Range(g) \cup {m}]
    BY SMTT(20), <2>2
  <2> QED BY Zenon, <1>1, <2>3 DEF Range
<1> HIDE DEF h
<1>3. h \in Seq(Range(h))
  BY SMTT(20), <1>1, <1>2
<1> QED BY Zenon, <1>1, <1>3 DEF h

\* Steps of the channel that neither attach nor detach anything.
LEMMA ChannelKept ==
  ASSUME LateInv, DOMAIN wc' = ChannelFields, wc'.sess = wc.sess, wc'.attached = wc.attached,
         wc'.peer = wc.peer, wc.opened => wc'.opened, wc'.opened => wc.sess # "none",
         wc'.stray = wc.stray, wc'.after = wc.after,
         got' = got \/ \E m : got' = Append(got, m), CallbacksKept, StreamsKept, WorkKept
  PROVE  LateInv'
<1>1. got' \in Seq(Range(got'))
  <2>1. PICK g : g = got
    BY Zenon
  <2>2. g \in Seq(Range(g))
    BY Zenon, <2>1 DEF LateInv, ChannelTypes
  <2>3. CASE got' = got
    BY Zenon, <2>3 DEF LateInv, ChannelTypes
  <2>4. ASSUME NEW m, got' = Append(g, m) PROVE got' \in Seq(Range(got'))
    BY Zenon, <2>2, <2>4, CallAdded
  <2> QED BY Zenon, <2>1, <2>3, <2>4
<1>2. ChannelTypes'
  BY Zenon, <1>1 DEF LateInv, ChannelTypes, StreamsKept, WorkKept
<1> QED BY ZenonT(30), <1>2 DEF LateInv, CallbacksKept, StreamsKept, WorkKept

\* open() and send() over a stream.
LEMMA ChannelOpensLate ==
  ASSUME WtTypes, LateInv, WcOpen \/ WcSendStream
  PROVE  LateInv'
<1>0. /\ DOMAIN wc = ChannelFields /\ wc.sess \in Sessions /\ wc.sess # "none"
      /\ quic' = quic /\ got' = got
  <2>1. wc.sess # "none"
    BY Zenon DEF WcOpen, WcSendStream, LateInv
  <2> QED BY Zenon, <2>1 DEF WcOpen, WcSendStream, LateInv, ChannelTypes
<1>1. PICK w : w = [BidiStream(wc.sess) EXCEPT !.cb = "own"]
  BY Zenon
<1>2. DOMAIN w = StreamFields /\ w.cb # "peer"
  BY Zenon, <1>1 DEF BidiStream, NoStream, StreamFields
<1>3. ASSUME NEW o, (\E x : o = Outcome(hq, st, ss, x)) \/ o \in ensure_stream_open(wc)
      PROVE  /\ DOMAIN o.st = Streams
             /\ \A x \in Streams : /\ DOMAIN o.st[x] = StreamFields
                                   /\ \/ o.st[x].cb = st[x].cb /\ o.st[x].by = st[x].by
                                      \/ o.st[x].cb # "peer"
             /\ \A t \in Sessions : o.ss[t].dcb = ss[t].dcb /\ o.ss[t].pcb = ss[t].pcb
             /\ o = [hq |-> o.hq, st |-> o.st, ss |-> o.ss, x |-> o.x]
             /\ LET c == WithStream(wc, o)
                IN  /\ DOMAIN c = ChannelFields /\ c.sess = wc.sess /\ c.attached = wc.attached
                    /\ c.peer = wc.peer /\ c.opened = wc.opened /\ c.stray = wc.stray /\ c.after = wc.after
  <2>1. (StreamLeft /\ o \in OpenStream(wc.sess, w)) \/ \E x : o = Outcome(hq, st, ss, x)
    BY Zenon, <1>1, <1>3 DEF ensure_stream_open
  <2>2. LET c == WithStream(wc, o)
        IN  /\ DOMAIN c = ChannelFields /\ c.sess = wc.sess /\ c.attached = wc.attached
            /\ c.peer = wc.peer /\ c.opened = wc.opened /\ c.stray = wc.stray /\ c.after = wc.after
    BY Zenon, <1>0 DEF WithStream, ChannelFields
  <2>3. /\ DOMAIN o.st = Streams
        /\ \A x \in Streams : /\ DOMAIN o.st[x] = StreamFields
                              /\ \/ o.st[x].cb = st[x].cb /\ o.st[x].by = st[x].by
                                 \/ o.st[x].cb # "peer"
        /\ \A t \in Sessions : o.ss[t].dcb = ss[t].dcb /\ o.ss[t].pcb = ss[t].pcb
        /\ o = [hq |-> o.hq, st |-> o.st, ss |-> o.ss, x |-> o.x]
    BY Zenon, <1>0, <1>2, <2>1, OutcomeStreams
  <2> QED BY Zenon, <2>2, <2>3
<1>4. CASE WcOpen
  <2>1. PICK o : /\ (\E x : o = Outcome(hq, st, ss, x)) \/ o \in ensure_stream_open(wc)
                 /\ Apply(o) /\ wc' = [WithStream(wc, o) EXCEPT !.opened = TRUE, !.opens = @ + 1]
    BY Zenon, <1>4 DEF WcOpen
  <2>2. PICK c : c = WithStream(wc, o)
    BY Zenon
  <2>3. /\ DOMAIN c = ChannelFields /\ c.sess = wc.sess /\ c.attached = wc.attached
        /\ c.peer = wc.peer /\ c.stray = wc.stray /\ c.after = wc.after
        /\ wc' = [c EXCEPT !.opened = TRUE, !.opens = @ + 1]
    BY Zenon, <1>3, <2>1, <2>2
  <2>4. /\ DOMAIN wc' = ChannelFields /\ wc'.sess = wc.sess /\ wc'.attached = wc.attached
        /\ wc'.peer = wc.peer /\ wc'.opened = TRUE /\ wc'.stray = wc.stray /\ wc'.after = wc.after
    BY Zenon, <2>3 DEF ChannelFields
  <2>5. StreamsKept /\ CallbacksKept
    BY ZenonT(30), <1>3, <2>1 DEF StreamsKept, CallbacksKept, Apply
  <2> QED BY Zenon, <1>0, <2>4, <2>5, ChannelKept DEF WorkKept, LateInv, ChannelTypes
<1>5. CASE WcSendStream
  <2>1. PICK o \in ensure_stream_open(wc) :
           LET c == WithStream(wc, o)
               f == IF c.ready /\ GivesUp(c) /\ RawUsable(o.st, c) THEN BidiReset(o.st, c.raw) ELSE o.st
           IN  /\ Apply([o EXCEPT !.st = f])
               /\ wc' = CASE ~c.ready -> c
                          [] c.ready /\ GivesUp(c) -> [c EXCEPT !.raw = "none", !.ready = FALSE]
                          [] OTHER -> Spent(c)
    BY Zenon, <1>5 DEF WcSendStream
  <2>2. PICK c : c = WithStream(wc, o)
    BY Zenon
  <2>3. PICK f : f = IF c.ready /\ GivesUp(c) /\ RawUsable(o.st, c) THEN BidiReset(o.st, c.raw) ELSE o.st
    BY Zenon
  <2>4. /\ Apply([o EXCEPT !.st = f])
        /\ wc' = c \/ wc' = [c EXCEPT !.raw = "none", !.ready = FALSE] \/ wc' = Spent(c)
    BY Zenon, <2>1, <2>2, <2>3
  <2>5. /\ DOMAIN c = ChannelFields /\ c.sess = wc.sess /\ c.attached = wc.attached
        /\ c.peer = wc.peer /\ c.opened = wc.opened /\ c.stray = wc.stray /\ c.after = wc.after
    BY Zenon, <1>3, <2>1, <2>2
  <2>6. /\ DOMAIN wc' = ChannelFields /\ wc'.sess = wc.sess /\ wc'.attached = wc.attached
        /\ wc'.peer = wc.peer /\ wc'.opened = wc.opened /\ wc'.stray = wc.stray /\ wc'.after = wc.after
    BY Zenon, <2>4, <2>5 DEF Spent, ChannelFields
  <2>7. st' = f /\ ss' = o.ss
    BY <1>3, <2>1, <2>4 DEF Apply
  <2>8. /\ DOMAIN f = Streams
        /\ \A x \in Streams : DOMAIN f[x] = StreamFields /\ f[x].cb = o.st[x].cb /\ f[x].by = o.st[x].by
    <3>1. DOMAIN o.st = Streams /\ \A x \in Streams : DOMAIN o.st[x] = StreamFields
      BY Zenon, <1>3, <2>1
    <3>2. PICK g, y : g = o.st /\ y = c.raw
      BY Zenon
    <3>3. PICK b : f = g \/ f = [g EXCEPT ![y].closed = b]
      BY Zenon, <2>3, <3>2 DEF BidiReset, StreamShut
    <3>4. CASE f = [g EXCEPT ![y].closed = b] /\ y \in Streams
      BY Zenon, <3>1, <3>2, <3>4 DEF StreamFields
    <3>5. CASE f = [g EXCEPT ![y].closed = b] /\ y \notin Streams
      BY Zenon, <3>1, <3>2, <3>5
    <3> QED BY Zenon, <3>1, <3>2, <3>3, <3>4, <3>5
  <2>9. StreamsKept /\ CallbacksKept
    BY SMTT(20), <1>3, <2>1, <2>7, <2>8 DEF StreamsKept, CallbacksKept
  <2> QED BY Zenon, <1>0, <2>6, <2>9, ChannelKept DEF WorkKept, LateInv, ChannelTypes
<1> QED BY Zenon, <1>4, <1>5
\* The constructor's registration on the session: before it no callback of any
\* session leads to the channel.
LEMMA AttachLate ==
  ASSUME WtTypes, LateInv,
         (\E s \in Sessions : create_data_channel(s)) \/ attach_session_callbacks
  PROVE  LateInv'
<1>1. /\ DOMAIN ss = Sessions /\ \A t \in Sessions : DOMAIN ss[t] = SessionFields
      /\ DOMAIN wc = ChannelFields /\ "none" \notin Sessions
  BY Zenon, WtAssumption DEF WtTypes, LateInv, ChannelTypes, WtAssumption
<1>2. PICK s \in Sessions : /\ ss' = [ss EXCEPT ![s].dcb = TRUE, ![s].pcb = TRUE]
                            /\ create_data_channel(s) \/ (attach_session_callbacks /\ s = wc.sess)
  BY Zenon DEF create_data_channel, attach_session_callbacks, LateInv, ChannelTypes
<1>3. \A t \in Sessions : t # s => ss'[t] = ss[t]
  BY Zenon, <1>1, <1>2
<1>4. UNCHANGED <<st, quic, got>>
  BY Zenon, <1>2 DEF create_data_channel, attach_session_callbacks
<1>5. CASE create_data_channel(s)
  <2>1. /\ DOMAIN wc' = ChannelFields /\ wc'.sess = s /\ wc'.attached = TRUE
        /\ wc'.opened = FALSE /\ wc'.peer = "none" /\ wc'.after = 0
    BY Zenon, <1>5 DEF create_data_channel, NoChannel, ChannelFields
  <2>2. /\ \A t \in Sessions : ~ss[t].dcb /\ ~ss[t].pcb
        /\ \A x \in Streams : ~(st[x].cb = "peer" /\ st[x].by \in Sessions)
        /\ ~quic.wk.late
    BY Zenon, <1>1, <1>5 DEF create_data_channel, LateInv
  <2>3. ChannelTypes'
    BY Zenon, <1>4, <2>1 DEF LateInv, ChannelTypes
  <2> QED BY Zenon, <1>3, <1>4, <2>1, <2>2, <2>3 DEF LateInv
<1>6. CASE attach_session_callbacks /\ s = wc.sess
  <2>1. /\ DOMAIN wc' = ChannelFields /\ wc'.sess = wc.sess /\ wc'.attached = TRUE
        /\ wc'.opened = wc.opened /\ wc'.peer = wc.peer /\ wc'.stray = wc.stray /\ wc'.after = wc.after
    BY Zenon, <1>1, <1>6 DEF attach_session_callbacks, ChannelFields
  <2>2. ChannelTypes'
    BY Zenon, <1>4, <2>1 DEF LateInv, ChannelTypes
  <2> QED BY Zenon, <1>3, <1>4, <1>6, <2>1, <2>2 DEF LateInv
<1> QED BY Zenon, <1>2, <1>5, <1>6

\* A wrapper whose callback is replaced, and one that is shut.
LEMMA Rewrapped ==
  ASSUME NEW f, NEW x, NEW c, DOMAIN f = Streams, \A y \in Streams : DOMAIN f[y] = StreamFields
  PROVE  /\ DOMAIN set_on_data(f, x, c) = Streams
         /\ \A y \in Streams :
               /\ DOMAIN set_on_data(f, x, c)[y] = StreamFields
               /\ set_on_data(f, x, c)[y].by = f[y].by
               /\ set_on_data(f, x, c)[y].cb = IF y = x THEN c ELSE f[y].cb
<1>1. PICK h : h = set_on_data(f, x, c)
  BY Zenon
<1>2. DOMAIN h = Streams /\ \A y \in Streams : y # x => h[y] = f[y]
  BY Zenon, <1>1 DEF set_on_data
<1>3. x \in Streams => DOMAIN h[x] = StreamFields /\ h[x].by = f[x].by /\ h[x].cb = c
  BY Zenon, <1>1 DEF set_on_data, StreamFields
<1> QED BY Zenon, <1>1, <1>2, <1>3

LEMMA Shut ==
  ASSUME NEW f, NEW x, DOMAIN f = Streams, \A y \in Streams : DOMAIN f[y] = StreamFields
  PROVE  /\ DOMAIN BidiClose(f, x) = Streams
         /\ \A y \in Streams :
               /\ DOMAIN BidiClose(f, x)[y] = StreamFields
               /\ BidiClose(f, x)[y].by = f[y].by /\ BidiClose(f, x)[y].cb = f[y].cb
<1>1. PICK b : BidiClose(f, x) = [f EXCEPT ![x].closed = b]
  BY Zenon DEF BidiClose, StreamShut
<1>2. PICK g : g = BidiClose(f, x)
  BY Zenon
<1>3. DOMAIN g = Streams /\ \A y \in Streams : y # x => g[y] = f[y]
  BY Zenon, <1>1, <1>2
<1>4. x \in Streams => DOMAIN g[x] = StreamFields /\ g[x].by = f[x].by /\ g[x].cb = f[x].cb
  BY Zenon, <1>1, <1>2 DEF StreamFields
<1> QED BY Zenon, <1>2, <1>3, <1>4

\* The channel forgets its peer stream: no wrapper of a session has the peer
\* callback any more.
LEMMA Detached ==
  ASSUME NEW f, DOMAIN f = Streams, \A y \in Streams : DOMAIN f[y] = StreamFields,
         \A y \in Streams : f[y].cb = "peer" /\ f[y].by \in Sessions =>
                               wc.peer = y /\ f[y].by = wc.sess
  PROVE  LET g == detach_peer_stream(f, wc)
         IN  /\ DOMAIN g = Streams
             /\ \A y \in Streams : /\ DOMAIN g[y] = StreamFields /\ g[y].by = f[y].by
                                   /\ ~(g[y].cb = "peer" /\ g[y].by \in Sessions)
<1>1. "none" \notin Streams
  BY Zenon, WtAssumption DEF WtAssumption
<1>2. PICK g : g = detach_peer_stream(f, wc)
  BY Zenon
<1>3. CASE wc.peer # "none" /\ f[wc.peer].by = wc.sess
  <2>1. g = set_on_data(f, wc.peer, "none")
    BY Zenon, <1>2, <1>3 DEF detach_peer_stream
  <2>2. /\ DOMAIN g = Streams
        /\ \A y \in Streams : /\ DOMAIN g[y] = StreamFields /\ g[y].by = f[y].by
                              /\ g[y].cb = IF y = wc.peer THEN "none" ELSE f[y].cb
    BY <2>1, Rewrapped
  <2> QED BY <1>2, <2>2
<1>4. CASE ~(wc.peer # "none" /\ f[wc.peer].by = wc.sess)
  <2>1. g = f
    BY Zenon, <1>2, <1>4 DEF detach_peer_stream
  <2> QED BY Zenon, <1>1, <1>2, <1>4, <2>1
<1> QED BY Zenon, <1>3, <1>4

LEMMA CloseLate ==
  ASSUME WtTypes, LateInv, WcClose
  PROVE  LateInv'
<1>1. /\ DOMAIN ss = Sessions /\ \A t \in Sessions : DOMAIN ss[t] = SessionFields
      /\ DOMAIN wc = ChannelFields /\ wc.sess \in Sessions
      /\ DOMAIN st = Streams /\ \A x \in Streams : DOMAIN st[x] = StreamFields
  BY Zenon DEF WtTypes, LateInv, ChannelTypes, WcClose, Closable
<1>2. PICK f : f = IF RawUsable(st, wc) THEN BidiClose(st, wc.raw) ELSE st
  BY Zenon
<1>3. /\ DOMAIN f = Streams
      /\ \A y \in Streams : DOMAIN f[y] = StreamFields /\ f[y].by = st[y].by /\ f[y].cb = st[y].cb
  <2>1. CASE f = BidiClose(st, wc.raw)
    BY <1>1, <2>1, Shut
  <2> QED BY Zenon, <1>1, <1>2, <2>1
<1>4. st' = detach_peer_stream(f, wc)
  BY Zenon, <1>2 DEF WcClose
<1>5. /\ DOMAIN st' = Streams
      /\ \A y \in Streams : DOMAIN st'[y] = StreamFields /\ ~(st'[y].cb = "peer" /\ st'[y].by \in Sessions)
  <2>1. \A y \in Streams : f[y].cb = "peer" /\ f[y].by \in Sessions =>
                               wc.peer = y /\ f[y].by = wc.sess
    BY <1>3 DEF LateInv
  <2> QED BY SMTT(20), <1>3, <1>4, <2>1, Detached
<1>6. /\ \A t \in Sessions : t # wc.sess => ss'[t] = ss[t]
      /\ ss'[wc.sess].dcb = FALSE /\ ss'[wc.sess].pcb = FALSE
  BY Zenon, <1>1 DEF WcClose, SessionFields
<1>7. /\ DOMAIN wc' = ChannelFields /\ wc'.sess = wc.sess /\ wc'.opened = FALSE /\ wc'.peer = "none"
      /\ wc'.attached = FALSE /\ wc'.stray = wc.stray /\ wc'.after = 0
  BY Zenon, <1>1 DEF WcClose, ClosedChannel, ChannelFields
<1>8. UNCHANGED <<quic, got>>
  BY Zenon DEF WcClose
<1>9. ChannelTypes'
  BY Zenon, <1>5, <1>7, <1>8 DEF LateInv, ChannelTypes
<1> QED BY ZenonT(30), <1>5, <1>6, <1>7, <1>8, <1>9 DEF LateInv
\* PEER_STREAM_STARTED: the new wrapper has no peer callback yet.
LEMMA PeerStreamLate ==
  ASSUME WtTypes, LateInv, NEW s \in Sessions, on_peer_stream_started(s)
  PROVE  LateInv'
<1>1. /\ DOMAIN ss = Sessions /\ DOMAIN ss[s] = SessionFields
      /\ DOMAIN st = Streams /\ \A y \in Streams : DOMAIN st[y] = StreamFields
      /\ DOMAIN quic = QuicFields /\ UNCHANGED <<wc, got>>
  BY Zenon DEF WtTypes, LateInv, ChannelTypes, on_peer_stream_started
<1>2. PICK x \in Streams : x = NewStream
  BY Zenon, NewStreamIsFree DEF on_peer_stream_started, PeerStarts
<1>3. CallbacksKept
  <2>1. \/ ss' = ss
        \/ \E z : ss' = [ss EXCEPT ![s] = [ss[s] EXCEPT !.streams = z]]
    BY Zenon DEF on_peer_stream_started
  <2> QED BY ZenonT(30), <1>1, <2>1 DEF CallbacksKept, SessionFields
<1>4. PICK q : q = PeerStarted(x) /\ DOMAIN q = QuicFields /\ q.wk = quic.wk
  <2>1. PICK q : q = PeerStarted(x)
    BY Zenon
  <2>2. DOMAIN q = QuicFields /\ q.wk = quic.wk
    BY Zenon, <1>1, <2>1 DEF PeerStarted, QuicFields
  <2> QED BY Zenon, <2>1, <2>2
<1>5. CASE PeerStream.kind = "uni"
  <2>1. quic' = q /\ UNCHANGED st
    BY Zenon, <1>2, <1>4, <1>5 DEF on_peer_stream_started
  <2> QED BY Zenon, <1>1, <1>3, <1>4, <2>1, LateKept DEF StreamsKept, WorkKept
<1>6. CASE PeerStream.kind # "uni"
  <2>1. PICK w, c : /\ w = (IF ss[s].pcb THEN [NoWork EXCEPT !.what = "start", !.x = x] ELSE NoWork)
                    /\ c = (IF ss[s].pcb THEN "none" ELSE "echo")
    BY Zenon
  <2>2. quic' = [q EXCEPT !.wk = w] /\ st' = [st EXCEPT ![x] = [BidiStream(s) EXCEPT !.cb = c]]
    BY Zenon, <1>2, <1>4, <1>6, <2>1 DEF on_peer_stream_started
  <2>3. DOMAIN w = WorkFields /\ ~w.late /\ ~WorkPassed(w)
    BY Zenon, <2>1 DEF NoWork, WorkFields, WorkPassed
  <2>4. WorkKept
    BY Zenon, <1>4, <2>2, <2>3 DEF WorkKept, QuicFields
  <2>5. /\ DOMAIN st' = Streams /\ \A y \in Streams : y # x => st'[y] = st[y]
        /\ DOMAIN st'[x] = StreamFields /\ st'[x].cb # "peer"
    BY Zenon, <1>1, <2>1, <2>2 DEF BidiStream, NoStream, StreamFields
  <2>6. StreamsKept
    BY Zenon, <2>5, OneStream
  <2> QED BY Zenon, <1>1, <1>3, <2>4, <2>6, LateKept
<1> QED BY Zenon, <1>5, <1>6

\* The steps of the worker that only look: at opened_, or at the header.
LEMMA LookLate ==
  ASSUME LateInv, on_peer_stream \/ PeerDataChecks \/ on_peer_stream_data \/ on_session_datagram
  PROVE  LateInv'
<1>1. /\ DOMAIN wc = ChannelFields /\ DOMAIN quic = QuicFields /\ DOMAIN quic.wk = WorkFields
      /\ UNCHANGED <<ss, st, got>>
  BY Zenon DEF LateInv, ChannelTypes, on_peer_stream, PeerDataChecks, on_peer_stream_data,
     on_session_datagram
<1>2. \E w : /\ quic' = [quic EXCEPT !.wk = w]
             /\ \/ w = NoWork
                \/ /\ wc.opened \/ WorkPassed(quic.wk)
                   /\ quic.wk.what # "stream" \/ quic.wk.cb = "peer"
                   /\ \/ \E v : w = [quic.wk EXCEPT !.what = v]
                      \/ \E v, b : w = [quic.wk EXCEPT !.what = v, !.bytes = b]
  <2>1. CASE on_peer_stream \/ PeerDataChecks \/ on_session_datagram
    BY Zenon, <2>1 DEF on_peer_stream, PeerDataChecks, on_session_datagram, WorkerGoesOn
  <2>2. CASE on_peer_stream_data
    <3>1. WorkPassed(quic.wk) /\ quic.wk.what # "stream"
      BY Zenon, <2>2 DEF on_peer_stream_data, WorkPassed
    <3>2. \E w : /\ quic' = [quic EXCEPT !.wk = w]
                 /\ w = NoWork \/ \E b : w = Onward(b)
      BY Zenon, <2>2 DEF on_peer_stream_data, WorkerGoesOn
    <3> QED BY Zenon, <3>1, <3>2 DEF Onward
  <2> QED BY Zenon, <2>1, <2>2
<1>3. PICK w : /\ quic' = [quic EXCEPT !.wk = w]
               /\ \/ w = NoWork
                  \/ /\ wc.opened \/ WorkPassed(quic.wk)
                     /\ quic.wk.what # "stream" \/ quic.wk.cb = "peer"
                     /\ \/ \E v : w = [quic.wk EXCEPT !.what = v]
                        \/ \E v, b : w = [quic.wk EXCEPT !.what = v, !.bytes = b]
  BY Zenon, <1>2
<1>4. DOMAIN quic' = QuicFields /\ quic'.wk = w
  BY Zenon, <1>1, <1>3 DEF QuicFields
<1>5. WorkKept
  <2>1. CASE w = NoWork
    <3>1. ~NoWork.late /\ ~WorkPassed(NoWork) /\ DOMAIN NoWork = WorkFields
      BY Zenon DEF NoWork, WorkPassed, WorkFields
    <3> QED BY Zenon, <1>4, <2>1, <3>1 DEF WorkKept
  <2>2. CASE w # NoWork
    <3>1. DOMAIN w = WorkFields /\ w.late = quic.wk.late /\ w.x = quic.wk.x
      BY Zenon, <1>1, <1>3, <2>2 DEF WorkFields
    <3> QED BY Zenon, <1>3, <1>4, <2>2, <3>1 DEF WorkKept
  <2> QED BY Zenon, <2>1, <2>2
<1>6. /\ DOMAIN wc' = ChannelFields /\ wc'.sess = wc.sess /\ wc'.attached = wc.attached
      /\ wc'.peer = wc.peer /\ wc'.opened = wc.opened /\ wc'.stray = wc.stray /\ wc'.after = wc.after
  <2>1. \/ wc' = wc
        \/ \E p : wc' = [wc EXCEPT !.pending = p]
        \/ \E d, p : wc' = [wc EXCEPT !.done = d, !.pending = p]
    BY Zenon DEF on_peer_stream, PeerDataChecks, on_session_datagram, on_peer_stream_data
  <2> QED BY Zenon, <1>1, <2>1 DEF ChannelFields
<1>7. CallbacksKept /\ StreamsKept
  BY Zenon, <1>1 DEF CallbacksKept, StreamsKept, LateInv, ChannelTypes
<1> QED BY Zenon, <1>1, <1>5, <1>6, <1>7, ChannelKept DEF LateInv

\* The new wrapper takes the peer callback over from the one the channel had
\* before; on a channel closed meanwhile it is a stray.
LEMMA InstallLate ==
  ASSUME WtTypes, LateInv, InstallPeerStream
  PROVE  LateInv'
<1>1. /\ DOMAIN wc = ChannelFields /\ DOMAIN quic = QuicFields /\ UNCHANGED <<ss, got>>
      /\ DOMAIN st = Streams /\ \A y \in Streams : DOMAIN st[y] = StreamFields
  BY Zenon DEF LateInv, ChannelTypes, InstallPeerStream
<1>2. PICK x, g : /\ x = quic.wk.x /\ g = detach_peer_stream(st, wc)
                  /\ st' = IF g[x].by = wc.sess THEN set_on_data(g, x, "peer") ELSE g
                  /\ wc' = [wc EXCEPT !.peer = x, !.done = FALSE, !.pending = <<>>,
                                      !.stray = IF wc.opened THEN @ ELSE @ \cup {x}]
  BY Zenon DEF InstallPeerStream
<1>3. DOMAIN quic' = QuicFields /\ quic'.wk = NoWork
  BY Zenon, <1>1 DEF InstallPeerStream, WorkerGoesOn, QuicFields
<1>4. /\ DOMAIN g = Streams
      /\ \A y \in Streams : /\ DOMAIN g[y] = StreamFields /\ g[y].by = st[y].by
                            /\ ~(g[y].cb = "peer" /\ g[y].by \in Sessions)
  <2>1. \A y \in Streams : st[y].cb = "peer" /\ st[y].by \in Sessions =>
                              wc.peer = y /\ st[y].by = wc.sess
    BY Zenon DEF LateInv
  <2> QED BY SMTT(20), <1>1, <1>2, <2>1, Detached
<1>5. /\ DOMAIN wc' = ChannelFields /\ wc'.sess = wc.sess /\ wc'.opened = wc.opened
      /\ wc'.attached = wc.attached /\ wc'.peer = x /\ wc'.after = wc.after
      /\ wc.opened \/ x \in wc'.stray
  <2>1. PICK z : z = IF wc.opened THEN wc.stray ELSE wc.stray \cup {x}
    BY Zenon
  <2>2. wc' = [wc EXCEPT !.peer = x, !.done = FALSE, !.pending = <<>>, !.stray = z]
    BY Zenon, <1>2, <2>1
  <2>3. /\ DOMAIN wc' = ChannelFields /\ wc'.sess = wc.sess /\ wc'.opened = wc.opened
        /\ wc'.attached = wc.attached /\ wc'.peer = x /\ wc'.after = wc.after /\ wc'.stray = z
    BY Zenon, <1>1, <2>2 DEF ChannelFields
  <2> QED BY Zenon, <2>1, <2>3
<1>6. /\ DOMAIN st' = Streams
      /\ \A y \in Streams : /\ DOMAIN st'[y] = StreamFields
                            /\ st'[y].cb = "peer" /\ st'[y].by \in Sessions =>
                                  y = x /\ st'[y].by = wc.sess
  <2>1. CASE g[x].by = wc.sess
    <3>1. /\ DOMAIN st' = Streams
          /\ \A y \in Streams : /\ DOMAIN st'[y] = StreamFields /\ st'[y].by = g[y].by
                                /\ st'[y].cb = IF y = x THEN "peer" ELSE g[y].cb
      BY SMTT(20), <1>2, <1>4, <2>1, Rewrapped
    <3> QED BY Zenon, <1>4, <2>1, <3>1
  <2>2. CASE g[x].by # wc.sess
    BY Zenon, <1>2, <1>4, <2>2
  <2> QED BY Zenon, <2>1, <2>2
<1>7. ChannelTypes'
  BY Zenon, <1>1, <1>3, <1>5, <1>6 DEF LateInv, ChannelTypes, NoWork, WorkFields
<1>8. ~NoWork.late /\ ~WorkPassed(NoWork)
  BY Zenon DEF NoWork, WorkPassed
<1> QED BY ZenonT(30), <1>1, <1>3, <1>5, <1>6, <1>7, <1>8 DEF LateInv

\* RECEIVE and DATAGRAM_RECEIVED copy a callback that is registered now: after
\* close() it is not the datagram callback, and the peer callback only of a
\* stray.
LEMMA EventBeginsLate ==
  ASSUME WtTypes, LateInv,
         (\E x \in Streams : ReceiveBegins(x)) \/ (\E s \in Sessions : DatagramBegins(s))
  PROVE  LateInv'
<1>0. /\ DOMAIN quic = QuicFields /\ DOMAIN st = Streams /\ "none" \notin Streams
      /\ \A y \in Streams : DOMAIN st[y] = StreamFields
  BY Zenon, WtAssumption DEF LateInv, ChannelTypes, WtAssumption
<1>1. ASSUME NEW x \in Streams, ReceiveBegins(x)
      PROVE  LateInv'
  <2>1. UNCHANGED <<ss, wc, got>> /\ st[x].by \in Sessions
    BY Zenon, <1>1 DEF ReceiveBegins, StreamFires
  <2>2. PICK k : LET bytes == SubSeq(quic.wire[x], 1, k)
                 IN  /\ st' = on_receive(x, bytes)
                     /\ quic' = [quic EXCEPT !.wire[x] = SubSeq(@, k + 1, Len(@)),
                           !.wk = IF st[x].handle /\ st[x].cb # "none"
                                  THEN [what |-> "stream", cb |-> st[x].cb, x |-> x,
                                        bytes |-> bytes, late |-> Late]
                                  ELSE NoWork]
    BY Zenon, <1>1 DEF ReceiveBegins
  <2>3. /\ DOMAIN st' = Streams /\ \A y \in Streams : y # x => st'[y] = st[y]
        /\ DOMAIN st'[x] = StreamFields /\ st'[x].cb = st[x].cb /\ st'[x].by = st[x].by
    BY Zenon, <1>0, <2>2 DEF on_receive, StreamFields
  <2>4. StreamsKept
    BY Zenon, <2>3, OneStream
  <2>5. PICK b, w : /\ w = (IF st[x].handle /\ st[x].cb # "none"
                            THEN [what |-> "stream", cb |-> st[x].cb, x |-> x,
                                  bytes |-> b, late |-> Late]
                            ELSE NoWork)
                    /\ \E v : quic' = [quic EXCEPT !.wire[x] = v, !.wk = w]
    BY Zenon, <2>2
  <2>6. DOMAIN quic' = QuicFields /\ quic'.wk = w
    BY Zenon, <1>0, <2>5 DEF QuicFields
  <2>7. /\ DOMAIN w = WorkFields /\ ~WorkPassed(w)
        /\ w.late => wc.sess # "none" /\ (w.x \in wc.stray \/ (w.what = "stream" /\ w.cb # "peer"))
    <3>1. Late => wc.sess # "none" /\ (st[x].cb = "peer" => x \in wc.stray)
      BY ZenonT(30), <1>0, <2>1 DEF LateInv, Late
    <3>2. CASE w = NoWork
      BY Zenon, <3>2 DEF NoWork, WorkFields, WorkPassed
    <3>3. CASE w # NoWork
      BY Zenon, <2>5, <3>1, <3>3 DEF WorkFields, WorkPassed
    <3> QED BY Zenon, <3>2, <3>3
  <2>8. ChannelTypes'
    BY Zenon, <2>1, <2>3, <2>4, <2>6, <2>7 DEF LateInv, ChannelTypes, StreamsKept
  <2>9. /\ wc'.opened => wc'.sess # "none"
        /\ wc'.peer # "none" => wc'.opened \/ wc'.peer \in wc'.stray
        /\ wc'.after \in {0, 1}
    BY Zenon, <2>1 DEF LateInv
  <2>10. \A s \in Sessions : ss'[s].dcb \/ ss'[s].pcb => s = wc'.sess /\ wc'.attached
    BY Zenon, <2>1 DEF LateInv
  <2>11. \A y \in Streams : st'[y].cb = "peer" /\ st'[y].by \in Sessions =>
                               wc'.peer = y /\ st'[y].by = wc'.sess
    BY ZenonT(30), <2>1, <2>4 DEF LateInv, StreamsKept
  <2>12. /\ quic'.wk.late =>
             /\ wc'.sess # "none"
             /\ quic'.wk.x \in wc'.stray \/ (quic'.wk.what = "stream" /\ quic'.wk.cb # "peer")
         /\ ~WorkPassed(quic'.wk)
    BY Zenon, <2>1, <2>6, <2>7
  <2> QED BY Zenon, <2>8, <2>9, <2>10, <2>11, <2>12 DEF LateInv
<1>2. ASSUME NEW s \in Sessions, DatagramBegins(s)
      PROVE  LateInv'
  <2>1. UNCHANGED <<ss, st, wc, got>>
    BY Zenon, <1>2 DEF DatagramBegins
  <2>2. PICK w : /\ w = (IF ss[s].dcb THEN [NoWork EXCEPT !.what = "dgram", !.cb = "dgram",
                                              !.late = Late, !.bytes = <<"dg">>] ELSE NoWork)
                 /\ quic' = [quic EXCEPT !.dgrams = @ + 1, !.wk = w]
    BY Zenon, <1>2 DEF DatagramBegins
  <2>3. DOMAIN quic' = QuicFields /\ quic'.wk = w
    BY Zenon, <1>0, <2>2 DEF QuicFields
  <2>4. ss[s].dcb => Late = FALSE
    BY Zenon DEF LateInv, Late
  <2>5. ~w.late /\ DOMAIN w = WorkFields /\ ~WorkPassed(w)
    <3>1. CASE ss[s].dcb
      <4>1. w = [NoWork EXCEPT !.what = "dgram", !.cb = "dgram", !.late = FALSE, !.bytes = <<"dg">>]
        BY Zenon, <2>2, <2>4, <3>1
      <4> QED BY Zenon, <4>1 DEF NoWork, WorkFields, WorkPassed
    <3>2. CASE ~ss[s].dcb
      BY Zenon, <2>2, <3>2 DEF NoWork, WorkFields, WorkPassed
    <3> QED BY Zenon, <3>1, <3>2
  <2> QED BY Zenon, <1>0, <2>1, <2>3, <2>5, LateKept DEF CallbacksKept, StreamsKept, WorkKept
<1> QED BY Zenon, <1>1, <1>2

\* The worker calls on_message: from the own stream's callback, or with what
\* has passed the look at opened_, which is late only for a stray.
LEMMA CallbackRuns ==
  ASSUME LateInv, ReceiveCalls \/ OnMessage
  PROVE  \/ got' = got
         \/ \E m : got' = Append(got, m) /\ (quic.wk.late => m.via = "own" \/ m.x \in wc.stray)
<1>1. CASE OnMessage
  <2>1. quic.wk.late => quic.wk.x \in wc.stray
    BY Zenon, <1>1 DEF OnMessage, LateInv
  <2>2. PICK m : m = [via |-> quic.wk.cb, x |-> quic.wk.x, bytes |-> quic.wk.bytes]
    BY Zenon
  <2>3. got' = Append(got, m) /\ m.x = quic.wk.x
    BY Zenon, <1>1, <2>2 DEF OnMessage, Deliver
  <2> QED BY Zenon, <2>1, <2>3
<1>2. CASE ReceiveCalls
  <2>1. PICK m : m = [via |-> "own", x |-> quic.wk.x, bytes |-> quic.wk.bytes]
    BY Zenon
  <2>2. m.via = "own" /\ (got' = got \/ got' = Append(got, m))
    BY Zenon, <1>2, <2>1 DEF ReceiveCalls, Deliver
  <2> QED BY Zenon, <2>2
<1> QED BY Zenon, <1>1, <1>2

LEMMA CallbackLate ==
  ASSUME LateInv, ReceiveCalls \/ OnMessage
  PROVE  LateInv'
<1>1. /\ DOMAIN wc = ChannelFields /\ DOMAIN quic = QuicFields /\ got \in Seq(Range(got))
      /\ wc.after \in {0, 1} /\ UNCHANGED <<ss, st>>
  BY Zenon DEF LateInv, ChannelTypes, ReceiveCalls, OnMessage
<1>2. DOMAIN quic' = QuicFields /\ quic'.wk = NoWork
  BY Zenon, <1>1 DEF ReceiveCalls, OnMessage, WorkerGoesOn, QuicFields
<1>3. /\ DOMAIN wc' = ChannelFields /\ wc'.sess = wc.sess /\ wc'.attached = wc.attached
      /\ wc'.peer = wc.peer /\ wc'.opened = wc.opened /\ wc'.stray = wc.stray /\ wc'.after \in {0, 1}
  <2>1. CASE UNCHANGED wc
    BY Zenon, <1>1, <2>1
  <2>2. CASE OnMessage
    <3>1. PICK n : n = IF wc.opened THEN wc.after ELSE wc.after + 1
      BY Zenon
    <3>2. n \in {0, 1}
      <4>1. ~wc.opened => wc.after = 0
        BY Zenon, <2>2 DEF OnMessage, LateInv, WorkPassed
      <4> QED BY <1>1, <3>1, <4>1
    <3>3. wc' = [wc EXCEPT !.after = n]
      BY Zenon, <2>2, <3>1 DEF OnMessage
    <3> QED BY Zenon, <1>1, <3>2, <3>3 DEF ChannelFields
  <2> QED BY Zenon, <2>1, <2>2 DEF ReceiveCalls
<1>4. got' \in Seq(Range(got'))
  BY Zenon, <1>1, CallbackRuns, CallAdded
<1>5. ~NoWork.late /\ ~WorkPassed(NoWork) /\ DOMAIN NoWork = WorkFields
  BY Zenon DEF NoWork, WorkPassed, WorkFields
<1>6. ChannelTypes'
  BY Zenon, <1>1, <1>2, <1>3, <1>4, <1>5 DEF LateInv, ChannelTypes
<1> QED BY ZenonT(30), <1>1, <1>2, <1>3, <1>5, <1>6 DEF LateInv

\* Steps that touch only payloads, and the deadline of a partially reliable
\* channel.
LEMMA QuietLate ==
  ASSUME LateInv, UNCHANGED <<quic, ss, st, got>>,
         UNCHANGED wc \/ DeadlinePasses
  PROVE  LateInv'
<1>1. CallbacksKept /\ StreamsKept /\ WorkKept
  BY Zenon DEF LateInv, ChannelTypes, CallbacksKept, StreamsKept, WorkKept
<1>2. /\ DOMAIN wc' = ChannelFields /\ wc'.sess = wc.sess /\ wc'.attached = wc.attached
      /\ wc'.peer = wc.peer /\ wc'.opened = wc.opened /\ wc'.stray = wc.stray /\ wc'.after = wc.after
  BY ZenonT(30) DEF DeadlinePasses, LateInv, ChannelTypes, ChannelFields
<1> QED BY Zenon, <1>1, <1>2, ChannelKept DEF LateInv

LEMMA LateNext == WtTypes /\ LateInv /\ [WtNext]_wtAll => LateInv'
<1> SUFFICES ASSUME WtTypes, LateInv, [WtNext]_wtAll PROVE LateInv'
  BY Zenon
<1>1. CASE UNCHANGED wtAll
  BY Zenon, <1>1, QuietLate DEF wtAll, wtVars
<1>2. CASE WtServerNext /\ UNCHANGED <<wc, got>>
  BY ZenonT(30), <1>2, ServerStepLate
<1>3. CASE WtSessionNext /\ UNCHANGED <<h3Vars, wc, got>>
  <2>1. ASSUME NEW s \in Sessions, \E p \in FreshPayload : send_datagram(s, p)
        PROVE  LateInv'
    BY Zenon, <1>3, <2>1, QuietLate DEF send_datagram
  <2>2. ASSUME NEW p \in Payloads, SendComplete(p) \/ \E final \in BOOLEAN : DatagramSendState(p, final)
        PROVE  LateInv'
    BY ZenonT(30), <1>3, <2>2, QuietLate DEF SendComplete, DatagramSendState
  <2>3. ASSUME NEW s \in Sessions,
               \/ MsQuicSessionImpl(s) \/ CtorStoresConnecting(s)
               \/ open_bidi_stream(s) \/ open_uni_stream(s) \/ SendOnStream(s)
               \/ CloseBegins(s) \/ CloseStreams(s) \/ CloseConnection(s) \/ DestroySession(s)
               \/ on_connected(s) \/ on_shutdown_initiated_by_transport(s)
               \/ on_shutdown_initiated_by_peer(s) \/ on_shutdown_complete(s)
               \/ on_datagram_state_changed(s)
        PROVE  LateInv'
    BY ZenonT(30), <1>3, <2>3, SessionStepLate, SessionEndsLate, OpenStepLate
  <2> QED BY ZenonT(30), <1>3, <2>1, <2>2, <2>3, StreamStepLate DEF WtSessionNext
<1>4. CASE WtChannelNext
  <2>1. CASE WcSendDatagram
    BY Zenon, <2>1, QuietLate DEF WcSendDatagram, send_datagram
  <2>2. CASE DeadlinePasses
    BY Zenon, <2>2, QuietLate DEF DeadlinePasses, wtVars
  <2> QED BY ZenonT(30), <1>4, <2>1, <2>2, ChannelOpensLate, CloseLate, AttachLate, CallbackLate,
             LookLate, InstallLate, PeerStreamLate, EventBeginsLate DEF WtChannelNext
<1> QED BY Zenon, <1>1, <1>2, <1>3, <1>4 DEF WtNext

\* Only the two steps that run a copied callback call on_message.
LEMMA LateStep == LateInv /\ [WtNext]_wtAll => LateInboundIgnored
<1> SUFFICES ASSUME LateInv, [WtNext]_wtAll, got' # got PROVE LateInboundIgnored
  BY Zenon DEF LateInboundIgnored
<1>1. ReceiveCalls \/ OnMessage
  <2>1. WtChannelNext
    BY Zenon DEF WtNext, wtAll
  <2> QED BY Zenon, <2>1 DEF WtChannelNext, WcOpen, WcSendStream, WcSendDatagram, DeadlinePasses, WcClose,
             attach_session_callbacks, create_data_channel, on_peer_stream_started, DatagramBegins,
             ReceiveBegins, on_peer_stream, InstallPeerStream, PeerDataChecks, on_peer_stream_data,
             on_session_datagram
<1>2. PICK m : got' = Append(got, m) /\ (quic.wk.late => m.via = "own" \/ m.x \in wc.stray)
  BY Zenon, <1>1, CallbackRuns
<1>3. PICK g : g = got
  BY Zenon
<1>4. Append(g, m)[Len(Append(g, m))] = m
  BY ZenonT(30), <1>3, CallAdded DEF LateInv, ChannelTypes
<1>5. got'[Len(got')] = m
  BY Zenon, <1>2, <1>3, <1>4
<1> QED BY Zenon, <1>2, <1>5 DEF LateInboundIgnored


LEMMA HandleNext == HandleInv /\ LateInv /\ [WtNext]_wtAll => HandleInv'
<1> SUFFICES ASSUME HandleInv, LateInv, [WtNext]_wtAll PROVE HandleInv'
  BY Zenon
<1>1. CASE UNCHANGED wtAll
  BY Zenon, <1>1, HandleQuiet DEF wtAll, wtVars, h3Vars
<1>2. CASE WtServerNext
  BY Zenon, <1>2, ListenerHandles, Http3Handles DEF WtServerNext
<1>3. CASE WtSessionNext /\ UNCHANGED <<h3Vars, wc, got>>
  <2>1. UNCHANGED <<lsn, h3>>
    BY Zenon, <1>3 DEF h3Vars
  <2>2. ASSUME NEW s \in Sessions,
               \/ SendOnStream(s) \/ \E p \in FreshPayload : send_datagram(s, p)
        PROVE  HandleInv'
    BY Zenon, <2>1, <2>2, HandleQuiet DEF SendOnStream, send_datagram
  <2>3. ASSUME \/ \E p \in Payloads : SendComplete(p) \/ \E final \in BOOLEAN : DatagramSendState(p, final)
               \/ \E x \in Streams : BidiRecv(x) \/ UniReset(x) \/ quic_stream_callback_bidi(x)
                                     \/ StreamShutdownComplete(x)
        PROVE  HandleInv'
    BY Zenon, <2>1, <2>3, HandleQuiet DEF SendComplete, DatagramSendState, BidiRecv, UniReset,
       quic_stream_callback_bidi, StreamShutdownComplete
  <2>4. ASSUME NEW s \in Sessions,
               \/ MsQuicSessionImpl(s) \/ CtorStoresConnecting(s)
               \/ open_bidi_stream(s) \/ open_uni_stream(s)
               \/ CloseBegins(s) \/ CloseStreams(s) \/ CloseConnection(s) \/ DestroySession(s)
               \/ on_connected(s) \/ on_shutdown_initiated_by_transport(s)
               \/ on_shutdown_initiated_by_peer(s) \/ on_shutdown_complete(s)
               \/ on_datagram_state_changed(s)
        PROVE  HandleInv'
    BY ZenonT(30), <2>1, <2>4, CtorHandles, SessionStepHandles, OpenStepHandles, DestroyHandles, ShutdownHandles
  <2> QED BY Zenon, <1>3, <2>2, <2>3, <2>4 DEF WtSessionNext
<1>4. CASE WtChannelNext
  <2>1. UNCHANGED <<lsn, h3>>
    BY Zenon, <1>4 DEF WtChannelNext, WcOpen, WcSendStream, WcSendDatagram, DeadlinePasses, WcClose,
                attach_session_callbacks, ReceiveCalls, on_session_datagram, create_data_channel,
                on_peer_stream_started, DatagramBegins, ReceiveBegins, on_peer_stream, InstallPeerStream,
                PeerDataChecks, on_peer_stream_data, OnMessage, h3Vars
  <2>2. CASE \/ WcSendDatagram \/ DeadlinePasses \/ ReceiveCalls \/ on_session_datagram
             \/ on_peer_stream \/ InstallPeerStream \/ PeerDataChecks \/ on_peer_stream_data \/ OnMessage
             \/ \E s \in Sessions : DatagramBegins(s)
             \/ \E x \in Streams : ReceiveBegins(x)
    BY Zenon, <2>1, <2>2, HandleQuiet DEF WcSendDatagram, DeadlinePasses, ReceiveCalls, on_session_datagram,
       on_peer_stream, InstallPeerStream, PeerDataChecks, on_peer_stream_data, OnMessage,
       DatagramBegins, ReceiveBegins, send_datagram, wtVars
  <2>3. CASE \E s \in Sessions : create_data_channel(s) \/ on_peer_stream_started(s)
    BY Zenon, <2>1, <2>3, SessionStepHandles, OpenStepHandles
  <2>4. CASE WcOpen \/ WcSendStream \/ WcClose \/ attach_session_callbacks
    <3>1. CASE wc.sess \in Sessions
      BY ZenonT(30), <2>1, <2>4, <3>1, SessionStepHandles, OpenStepHandles
    <3>2. wc.sess \in Sessions
      BY Zenon, <2>4 DEF WcOpen, WcSendStream, WcClose, Closable, attach_session_callbacks, LateInv,
         ChannelTypes
    <3> QED BY Zenon, <3>1, <3>2
  <2> QED BY ZenonT(30), <1>4, <2>2, <2>3, <2>4 DEF WtChannelNext
<1> QED BY Zenon, <1>1, <1>2, <1>3, <1>4 DEF WtNext
-----------------------------------------------------------------------------
(* The stream handles. *)

LEMMA StreamsInit == WtInit => StreamsHeldOnce
<1> SUFFICES ASSUME WtInit, NEW x \in Streams
             PROVE  ~st[x].live /\ ~st[x].handle /\ hq[x] # "twice"
  BY Zenon DEF StreamsHeldOnce
<1> QED BY Zenon DEF WtInit, NoStream, Handles

\* What may happen to a stream handle in a step: it stays with whoever holds
\* it or is forgotten, it is closed and let go, or it is new.
HandleFate(x) ==
    \/ hq'[x] = hq[x] /\ (st'[x].handle => st[x].handle) /\ (st'[x].live => st'[x].handle)
    \/ ~st'[x].handle /\ ~st'[x].live /\ (hq'[x] = "twice" => hq[x] = "twice" \/ Fails("StreamStart"))
    \/ hq'[x] = "open" /\ (st'[x].live => st'[x].handle)

LEMMA FatesHold ==
  ASSUME StreamsHeldOnce, wtSetup' = wtSetup, \A x \in Streams : HandleFate(x)
  PROVE  StreamsHeldOnce'
<1> SUFFICES ASSUME NEW x \in Streams
             PROVE  /\ st'[x].live => st'[x].handle
                    /\ st'[x].handle => hq'[x] = "open"
                    /\ hq'[x] = "twice" => Fails("StreamStart")'
  BY Zenon DEF StreamsHeldOnce
<1>1. Fails("StreamStart")' <=> Fails("StreamStart")
  BY Zenon DEF Fails
<1>2. /\ st[x].handle => hq[x] = "open"
      /\ hq[x] = "twice" => Fails("StreamStart")
  BY Zenon DEF StreamsHeldOnce
<1>3. "open" # "twice"
  BY Zenon
<1> QED BY Zenon, <1>1, <1>2, <1>3 DEF HandleFate

\* Wrappers that change in other fields only.
SameHold(g, f) ==
    /\ DOMAIN g = Streams
    /\ \A x \in Streams : /\ DOMAIN g[x] = StreamFields
                          /\ g[x].handle = f[x].handle /\ g[x].live = f[x].live

LEMMA HoldKept ==
  ASSUME StreamsHeldOnce, wtSetup' = wtSetup, \A x \in Streams : hq'[x] = hq[x], SameHold(st', st)
  PROVE  StreamsHeldOnce'
<1>1. \A x \in Streams : HandleFate(x)
  BY Zenon DEF StreamsHeldOnce, SameHold, HandleFate
<1> QED BY Zenon, <1>1, FatesHold

LEMMA HoldOfOne ==
  ASSUME NEW f, DOMAIN f = Streams, \A y \in Streams : DOMAIN f[y] = StreamFields, NEW g, NEW x,
         \/ \E v : g = [f EXCEPT ![x].cb = v]
         \/ \E v : g = [f EXCEPT ![x].q = v]
         \/ \E v : g = [f EXCEPT ![x].closed = v]
         \/ \E v : g = [f EXCEPT ![x].fin = v]
         \/ \E v, w : g = [f EXCEPT ![x].fin = v, ![x].closed = w]
  PROVE  SameHold(g, f)
<1>1. DOMAIN g = Streams /\ \A y \in Streams : y # x => g[y] = f[y]
  BY ZenonT(30)
<1>2. CASE x \in Streams
  <2>1. CASE \E v, w : g = [f EXCEPT ![x].fin = v, ![x].closed = w]
    <3>1. PICK v, w : g = [f EXCEPT ![x].fin = v, ![x].closed = w]
      BY Zenon, <2>1
    <3>2. g[x] = [f[x] EXCEPT !.fin = v, !.closed = w]
      BY ONLY SMTT(20), <1>2, <3>1, DOMAIN f = Streams
    <3>3. DOMAIN f[x] = StreamFields
      BY Zenon, <1>2
    <3>4. DOMAIN g[x] = StreamFields /\ g[x].handle = f[x].handle /\ g[x].live = f[x].live
      BY ONLY Zenon, <3>2, <3>3 DEF StreamFields
    <3> QED BY Zenon, <1>1, <3>4 DEF SameHold
  <2>2. CASE ~\E v, w : g = [f EXCEPT ![x].fin = v, ![x].closed = w]
    <3>0. DOMAIN f[x] = StreamFields
      BY Zenon, <1>2
    <3>1. CASE \E v : g = [f EXCEPT ![x].cb = v]
      <4>1. \E v : g[x] = [f[x] EXCEPT !.cb = v]
        BY ONLY Zenon, <1>2, <3>1, DOMAIN f = Streams
      <4>2. DOMAIN g[x] = StreamFields /\ g[x].handle = f[x].handle /\ g[x].live = f[x].live
        BY ONLY Zenon, <3>0, <4>1 DEF StreamFields
      <4> QED BY ONLY Zenon, <1>1, <4>2, \A y \in Streams : DOMAIN f[y] = StreamFields DEF SameHold
    <3>2. CASE \E v : g = [f EXCEPT ![x].q = v]
      <4>1. \E v : g[x] = [f[x] EXCEPT !.q = v]
        BY ONLY Zenon, <1>2, <3>2, DOMAIN f = Streams
      <4>2. DOMAIN g[x] = StreamFields /\ g[x].handle = f[x].handle /\ g[x].live = f[x].live
        BY ONLY Zenon, <3>0, <4>1 DEF StreamFields
      <4> QED BY ONLY Zenon, <1>1, <4>2, \A y \in Streams : DOMAIN f[y] = StreamFields DEF SameHold
    <3>3. CASE \E v : g = [f EXCEPT ![x].closed = v]
      <4>1. \E v : g[x] = [f[x] EXCEPT !.closed = v]
        BY ONLY Zenon, <1>2, <3>3, DOMAIN f = Streams
      <4>2. DOMAIN g[x] = StreamFields /\ g[x].handle = f[x].handle /\ g[x].live = f[x].live
        BY ONLY Zenon, <3>0, <4>1 DEF StreamFields
      <4> QED BY ONLY Zenon, <1>1, <4>2, \A y \in Streams : DOMAIN f[y] = StreamFields DEF SameHold
    <3>4. CASE \E v : g = [f EXCEPT ![x].fin = v]
      <4>1. \E v : g[x] = [f[x] EXCEPT !.fin = v]
        BY ONLY Zenon, <1>2, <3>4, DOMAIN f = Streams
      <4>2. DOMAIN g[x] = StreamFields /\ g[x].handle = f[x].handle /\ g[x].live = f[x].live
        BY ONLY Zenon, <3>0, <4>1 DEF StreamFields
      <4> QED BY ONLY Zenon, <1>1, <4>2, \A y \in Streams : DOMAIN f[y] = StreamFields DEF SameHold
    <3> QED BY Zenon, <2>2, <3>1, <3>2, <3>3, <3>4
  <2> QED BY Zenon, <2>1, <2>2
<1> QED BY Zenon, <1>1, <1>2 DEF SameHold

LEMMA HoldTrans ==
  ASSUME NEW f, NEW g, NEW h, SameHold(g, f), SameHold(h, g)
  PROVE  SameHold(h, f)
BY Zenon DEF SameHold

\* Steps that leave every handle with whoever holds it.
LEMMA HoldStep ==
  ASSUME ChannelTypes, StreamsHeldOnce, UNCHANGED <<wtSetup, hq>>,
         \/ UNCHANGED st
         \/ \E x : \/ BidiRecv(x) \/ UniReset(x) \/ quic_stream_callback_bidi(x) \/ ReceiveBegins(x)
         \/ \E s \in Sessions : SendOnStream(s) \/ CloseStreams(s)
         \/ InstallPeerStream \/ WcClose
  PROVE  StreamsHeldOnce'
<1>1. DOMAIN st = Streams /\ \A y \in Streams : DOMAIN st[y] = StreamFields
  BY Zenon DEF ChannelTypes
<1>2. SameHold(st, st)
  BY Zenon, <1>1 DEF SameHold
<1>3. ASSUME NEW x, BidiRecv(x) \/ UniReset(x) \/ quic_stream_callback_bidi(x) \/ ReceiveBegins(x)
      PROVE  StreamsHeldOnce'
  <2>1. \/ \E v : st' = [st EXCEPT ![x].q = v]
        \/ \E v : st' = [st EXCEPT ![x].closed = v]
        \/ \E v : st' = [st EXCEPT ![x].fin = v]
        \/ \E v, w : st' = [st EXCEPT ![x].fin = v, ![x].closed = w]
    BY ZenonT(30), <1>3 DEF BidiRecv, UniReset, StreamShut, quic_stream_callback_bidi, ReceiveBegins,
       on_receive, on_peer_send_shutdown, on_peer_send_aborted, on_peer_receive_aborted
  <2>2. SameHold(st', st)
    BY Zenon, <1>1, <2>1, HoldOfOne
  <2> QED BY Zenon, <2>2, HoldKept
<1>4. ASSUME NEW s \in Sessions, SendOnStream(s)
      PROVE  StreamsHeldOnce'
  <2>1. st' = st \/ \E x, v : st' = [st EXCEPT ![x].closed = v]
    BY Zenon, <1>4 DEF SendOnStream, UniSend
  <2>2. SameHold(st', st)
    BY Zenon, <1>1, <1>2, <2>1, HoldOfOne
  <2> QED BY Zenon, <2>2, HoldKept
<1>5. ASSUME NEW s \in Sessions, CloseStreams(s)
      PROVE  StreamsHeldOnce'
  <2>1. \A x : SameHold(BidiClose(st, x), st)
    BY Zenon, <1>1, HoldOfOne DEF BidiClose, StreamShut
  <2>2. DOMAIN st' = Streams /\ \A x \in Streams : st'[x] = BidiClose(st, x)[x] \/ st'[x] = st[x]
    BY Zenon, <1>5 DEF CloseStreams
  <2>3. ASSUME NEW x \in Streams
        PROVE  /\ DOMAIN st'[x] = StreamFields
               /\ st'[x].handle = st[x].handle /\ st'[x].live = st[x].live
    <3>1. SameHold(BidiClose(st, x), st)
      BY Zenon, <2>1
    <3>2. PICK r : r = BidiClose(st, x)[x]
      BY Zenon
    <3>3. DOMAIN r = StreamFields /\ r.handle = st[x].handle /\ r.live = st[x].live
      BY Zenon, <3>1, <3>2 DEF SameHold
    <3>4. st'[x] = r \/ st'[x] = st[x]
      BY Zenon, <2>2, <3>2
    <3> QED BY Zenon, <1>1, <3>3, <3>4
  <2>4. SameHold(st', st)
    BY Zenon, <2>2, <2>3 DEF SameHold
  <2> QED BY Zenon, <2>4, HoldKept
<1>6. \A f, x, c : SameHold(f, st) => SameHold(set_on_data(f, x, c), st) /\ SameHold(BidiClose(f, x), st)
  <2> SUFFICES ASSUME NEW f, NEW x, NEW c, SameHold(f, st)
               PROVE  SameHold(set_on_data(f, x, c), st) /\ SameHold(BidiClose(f, x), st)
    BY Zenon
  <2>0. DOMAIN f = Streams /\ \A y \in Streams : DOMAIN f[y] = StreamFields
    BY Zenon DEF SameHold
  <2>1. SameHold(set_on_data(f, x, c), f)
    BY Zenon, <2>0, HoldOfOne DEF set_on_data
  <2>2. SameHold(BidiClose(f, x), f)
    BY Zenon, <2>0, HoldOfOne DEF BidiClose, StreamShut
  <2> QED BY Zenon, <2>1, <2>2, HoldTrans
<1>7. CASE UNCHANGED st
  BY Zenon, <1>2, <1>7, HoldKept
<1>8. CASE InstallPeerStream
  <2>1. PICK f : f = detach_peer_stream(st, wc) /\ (st' = f \/ st' = set_on_data(f, quic.wk.x, "peer"))
    BY Zenon, <1>8 DEF InstallPeerStream
  <2>2. SameHold(f, st)
    BY Zenon, <1>2, <1>6, <2>1 DEF detach_peer_stream
  <2>3. SameHold(st', st)
    BY Zenon, <1>6, <2>1, <2>2
  <2> QED BY Zenon, <2>3, HoldKept
<1>9. CASE WcClose
  <2>1. PICK f : f = (IF RawUsable(st, wc) THEN BidiClose(st, wc.raw) ELSE st) /\ st' = detach_peer_stream(f, wc)
    BY Zenon, <1>9 DEF WcClose
  <2>2. SameHold(f, st)
    BY Zenon, <1>2, <1>6, <2>1
  <2>3. SameHold(st', st)
    BY Zenon, <1>6, <2>1, <2>2 DEF detach_peer_stream
  <2> QED BY Zenon, <2>3, HoldKept
<1> QED BY Zenon, <1>3, <1>4, <1>5, <1>7, <1>8, <1>9

\* The four handles that are not streams come and go on their own.
LEMMA RootStepHold ==
  ASSUME ChannelTypes, StreamsHeldOnce,
         \/ \E s \in Sessions : MsQuicSessionImpl(s)
         \/ ListenerImpl \/ quic_listener_callback \/ StopBegins \/ StopEnds
  PROVE  StreamsHeldOnce'
<1>1. UNCHANGED <<wtSetup, st>>
  BY Zenon DEF MsQuicSessionImpl, ListenerImpl, quic_listener_callback, StopBegins, StopEnds
<1>2. \A x \in Streams : x \in Handles /\ x \notin Roots
  BY Zenon, WtAssumption DEF WtAssumption, Handles
<1>3. \A f, S : S \in SUBSET Roots =>
         \A x \in Streams : CloseAll(f, S)[x] = f[x] /\ Opened(f, S)[x] = f[x]
  BY Zenon, <1>2 DEF CloseAll, Opened
<1>4. \A x \in Streams : hq'[x] = hq[x]
  <2>1. CASE \/ \E s \in Sessions : MsQuicSessionImpl(s)
             \/ ListenerImpl
    <3>1. \E S \in SUBSET Roots : hq' = Opened(hq, S) \/ hq' = CloseAll(Opened(hq, S), S)
      <4>1. CASE \E s \in Sessions : MsQuicSessionImpl(s)
        <5>1. \A k \in DOMAIN CtorSteps : CtorUnwinds[k] \in SUBSET Roots
          BY DEF CtorSteps, CtorUnwinds, Roots
        <5>2. {"reg", "cfg", "conn"} \in SUBSET Roots
          BY DEF Roots
        <5> QED BY Zenon, <4>1, <5>1, <5>2 DEF MsQuicSessionImpl
      <4>2. CASE ListenerImpl
        <5>1. \A k \in DOMAIN StartSteps : StartUnwinds[k] \in SUBSET Roots
          BY DEF StartSteps, StartUnwinds, Roots
        <5>2. {"reg", "cfg", "lst"} \in SUBSET Roots
          BY DEF Roots
        <5> QED BY Zenon, <4>2, <5>1, <5>2 DEF ListenerImpl
      <4> QED BY Zenon, <2>1, <4>1, <4>2
    <3>2. PICK S \in SUBSET Roots : hq' = Opened(hq, S) \/ hq' = CloseAll(Opened(hq, S), S)
      BY Zenon, <3>1
    <3>3. PICK f : f = Opened(hq, S)
      BY Zenon
    <3>4. \A x \in Streams : f[x] = hq[x] /\ CloseAll(f, S)[x] = f[x]
      BY Zenon, <1>3, <3>3
    <3> QED BY Zenon, <3>2, <3>3, <3>4
  <2>2. CASE quic_listener_callback
    <3>1. \A x \in Streams : x # "conn"
      BY Zenon, <1>2 DEF Roots
    <3>2. \E v : hq' = [hq EXCEPT !["conn"] = v]
      BY Zenon, <2>2 DEF quic_listener_callback
    <3> QED BY <3>1, <3>2
  <2>3. CASE StopBegins \/ StopEnds
    <3>1. \E S \in SUBSET Roots : hq' = CloseAll(hq, S)
      <4>1. {"lst"} \in SUBSET Roots
        BY Zenon DEF Roots
      <4>2. \A b : {"cfg", "reg"} \cup (IF b THEN {"conn"} ELSE {}) \in SUBSET Roots
        BY Zenon DEF Roots
      <4> QED BY Zenon, <2>3, <4>1, <4>2 DEF StopBegins, StopEnds
    <3>2. PICK S \in SUBSET Roots : hq' = CloseAll(hq, S)
      BY Zenon, <3>1
    <3>3. \A x \in Streams : CloseAll(hq, S)[x] = hq[x]
      BY Zenon, <1>3
    <3> QED BY Zenon, <3>2, <3>3
  <2> QED BY Zenon, <2>1, <2>2, <2>3
<1> QED BY Zenon, <1>1, <1>4, HoldKept DEF SameHold, ChannelTypes

\* SHUTDOWN_COMPLETE of a stream: a session's wrapper forgets the handle, the
\* HTTP/3 handler closes it.
LEMMA ClosedHold ==
  ASSUME ChannelTypes, StreamsHeldOnce, NEW x \in Streams,
         StreamShutdownComplete(x) \/ H3StreamClosed(x)
  PROVE  StreamsHeldOnce'
<1>1. DOMAIN st = Streams /\ \A y \in Streams : DOMAIN st[y] = StreamFields
  BY Zenon DEF ChannelTypes
<1>2. \A y \in Streams : y # x => st'[y] = st[y] /\ hq'[y] = hq[y]
  <2>1. \A y \in Streams : y # x => CloseAll(hq, {x})[y] = hq[y]
    BY Zenon DEF CloseAll, Handles
  <2> QED BY Zenon, <1>1, <2>1 DEF StreamShutdownComplete, H3StreamClosed, on_stream_closed
<1>3. ~st'[x].handle /\ ~st'[x].live
  <2>1. CASE StreamShutdownComplete(x)
    <3>1. st'[x] = [st[x] EXCEPT !.closed = TRUE, !.handle = FALSE, !.live = FALSE]
      BY Zenon, <1>1, <2>1 DEF StreamShutdownComplete, on_stream_closed
    <3> QED BY Zenon, <1>1, <3>1 DEF StreamFields
  <2>2. CASE H3StreamClosed(x)
    <3>1. st'[x] = [st[x] EXCEPT !.live = FALSE, !.handle = FALSE]
      BY Zenon, <1>1, <2>2 DEF H3StreamClosed
    <3> QED BY Zenon, <1>1, <3>1 DEF StreamFields
  <2> QED BY Zenon, <2>1, <2>2
<1>4. hq'[x] = "twice" => hq[x] = "twice"
  <2>1. CASE StreamShutdownComplete(x)
    BY Zenon, <2>1 DEF StreamShutdownComplete
  <2>2. CASE H3StreamClosed(x)
    BY Zenon, <2>2 DEF H3StreamClosed, H3Fires, CloseAll, Handles, HandleClose
  <2> QED BY Zenon, <2>1, <2>2
<1>5. \A y \in Streams : HandleFate(y)
  BY Zenon, <1>2, <1>3, <1>4 DEF HandleFate, StreamsHeldOnce
<1>6. wtSetup' = wtSetup
  BY Zenon DEF StreamShutdownComplete, H3StreamClosed
<1> QED BY Zenon, <1>5, <1>6, FatesHold

\* The destructor and SHUTDOWN_COMPLETE of the connection drop the wrappers.
LEMMA DroppedHold ==
  ASSUME ChannelTypes, StreamsHeldOnce, NEW s \in Sessions, ss[s].streams \in SUBSET Streams,
         DestroySession(s) \/ on_shutdown_complete(s)
  PROVE  StreamsHeldOnce'
<1>1. DOMAIN st = Streams /\ \A y \in Streams : DOMAIN st[y] = StreamFields
  BY Zenon DEF ChannelTypes
<1>2. st' = Dropped(ss[s].streams) /\ wtSetup' = wtSetup
  BY Zenon DEF DestroySession, on_shutdown_complete
<1>3. \A x \in Streams : hq'[x] = DropWrappers(hq, ss[s].streams)[x]
  <2>1. CASE DestroySession(s)
    BY Zenon, <2>1 DEF DestroySession
  <2>2. CASE on_shutdown_complete(s)
    <3>1. PICK S : /\ S \in SUBSET Roots /\ hq' = CloseAll(DropWrappers(hq, ss[s].streams), S)
      <4>1. {h \in {"conn", "cfg", "reg"} : ss[s].conn \/ h # "conn"} \in SUBSET Roots /\ {} \in SUBSET Roots
        BY Zenon DEF Roots
      <4> QED BY Zenon, <2>2, <4>1 DEF on_shutdown_complete
    <3>2. \A x \in Streams : x \in Handles /\ x \notin S
      BY Zenon, <3>1, WtAssumption DEF WtAssumption, Handles
    <3> QED BY Zenon, <3>1, <3>2 DEF CloseAll
  <2> QED BY Zenon, <2>1, <2>2
<1>4. ASSUME NEW x \in Streams PROVE HandleFate(x)
  <2>1. hq'[x] = IF x \in ss[s].streams /\ st[x].handle THEN HandleClose(hq[x]) ELSE hq[x]
    BY Zenon, <1>3 DEF DropWrappers, CloseAll, Handles
  <2>2. CASE x \in ss[s].streams
    <3>1. PICK r : r = st[x] /\ DOMAIN r = StreamFields
      BY Zenon, <1>1
    <3>2. st'[x] = [r EXCEPT !.by = "dead", !.handle = FALSE, !.live = @ /\ ~r.handle]
      BY Zenon, <1>2, <2>2, <3>1 DEF Dropped
    <3>3. ~st'[x].handle /\ (st'[x].live <=> r.live /\ ~r.handle)
      BY ONLY ZenonT(30), <3>1, <3>2 DEF StreamFields
    <3>4. ~st'[x].live
      BY Zenon, <3>1, <3>3 DEF StreamsHeldOnce
    <3>5. hq'[x] = "twice" => hq[x] = "twice"
      BY Zenon, <2>1 DEF HandleClose, StreamsHeldOnce
    <3> QED BY Zenon, <3>3, <3>4, <3>5 DEF HandleFate
  <2>3. CASE x \notin ss[s].streams
    <3>1. st'[x] = st[x]
      BY Zenon, <1>2, <2>3 DEF Dropped
    <3> QED BY Zenon, <2>1, <2>3, <3>1 DEF HandleFate, StreamsHeldOnce
  <2> QED BY Zenon, <2>2, <2>3
<1> QED BY Zenon, <1>2, <1>4, FatesHold

\* A new stream is held by its wrapper, or nobody holds it: opened and wrapped,
\* or opened and closed at once.
LEMMA NewHold ==
  ASSUME ChannelTypes, StreamsHeldOnce, wtSetup' = wtSetup, StreamLeft, NEW x, x = NewStream, NEW g,
         SameHold(st', g),
         \/ /\ hq' = Opened(hq, {x})
            /\ \E w : g = [st EXCEPT ![x] = w] /\ w.live /\ w.handle
         \/ /\ g = st
            /\ \/ hq' = hq
               \/ hq' = CloseAll(Opened(hq, {x}), {x})
               \/ Fails("StreamStart") /\ hq' = CloseAll(CloseAll(Opened(hq, {x}), {x}), {x})
  PROVE  StreamsHeldOnce'
<1>1. x \in Streams /\ hq[x] = "none" /\ DOMAIN st = Streams
  BY Zenon, NewStreamIsFree DEF ChannelTypes
<1>2. ~st[x].handle /\ ~st[x].live
  BY Zenon, <1>1 DEF StreamsHeldOnce
<1>3. \A y \in Streams : y # x =>
         /\ Opened(hq, {x})[y] = hq[y] /\ CloseAll(Opened(hq, {x}), {x})[y] = hq[y]
         /\ CloseAll(CloseAll(Opened(hq, {x}), {x}), {x})[y] = hq[y]
  BY Zenon DEF Opened, CloseAll, Handles
<1>4. Opened(hq, {x})[x] = "open" /\ CloseAll(Opened(hq, {x}), {x})[x] = "closed"
  BY Zenon, <1>1 DEF Opened, CloseAll, Handles, HandleClose
<1>5. ASSUME NEW y \in Streams, y # x PROVE HandleFate(y)
  <2>1. hq'[y] = hq[y] /\ g[y] = st[y]
    BY Zenon, <1>1, <1>3, <1>5
  <2> QED BY Zenon, <2>1 DEF HandleFate, SameHold, StreamsHeldOnce
<1>6. HandleFate(x)
  <2>1. CASE g = st
    <3>1. ~st'[x].handle /\ ~st'[x].live
      BY Zenon, <1>1, <1>2, <2>1 DEF SameHold
    <3>2. \/ hq'[x] = hq[x] \/ hq'[x] = "closed" \/ Fails("StreamStart")
          \/ hq'[x] = "open" /\ (st'[x].live => st'[x].handle)
      BY Zenon, <1>4, <3>1
    <3> QED BY Zenon, <3>1, <3>2 DEF HandleFate
  <2>2. ASSUME hq' = Opened(hq, {x}), NEW w, g = [st EXCEPT ![x] = w], w.live, w.handle
        PROVE  HandleFate(x)
    <3>1. g[x] = w
      BY Zenon, <1>1, <2>2
    <3> QED BY Zenon, <1>1, <1>4, <2>2, <3>1 DEF HandleFate, SameHold
  <2> QED BY Zenon, <2>1, <2>2
<1>7. \A y \in Streams : HandleFate(y)
  BY Zenon, <1>5, <1>6
<1> QED BY Zenon, <1>7, FatesHold

\* The session and the channel open a stream.
LEMMA OutcomeHold ==
  ASSUME ChannelTypes, StreamsHeldOnce, wtSetup' = wtSetup, NEW s, NEW w, NEW o,
         DOMAIN w = StreamFields, w.live, w.handle,
         \/ StreamLeft /\ o \in OpenStream(s, w)
         \/ \E x : o = Outcome(hq, st, ss, x),
         hq' = o.hq, SameHold(st', o.st)
  PROVE  StreamsHeldOnce'
<1>1. CASE \E x : o = Outcome(hq, st, ss, x)
  <2>1. o.hq = hq /\ o.st = st
    BY <1>1 DEF Outcome
  <2> QED BY Zenon, <2>1, HoldKept
<1>2. CASE StreamLeft /\ o \in OpenStream(s, w)
  <2>1. PICK x : x = NewStream
    BY Zenon
  <2>2. \/ /\ o.hq = Opened(hq, {x}) /\ o.st = [st EXCEPT ![x] = w]
        \/ /\ o.st = st
           /\ \/ o.hq = hq
              \/ Fails("StreamStart") /\ o.hq = CloseAll(CloseAll(Opened(hq, {x}), {x}), {x})
    <3>1. \/ \E k : o = Outcome(Opened(hq, {x}), [st EXCEPT ![x] = w], k, x)
          \/ o = Outcome(hq, st, ss, "none")
          \/ Fails("StreamStart") /\ o = Outcome(CloseAll(CloseAll(Opened(hq, {x}), {x}), {x}), st, ss, "none")
      BY Zenon, <1>2, <2>1 DEF OpenStream
    <3>2. PICK one, three, g :
             one = Opened(hq, {x}) /\ three = CloseAll(CloseAll(one, {x}), {x}) /\ g = [st EXCEPT ![x] = w]
      BY Zenon
    <3>3. \/ \E k : o = Outcome(one, g, k, x)
          \/ o = Outcome(hq, st, ss, "none")
          \/ Fails("StreamStart") /\ o = Outcome(three, st, ss, "none")
      BY Zenon, <3>1, <3>2
    <3>4. \/ o.hq = one /\ o.st = g
          \/ o.st = st /\ (o.hq = hq \/ (Fails("StreamStart") /\ o.hq = three))
      BY ONLY <3>3, SMTT(20) DEF Outcome
    <3> QED BY Zenon, <3>2, <3>4
  <2> QED BY Zenon, <1>2, <2>1, <2>2, NewHold
<1> QED BY Zenon, <1>1, <1>2

LEMMA OpenStepHold ==
  ASSUME ChannelTypes, StreamsHeldOnce, NEW s,
         \/ open_bidi_stream(s) \/ open_uni_stream(s)
         \/ ((WcOpen \/ WcSendStream) /\ wc.sess = s)
  PROVE  StreamsHeldOnce'
<1>0. /\ DOMAIN st = Streams /\ \A y \in Streams : DOMAIN st[y] = StreamFields
      /\ wtSetup' = wtSetup
  BY Zenon DEF ChannelTypes, open_bidi_stream, open_uni_stream, WcOpen, WcSendStream
<1>1. PICK own : own = [BidiStream(s) EXCEPT !.cb = "own"]
  BY Zenon
<1>2. \A w \in {BidiStream(s), UniStream(s), own} : DOMAIN w = StreamFields /\ w.live /\ w.handle
  BY Zenon, <1>1 DEF BidiStream, UniStream, NoStream, StreamFields
<1>3. \E w \in {BidiStream(s), UniStream(s), own} : \E o :
         /\ \/ StreamLeft /\ o \in OpenStream(s, w)
            \/ \E x : o = Outcome(hq, st, ss, x)
         /\ hq' = o.hq
         /\ st' = o.st \/ \E x : st' = BidiReset(o.st, x)
  <2>1. CASE open_bidi_stream(s) \/ open_uni_stream(s)
    BY Zenon, <2>1 DEF open_bidi_stream, open_uni_stream, Apply
  <2>2. CASE WcOpen /\ wc.sess = s
    BY Zenon, <1>1, <2>2 DEF WcOpen, ensure_stream_open, Apply
  <2>3. CASE WcSendStream /\ wc.sess = s
    <3>1. PICK o \in ensure_stream_open(wc) :
             \E f : Apply([o EXCEPT !.st = f]) /\ (f = o.st \/ \E x : f = BidiReset(o.st, x))
      BY Zenon, <2>3 DEF WcSendStream
    <3>2. \/ StreamLeft /\ o \in OpenStream(s, own)
          \/ \E x : o = Outcome(hq, st, ss, x)
      BY Zenon, <1>1, <2>3, <3>1 DEF ensure_stream_open
    <3>3. o = [hq |-> o.hq, st |-> o.st, ss |-> o.ss, x |-> o.x]
      BY <3>2 DEF OpenStream, Outcome
    <3>4. PICK f : Apply([o EXCEPT !.st = f]) /\ (f = o.st \/ \E x : f = BidiReset(o.st, x))
      BY Zenon, <3>1
    <3>5. hq' = o.hq /\ st' = f
      BY Zenon, <3>3, <3>4 DEF Apply
    <3> QED BY Zenon, <3>2, <3>4, <3>5
  <2> QED BY Zenon, <2>1, <2>2, <2>3
<1>. PICK w \in {BidiStream(s), UniStream(s), own} : \E o :
         /\ \/ StreamLeft /\ o \in OpenStream(s, w)
            \/ \E x : o = Outcome(hq, st, ss, x)
         /\ hq' = o.hq
         /\ st' = o.st \/ \E x : st' = BidiReset(o.st, x)
  BY Zenon, <1>3
<1>4. PICK o :
         /\ \/ StreamLeft /\ o \in OpenStream(s, w)
            \/ \E x : o = Outcome(hq, st, ss, x)
         /\ hq' = o.hq
         /\ st' = o.st \/ \E x : st' = BidiReset(o.st, x)
  OBVIOUS
<1>5. DOMAIN o.st = Streams /\ \A y \in Streams : DOMAIN o.st[y] = StreamFields
  <2>1. o.st = st \/ \E x : o.st = [st EXCEPT ![x] = w]
    <3>1. PICK g : g = [st EXCEPT ![NewStream] = w]
      BY Zenon
    <3>2. \/ \E f, k, x : o = Outcome(f, st, k, x)
          \/ \E f, k, x : o = Outcome(f, g, k, x)
      BY Zenon, <1>4, <3>1 DEF OpenStream
    <3>3. o.st = st \/ o.st = g
      BY ONLY <3>2, SMTT(20) DEF Outcome
    <3> QED BY Zenon, <3>1, <3>3
  <2>2. DOMAIN w = StreamFields
    BY Zenon, <1>2, <1>4
  <2> QED BY ZenonT(30), <1>0, <2>1, <2>2
<1>6. SameHold(st', o.st)
  <2>1. SameHold(o.st, o.st)
    BY Zenon, <1>5 DEF SameHold
  <2>2. \A x : SameHold(BidiReset(o.st, x), o.st)
    BY Zenon, <1>5, HoldOfOne DEF BidiReset, StreamShut
  <2> QED BY Zenon, <1>4, <2>1, <2>2
<1>7. DOMAIN w = StreamFields /\ w.live /\ w.handle
  BY Zenon, <1>2, <1>4
<1> QED BY ZenonT(30), <1>0, <1>4, <1>6, <1>7, OutcomeHold

\* The peer starts a stream, and the HTTP/3 handler its control stream.
LEMMA PeerStartHold ==
  ASSUME ChannelTypes, StreamsHeldOnce,
         \/ \E s \in Sessions : on_peer_stream_started(s)
         \/ H3PeerStreamStarted \/ H3Connected
  PROVE  StreamsHeldOnce'
<1>0. /\ DOMAIN st = Streams /\ \A y \in Streams : DOMAIN st[y] = StreamFields
      /\ wtSetup' = wtSetup /\ StreamLeft
  BY Zenon DEF ChannelTypes, on_peer_stream_started, H3PeerStreamStarted, H3Connected, PeerStarts
<1>1. PICK x : x = NewStream
  BY Zenon
<1>2. \/ /\ hq' = Opened(hq, {x})
         /\ \E w : st' = [st EXCEPT ![x] = w] /\ DOMAIN w = StreamFields /\ w.live /\ w.handle
      \/ st' = st /\ (hq' = hq \/ hq' = CloseAll(Opened(hq, {x}), {x}))
  <2>1. ASSUME NEW s \in Sessions, on_peer_stream_started(s)
        PROVE  \/ /\ hq' = Opened(hq, {x})
                  /\ \E c : st' = [st EXCEPT ![x] = [BidiStream(s) EXCEPT !.cb = c]]
               \/ st' = st /\ hq' = CloseAll(Opened(hq, {x}), {x})
    BY Zenon, <1>1, <2>1 DEF on_peer_stream_started
  <2>2. ASSUME H3PeerStreamStarted \/ H3Connected
        PROVE  \/ hq' = Opened(hq, {x}) /\ \E k : st' = [st EXCEPT ![x] = H3Stream(k)]
               \/ st' = st /\ (hq' = hq \/ hq' = CloseAll(Opened(hq, {x}), {x}))
    BY Zenon, <1>1, <2>2 DEF H3PeerStreamStarted, H3Connected, send_settings
  <2>3. \A s, c : LET w == [BidiStream(s) EXCEPT !.cb = c] IN DOMAIN w = StreamFields /\ w.live /\ w.handle
    BY Zenon DEF BidiStream, NoStream, StreamFields
  <2>4. \A k : LET w == H3Stream(k) IN DOMAIN w = StreamFields /\ w.live /\ w.handle
    BY Zenon DEF H3Stream, NoStream, StreamFields
  <2> QED BY ZenonT(30), <2>1, <2>2, <2>3, <2>4
<1>3. SameHold(st', st')
  <2>1. DOMAIN st' = Streams /\ \A y \in Streams : DOMAIN st'[y] = StreamFields
    BY ZenonT(30), <1>0, <1>2
  <2> QED BY Zenon, <2>1 DEF SameHold
<1> QED BY ZenonT(30), <1>0, <1>1, <1>2, <1>3, NewHold

LEMMA StreamsNext == WtTypes /\ LateInv /\ StreamsHeldOnce /\ [WtNext]_wtAll => StreamsHeldOnce'
<1> SUFFICES ASSUME WtTypes, ChannelTypes, StreamsHeldOnce, [WtNext]_wtAll PROVE StreamsHeldOnce'
  BY Zenon DEF LateInv
<1>1. ASSUME UNCHANGED <<wtSetup, hq, st>> PROVE StreamsHeldOnce'
  BY Zenon, <1>1, HoldStep
<1>2. CASE UNCHANGED wtAll
  BY Zenon, <1>1, <1>2 DEF wtAll, wtVars
<1>3. CASE WtServerNext
  <2>1. CASE \/ H3ShutdownInitiated \/ H3ShutdownComplete \/ H3DatagramState
             \/ \E x \in Streams : quic_server_stream_callback(x)
    BY Zenon, <1>1, <2>1 DEF H3ShutdownInitiated, H3ShutdownComplete, H3DatagramState,
       quic_server_stream_callback
  <2> QED BY Zenon, <1>3, <2>1, RootStepHold, PeerStartHold, ClosedHold DEF WtServerNext
<1>4. CASE WtSessionNext
  <2>1. ASSUME NEW s \in Sessions,
               \/ CtorStoresConnecting(s) \/ CloseBegins(s) \/ CloseConnection(s) \/ on_connected(s)
               \/ on_shutdown_initiated_by_transport(s) \/ on_shutdown_initiated_by_peer(s)
               \/ on_datagram_state_changed(s) \/ \E p \in FreshPayload : send_datagram(s, p)
        PROVE  StreamsHeldOnce'
    BY ZenonT(30), <1>1, <2>1 DEF CtorStoresConnecting, CloseBegins, CloseConnection, on_connected,
       on_shutdown_initiated_by_transport, on_shutdown_initiated_by_peer, on_datagram_state_changed,
       send_datagram
  <2>2. ASSUME NEW p \in Payloads, SendComplete(p) \/ \E final \in BOOLEAN : DatagramSendState(p, final)
        PROVE  StreamsHeldOnce'
    BY Zenon, <1>1, <2>2 DEF SendComplete, DatagramSendState
  <2>3. ASSUME NEW s \in Sessions, SendOnStream(s) \/ CloseStreams(s)
        PROVE  StreamsHeldOnce'
    BY Zenon, <2>3, HoldStep DEF SendOnStream, CloseStreams
  <2>4. ASSUME NEW x \in Streams, BidiRecv(x) \/ UniReset(x) \/ quic_stream_callback_bidi(x)
        PROVE  StreamsHeldOnce'
    BY Zenon, <2>4, HoldStep DEF BidiRecv, UniReset, quic_stream_callback_bidi
  <2>5. ASSUME NEW s \in Sessions,
               \/ MsQuicSessionImpl(s) \/ open_bidi_stream(s) \/ open_uni_stream(s)
               \/ DestroySession(s) \/ on_shutdown_complete(s)
        PROVE  StreamsHeldOnce'
    BY Zenon, <2>5, RootStepHold, OpenStepHold, DroppedHold DEF WtTypes
  <2> QED BY ZenonT(30), <1>4, <2>1, <2>2, <2>3, <2>4, <2>5, ClosedHold DEF WtSessionNext
<1>5. CASE WtChannelNext
  <2>1. CASE \/ WcSendDatagram \/ DeadlinePasses \/ attach_session_callbacks \/ on_peer_stream
             \/ ReceiveCalls \/ PeerDataChecks \/ on_peer_stream_data \/ on_session_datagram \/ OnMessage
             \/ \E s \in Sessions : create_data_channel(s) \/ DatagramBegins(s)
    BY Zenon, <1>1, <2>1 DEF WcSendDatagram, send_datagram, DeadlinePasses, wtVars,
       attach_session_callbacks, on_peer_stream, ReceiveCalls, PeerDataChecks, on_peer_stream_data,
       on_session_datagram, OnMessage, create_data_channel, DatagramBegins
  <2>2. CASE WcClose \/ InstallPeerStream \/ \E x \in Streams : ReceiveBegins(x)
    BY Zenon, <2>2, HoldStep DEF WcClose, InstallPeerStream, ReceiveBegins
  <2>3. CASE WcOpen \/ WcSendStream
    BY Zenon, <2>3, OpenStepHold
  <2> QED BY ZenonT(30), <1>5, <2>1, <2>2, <2>3, PeerStartHold DEF WtChannelNext
<1> QED BY Zenon, <1>2, <1>3, <1>4, <1>5 DEF WtNext

-----------------------------------------------------------------------------
(* The payloads lent to msquic. *)

PayloadValues == {[own |-> o, freed |-> 0] : o \in {"none", "msquic", "dgram", "tracked"}}
                    \cup {[own |-> "done", freed |-> 1]}
PayloadInv == pay \in [Payloads -> PayloadValues]

LEMMA PayloadInvOwnership == PayloadInv => PayloadOwnership
<1> SUFFICES ASSUME PayloadInv, NEW p \in Payloads
             PROVE  pay[p].freed = IF pay[p].own = "done" THEN 1 ELSE 0
  BY Zenon DEF PayloadOwnership
<1>1. pay[p] \in PayloadValues
  BY Zenon DEF PayloadInv
<1> QED BY <1>1 DEF PayloadValues

\* A payload is new, rejected, taken by msquic, tracked, or released.
PayloadStep == \E p \in Payloads, r \in PayloadValues : pay' = [pay EXCEPT ![p] = r]

LEMMA FreshIsPayload == WtTypes => FreshPayload \subseteq Payloads
BY Zenon, WtAssumption DEF WtTypes, WtAssumption, FreshPayload

LEMMA HandedOver ==
  ASSUME WtTypes, NEW p \in FreshPayload, NEW rejected \in BOOLEAN,
         \/ pay' = OutboundPayload(p, rejected)
         \/ pay' = [pay EXCEPT ![p] = [own |-> "dgram", freed |-> 0]]
  PROVE  PayloadStep
<1>1. p \in Payloads
  BY Zenon, FreshIsPayload
<1>2. /\ [own |-> "dgram", freed |-> 0] \in PayloadValues /\ [own |-> "msquic", freed |-> 0] \in PayloadValues
      /\ [own |-> "done", freed |-> 1] \in PayloadValues
  BY Zenon DEF PayloadValues
<1> QED BY Zenon, <1>1, <1>2 DEF PayloadStep, OutboundPayload

LEMMA Completed ==
  ASSUME PayloadInv, NEW p \in Payloads,
         SendComplete(p) \/ \E final \in BOOLEAN : DatagramSendState(p, final)
  PROVE  PayloadStep
<1>1. pay[p] \in PayloadValues /\ DOMAIN pay = Payloads
  BY Zenon DEF PayloadInv
<1>2. CASE SendComplete(p) \/ DatagramSendState(p, TRUE)
  <2>1. PICK r : r = pay[p]
    BY Zenon
  <2>2. DOMAIN r = {"own", "freed"} /\ r.freed = 0
    BY SMTT(20), <1>1, <1>2, <2>1 DEF SendComplete, DatagramSendState, PayloadValues
  <2>3. [[r EXCEPT !.freed = @ + 1] EXCEPT !.own = "done"] = [own |-> "done", freed |-> 1]
    <3>1. PICK q : q = [r EXCEPT !.freed = @ + 1]
      BY Zenon
    <3>2. DOMAIN q = {"own", "freed"} /\ q.freed = 1
      BY SMTT(20), <2>2, <3>1
    <3>3. [q EXCEPT !.own = "done"] = [own |-> "done", freed |-> 1]
      BY <3>2
    <3> QED BY Zenon, <3>1, <3>3
  <2>4. pay' = [[pay EXCEPT ![p].freed = @ + 1] EXCEPT ![p].own = "done"]
    BY Zenon, <1>2 DEF SendComplete, DatagramSendState, release_outbound_payload
  <2>5. pay' = [pay EXCEPT ![p] = [own |-> "done", freed |-> 1]]
    BY Zenon, <1>1, <2>1, <2>3, <2>4
  <2> QED BY Zenon, <2>5 DEF PayloadStep, PayloadValues
<1>3. CASE DatagramSendState(p, FALSE)
  <2>1. PICK r : r = pay[p]
    BY Zenon
  <2>2. DOMAIN r = {"own", "freed"} /\ r.freed = 0
    BY SMTT(20), <1>1, <1>3, <2>1 DEF DatagramSendState, PayloadValues
  <2>3. [r EXCEPT !.own = "tracked"] = [own |-> "tracked", freed |-> 0]
    BY <2>2
  <2>4. pay' = [pay EXCEPT ![p] = [own |-> "tracked", freed |-> 0]]
    BY ZenonT(30), <1>1, <1>3, <2>1, <2>3 DEF DatagramSendState
  <2> QED BY Zenon, <2>4 DEF PayloadStep, PayloadValues
<1> QED BY Zenon, <1>2, <1>3

LEMMA PayloadNext == WtTypes /\ PayloadInv /\ [WtNext]_wtAll => PayloadInv'
<1> SUFFICES ASSUME WtTypes, PayloadInv, [WtNext]_wtAll PROVE PayloadInv'
  BY Zenon
<1>1. ASSUME pay' = pay \/ PayloadStep PROVE PayloadInv'
  BY Zenon, <1>1 DEF PayloadStep, PayloadInv
<1>2. ASSUME \/ \E p \in FreshPayload, rejected \in BOOLEAN : pay' = OutboundPayload(p, rejected)
             \/ \E s \in Sessions \cup {wc.sess}, p \in FreshPayload : send_datagram(s, p)
      PROVE  PayloadInv'
  BY ZenonT(30), <1>1, <1>2, HandedOver DEF send_datagram
<1>3. CASE UNCHANGED wtAll
  BY Zenon, <1>1, <1>3 DEF wtAll, wtVars
<1>4. CASE WtServerNext
  <2>1. CASE H3Connected
    BY Zenon, <1>1, <1>2, <2>1 DEF H3Connected, send_settings
  <2>2. ASSUME NEW x \in Streams, quic_server_stream_callback(x)
        PROVE  PayloadInv'
    <3>1. pay' = pay \/ \E h, q : on_webtransport_request(x, h, q)
      BY Zenon, <2>2 DEF quic_server_stream_callback
    <3> QED BY Zenon, <1>1, <1>2, <3>1 DEF on_webtransport_request
  <2>3. CASE \/ ListenerImpl \/ quic_listener_callback \/ StopBegins \/ StopEnds
             \/ H3ShutdownInitiated \/ H3ShutdownComplete \/ H3DatagramState \/ H3PeerStreamStarted
             \/ \E x \in Streams : H3StreamClosed(x)
    <3>1. UNCHANGED pay
      BY Zenon, <2>3 DEF ListenerImpl, quic_listener_callback, StopBegins, StopEnds, H3ShutdownInitiated,
         H3ShutdownComplete, H3DatagramState, H3PeerStreamStarted, H3StreamClosed
    <3> QED BY Zenon, <1>1, <3>1
  <2> QED BY Zenon, <1>4, <2>1, <2>2, <2>3 DEF WtServerNext
<1>5. CASE WtSessionNext
  <2>1. ASSUME NEW s \in Sessions,
               \/ MsQuicSessionImpl(s) \/ CtorStoresConnecting(s)
               \/ open_bidi_stream(s) \/ open_uni_stream(s)
               \/ CloseBegins(s) \/ CloseStreams(s) \/ CloseConnection(s) \/ DestroySession(s)
               \/ on_connected(s) \/ on_shutdown_initiated_by_transport(s)
               \/ on_shutdown_initiated_by_peer(s) \/ on_shutdown_complete(s)
               \/ on_datagram_state_changed(s)
        PROVE  PayloadInv'
    <3>1. UNCHANGED pay
      BY ZenonT(30), <2>1 DEF MsQuicSessionImpl, CtorStoresConnecting, open_bidi_stream, open_uni_stream,
         CloseBegins, CloseStreams, CloseConnection, DestroySession, on_connected,
         on_shutdown_initiated_by_transport, on_shutdown_initiated_by_peer, on_shutdown_complete,
         on_datagram_state_changed
    <3> QED BY ZenonT(30), <1>1, <3>1
  <2>2. ASSUME NEW s \in Sessions, SendOnStream(s) PROVE PayloadInv'
    BY Zenon, <1>2, <2>2 DEF SendOnStream, BidiSend, UniSend
  <2>3. ASSUME NEW x \in Streams,
               BidiRecv(x) \/ UniReset(x) \/ quic_stream_callback_bidi(x) \/ StreamShutdownComplete(x)
        PROVE  PayloadInv'
    BY Zenon, <1>1, <2>3 DEF BidiRecv, UniReset, quic_stream_callback_bidi, StreamShutdownComplete
  <2> QED BY ZenonT(30), <1>1, <1>2, <1>5, <2>1, <2>2, <2>3, Completed DEF WtSessionNext
<1>6. CASE WtChannelNext
  <2>1. CASE WcSendStream
    <3>1. pay' = pay \/ \E f, c : SendRaw(f, c)
      BY Zenon, <2>1 DEF WcSendStream
    <3> QED BY Zenon, <1>1, <1>2, <3>1 DEF SendRaw
  <2>2. CASE ReceiveCalls
    <3>1. pay' = pay \/ \E p \in FreshPayload : BidiSend(quic.wk.x, p)
      BY Zenon, <2>2 DEF ReceiveCalls
    <3> QED BY Zenon, <1>1, <1>2, <3>1 DEF BidiSend
  <2>3. CASE WcSendDatagram
    BY ZenonT(30), <1>2, <2>3 DEF WcSendDatagram
  <2>4. CASE \/ WcOpen \/ DeadlinePasses \/ WcClose \/ attach_session_callbacks \/ on_session_datagram
             \/ on_peer_stream \/ InstallPeerStream \/ PeerDataChecks \/ on_peer_stream_data \/ OnMessage
             \/ \E s \in Sessions :
                  create_data_channel(s) \/ on_peer_stream_started(s) \/ DatagramBegins(s)
             \/ \E x \in Streams : ReceiveBegins(x)
    <3>1. UNCHANGED pay
      BY Zenon, <2>4 DEF WcOpen, DeadlinePasses, WcClose, attach_session_callbacks, on_session_datagram,
         on_peer_stream, InstallPeerStream, PeerDataChecks, on_peer_stream_data, OnMessage,
         create_data_channel, on_peer_stream_started, DatagramBegins, ReceiveBegins, wtVars
    <3> QED BY Zenon, <1>1, <3>1
  <2> QED BY ZenonT(30), <1>6, <2>1, <2>2, <2>3, <2>4 DEF WtChannelNext
<1> QED BY ZenonT(30), <1>3, <1>4, <1>5, <1>6 DEF WtNext

-----------------------------------------------------------------------------
(* The results. *)

LEMMA WtAlways == WtSpec => [](HandleInv /\ LateInv /\ StreamsHeldOnce /\ PayloadInv)
<1>1. WtInit => HandleInv /\ LateInv /\ StreamsHeldOnce /\ PayloadInv
  <2>1. WtInit => PayloadInv
    BY Zenon DEF WtInit, PayloadInv, PayloadValues, NoPayload
  <2> QED BY Zenon, <2>1, HandleInit, LateInit, StreamsInit
<1>2. HandleInv /\ LateInv /\ StreamsHeldOnce /\ PayloadInv /\ [WtNext]_wtAll
      => (HandleInv /\ LateInv /\ StreamsHeldOnce /\ PayloadInv)'
  BY Zenon, HandleNext, LateNext, StreamsNext, PayloadNext DEF HandleInv
<1> QED BY <1>1, <1>2, PTL DEF WtSpec

\* No handle of the registration, configuration, listener, connection or a
\* stream is closed twice or out of order, except the connection after a failed
\* SetConfiguration and a stream after a failed StreamStart; no stream that is
\* still served is without an open handle; and every send buffer is freed when
\* msquic is done with it and once.  For any number of sessions, streams and
\* payloads, whatever the session, the listener, the HTTP/3 handler and the
\* channel do.
THEOREM WtReleasesOnce == WtSpec => []ReleasedOnce
<1>1. HandleInv /\ StreamsHeldOnce /\ PayloadInv => ReleasedOnce
  BY Zenon, HandleInvOrder, PayloadInvOwnership DEF ReleasedOnce
<1> QED BY <1>1, WtAlways, PTL

LEMMA LateGives == LateInv => OneAfterClose
<1>1. LateInv => wc.after \in {0, 1}
  BY Zenon DEF LateInv
<1> QED BY <1>1 DEF OneAfterClose

\* A datagram or peer-stream event that starts after close() of the channel
\* never reaches on_message, a stream installed while close() ran apart.  What
\* started before close() reaches it at most once after it.  (The channel's own
\* stream keeps its callback and is not covered.)
THEOREM WtCloseEndsInbound == WtSpec => [][LateInboundIgnored]_wtAll /\ []OneAfterClose
<1>1. LateInv /\ [WtNext]_wtAll => [LateInboundIgnored]_wtAll
  BY Zenon, LateStep
<1> QED BY <1>1, LateGives, WtAlways, PTL DEF WtSpec
=============================================================================
