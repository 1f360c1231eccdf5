-------------------------- MODULE EngineKeyingProofs --------------------------
(***************************************************************************)
(* Proofs about keying and about profiles. PinBeforeKeys,                  *)
(* InstalledIsCurrent and DecryptsWhatItGets, for any number of flaps,     *)
(* losses and restarted handshakes. ReassemblyExact, for any messages, any *)
(* lifetime of a buffer and any number of fragments: a buffer is           *)
(* determined by the bytes that came. SavedProfileLoads, for any profiles, *)
(* documents and overrides.                                                *)
(***************************************************************************)
EXTENDS EngineKeying, HandshakeReassembler, Assembly, TLAPS

SessionFields ==
    {"role", "pin", "broken", "state", "keys", "gen", "step", "peer", "outbound"}

\* A session is Connected only when its handshake is done, and what it then holds, if
\* anything, is what this handshake exported.
Sound(s) ==
    /\ DOMAIN s = SessionFields
    /\ s.state = "Connected" => s.step = "done" /\ (s.keys = Nullopt \/ s.keys = Exported(s))

\* No call changes whose session it is and with whom.
Same(s, t) == t.role = s.role /\ t.pin = s.pin /\ t.broken = s.broken

\* Pinned to a certificate the peer does not have, and not connected.
Refused(s) == s.pin = "other" /\ s.state # "Connected"

----------------------------------------------------------------------------
(* The operations of the session. *)

\* wolfSSL moves on without a word to the session around it.
LEMMA WolfSteps ==
    ASSUME NEW s, DOMAIN s = SessionFields, NEW in
    PROVE  \A t \in {Connect(s, in), Accept(s, in)} : DOMAIN t = SessionFields /\ Same(s, t)
<1>1. ASSUME NEW step, NEW peer, NEW f
      PROVE  DOMAIN Emit(s, step, peer, f) = SessionFields /\ Same(s, Emit(s, step, peer, f))
  BY Zenon DEF Emit, Same, SessionFields
<1>2. DOMAIN [s EXCEPT !.step = "done"] = SessionFields /\ Same(s, [s EXCEPT !.step = "done"])
  BY Zenon DEF Same, SessionFields
<1>3. DOMAIN s = SessionFields /\ Same(s, s)
  BY Zenon DEF Same
<1>4. DOMAIN Connect(s, in) = SessionFields /\ Same(s, Connect(s, in))
  BY Zenon, <1>1, <1>2, <1>3 DEF Connect
<1>5. DOMAIN Accept(s, in) = SessionFields /\ Same(s, Accept(s, in))
  BY Zenon, <1>1, <1>3 DEF Accept
<1> QED BY Zenon, <1>4, <1>5

LEMMA FinishSound ==
    ASSUME NEW s, DOMAIN s = SessionFields, s.step = "done"
    PROVE  Sound(Finish(s)) /\ Same(s, Finish(s)) /\ (s.pin = "other" => Refused(Finish(s)))
<1>1. CASE verify_peer_spki(s)
  <2> DEFINE c == [s EXCEPT !.state = "Connected"]
             e == [c EXCEPT !.keys = Exported(c)]
             n == [c EXCEPT !.keys = Nullopt]
  <2>1. /\ DOMAIN c = SessionFields /\ c.state = "Connected" /\ c.keys = s.keys
        /\ c.step = "done" /\ Same(s, c)
    BY Zenon DEF SessionFields, Same
  <2>2. /\ DOMAIN e = SessionFields /\ e.keys = Exported(c) /\ e.step = "done"
        /\ e.role = c.role /\ e.gen = c.gen /\ e.peer = c.peer /\ Same(s, e)
    BY Zenon, <2>1 DEF SessionFields, Same
  <2>3. DOMAIN n = SessionFields /\ n.keys = Nullopt /\ n.step = "done" /\ Same(s, n)
    BY Zenon, <2>1 DEF SessionFields, Same
  <2>4. Exported(e) = Exported(c)
    BY <2>1, <2>2 DEF Exported
  <2>5. \/ Finish(s) = c /\ c.keys = Nullopt
        \/ Finish(s) = e \/ Finish(s) = n
    <3>1. Finish(s) = export_srtp_keys(c)
      BY Zenon, <1>1 DEF Finish, on_handshake_complete
    <3> HIDE DEF c
    <3>2. export_srtp_keys(c) = IF c.keys = Nullopt THEN c
                                ELSE IF "export" \in c.broken THEN n ELSE e
      BY Zenon DEF export_srtp_keys
    <3> QED BY Zenon, <3>1, <3>2
  <2>6. s.pin # "other"
    BY <1>1 DEF verify_peer_spki
  <2> HIDE DEF c, e, n
  <2> QED BY Zenon, <2>1, <2>2, <2>3, <2>4, <2>5, <2>6 DEF Sound
<1>2. CASE ~verify_peer_spki(s)
  <2>1. Finish(s) = [s EXCEPT !.state = "Failed"]
    BY Zenon, <1>2 DEF Finish
  <2> QED BY Zenon, <2>1 DEF Sound, Same, SessionFields, Refused
<1> QED BY Zenon, <1>1, <1>2

LEMMA PumpSound ==
    ASSUME NEW s, Sound(s), NEW in
    PROVE  LET t == pump_handshake(s, in) IN
           /\ Sound(t) /\ Same(s, t) /\ (s.state \notin Live => t = s)
           /\ Refused(s) => Refused(t)
<1> DEFINE t == IF s.role = "client" THEN Connect(s, in) ELSE Accept(s, in)
           u == [t EXCEPT !.state = "HelloSent"]
           f == [s EXCEPT !.state = "Failed"]
<1>1. CASE s.state \notin Live
  BY Zenon, <1>1 DEF pump_handshake, Same
<1>2. CASE s.state \in Live /\ "handshake" \in s.broken
  <2>1. pump_handshake(s, in) = f
    BY Zenon, <1>2 DEF pump_handshake
  <2>2. DOMAIN f = SessionFields /\ Same(s, f) /\ f.state = "Failed"
    BY Zenon DEF Sound, Same, SessionFields
  <2> HIDE DEF f
  <2> QED BY Zenon, <1>2, <2>1, <2>2 DEF Sound, Refused, Same
<1>3. CASE s.state \in Live /\ "handshake" \notin s.broken
  <2>1. DOMAIN t = SessionFields /\ Same(s, t)
    BY Zenon, WolfSteps DEF Sound
  <2> HIDE DEF t
  <2>2. DOMAIN u = SessionFields /\ Same(s, u) /\ u.state = "HelloSent"
    BY Zenon, <2>1 DEF Same, SessionFields
  <2>3. pump_handshake(s, in) = IF u.step = "done" THEN Finish(u) ELSE u
    BY Zenon, <1>3 DEF pump_handshake, t
  <2> HIDE DEF u
  <2>4. u.step = "done" => /\ Sound(Finish(u)) /\ Same(s, Finish(u))
                           /\ Refused(s) => Refused(Finish(u))
    BY Zenon, <2>2, FinishSound DEF Same, Refused
  <2>5. Sound(u) /\ (Refused(s) => Refused(u))
    BY Zenon, <2>2 DEF Sound, Refused, Same
  <2> QED BY Zenon, <1>3, <2>2, <2>3, <2>4, <2>5
<1> QED BY Zenon, <1>1, <1>2, <1>3

\* Sending and waiting change only what is outbound.
LEMMA OutboundSound ==
    ASSUME NEW s, Sound(s), NEW o
    PROVE  LET t == [s EXCEPT !.outbound = o] IN
           /\ Sound(t) /\ Same(s, t) /\ t.state = s.state /\ t.step = s.step /\ t.keys = s.keys
           /\ Exported(t) = Exported(s)
BY Zenon DEF Sound, Same, SessionFields, Exported

\* What is left of a session after a step of the engine, as far as keys go.
Carries(s, t) ==
    /\ Sound(t) /\ Same(s, t)
    /\ s.state \notin Live =>
         t.state = s.state /\ t.step = s.step /\ t.keys = s.keys /\ Exported(t) = Exported(s)
    /\ Refused(s) => Refused(t)

LEMMA CarriesOn ==
    ASSUME NEW s, NEW t, NEW u, Carries(s, t), Carries(t, u)
    PROVE  Carries(s, u)
BY Zenon DEF Carries, Same

LEMMA TickCarries ==
    ASSUME NEW s, Sound(s), NEW fired \in BOOLEAN
    PROVE  Carries(s, DtlsTick(s, fired))
<1>1. DtlsTick(s, fired) = s \/ DtlsTick(s, fired) = [s EXCEPT !.outbound = s.outbound \cup LastFlight(s)]
  BY Zenon DEF DtlsTick
<1>2. Carries(s, s)
  BY Zenon DEF Carries, Same
<1>3. Carries(s, [s EXCEPT !.outbound = s.outbound \cup LastFlight(s)])
  BY Zenon, OutboundSound DEF Carries, Refused, Same
<1> QED BY Zenon, <1>1, <1>2, <1>3

LEMMA TakeCarries ==
    ASSUME NEW s, Sound(s)
    PROVE  Carries(s, take_outbound(s))
<1>1. Carries(s, Repumped(s))
  BY Zenon, PumpSound DEF Carries, Same, Repumped
<1>2. Carries(Repumped(s), take_outbound(s))
  BY Zenon, <1>1, OutboundSound DEF Carries, take_outbound, Refused, Same
<1> QED BY Zenon, <1>1, <1>2, CarriesOn

LEMMA FeedCarries ==
    ASSUME NEW s, Sound(s), NEW f
    PROVE  Carries(s, feed_inbound(s, f))
BY Zenon, PumpSound DEF Carries, feed_inbound

\* A restart that cannot be set up leaves of the session what it had finished.
LEMMA RehandshakeSound ==
    ASSUME NEW s, Sound(s)
    PROVE  LET t == rehandshake(s) IN
           /\ Sound(t) /\ Same(s, t) /\ (Refused(s) => Refused(t))
           /\ "setup" \in s.broken =>
                t.state = "Failed" /\ t.step = s.step /\ Exported(t) = Exported(s)
<1> DEFINE n == [s EXCEPT !.state = "Initial", !.keys = Nullopt, !.gen = @ + 1, !.step = "start",
                          !.peer = 0, !.outbound = {}]
           f == [s EXCEPT !.state = "Failed", !.keys = Nullopt, !.outbound = {}]
<1>1. CASE "setup" \in s.broken
  <2>1. rehandshake(s) = f
    BY Zenon, <1>1 DEF rehandshake
  <2>2. /\ DOMAIN f = SessionFields /\ Same(s, f) /\ f.state = "Failed" /\ f.step = s.step
        /\ f.gen = s.gen /\ f.peer = s.peer
    BY Zenon DEF Sound, Same, SessionFields
  <2> HIDE DEF f
  <2>3. Exported(f) = Exported(s)
    BY Zenon, <2>2 DEF Exported, Same
  <2> QED BY Zenon, <2>1, <2>2, <2>3 DEF Sound, Refused, Same
<1>2. CASE "setup" \notin s.broken
  <2>1. rehandshake(s) = pump_handshake(n, {})
    BY Zenon, <1>2 DEF rehandshake
  <2>2. DOMAIN n = SessionFields /\ Same(s, n) /\ n.state = "Initial"
    BY Zenon DEF Sound, Same, SessionFields
  <2> HIDE DEF n
  <2>3. Sound(n) /\ (Refused(s) => Refused(n))
    BY Zenon, <2>2 DEF Sound, Refused, Same
  <2>4. LET t == pump_handshake(n, {}) IN Sound(t) /\ Same(n, t) /\ (Refused(n) => Refused(t))
    BY Zenon, <2>3, PumpSound
  <2> QED BY Zenon, <1>2, <2>1, <2>2, <2>3, <2>4 DEF Same
<1> QED BY Zenon, <1>1, <1>2

----------------------------------------------------------------------------
(* The two engines. *)

KeyFields == {"inbound_key", "outbound_key", "inbound", "outbound"}

\* The half an engine took for its own, and the one it took for its peer's.
Side(p) == IF installed_as[p] THEN "client" ELSE "server"

\* The keys of engine p are the halves of the last handshake its session finished.
HasOwnKeys(p) ==
    /\ dtls[p].step = "done"
    /\ \/ dtls[p].state = "Connected"
       \/ dtls[p].state = "Failed" /\ "setup" \in dtls[p].broken
    /\ srtp[p].outbound_key = Half(Side(p), Exported(dtls[p]))
    /\ srtp[p].inbound_key = Half(Other(Side(p)), Exported(dtls[p]))

\* Every description has announced a certificate the peer does not have.
Misled(p) == announced[p] = {"other"}

\* A packet of an engine that was told of another certificate is in the clear.
Fit(p, m) == m.to = Other(p) /\ (Misled(p) => m.key = NoKey)

EngineOK(p) ==
    /\ Sound(dtls[p]) /\ dtls[p].role = p /\ dtls[p].pin \in announced[p]
    /\ DOMAIN srtp[p] = KeyFields
    /\ srtp_installed[p] \in BOOLEAN
    /\ Misled(p) => Refused(dtls[p]) /\ srtp_installed[p] = FALSE
    /\ open[p] /\ srtp_installed[p] => HasOwnKeys(p)
    /\ \A m \in queue[p] : Fit(p, m)
    /\ \A m \in media : m.to = Other(p) => Fit(p, m)

KeyInv ==
    /\ DOMAIN dtls = Roles /\ DOMAIN srtp = Roles /\ DOMAIN srtp_installed = Roles
    /\ DOMAIN queue = Roles /\ DOMAIN open = Roles /\ DOMAIN announced = Roles
    /\ DOMAIN installed_as = Roles
    /\ \A p \in Roles : EngineOK(p)

LEMMA OtherFacts ==
    \A p \in Roles : Other(p) \in Roles /\ Other(p) # p /\ \A q \in Roles : q # p => Other(q) # Other(p)
BY Zenon DEF Roles, Other

\* An engine is sound after a step in which nothing of it but its session, as
\* far as Carries goes, has changed.
LEMMA Untouched ==
    ASSUME KeyInv, NEW q \in Roles,
           dtls'[q] = dtls[q] \/ Carries(dtls[q], dtls'[q]),
           srtp'[q] = srtp[q], srtp_installed'[q] = srtp_installed[q], open'[q] = open[q],
           installed_as'[q] = installed_as[q], announced'[q] = announced[q],
           \A m \in queue'[q] : Fit(q, m)', \A m \in media' : m.to = Other(q) => Fit(q, m)'
    PROVE  EngineOK(q)'
<1>1. EngineOK(q)
  BY Zenon DEF KeyInv
<1>2. Carries(dtls[q], dtls'[q])
  BY Zenon, <1>1 DEF EngineOK, Carries, Same
<1>3. Sound(dtls'[q]) /\ dtls'[q].role = q /\ dtls'[q].pin = dtls[q].pin
      /\ dtls'[q].broken = dtls[q].broken /\ (Refused(dtls[q]) => Refused(dtls'[q]))
  BY Zenon, <1>1, <1>2 DEF EngineOK, Carries, Same
<1>4. HasOwnKeys(q) => HasOwnKeys(q)'
  <2>1. dtls[q].state \in {"Connected", "Failed"} => dtls[q].state \notin Live
    BY Zenon DEF Live
  <2>2. Side(q)' = Side(q)
    BY Zenon DEF Side
  <2> QED BY Zenon, <1>2, <1>3, <2>1, <2>2 DEF HasOwnKeys, Carries
<1>5. Misled(q)' <=> Misled(q)
  BY Zenon DEF Misled
<1> QED BY Zenon, <1>1, <1>3, <1>4, <1>5 DEF EngineOK

\* Packets stay fit for the descriptions that came.
LEMMA FitStays ==
    ASSUME KeyInv, announced' = announced,
           \A q \in Roles : \A m \in queue'[q] : Fit(q, m),
           \A q \in Roles : \A m \in media' : m.to = Other(q) => Fit(q, m)
    PROVE  \A q \in Roles : /\ \A m \in queue'[q] : Fit(q, m)'
                            /\ \A m \in media' : m.to = Other(q) => Fit(q, m)'
BY Zenon DEF Fit, Misled

LEMMA FitSame ==
    ASSUME KeyInv, UNCHANGED <<queue, media>>, announced' = announced
    PROVE  \A q \in Roles : /\ \A m \in queue'[q] : Fit(q, m)'
                            /\ \A m \in media' : m.to = Other(q) => Fit(q, m)'
<1>1. /\ \A q \in Roles : \A m \in queue'[q] : Fit(q, m)
      /\ \A q \in Roles : \A m \in media' : m.to = Other(q) => Fit(q, m)
  BY Zenon DEF KeyInv, EngineOK
<1> QED BY Zenon, <1>1, FitStays

\* maybe_install_srtp_keys() after drain_dtls().
LEMMA DrainKeeps ==
    ASSUME KeyInv, NEW p \in Roles, NEW s, NEW rest, Carries(dtls[p], s),
           drain_dtls(p, s, rest), UNCHANGED <<open, queue, media, announced>>
    PROVE  KeyInv'
<1> DEFINE d == take_outbound(s)
<1>1. /\ EngineOK(p) /\ DOMAIN dtls = Roles /\ DOMAIN srtp = Roles
      /\ DOMAIN srtp_installed = Roles /\ DOMAIN installed_as = Roles
  BY Zenon DEF KeyInv
<1>2. Sound(s)
  BY Zenon DEF Carries
<1>3. Carries(dtls[p], d)
  BY Zenon, <1>2, TakeCarries, CarriesOn
<1>4. dtls' = [dtls EXCEPT ![p] = d] /\ Install(p, dtls'[p])
  BY Zenon DEF drain_dtls
<1> HIDE DEF d
<1>5. dtls'[p] = d /\ DOMAIN dtls' = Roles /\ \A q \in Roles \ {p} : dtls'[q] = dtls[q]
  BY Zenon, <1>1, <1>4
<1>7. \A q \in Roles : /\ \A m \in queue'[q] : Fit(q, m)'
                       /\ \A m \in media' : m.to = Other(q) => Fit(q, m)'
  BY Zenon, FitSame
<1>8. CASE UNCHANGED <<srtp, srtp_installed, installed_as>>
  BY Zenon, <1>1, <1>3, <1>5, <1>7, <1>8, Untouched DEF KeyInv
<1>9. CASE ~UNCHANGED <<srtp, srtp_installed, installed_as>>
  <2> DEFINE km == srtp_keying_material(d)
             own == OwnSide(p)
             c == derive_keys_for_local(derive_keys_for_remote(srtp[p], Half(Other(own), km)), Half(own, km))
  <2>1. /\ km # Nullopt /\ srtp' = [srtp EXCEPT ![p] = c]
        /\ srtp_installed' = [srtp_installed EXCEPT ![p] = TRUE]
        /\ installed_as' = [installed_as EXCEPT ![p] = dtls_is_client[p]]
    BY Zenon, <1>4, <1>5, <1>9 DEF Install
  <2>2. d.state = "Connected" /\ km = d.keys
    BY Zenon, <2>1 DEF srtp_keying_material
  <2>3. d.step = "done" /\ km = Exported(d)
    BY Zenon, <1>3, <2>1, <2>2 DEF Carries, Sound
  <2> HIDE DEF km
  <2>4. DOMAIN c = KeyFields /\ c.outbound_key = Half(own, km) /\ c.inbound_key = Half(Other(own), km)
    BY Zenon, <1>1 DEF EngineOK, KeyFields, derive_keys_for_local, derive_keys_for_remote
  <2> HIDE DEF c
  <2>5. /\ srtp'[p] = c /\ DOMAIN srtp' = Roles /\ \A q \in Roles \ {p} : srtp'[q] = srtp[q]
        /\ srtp_installed'[p] = TRUE /\ DOMAIN srtp_installed' = Roles
        /\ \A q \in Roles \ {p} : srtp_installed'[q] = srtp_installed[q]
        /\ installed_as'[p] = dtls_is_client[p] /\ DOMAIN installed_as' = Roles
        /\ \A q \in Roles \ {p} : installed_as'[q] = installed_as[q]
    BY Zenon, <1>1, <2>1
  <2>6. HasOwnKeys(p)'
    <3>1. Side(p)' = own
      BY Zenon, <2>5 DEF Side, OwnSide
    <3> HIDE DEF own
    <3> QED BY Zenon, <1>5, <2>2, <2>3, <2>4, <2>5, <3>1 DEF HasOwnKeys
  <2>7. /\ Sound(d) /\ d.role = p /\ d.pin = dtls[p].pin /\ (Refused(dtls[p]) => Refused(d))
    BY Zenon, <1>1, <1>3 DEF Carries, Same, EngineOK
  <2>8. EngineOK(p)'
    <3>1. ~Misled(p)' /\ dtls'[p].pin \in announced'[p]
      BY Zenon, <1>1, <1>5, <2>2, <2>7 DEF EngineOK, Misled, Refused
    <3> QED BY Zenon, <1>5, <1>7, <2>4, <2>5, <2>6, <2>7, <3>1 DEF EngineOK
  <2>9. \A q \in Roles \ {p} : EngineOK(q)'
    BY Zenon, <1>5, <1>7, <2>5, Untouched
  <2> QED BY Zenon, <1>5, <2>5, <2>8, <2>9 DEF KeyInv
<1> QED BY Zenon, <1>8, <1>9

LEMMA KeyInitial == Init => KeyInv
<1> SUFFICES ASSUME Init, NEW p \in Roles PROVE EngineOK(p)
  BY Zenon DEF Init, KeyInv
<1>1. dtls[p] = NewSession(p, setup.pin[p]) /\ srtp[p] = NewContext /\ srtp_installed[p] = FALSE
      /\ queue[p] = {} /\ media = {} /\ announced[p] = {setup.pin[p]}
  BY Zenon DEF Init
<1>2. /\ DOMAIN dtls[p] = SessionFields /\ dtls[p].role = p /\ dtls[p].pin = setup.pin[p]
      /\ dtls[p].state = "Initial"
  BY <1>1 DEF NewSession, SessionFields
<1>3. DOMAIN srtp[p] = KeyFields
  BY Zenon, <1>1 DEF NewContext, KeyFields
<1>4. Sound(dtls[p]) /\ (Misled(p) => Refused(dtls[p]))
  BY Zenon, <1>1, <1>2 DEF Sound, Misled, Refused
<1> QED BY Zenon, <1>1, <1>2, <1>3, <1>4 DEF EngineOK

\* A packet is protected with the keys in force or not at all.
LEMMA ProtectKeeps ==
    ASSUME KeyInv, NEW p \in Roles, NEW x, Protect(p, x),
           UNCHANGED <<open, dtls, srtp_installed, installed_as, announced, media>>
    PROVE  KeyInv'
<1>1. EngineOK(p) /\ DOMAIN queue = Roles /\ DOMAIN srtp = Roles
  BY Zenon DEF KeyInv
<1>2. PICK built : queue' = [queue EXCEPT ![p] = queue[p] \cup built]
                   /\ \A m \in built : /\ m.to = Other(p)
                                       /\ ~srtp_installed[p] => m.key = NoKey
  <2>1. \A s : \A m \in protect_rtp(s, Packet(p, x, NoKey)) : m.to = Other(p)
    BY Zenon DEF protect_rtp, Packet
  <2>2. Packet(p, x, NoKey).to = Other(p) /\ Packet(p, x, NoKey).key = NoKey
    BY Zenon DEF Packet
  <2> QED BY ZenonT(30), <2>1, <2>2 DEF Protect
<1>3. \A m \in built : Fit(p, m)
  <2>1. Misled(p) => ~srtp_installed[p]
    BY Zenon, <1>1 DEF EngineOK
  <2> QED BY Zenon, <1>2, <2>1 DEF Fit
<1>4. /\ DOMAIN queue' = Roles /\ queue'[p] = queue[p] \cup built
      /\ \A q \in Roles \ {p} : queue'[q] = queue[q]
  BY Zenon, <1>1, <1>2
<1>5. \A q \in Roles : /\ \A m \in queue'[q] : Fit(q, m)'
                       /\ \A m \in media' : m.to = Other(q) => Fit(q, m)'
  <2>1. /\ \A q \in Roles : \A m \in queue'[q] : Fit(q, m)
        /\ \A q \in Roles : \A m \in media' : m.to = Other(q) => Fit(q, m)
    <3>1. \A q \in Roles : \A m \in queue'[q] : Fit(q, m)
      <4>1. \A q \in Roles : \A m \in queue[q] : Fit(q, m)
        BY Zenon DEF KeyInv, EngineOK
      <4> QED BY Zenon, <1>3, <1>4, <4>1
    <3>2. \A q \in Roles : \A m \in media' : m.to = Other(q) => Fit(q, m)
      BY Zenon DEF KeyInv, EngineOK
    <3> QED BY Zenon, <3>1, <3>2
  <2> QED BY Zenon, <2>1, FitStays
<1>6. DOMAIN srtp' = Roles /\ \A q \in Roles : DOMAIN srtp'[q] = DOMAIN srtp[q]
          /\ srtp'[q].inbound_key = srtp[q].inbound_key /\ srtp'[q].outbound_key = srtp[q].outbound_key
  <2>1. DOMAIN get_outbound(srtp[p], x) = KeyFields
        /\ get_outbound(srtp[p], x).inbound_key = srtp[p].inbound_key
        /\ get_outbound(srtp[p], x).outbound_key = srtp[p].outbound_key
    BY Zenon, <1>1 DEF EngineOK, KeyFields, get_outbound
  <2>2. srtp' = srtp \/ srtp' = [srtp EXCEPT ![p] = get_outbound(srtp[p], x)]
    BY Zenon DEF Protect
  <2> QED BY Zenon, <1>1, <2>1, <2>2 DEF EngineOK
<1>7. \A q \in Roles : (HasOwnKeys(q) => HasOwnKeys(q)') /\ (Misled(q)' <=> Misled(q))
  BY Zenon, <1>6 DEF HasOwnKeys, Side, Misled
<1> QED BY Zenon, <1>4, <1>5, <1>6, <1>7 DEF KeyInv, EngineOK

\* The restart takes the keys out of force before the session changes, or leaves
\* them and the handshake they are of.
LEMMA PollKeeps ==
    ASSUME KeyInv, NEW p \in Roles, TickPoll(p)
    PROVE  KeyInv'
<1>1. EngineOK(p) /\ DOMAIN queue = Roles /\ DOMAIN dtls = Roles /\ DOMAIN srtp_installed = Roles
  BY Zenon DEF KeyInv
<1>2. \A q \in Roles : queue'[q] \subseteq queue[q]
  BY Zenon, <1>1 DEF TickPoll, DrainQueue
<1>3. /\ DOMAIN queue' = Roles /\ media' \subseteq media \cup queue[p] /\ srtp' = srtp /\ open' = open
      /\ announced' = announced /\ installed_as' = installed_as
  BY Zenon, <1>1 DEF TickPoll, DrainQueue, roles
<1>4. \A q \in Roles : /\ \A m \in queue'[q] : Fit(q, m)'
                       /\ \A m \in media' : m.to = Other(q) => Fit(q, m)'
  <2>1. ASSUME NEW q \in Roles, NEW m \in queue[p], m.to = Other(q) PROVE Fit(q, m)
    <3>1. Fit(p, m)
      BY Zenon, <1>1 DEF EngineOK
    <3>2. q = p
      BY Zenon, <2>1, <3>1, OtherFacts DEF Fit
    <3> QED BY Zenon, <3>1, <3>2
  <2>2. /\ \A q \in Roles : \A m \in queue'[q] : Fit(q, m)
        /\ \A q \in Roles : \A m \in media' : m.to = Other(q) => Fit(q, m)
    BY Zenon, <1>2, <1>3, <2>1 DEF KeyInv, EngineOK
  <2> QED BY Zenon, <1>3, <2>2, FitStays
<1>5. CASE UNCHANGED <<dtls, srtp_installed>>
  <2>1. \A q \in Roles : EngineOK(q)'
    BY Zenon, <1>3, <1>4, <1>5, Untouched
  <2> QED BY Zenon, <1>3, <1>5, <2>1 DEF KeyInv
<1>6. CASE Rekey(p) /\ dtls[p].state = "Connected"
  <2> DEFINE t == rehandshake(dtls[p])
             kept == srtp_installed[p] /\ "setup" \in dtls[p].broken
  <2>1. dtls' = [dtls EXCEPT ![p] = t] /\ srtp_installed' = [srtp_installed EXCEPT ![p] = kept]
    BY Zenon, <1>6 DEF Rekey
  <2>2. /\ Sound(t) /\ Same(dtls[p], t) /\ (Refused(dtls[p]) => Refused(t))
        /\ "setup" \in dtls[p].broken =>
             t.state = "Failed" /\ t.step = dtls[p].step /\ Exported(t) = Exported(dtls[p])
    BY Zenon, <1>1, RehandshakeSound DEF EngineOK
  <2> HIDE DEF t
  <2>3. /\ DOMAIN dtls' = Roles /\ DOMAIN srtp_installed' = Roles
        /\ dtls'[p] = t /\ srtp_installed'[p] = kept
        /\ \A q \in Roles \ {p} : dtls'[q] = dtls[q] /\ srtp_installed'[q] = srtp_installed[q]
    BY Zenon, <1>1, <2>1
  <2>4. \A q \in Roles \ {p} : EngineOK(q)'
    BY Zenon, <1>3, <1>4, <2>3, Untouched
  <2>5. HasOwnKeys(p) /\ "setup" \in dtls[p].broken => HasOwnKeys(p)'
    <3>1. Side(p)' = Side(p)
      BY Zenon, <1>3 DEF Side
    <3> QED BY Zenon, <1>3, <2>2, <2>3, <3>1 DEF HasOwnKeys, Same
  <2>6. kept \in BOOLEAN /\ (kept => srtp_installed[p] /\ "setup" \in dtls[p].broken)
    BY Zenon
  <2>7. Misled(p)' <=> Misled(p)
    BY Zenon, <1>3 DEF Misled
  <2>8. srtp_installed[p] = FALSE => kept = FALSE
    BY Zenon
  <2> HIDE DEF kept
  <2>9. EngineOK(p)'
    BY Zenon, <1>1, <1>3, <1>4, <2>2, <2>3, <2>5, <2>6, <2>7, <2>8 DEF EngineOK, Same
  <2> QED BY Zenon, <1>3, <2>3, <2>4, <2>9 DEF KeyInv
<1> QED BY Zenon, <1>5, <1>6 DEF TickPoll, PollDown, PollUp

LEMMA RecvMediaKeeps ==
    ASSUME KeyInv, NEW p \in Roles, RecvMedia(p)
    PROVE  KeyInv'
<1>1. EngineOK(p) /\ DOMAIN srtp = Roles
  BY Zenon DEF KeyInv
<1>2. media' \subseteq media /\ UNCHANGED <<open, dtls, srtp_installed, installed_as, announced, queue>>
  BY Zenon DEF RecvMedia, roles
<1>3. DOMAIN srtp' = Roles /\ \A q \in Roles : DOMAIN srtp'[q] = DOMAIN srtp[q]
          /\ srtp'[q].inbound_key = srtp[q].inbound_key /\ srtp'[q].outbound_key = srtp[q].outbound_key
  <2>1. DOMAIN get_inbound(srtp[p]) = KeyFields
        /\ get_inbound(srtp[p]).inbound_key = srtp[p].inbound_key
        /\ get_inbound(srtp[p]).outbound_key = srtp[p].outbound_key
    BY Zenon, <1>1 DEF EngineOK, KeyFields, get_inbound
  <2>2. srtp' = srtp \/ srtp' = [srtp EXCEPT ![p] = get_inbound(srtp[p])]
    BY Zenon DEF RecvMedia
  <2> QED BY Zenon, <1>1, <2>1, <2>2 DEF EngineOK
<1>4. \A q \in Roles : (HasOwnKeys(q) => HasOwnKeys(q)') /\ (Misled(q)' <=> Misled(q))
  BY Zenon, <1>2, <1>3 DEF HasOwnKeys, Side, Misled
<1>5. \A q \in Roles : /\ \A m \in queue'[q] : Fit(q, m)'
                       /\ \A m \in media' : m.to = Other(q) => Fit(q, m)'
  <2>1. /\ \A q \in Roles : \A m \in queue'[q] : Fit(q, m)
        /\ \A q \in Roles : \A m \in media' : m.to = Other(q) => Fit(q, m)
    BY Zenon, <1>2 DEF KeyInv, EngineOK
  <2> QED BY Zenon, <1>2, <2>1, FitStays
<1> QED BY Zenon, <1>2, <1>3, <1>4, <1>5 DEF KeyInv, EngineOK

LEMMA CloseKeeps ==
    ASSUME KeyInv, NEW p \in Roles, close(p)
    PROVE  KeyInv'
<1>1. /\ EngineOK(p) /\ DOMAIN dtls = Roles /\ DOMAIN srtp = Roles /\ DOMAIN queue = Roles /\ DOMAIN open = Roles
  BY Zenon DEF KeyInv
<1>2. /\ open' = [open EXCEPT ![p] = FALSE] /\ dtls' = [dtls EXCEPT ![p] = DtlsClose(dtls[p])]
      /\ srtp' = [srtp EXCEPT ![p] = NewContext] /\ queue' = [queue EXCEPT ![p] = {}]
      /\ UNCHANGED <<srtp_installed, installed_as, announced, media>>
  BY Zenon DEF close, roles
<1>3. Sound(DtlsClose(dtls[p])) /\ Same(dtls[p], DtlsClose(dtls[p]))
      /\ DtlsClose(dtls[p]).state = "Closed"
  BY Zenon, <1>1 DEF EngineOK, DtlsClose, Sound, Same, SessionFields
<1>4. DOMAIN NewContext = KeyFields
  BY Zenon DEF NewContext, KeyFields
<1>5. /\ dtls'[p] = DtlsClose(dtls[p]) /\ srtp'[p] = NewContext /\ queue'[p] = {} /\ open'[p] = FALSE
      /\ DOMAIN dtls' = Roles /\ DOMAIN srtp' = Roles /\ DOMAIN queue' = Roles /\ DOMAIN open' = Roles
      /\ \A q \in Roles \ {p} : dtls'[q] = dtls[q] /\ srtp'[q] = srtp[q] /\ queue'[q] = queue[q]
                                /\ open'[q] = open[q]
  BY Zenon, <1>1, <1>2
<1>6. Misled(p)' <=> Misled(p)
  BY Zenon, <1>2 DEF Misled
<1>7. \A q \in Roles : /\ \A m \in queue'[q] : Fit(q, m)'
                       /\ \A m \in media' : m.to = Other(q) => Fit(q, m)'
  <2>1. /\ \A q \in Roles : \A m \in queue'[q] : Fit(q, m)
        /\ \A q \in Roles : \A m \in media' : m.to = Other(q) => Fit(q, m)
    BY Zenon, <1>2, <1>5 DEF KeyInv, EngineOK
  <2> QED BY Zenon, <1>2, <2>1, FitStays
<1>8. \A q \in Roles \ {p} : EngineOK(q)'
  BY Zenon, <1>2, <1>5, <1>7, Untouched
<1>9. EngineOK(p)'
  BY <1>1, <1>2, <1>3, <1>4, <1>5, <1>6, <1>7 DEF EngineOK, Same, Refused
<1> QED BY Zenon, <1>2, <1>5, <1>8, <1>9 DEF KeyInv

LEMMA RecvRecordKeeps ==
    ASSUME KeyInv, NEW p \in Roles, RecvRecord(p)
    PROVE  KeyInv'
<1>1. EngineOK(p) /\ DOMAIN dtls = Roles
  BY Zenon DEF KeyInv
<1>2. PICK r \in records :
        LET s == feed_inbound(dtls[p], r.flight) IN
        \/ drain_dtls(p, s, records \ {r})
        \/ dtls' = [dtls EXCEPT ![p] = s] /\ UNCHANGED <<srtp, srtp_installed, installed_as>>
  BY DEF RecvRecord
<1>3. UNCHANGED <<open, queue, media, announced>>
  BY Zenon DEF RecvRecord, roles
<1> DEFINE s == feed_inbound(dtls[p], r.flight)
<1>4. Carries(dtls[p], s)
  BY Zenon, <1>1, FeedCarries DEF EngineOK
<1> HIDE DEF s
<1>5. CASE drain_dtls(p, s, records \ {r})
  BY Zenon, <1>3, <1>4, <1>5, DrainKeeps
<1>6. CASE dtls' = [dtls EXCEPT ![p] = s] /\ UNCHANGED <<srtp, srtp_installed, installed_as>>
  <2>1. dtls'[p] = s /\ DOMAIN dtls' = Roles /\ \A q \in Roles \ {p} : dtls'[q] = dtls[q]
    BY Zenon, <1>1, <1>6
  <2>3. \A q \in Roles : /\ \A m \in queue'[q] : Fit(q, m)'
                         /\ \A m \in media' : m.to = Other(q) => Fit(q, m)'
    BY Zenon, <1>3, FitSame
  <2>4. \A q \in Roles : EngineOK(q)'
    BY Zenon, <1>3, <1>4, <1>6, <2>1, <2>3, Untouched
  <2> QED BY Zenon, <1>3, <1>6, <2>1, <2>4 DEF KeyInv
<1> QED BY Zenon, <1>2, <1>5, <1>6 DEF s

\* A description changes neither keys nor a role that counts; one that brings another
\* pin than "other" takes the engine out of the case that is ruled out.
LEMMA DescriptionKeeps ==
    ASSUME KeyInv, NEW p \in Roles, LaterDescription(p)
    PROVE  KeyInv'
<1>1. EngineOK(p) /\ DOMAIN dtls = Roles /\ DOMAIN announced = Roles
  BY Zenon DEF KeyInv
<1>2. PICK d \in coming :
        /\ set_role(dtls[p], d.role).role = p
        /\ LET s == set_role(dtls[p], d.role)
               t == IF d.fp = "absent" THEN s ELSE set_peer_fingerprint(s, d.fp)
           IN /\ dtls' = [dtls EXCEPT ![p] = t]
              /\ announced' = [announced EXCEPT ![p] = announced[p] \cup {t.pin}]
  BY Zenon DEF LaterDescription
<1>3. UNCHANGED <<open, srtp, srtp_installed, installed_as, queue, media>> /\ open[p]
  BY Zenon DEF LaterDescription
<1> DEFINE s == set_role(dtls[p], d.role)
           t == IF d.fp = "absent" THEN s ELSE set_peer_fingerprint(s, d.fp)
<1>4. /\ DOMAIN t = SessionFields /\ t.state = dtls[p].state /\ t.step = dtls[p].step
      /\ t.keys = dtls[p].keys /\ t.gen = dtls[p].gen /\ t.peer = dtls[p].peer
      /\ t.broken = dtls[p].broken
  <2>1. DOMAIN dtls[p] = SessionFields
    BY Zenon, <1>1 DEF EngineOK, Sound
  <2>2. /\ DOMAIN s = SessionFields /\ s.state = dtls[p].state /\ s.step = dtls[p].step
        /\ s.keys = dtls[p].keys /\ s.gen = dtls[p].gen /\ s.peer = dtls[p].peer
        /\ s.broken = dtls[p].broken
    BY Zenon, <2>1 DEF set_role, SessionFields
  <2> HIDE DEF s
  <2> QED BY Zenon, <2>2 DEF set_peer_fingerprint, SessionFields
<1>5. dtls'[p] = t /\ DOMAIN dtls' = Roles /\ \A q \in Roles \ {p} : dtls'[q] = dtls[q]
  BY Zenon, <1>1, <1>2
<1>6. /\ announced'[p] = announced[p] \cup {t.pin} /\ DOMAIN announced' = Roles
      /\ \A q \in Roles \ {p} : announced'[q] = announced[q]
  BY Zenon, <1>1, <1>2
<1>7. t.role = p
  <2>1. s.role = p /\ DOMAIN s = SessionFields
    BY Zenon, <1>1, <1>2 DEF EngineOK, Sound, set_role
  <2> HIDE DEF s
  <2> QED BY Zenon, <2>1 DEF set_peer_fingerprint, SessionFields
<1> HIDE DEF t, s
<1>8. Misled(p)' => Misled(p) /\ t.pin = "other"
  <2>1. dtls[p].pin \in announced[p]
    BY Zenon, <1>1 DEF EngineOK
  <2> QED BY Zenon, <1>6, <2>1 DEF Misled
<1>9. \A q \in Roles : Misled(q)' => Misled(q)
  BY Zenon, <1>6, <1>8 DEF Misled
<1>10. \A q \in Roles : /\ \A m \in queue'[q] : Fit(q, m)'
                        /\ \A m \in media' : m.to = Other(q) => Fit(q, m)'
  BY Zenon, <1>3, <1>9 DEF KeyInv, EngineOK, Fit
<1>11. \A q \in Roles \ {p} : EngineOK(q)'
  BY Zenon, <1>3, <1>5, <1>6, <1>10, Untouched
<1>12. Sound(t) /\ Exported(t) = Exported(dtls[p])
  BY Zenon, <1>1, <1>4, <1>7 DEF Sound, Exported, EngineOK
<1>13. HasOwnKeys(p) => HasOwnKeys(p)'
  BY Zenon, <1>3, <1>4, <1>5, <1>12 DEF HasOwnKeys, Side
<1>14. EngineOK(p)'
  <2>1. t.pin \in announced'[p]
    BY Zenon, <1>6
  <2>2. Misled(p)' => Refused(t) /\ srtp_installed[p] = FALSE
    BY Zenon, <1>1, <1>4, <1>8 DEF EngineOK, Refused
  <2> QED BY Zenon, <1>1, <1>3, <1>5, <1>7, <1>10, <1>12, <1>13, <2>1, <2>2 DEF EngineOK
<1> QED BY Zenon, <1>3, <1>5, <1>6, <1>11, <1>14 DEF KeyInv

LEMMA FailKeeps ==
    ASSUME KeyInv, NEW p \in Roles, Fail(p)
    PROVE  KeyInv'
<1>1. EngineOK(p) /\ DOMAIN dtls = Roles
  BY Zenon DEF KeyInv
<1>2. PICK f : dtls' = [dtls EXCEPT ![p].broken = dtls[p].broken \cup {f}]
  BY Zenon DEF Fail
<1>3. UNCHANGED <<open, srtp, srtp_installed, installed_as, announced, queue, media>>
  BY Zenon DEF Fail, roles
<1> DEFINE t == [dtls[p] EXCEPT !.broken = dtls[p].broken \cup {f}]
<1>4. dtls'[p] = t /\ DOMAIN dtls' = Roles /\ \A q \in Roles \ {p} : dtls'[q] = dtls[q]
  BY Zenon, <1>1, <1>2
<1>5. /\ DOMAIN t = SessionFields /\ t.state = dtls[p].state /\ t.step = dtls[p].step
      /\ t.keys = dtls[p].keys /\ t.gen = dtls[p].gen /\ t.peer = dtls[p].peer
      /\ t.role = dtls[p].role /\ t.pin = dtls[p].pin /\ t.broken = dtls[p].broken \cup {f}
  BY Zenon, <1>1 DEF EngineOK, Sound, SessionFields
<1> HIDE DEF t
<1>6. Sound(t) /\ Exported(t) = Exported(dtls[p]) /\ (Refused(dtls[p]) => Refused(t))
  BY Zenon, <1>1, <1>5 DEF Sound, Exported, EngineOK, Refused
<1>7. \A q \in Roles : /\ \A m \in queue'[q] : Fit(q, m)'
                       /\ \A m \in media' : m.to = Other(q) => Fit(q, m)'
  BY Zenon, <1>3, FitSame
<1>8. \A q \in Roles \ {p} : EngineOK(q)'
  BY Zenon, <1>3, <1>4, <1>7, Untouched
<1>9. (HasOwnKeys(p) => HasOwnKeys(p)') /\ (Misled(p)' <=> Misled(p))
  BY Zenon, <1>3, <1>4, <1>5, <1>6 DEF HasOwnKeys, Side, Misled
<1>10. EngineOK(p)'
  BY Zenon, <1>1, <1>3, <1>4, <1>5, <1>6, <1>7, <1>9 DEF EngineOK
<1> QED BY Zenon, <1>3, <1>4, <1>8, <1>10 DEF KeyInv

\* Steps that leave sessions, keys and packets alone.
LEMMA OthersKeep ==
    ASSUME KeyInv, UNCHANGED <<open, keying, queue, media, announced>>
    PROVE  KeyInv'
BY DEF KeyInv, EngineOK, HasOwnKeys, Fit, keying, Side, Misled

LEMMA KeyStep == KeyInv /\ [Next]_vars => KeyInv'
<1> SUFFICES ASSUME KeyInv, [Next]_vars PROVE KeyInv'
  BY Zenon
<1>1. ASSUME NEW p \in Roles, send_audio(p) \/ send_video(p) PROVE KeyInv'
  BY <1>1, ProtectKeeps DEF send_audio, send_video, roles
<1>2. ASSUME NEW p \in Roles, TickPoll(p) PROVE KeyInv'
  BY Zenon, <1>2, PollKeeps
<1>3. ASSUME NEW p \in Roles, NEW fired \in BOOLEAN, TickDrain(p, fired) PROVE KeyInv'
  <2>1. CASE ice[p]
    <3>1. Carries(dtls[p], DtlsTick(dtls[p], fired))
      BY Zenon, TickCarries DEF KeyInv, EngineOK
    <3>2. drain_dtls(p, DtlsTick(dtls[p], fired), records)
          /\ UNCHANGED <<open, queue, media, announced>>
      BY Zenon, <1>3, <2>1 DEF TickDrain, roles
    <3> QED BY Zenon, <3>1, <3>2, DrainKeeps
  <2>2. CASE ~ice[p]
    BY Zenon, <1>3, <2>2, OthersKeep DEF TickDrain, roles
  <2> QED BY Zenon, <2>1, <2>2
<1>4. ASSUME NEW p \in Roles, RecvRecord(p) PROVE KeyInv'
  BY Zenon, <1>4, RecvRecordKeeps
<1>5. ASSUME NEW p \in Roles, RecvMedia(p) PROVE KeyInv'
  BY Zenon, <1>5, RecvMediaKeeps
<1>6. ASSUME NEW p \in Roles, close(p) PROVE KeyInv'
  BY Zenon, <1>6, CloseKeeps
<1>7. ASSUME NEW p \in Roles, RecvEnd(p) \/ IceUp(p) \/ IceDown(p) PROVE KeyInv'
  BY Zenon, <1>7, OthersKeep DEF RecvEnd, IceUp, IceDown, roles
<1>8. CASE Lose
  BY Zenon, <1>8, OthersKeep DEF Lose, roles
<1>9. CASE UNCHANGED vars
  BY Zenon, <1>9, OthersKeep DEF vars, roles
<1>10. ASSUME NEW p \in Roles, LaterDescription(p) \/ Fail(p) PROVE KeyInv'
  BY Zenon, <1>10, DescriptionKeeps, FailKeeps
<1> QED BY Zenon, <1>1, <1>2, <1>3, <1>4, <1>5, <1>6, <1>7, <1>8, <1>9, <1>10 DEF Next, Step

----------------------------------------------------------------------------
LEMMA InvGivesPin == KeyInv => PinBeforeKeys
<1> SUFFICES ASSUME KeyInv, NEW p \in Roles, announced[p] = {"other"}
             PROVE  /\ dtls[p].state # "Connected" /\ ~srtp_installed[p]
                    /\ \A m \in Under(p) : m.key = NoKey
  BY Zenon DEF PinBeforeKeys
<1>1. EngineOK(p) /\ Misled(p)
  BY Zenon DEF KeyInv, Misled
<1>2. dtls[p].state # "Connected" /\ ~srtp_installed[p]
  BY Zenon, <1>1 DEF EngineOK, Refused
<1>3. \A m \in Under(p) : m.key = NoKey
  BY Zenon, <1>1 DEF EngineOK, Under, Fit
<1> QED BY Zenon, <1>2, <1>3

LEMMA InvGivesCurrent == KeyInv => InstalledIsCurrent
<1> SUFFICES ASSUME KeyInv, NEW p \in Roles, open[p], srtp_installed[p]
             PROVE  /\ dtls[p].step = "done"
                    /\ \/ dtls[p].state = "Connected"
                       \/ dtls[p].state = "Failed" /\ "setup" \in dtls[p].broken
                    /\ {srtp[p].outbound_key, srtp[p].inbound_key}
                           = {Half(s, Exported(dtls[p])) : s \in Roles}
  BY Zenon DEF InstalledIsCurrent
<1>1. HasOwnKeys(p)
  BY Zenon DEF KeyInv, EngineOK
<1>2. Roles = {Side(p), Other(Side(p))}
  BY Zenon DEF Roles, Other, Side
<1> QED BY Zenon, <1>1, <1>2 DEF HasOwnKeys

(* However often ICE flaps, records are lost, handshakes restarted and       *)
(* descriptions read: as long as every description has announced, in         *)
(* sha-256, a certificate the peer does not have, the peer gets no session,  *)
(* keys or protected media (pump_handshake, maybe_install_srtp_keys).        *)
THEOREM PinnedBeforeKeyed == Spec => []PinBeforeKeys
BY KeyInitial, KeyStep, InvGivesPin, PTL DEF Spec

(* The keys in force are the halves of the last handshake the session has    *)
(* finished, and no other is under way, for any number of flaps, failures    *)
(* and restarts (maybe_install_srtp_keys, poll_ice_flap_for_rehandshake).    *)
THEOREM KeysAreCurrent == Spec => []InstalledIsCurrent
BY KeyInitial, KeyStep, InvGivesCurrent, PTL DEF Spec

-----------------------------------------------------------------------------
(* Both engines decrypt what they get.  A re-handshake leaves nothing to put *)
(* exported keys into, so the keys in force are always those of the first    *)
(* handshake; and the first handshake of either engine is with the first of  *)
(* the other, because an engine restarts only when it is through with one    *)
(* and then the other has answered.                                          *)

First == <<1, 1>>

\* Through with a handshake; a client that has answered the server's flight.
Through(s) == s.gen > 1 \/ s.step = "done"
Answered(c) == Through(c) \/ c.step = "finish"

\* What may still arrive of the flights the client, the server has sent.
FromClient(c, cf) ==
    \A f \in cf : (f.kind = "hello" => f.c \in 1..c.gen) /\ (f.kind = "finish" => Answered(c))
FromServer(s, sf) ==
    \A f \in sf : (f.kind = "reply" => f.s \in 1..s.gen) /\ (f.kind = "done" => Through(s))
\* Where the two sessions are.
InStep(c, s) ==
    /\ c.gen = 1 /\ c.step \in {"finish", "done"} => c.peer = 1
    /\ s.gen = 1 /\ s.step \in {"reply", "done"} => s.peer = 1
    /\ Through(c) => Through(s)
    /\ Through(s) => Answered(c)
Agree(c, s, cf, sf) == InStep(c, s) /\ FromClient(c, cf) /\ FromServer(s, sf)

\* The same, seen from engine p: its session is s and its peer's o.
Fits(p, s, o, mine, theirs) ==
    IF p = "client" THEN Agree(s, o, mine, theirs) ELSE Agree(o, s, theirs, mine)

\* A session in its first handshake holds its keys or zeros, in a later one nothing.
Staged(s) ==
    /\ s.gen \in Nat /\ s.gen >= 1
    /\ s.gen > 1 => s.keys = Nullopt
    /\ s.state = "Connected" => s.step = "done"

\* Engine p's session s against its peer's o; out is on the wire to the peer, and of
\* what the peer has sent the flight in arrives.
Facing(p, s, o, out, theirs, in) ==
    /\ DOMAIN s = SessionFields /\ s.role = p /\ Staged(s)
    /\ o.gen \in Nat /\ o.gen >= 1
    /\ Fits(p, s, o, s.outbound \cup out, theirs)
    /\ in \subseteq theirs /\ \A f, g \in in : f = g

OnWire(p) == {r.flight : r \in {r \in records : r.to = Other(p)}}
Flying(p) == dtls[p].outbound \cup OnWire(p)

\* Whatever engine p has of keys and has protected is of the first handshake: its own
\* half of it and its peer's, as it took them when it installed them.
OwnHalf(p) == Half(Side(p), First)
PeerHalf(p) == Half(Other(Side(p)), First)
FirstKeys(p) ==
    /\ srtp[p].inbound_key \in {NoKey, PeerHalf(p)}
    /\ srtp[p].outbound_key \in {NoKey, OwnHalf(p)}
    /\ srtp[p].inbound \in {NoSession, <<"inbound", PeerHalf(p)>>}
    /\ srtp[p].outbound \in [Streams -> {NoSession, <<"outbound", OwnHalf(p)>>}]
    /\ \A m \in Under(p) : m.key \in {NoKey, OwnHalf(p)}

\* Keys are installed once: an engine that can still install some has none.
NoKeysYet(p) ==
    /\ srtp[p].inbound_key = NoKey /\ srtp[p].outbound_key = NoKey
    /\ srtp[p].inbound = NoSession /\ srtp[p].outbound \in [Streams -> {NoSession}]
    /\ \A m \in Under(p) : m.key = NoKey
Unkeyed(p) == dtls[p].gen = 1 /\ ~srtp_installed[p]
KeysOK(p) == FirstKeys(p) /\ (Unkeyed(p) => NoKeysYet(p))

AgreeInv ==
    /\ setup \in Setups
    /\ \A p \in Roles : Staged(dtls[p]) /\ KeysOK(p)
    /\ Agree(dtls["client"], dtls["server"], Flying("client"), Flying("server"))

LEMMA GenFacts ==
    /\ \A g \in Nat : g >= 1 => g \in 1..g /\ (g > 1 \/ g = 1) /\ g + 1 \in Nat /\ g + 1 > 1
    /\ \A x : x \in 1..1 => x = 1
    /\ ~(1 > 1)
    /\ \A g \in Nat : \A x \in 1..g : x \in 1..(g + 1)
OBVIOUS

\* Only where the sessions are in their handshakes counts, and losing flights
\* does no harm.
LEMMA AgreeSame ==
    ASSUME NEW c, NEW s, NEW cf, NEW sf, Agree(c, s, cf, sf),
           NEW c2, c2.gen = c.gen, c2.step = c.step, c2.peer = c.peer,
           NEW s2, s2.gen = s.gen, s2.step = s.step, s2.peer = s.peer,
           NEW cf2, cf2 \subseteq cf, NEW sf2, sf2 \subseteq sf
    PROVE  Agree(c2, s2, cf2, sf2)
<1>1. (Through(c2) <=> Through(c)) /\ (Through(s2) <=> Through(s)) /\ (Answered(c2) <=> Answered(c))
  BY Zenon DEF Through, Answered
<1> QED BY Zenon, <1>1 DEF Agree, InStep, FromClient, FromServer

LEMMA FitsSame ==
    ASSUME NEW p, NEW s, NEW o, NEW mine, NEW theirs, Fits(p, s, o, mine, theirs),
           NEW s2, s2.gen = s.gen, s2.step = s.step, s2.peer = s.peer,
           NEW mine2, mine2 \subseteq mine, NEW theirs2, theirs2 \subseteq theirs
    PROVE  Fits(p, s2, o, mine2, theirs2)
<1>1. CASE p = "client"
  <2>1. Agree(s, o, mine, theirs)
    BY Zenon, <1>1 DEF Fits
  <2>2. Agree(s2, o, mine2, theirs2)
    BY Zenon, <2>1, AgreeSame
  <2> QED BY Zenon, <1>1, <2>2 DEF Fits
<1>2. CASE p # "client"
  <2>1. Agree(o, s, theirs, mine)
    BY Zenon, <1>2 DEF Fits
  <2>2. Agree(o, s2, theirs2, mine2)
    BY Zenon, <2>1, AgreeSame
  <2> QED BY Zenon, <1>2, <2>2 DEF Fits
<1> QED BY Zenon, <1>1, <1>2

\* The client's side of wolfSSL.
LEMMA ConnectFits ==
    ASSUME NEW c, NEW o, NEW out, NEW theirs, NEW in, Facing("client", c, o, out, theirs, in)
    PROVE  LET t == Connect(c, in) IN
           /\ Agree(t, o, t.outbound \cup out, theirs)
           /\ t.gen = c.gen /\ t.keys = c.keys
<1> /\ DOMAIN c = SessionFields /\ c.gen \in Nat /\ c.gen >= 1 /\ o.gen \in Nat /\ o.gen >= 1
    /\ Agree(c, o, c.outbound \cup out, theirs)
    /\ in \subseteq theirs /\ \A f, g \in in : f = g
  BY Zenon DEF Facing, Staged, Fits
<1>0. InStep(c, o) /\ FromClient(c, c.outbound \cup out) /\ FromServer(o, theirs)
  BY Zenon DEF Agree
<1> DEFINE t == Connect(c, in)
<1>1. CASE t = c
  BY Zenon, <1>1
<1>2. CASE c.step = "start" /\ t = Emit(c, "hello", 0, Flight("hello", c.gen, 0))
  <2> DEFINE g == Flight("hello", c.gen, 0)
  <2>0. g.kind = "hello" /\ g.c = c.gen
    BY Zenon DEF Flight
  <2> HIDE DEF g, t
  <2>1. t.step = "hello" /\ t.outbound = c.outbound \cup {g} /\ t.gen = c.gen /\ t.keys = c.keys
    BY Zenon, <1>2 DEF Emit, SessionFields, g
  <2>2. (Through(t) <=> Through(c)) /\ (Answered(c) <=> Answered(t))
    BY Zenon, <1>2, <2>1 DEF Through, Answered
  <2>3. FromClient(t, t.outbound \cup out)
    <3>1. g.c \in 1..t.gen
      BY Zenon, <2>0, <2>1, GenFacts
    <3>2. t.outbound \cup out \subseteq (c.outbound \cup out) \cup {g}
      BY Zenon, <2>1
    <3> QED BY Zenon, <1>0, <2>0, <2>1, <2>2, <3>1, <3>2 DEF FromClient
  <2>4. InStep(t, o)
    BY Zenon, <1>0, <2>1, <2>2 DEF InStep
  <2> QED BY Zenon, <1>0, <2>1, <2>3, <2>4 DEF Agree, t
<1>3. CASE /\ c.step = "hello"
           /\ \E f \in in : f.kind = "reply" /\ f.c = c.gen
           /\ t = LET f == CHOOSE f \in in : TRUE
                  IN Emit(c, "finish", f.s, Flight("finish", c.gen, f.s))
  <2>1. PICK f \in in : f.kind = "reply" /\ f.c = c.gen
    BY Zenon, <1>3
  <2> DEFINE g == Flight("finish", c.gen, f.s)
  <2>2. t = Emit(c, "finish", f.s, g) /\ g.kind = "finish"
    BY Zenon, <1>3, <2>1 DEF Flight
  <2> HIDE DEF g, t
  <2>3. /\ t.step = "finish" /\ t.outbound = c.outbound \cup {g}
        /\ t.gen = c.gen /\ t.keys = c.keys /\ t.peer = f.s
    BY Zenon, <2>2 DEF Emit, SessionFields
  <2>4. Answered(t) /\ (Through(t) <=> Through(c))
    BY Zenon, <1>3, <2>3 DEF Through, Answered
  <2>5. t.gen = 1 => t.peer = 1
    <3> SUFFICES ASSUME c.gen = 1 PROVE f.s = 1
      BY Zenon, <2>3
    <3>1. ~Answered(c)
      BY Zenon, <1>3, GenFacts DEF Answered, Through
    <3>2. o.gen = 1
      BY Zenon, <1>0, <3>1, GenFacts DEF InStep, Through
    <3> QED BY Zenon, <1>0, <2>1, <3>2, GenFacts DEF FromServer
  <2>6. FromClient(t, t.outbound \cup out)
    <3>1. t.outbound \cup out \subseteq (c.outbound \cup out) \cup {g}
      BY Zenon, <2>3
    <3> QED BY Zenon, <1>0, <2>2, <2>3, <2>4, <3>1 DEF FromClient
  <2>7. InStep(t, o)
    BY Zenon, <1>0, <2>3, <2>4, <2>5 DEF InStep
  <2> QED BY Zenon, <1>0, <2>3, <2>6, <2>7 DEF Agree, t
<1>4. CASE /\ c.step = "finish" /\ Flight("done", c.gen, c.peer) \in in
           /\ t = [c EXCEPT !.step = "done"]
  <2> HIDE DEF t
  <2>1. /\ t.step = "done" /\ t.outbound = c.outbound /\ t.gen = c.gen /\ t.keys = c.keys
        /\ t.peer = c.peer
    BY Zenon, <1>4 DEF SessionFields
  <2>2. Through(o)
    <3>1. Flight("done", c.gen, c.peer).kind = "done"
      BY Zenon DEF Flight
    <3> QED BY Zenon, <1>0, <1>4, <3>1 DEF FromServer
  <2>3. Through(t) /\ Answered(t)
    BY Zenon, <2>1 DEF Through, Answered
  <2>4. InStep(t, o)
    BY Zenon, <1>0, <1>4, <2>1, <2>2, <2>3 DEF InStep
  <2>5. FromClient(t, t.outbound \cup out)
    BY Zenon, <1>0, <2>1, <2>3 DEF FromClient
  <2> QED BY Zenon, <1>0, <2>1, <2>4, <2>5 DEF Agree, t
<1> QED BY Zenon, <1>1, <1>2, <1>3, <1>4 DEF Connect

\* The server's side.
LEMMA AcceptFits ==
    ASSUME NEW s, NEW o, NEW out, NEW theirs, NEW in, Facing("server", s, o, out, theirs, in)
    PROVE  LET t == Accept(s, in) IN
           /\ Agree(o, t, theirs, t.outbound \cup out)
           /\ t.gen = s.gen /\ t.keys = s.keys
<1> /\ DOMAIN s = SessionFields /\ s.gen \in Nat /\ s.gen >= 1 /\ o.gen \in Nat /\ o.gen >= 1
    /\ Agree(o, s, theirs, s.outbound \cup out)
    /\ in \subseteq theirs /\ \A f, g \in in : f = g
  BY Zenon DEF Facing, Staged, Fits
<1>0. InStep(o, s) /\ FromClient(o, theirs) /\ FromServer(s, s.outbound \cup out)
  BY Zenon DEF Agree
<1> DEFINE t == Accept(s, in)
<1>1. CASE t = s
  BY Zenon, <1>1
<1>2. ASSUME NEW peer, t = Emit(s, "reply", peer, Flight("reply", peer, s.gen)),
             s.step \in {"start", "reply"}, s.gen = 1 => peer = 1
      PROVE  Agree(o, t, theirs, t.outbound \cup out) /\ t.gen = s.gen /\ t.keys = s.keys
  <2> DEFINE g == Flight("reply", peer, s.gen)
  <2>0. g.kind = "reply" /\ g.s = s.gen
    BY Zenon DEF Flight
  <2> HIDE DEF g, t
  <2>1. /\ t.step = "reply" /\ t.outbound = s.outbound \cup {g}
        /\ t.gen = s.gen /\ t.keys = s.keys /\ t.peer = peer
    BY Zenon, <1>2 DEF Emit, SessionFields, g
  <2>2. Through(t) <=> Through(s)
    BY Zenon, <1>2, <2>1 DEF Through
  <2>3. FromServer(t, t.outbound \cup out)
    <3>1. g.s \in 1..t.gen
      BY Zenon, <2>0, <2>1, GenFacts
    <3>2. t.outbound \cup out \subseteq (s.outbound \cup out) \cup {g}
      BY Zenon, <2>1
    <3> QED BY Zenon, <1>0, <2>0, <2>1, <2>2, <3>1, <3>2 DEF FromServer
  <2>4. InStep(o, t)
    BY Zenon, <1>0, <1>2, <2>1, <2>2 DEF InStep
  <2> QED BY Zenon, <1>0, <2>1, <2>3, <2>4 DEF Agree
<1>3. CASE /\ s.step = "start"
           /\ \E f \in in : f.kind = "hello"
           /\ t = LET f == CHOOSE f \in in : TRUE
                  IN Emit(s, "reply", f.c, Flight("reply", f.c, s.gen))
  <2>1. PICK f \in in : f.kind = "hello"
    BY Zenon, <1>3
  <2>2. t = Emit(s, "reply", f.c, Flight("reply", f.c, s.gen))
    BY Zenon, <1>3, <2>1
  <2>3. s.gen = 1 => f.c = 1
    <3> SUFFICES ASSUME s.gen = 1 PROVE f.c = 1
      BY Zenon
    <3>1. ~Through(s)
      BY Zenon, <1>3, GenFacts DEF Through
    <3>2. o.gen = 1
      BY Zenon, <1>0, <3>1, GenFacts DEF InStep, Through
    <3> QED BY Zenon, <1>0, <2>1, <3>2, GenFacts DEF FromClient
  <2> HIDE DEF t
  <2> QED BY Zenon, <1>2, <1>3, <2>2, <2>3 DEF t
<1>4. CASE /\ s.step = "reply"
           /\ t = Emit(s, "reply", s.peer, Flight("reply", s.peer, s.gen))
  <2>1. s.gen = 1 => s.peer = 1
    BY Zenon, <1>0, <1>4 DEF InStep
  <2> HIDE DEF t
  <2> QED BY Zenon, <1>2, <1>4, <2>1 DEF t
<1>5. CASE /\ s.step = "reply" /\ Flight("finish", s.peer, s.gen) \in in
           /\ t = Emit(s, "done", s.peer, Flight("done", s.peer, s.gen))
  <2> DEFINE g == Flight("done", s.peer, s.gen)
  <2>0. g.kind = "done" /\ Flight("finish", s.peer, s.gen).kind = "finish"
    BY Zenon DEF Flight
  <2> HIDE DEF g, t
  <2>1. /\ t.step = "done" /\ t.outbound = s.outbound \cup {g}
        /\ t.gen = s.gen /\ t.keys = s.keys /\ t.peer = s.peer
    BY Zenon, <1>5 DEF Emit, SessionFields, g
  <2>2. Answered(o)
    BY Zenon, <1>0, <1>5, <2>0 DEF FromClient
  <2>3. Through(t)
    BY Zenon, <2>1 DEF Through
  <2>4. FromServer(t, t.outbound \cup out)
    <3>1. t.outbound \cup out \subseteq (s.outbound \cup out) \cup {g}
      BY Zenon, <2>1
    <3> QED BY Zenon, <1>0, <2>0, <2>1, <2>3, <3>1 DEF FromServer
  <2>5. InStep(o, t)
    BY Zenon, <1>0, <1>5, <2>1, <2>2, <2>3 DEF InStep
  <2> QED BY Zenon, <1>0, <2>1, <2>4, <2>5 DEF Agree, t
<1>6. \/ t = s
      \/ /\ s.step = "start"
         /\ \E f \in in : f.kind = "hello"
         /\ t = LET f == CHOOSE f \in in : TRUE
                IN Emit(s, "reply", f.c, Flight("reply", f.c, s.gen))
      \/ /\ s.step = "reply"
         /\ t = Emit(s, "reply", s.peer, Flight("reply", s.peer, s.gen))
      \/ /\ s.step = "reply" /\ Flight("finish", s.peer, s.gen) \in in
         /\ t = Emit(s, "done", s.peer, Flight("done", s.peer, s.gen))
  BY SMT DEF Accept
<1> HIDE DEF t
<1> QED BY Zenon, <1>1, <1>3, <1>4, <1>5, <1>6 DEF t

LEMMA FinishFacts ==
    ASSUME NEW u, DOMAIN u = SessionFields
    PROVE  LET t == Finish(u) IN
           /\ t.gen = u.gen /\ t.step = u.step /\ t.peer = u.peer /\ t.outbound = u.outbound
           /\ u.keys = Nullopt => t.keys = Nullopt
<1> DEFINE c == [u EXCEPT !.state = "Connected"]
           e == [c EXCEPT !.keys = Exported(c)]
           n == [c EXCEPT !.keys = Nullopt]
<1>1. /\ c.gen = u.gen /\ c.step = u.step /\ c.peer = u.peer /\ c.outbound = u.outbound
      /\ c.keys = u.keys /\ DOMAIN c = SessionFields
  BY Zenon DEF SessionFields
<1> HIDE DEF c
<1>2. /\ e.gen = u.gen /\ e.step = u.step /\ e.peer = u.peer /\ e.outbound = u.outbound
      /\ n.gen = u.gen /\ n.step = u.step /\ n.peer = u.peer /\ n.outbound = u.outbound
      /\ n.keys = Nullopt
  BY Zenon, <1>1 DEF SessionFields
<1>3. LET f == [u EXCEPT !.state = "Failed"] IN
      /\ f.gen = u.gen /\ f.step = u.step /\ f.peer = u.peer /\ f.outbound = u.outbound
      /\ f.keys = u.keys
  BY Zenon DEF SessionFields
<1> HIDE DEF e, n
<1>4. \/ Finish(u) = c \/ Finish(u) = n
      \/ Finish(u) = e /\ u.keys # Nullopt
      \/ Finish(u) = [u EXCEPT !.state = "Failed"]
  <2>1. Finish(u) = [u EXCEPT !.state = "Failed"] \/ Finish(u) = export_srtp_keys(c)
    BY Zenon DEF Finish, on_handshake_complete, c
  <2>2. export_srtp_keys(c) = IF c.keys = Nullopt THEN c
                              ELSE IF "export" \in c.broken THEN n ELSE e
    BY Zenon DEF export_srtp_keys, e, n
  <2> QED BY Zenon, <1>1, <2>1, <2>2
<1> QED BY Zenon, <1>1, <1>2, <1>3, <1>4

\* A call that works on the handshake keeps the two in step.
LEMMA PumpFits ==
    ASSUME NEW p \in Roles, NEW s, NEW o, NEW out, NEW theirs, NEW in,
           Facing(p, s, o, out, theirs, in)
    PROVE  LET t == pump_handshake(s, in) IN
           Staged(t) /\ Fits(p, t, o, t.outbound \cup out, theirs) /\ t.gen = s.gen
<1> DEFINE w == IF s.role = "client" THEN Connect(s, in) ELSE Accept(s, in)
           u == [w EXCEPT !.state = "HelloSent"]
           t == pump_handshake(s, in)
<1>0. /\ DOMAIN s = SessionFields /\ s.role = p /\ Staged(s)
      /\ Fits(p, s, o, s.outbound \cup out, theirs)
  BY Zenon DEF Facing
<1>1. CASE s.state \notin Live
  BY Zenon, <1>0, <1>1 DEF pump_handshake
<1>3. CASE s.state \in Live /\ "handshake" \in s.broken
  <2> DEFINE f == [s EXCEPT !.state = "Failed"]
  <2>1. t = f
    BY Zenon, <1>3 DEF pump_handshake
  <2>2. /\ f.gen = s.gen /\ f.step = s.step /\ f.peer = s.peer /\ f.outbound = s.outbound
        /\ f.keys = s.keys /\ f.state = "Failed"
    BY Zenon, <1>0 DEF SessionFields
  <2> HIDE DEF f, t
  <2>3. Staged(f)
    BY Zenon, <1>0, <2>2 DEF Staged
  <2>4. Fits(p, f, o, f.outbound \cup out, theirs)
    BY Zenon, <1>0, <2>2, FitsSame
  <2> QED BY Zenon, <2>1, <2>2, <2>3, <2>4 DEF t
<1>2. CASE s.state \in Live /\ "handshake" \notin s.broken
  <2>1. Fits(p, w, o, w.outbound \cup out, theirs) /\ w.gen = s.gen /\ w.keys = s.keys
    <3>1. CASE p = "client"
      <4>1. w = Connect(s, in)
        BY Zenon, <1>0, <3>1
      <4> HIDE DEF w
      <4> QED BY ZenonT(30), <3>1, <4>1, ConnectFits DEF Fits
    <3>2. CASE p = "server"
      <4>1. w = Accept(s, in)
        BY Zenon, <1>0, <3>2
      <4> HIDE DEF w
      <4> QED BY ZenonT(30), <3>2, <4>1, AcceptFits DEF Fits
    <3> QED BY Zenon, <3>1, <3>2 DEF Roles
  <2>2. DOMAIN w = SessionFields
    BY Zenon, <1>0, WolfSteps
  <2>3. t = IF u.step = "done" THEN Finish(u) ELSE u
    BY Zenon, <1>2 DEF pump_handshake
  <2> HIDE DEF w, t
  <2>4. /\ u.gen = w.gen /\ u.step = w.step /\ u.peer = w.peer /\ u.outbound = w.outbound
        /\ u.keys = w.keys /\ u.state = "HelloSent" /\ DOMAIN u = SessionFields
    BY Zenon, <2>2 DEF SessionFields
  <2> HIDE DEF u
  <2>5. /\ t.gen = s.gen /\ t.step = w.step /\ t.peer = w.peer /\ t.outbound = w.outbound
        /\ s.keys = Nullopt => t.keys = Nullopt
        /\ t.state = "Connected" => t.step = "done"
    BY Zenon, <2>1, <2>3, <2>4, FinishFacts
  <2>6. Staged(t)
    BY Zenon, <1>0, <2>5 DEF Staged
  <2>7. Fits(p, t, o, t.outbound \cup out, theirs)
    BY Zenon, <2>1, <2>5, FitsSame
  <2> QED BY Zenon, <2>5, <2>6, <2>7 DEF t
<1> QED BY Zenon, <1>1, <1>2, <1>3

\* What the retransmission timer sends again was allowed the first time.
LEMMA TickFits ==
    ASSUME NEW p \in Roles, NEW s, DOMAIN s = SessionFields, Staged(s), NEW fired,
           NEW o, NEW out, NEW theirs, Fits(p, s, o, s.outbound \cup out, theirs)
    PROVE  LET t == DtlsTick(s, fired) IN
           Staged(t) /\ Fits(p, t, o, t.outbound \cup out, theirs) /\ t.gen = s.gen
<1> DEFINE t == [s EXCEPT !.outbound = s.outbound \cup LastFlight(s)]
<1>1. DtlsTick(s, fired) = s \/ DtlsTick(s, fired) = t
  BY Zenon DEF DtlsTick
<1>2. /\ t.gen = s.gen /\ t.step = s.step /\ t.peer = s.peer /\ t.keys = s.keys
      /\ t.state = s.state /\ t.outbound = s.outbound \cup LastFlight(s)
  BY Zenon DEF SessionFields
<1> HIDE DEF t
<1>3. Staged(t)
  BY Zenon, <1>2 DEF Staged
<1>4. s.gen \in 1..s.gen
  BY Zenon, GenFacts DEF Staged
<1>5. \A f \in LastFlight(s) :
         \/ f.kind = "hello" /\ f.c = s.gen
         \/ f.kind = "finish" /\ s.step = "finish"
         \/ f.kind = "reply" /\ f.s = s.gen
  BY SMT DEF LastFlight, Flight
<1>6. FromClient(s, s.outbound \cup out) => FromClient(s, t.outbound \cup out)
  BY Zenon, <1>2, <1>4, <1>5 DEF FromClient, Answered
<1>7. FromServer(s, s.outbound \cup out) => FromServer(s, t.outbound \cup out)
  BY Zenon, <1>2, <1>4, <1>5 DEF FromServer
<1>8. Fits(p, s, o, t.outbound \cup out, theirs)
  BY Zenon, <1>6, <1>7 DEF Fits, Agree
<1>9. Fits(p, t, o, t.outbound \cup out, theirs)
  BY Zenon, <1>2, <1>8, FitsSame
<1> QED BY Zenon, <1>1, <1>2, <1>3, <1>9

\* A restart: the session was through with its handshake, so the other is in
\* step with whatever comes next.
LEMMA RestartFits ==
    ASSUME NEW p \in Roles, NEW s, DOMAIN s = SessionFields, s.role = p, Staged(s),
           s.state = "Connected", NEW o, o.gen \in Nat, o.gen >= 1, NEW out, NEW theirs,
           Fits(p, s, o, s.outbound \cup out, theirs)
    PROVE  LET t == rehandshake(s) IN
           /\ Staged(t) /\ Fits(p, t, o, t.outbound \cup out, theirs)
           /\ IF "setup" \in s.broken THEN t.gen = s.gen ELSE t.gen # 1
<1>0. CASE "setup" \in s.broken
  <2> DEFINE f == [s EXCEPT !.state = "Failed", !.keys = Nullopt, !.outbound = {}]
  <2>1. rehandshake(s) = f
    BY Zenon, <1>0 DEF rehandshake
  <2>2. /\ f.gen = s.gen /\ f.step = s.step /\ f.peer = s.peer /\ f.outbound = {}
        /\ f.keys = Nullopt /\ f.state = "Failed"
    BY Zenon DEF SessionFields
  <2> HIDE DEF f
  <2>3. Staged(f)
    BY Zenon, <2>2 DEF Staged
  <2>4. Fits(p, f, o, f.outbound \cup out, theirs)
    <3>1. f.outbound \cup out \subseteq s.outbound \cup out
      BY Zenon, <2>2
    <3> QED BY Zenon, <2>2, <3>1, FitsSame
  <2> QED BY Zenon, <1>0, <2>1, <2>2, <2>3, <2>4
<1> SUFFICES ASSUME "setup" \notin s.broken
             PROVE  LET t == rehandshake(s) IN
                    Staged(t) /\ Fits(p, t, o, t.outbound \cup out, theirs) /\ t.gen # 1
  BY Zenon, <1>0
<1> DEFINE n == [s EXCEPT !.state = "Initial", !.keys = Nullopt, !.gen = @ + 1, !.step = "start",
                          !.peer = 0, !.outbound = {}]
<1>1. /\ n.gen = s.gen + 1 /\ n.keys = Nullopt /\ n.state = "Initial" /\ n.outbound = {}
      /\ DOMAIN n = SessionFields /\ n.role = p
  BY Zenon DEF SessionFields
<1>2. rehandshake(s) = pump_handshake(n, {})
  BY Zenon DEF rehandshake
<1> HIDE DEF n
<1>3. n.gen \in Nat /\ n.gen >= 1 /\ n.gen > 1 /\ \A x \in 1..s.gen : x \in 1..n.gen
  BY <1>1 DEF Staged
<1>4. Staged(n)
  BY Zenon, <1>1, <1>3 DEF Staged
<1>5. n.gen # 1
  BY <1>3
<1>6. Through(s) /\ Through(n) /\ Answered(n) /\ Answered(s)
  BY Zenon, <1>3 DEF Staged, Through, Answered
<1>7. Fits(p, n, o, n.outbound \cup out, theirs)
  <2>1. CASE p = "client"
    <3>1. InStep(s, o) /\ FromClient(s, s.outbound \cup out) /\ FromServer(o, theirs)
      BY Zenon, <2>1 DEF Fits, Agree
    <3>2. InStep(n, o)
      BY Zenon, <1>5, <1>6, <3>1 DEF InStep
    <3>3. FromClient(n, n.outbound \cup out)
      BY Zenon, <1>1, <1>3, <1>6, <3>1 DEF FromClient
    <3> QED BY Zenon, <2>1, <3>1, <3>2, <3>3 DEF Fits, Agree
  <2>2. CASE p # "client"
    <3>1. InStep(o, s) /\ FromServer(s, s.outbound \cup out) /\ FromClient(o, theirs)
      BY Zenon, <2>2 DEF Fits, Agree
    <3>2. InStep(o, n)
      BY Zenon, <1>5, <1>6, <3>1 DEF InStep
    <3>3. FromServer(n, n.outbound \cup out)
      BY Zenon, <1>1, <1>3, <1>6, <3>1 DEF FromServer
    <3> QED BY Zenon, <2>2, <3>1, <3>2, <3>3 DEF Fits, Agree
  <2> QED BY Zenon, <2>1, <2>2
<1>8. Facing(p, n, o, out, theirs, {})
  BY Zenon, <1>1, <1>4, <1>7 DEF Facing
<1>9. LET t == pump_handshake(n, {}) IN
      Staged(t) /\ Fits(p, t, o, t.outbound \cup out, theirs) /\ t.gen = n.gen
  BY ONLY p \in Roles, <1>8, PumpFits, SMT
<1> QED BY Zenon, <1>2, <1>5, <1>9

LEMMA OtherWay == \A p \in Roles : Other(Other(p)) = p /\ Roles = {p, Other(p)}
BY Zenon DEF Roles, Other

LEMMA FitsEach ==
    ASSUME AgreeInv, NEW p \in Roles
    PROVE  Fits(p, dtls[p], dtls[Other(p)], dtls[p].outbound \cup OnWire(p), Flying(Other(p)))
BY Zenon DEF AgreeInv, Fits, Other, Roles, Flying

\* A step that leaves engine p with the session s, and the wire with no flight of p
\* that is not in mine.
LEMMA SettleAgrees ==
    ASSUME KeyInv, AgreeInv, NEW p \in Roles, NEW s, dtls' = [dtls EXCEPT ![p] = s],
           Staged(s), NEW mine, Fits(p, s, dtls[Other(p)], mine, Flying(Other(p))),
           s.outbound \subseteq mine, OnWire(p)' \subseteq mine,
           OnWire(Other(p))' \subseteq OnWire(Other(p)),
           \A q \in Roles : KeysOK(q)', setup' = setup
    PROVE  AgreeInv'
<1>1. dtls'[p] = s /\ \A q \in Roles \ {p} : dtls'[q] = dtls[q]
  BY Zenon DEF KeyInv
<1>2. Other(p) \in Roles \ {p}
  BY Zenon, OtherFacts
<1>3. \A q \in Roles : Staged(dtls'[q])
  BY Zenon, <1>1 DEF AgreeInv
<1>4. Flying(p)' \subseteq mine /\ Flying(Other(p))' \subseteq Flying(Other(p))
  BY Zenon, <1>1, <1>2 DEF Flying
<1>5. Fits(p, s, dtls[Other(p)], Flying(p)', Flying(Other(p))')
  BY Zenon, <1>4, FitsSame
<1>6. CASE p = "client"
  BY Zenon, <1>1, <1>2, <1>3, <1>5, <1>6 DEF AgreeInv, Fits, Other
<1>7. CASE p = "server"
  BY Zenon, <1>1, <1>2, <1>3, <1>5, <1>7 DEF AgreeInv, Fits, Other
<1> QED BY Zenon, <1>6, <1>7 DEF Roles

LEMMA KeysStay ==
    ASSUME NEW q \in Roles, KeysOK(q), srtp'[q] = srtp[q], installed_as'[q] = installed_as[q],
           Under(q)' \subseteq Under(q), Unkeyed(q)' => Unkeyed(q)
    PROVE  KeysOK(q)'
<1>1. Side(q)' = Side(q)
  BY Zenon DEF Side
<1>2. FirstKeys(q)'
  BY Zenon, <1>1 DEF KeysOK, FirstKeys, OwnHalf, PeerHalf
<1>3. Unkeyed(q)' => NoKeysYet(q)'
  BY Zenon DEF KeysOK, NoKeysYet
<1> QED BY Zenon, <1>2, <1>3 DEF KeysOK

LEMMA AllKeysStay ==
    ASSUME AgreeInv, UNCHANGED <<srtp, installed_as>>,
           \A q \in Roles : Under(q)' \subseteq Under(q) /\ (Unkeyed(q)' => Unkeyed(q))
    PROVE  \A q \in Roles : KeysOK(q)'
BY Zenon, KeysStay DEF AgreeInv

\* The first handshake of either engine is with the first of the other, and later
\* ones export nothing.
LEMMA ExportsFirst ==
    ASSUME NEW p \in Roles, NEW d, Sound(d), d.role = p, Staged(d), d.state = "Connected",
           d.keys # Nullopt, NEW o, NEW mine, NEW theirs, Fits(p, d, o, mine, theirs)
    PROVE  d.keys = First /\ d.gen = 1
<1>1. d.gen = 1 /\ d.step = "done"
  BY Zenon, GenFacts DEF Staged
<1>2. d.peer = 1
  BY Zenon, <1>1 DEF Fits, Agree, InStep
<1>3. d.keys = Exported(d)
  BY Zenon DEF Sound
<1> QED BY Zenon, <1>1, <1>2, <1>3 DEF Exported, First

\* maybe_install_srtp_keys(): whatever there is to install is of the first handshake.
LEMMA InstallFirst ==
    ASSUME KeyInv, AgreeInv, NEW p \in Roles, NEW d, Install(p, d), UNCHANGED <<queue, media>>,
           srtp_keying_material(d) = Nullopt \/ (srtp_keying_material(d) = First /\ dtls[p].gen = 1),
           \A q \in Roles : dtls'[q].gen = dtls[q].gen
    PROVE  \A q \in Roles : KeysOK(q)'
<1> DEFINE km == srtp_keying_material(d)
           side == OwnSide(p)
           c == derive_keys_for_local(derive_keys_for_remote(srtp[p], Half(Other(side), km)), Half(side, km))
<1>1. \A q \in Roles : Under(q)' = Under(q)
  BY Zenon DEF Under
<1>2. \A q \in Roles : KeysOK(q)
  BY Zenon DEF AgreeInv
<1>3. CASE UNCHANGED <<srtp, srtp_installed, installed_as>>
  <2>1. \A q \in Roles : Unkeyed(q)' => Unkeyed(q)
    BY Zenon, <1>3 DEF Unkeyed
  <2> QED BY Zenon, <1>1, <1>3, <2>1, AllKeysStay
<1>4. CASE ~ UNCHANGED <<srtp, srtp_installed, installed_as>>
  <2>1. /\ km # Nullopt /\ ~srtp_installed[p] /\ srtp' = [srtp EXCEPT ![p] = c]
        /\ srtp_installed' = [srtp_installed EXCEPT ![p] = TRUE]
        /\ installed_as' = [installed_as EXCEPT ![p] = dtls_is_client[p]]
    BY Zenon, <1>4 DEF Install
  <2>2. km = First /\ dtls[p].gen = 1
    BY Zenon, <2>1
  <2>3. NoKeysYet(p)
    BY Zenon, <1>2, <2>1, <2>2 DEF KeysOK, Unkeyed
  <2> HIDE DEF km
  <2>4. /\ c.outbound_key = Half(side, First) /\ c.inbound_key = Half(Other(side), First)
        /\ c.inbound = srtp[p].inbound /\ c.outbound = srtp[p].outbound
    <3>1. DOMAIN srtp[p] = KeyFields
      BY Zenon DEF KeyInv, EngineOK
    <3> HIDE DEF side
    <3> QED BY Zenon, <2>2, <3>1 DEF KeyFields, derive_keys_for_local, derive_keys_for_remote
  <2> HIDE DEF c
  <2>5. /\ srtp'[p] = c /\ \A q \in Roles \ {p} : srtp'[q] = srtp[q]
        /\ srtp_installed'[p] /\ \A q \in Roles \ {p} : srtp_installed'[q] = srtp_installed[q]
        /\ installed_as'[p] = dtls_is_client[p]
        /\ \A q \in Roles \ {p} : installed_as'[q] = installed_as[q]
    BY Zenon, <2>1 DEF KeyInv
  <2>6. OwnHalf(p)' = Half(side, First) /\ PeerHalf(p)' = Half(Other(side), First)
    <3>1. Side(p)' = side
      BY Zenon, <2>5 DEF Side, OwnSide
    <3> QED BY Zenon, <3>1 DEF OwnHalf, PeerHalf
  <2> HIDE DEF side
  <2>7. KeysOK(p)'
    <3>1. ~Unkeyed(p)'
      BY Zenon, <2>5 DEF Unkeyed
    <3>2. srtp[p].outbound \in [Streams -> {NoSession, <<"outbound", OwnHalf(p)'>>}]
      <4>1. srtp[p].outbound \in [Streams -> {NoSession}]
        BY Zenon, <2>3 DEF NoKeysYet
      <4> QED BY Zenon, <4>1
    <3>3. FirstKeys(p)'
      BY Zenon, <1>1, <2>3, <2>4, <2>5, <2>6, <3>2 DEF FirstKeys, NoKeysYet
    <3> QED BY Zenon, <3>1, <3>3 DEF KeysOK
  <2>8. ASSUME NEW q \in Roles \ {p} PROVE KeysOK(q)'
    <3>1. Unkeyed(q)' => Unkeyed(q)
      BY Zenon, <2>5 DEF Unkeyed
    <3> QED BY Zenon, <1>1, <1>2, <2>5, <3>1, KeysStay
  <2> QED BY Zenon, <2>7, <2>8
<1> QED BY Zenon, <1>3, <1>4

LEMMA DrainAgrees ==
    ASSUME KeyInv, AgreeInv, NEW p \in Roles, NEW s, NEW rest,
           Sound(s), s.role = p, s.gen = dtls[p].gen, Staged(s),
           Fits(p, s, dtls[Other(p)], s.outbound \cup OnWire(p), Flying(Other(p))),
           rest \subseteq records, drain_dtls(p, s, rest), UNCHANGED <<queue, media, setup>>
    PROVE  AgreeInv'
<1> DEFINE o == dtls[Other(p)]
           theirs == Flying(Other(p))
           r == Repumped(s)
           d == take_outbound(s)
           mine == r.outbound \cup OnWire(p)
<1>1. Staged(r) /\ Fits(p, r, o, mine, theirs) /\ Sound(r) /\ r.role = p /\ r.gen = s.gen
  <2>1. Facing(p, s, o, OnWire(p), theirs, {})
    BY Zenon, OtherFacts DEF Facing, Sound, AgreeInv, Staged
  <2> HIDE DEF o, theirs
  <2>2. LET t == pump_handshake(s, {}) IN
        Staged(t) /\ Fits(p, t, o, t.outbound \cup OnWire(p), theirs) /\ t.gen = s.gen
    BY ONLY p \in Roles, <2>1, PumpFits, SMT
  <2>3. Sound(pump_handshake(s, {})) /\ pump_handshake(s, {}).role = p
    BY Zenon, PumpSound DEF Same
  <2> QED BY Zenon, <2>2, <2>3 DEF Repumped, o, theirs
<1>2. d = [r EXCEPT !.outbound = {}]
  BY Zenon DEF take_outbound
<1>3. /\ dtls' = [dtls EXCEPT ![p] = d] /\ records' = rest \cup To(Other(p), r.outbound)
      /\ Install(p, dtls'[p])
  BY Zenon DEF drain_dtls, Outbound
<1> HIDE DEF r, d
<1>4. /\ d.gen = r.gen /\ d.step = r.step /\ d.peer = r.peer /\ d.keys = r.keys
      /\ d.state = r.state /\ d.outbound = {} /\ d.role = p /\ DOMAIN d = SessionFields
      /\ d.pin = r.pin /\ d.broken = r.broken
  BY Zenon, <1>1, <1>2 DEF Sound, SessionFields
<1>5. Sound(d)
  BY ZenonT(30), <1>1, <1>4 DEF Sound, Exported
<1>6. Staged(d)
  BY Zenon, <1>1, <1>4 DEF Staged
<1>7. Fits(p, d, o, mine, theirs)
  <2> HIDE DEF mine, theirs, o
  <2> QED BY Zenon, <1>1, <1>4, FitsSame
<1>8. \A x \in records' : x \in records \/ (x.to = Other(p) /\ x.flight \in r.outbound)
  <2>1. \A x \in To(Other(p), r.outbound) : x.to = Other(p) /\ x.flight \in r.outbound
    BY SMT DEF To
  <2> QED BY Zenon, <1>3, <2>1
<1>9. OnWire(p)' \subseteq mine /\ OnWire(Other(p))' \subseteq OnWire(Other(p))
  <2>1. OnWire(p)' \subseteq mine
    BY SMT, <1>8 DEF OnWire
  <2>2. Other(Other(p)) # Other(p)
    BY Zenon, OtherFacts
  <2>3. OnWire(Other(p))' \subseteq OnWire(Other(p))
    BY SMT, <1>8, <2>2 DEF OnWire
  <2> QED BY Zenon, <2>1, <2>3
<1>10. dtls'[p] = d
  BY Zenon, <1>3 DEF KeyInv
<1>11. srtp_keying_material(d) = Nullopt \/ (srtp_keying_material(d) = First /\ dtls[p].gen = 1)
  <2>1. d.gen = dtls[p].gen
    BY Zenon, <1>1, <1>4
  <2> QED BY Zenon, <1>4, <1>5, <1>6, <1>7, <2>1, ExportsFirst DEF srtp_keying_material
<1>14. \A q \in Roles : dtls'[q].gen = dtls[q].gen
  BY Zenon, <1>1, <1>3, <1>4 DEF KeyInv
<1>12. \A q \in Roles : KeysOK(q)'
  BY Zenon, <1>3, <1>10, <1>11, <1>14, InstallFirst
<1> HIDE DEF mine
<1>13. d.outbound \subseteq mine
  BY Zenon, <1>4
<1> QED BY Zenon, <1>3, <1>6, <1>7, <1>9, <1>12, <1>13, SettleAgrees

LEMMA AgreeInitial == Init => AgreeInv
<1> SUFFICES ASSUME Init PROVE AgreeInv
  BY Zenon
<1>1. /\ setup \in Setups /\ records = {} /\ media = {} /\ srtp = [p \in Roles |-> NewContext]
      /\ dtls = [p \in Roles |-> NewSession(p, setup.pin[p])] /\ queue = [p \in Roles |-> {}]
  BY Zenon DEF Init
<1>2. ASSUME NEW p \in Roles
      PROVE  Staged(dtls[p]) /\ dtls[p].gen = 1 /\ dtls[p].step = "start" /\ Flying(p) = {}
  <2>1. dtls[p] = NewSession(p, setup.pin[p])
    BY Zenon, <1>1
  <2>2. /\ dtls[p].gen = 1 /\ dtls[p].step = "start" /\ dtls[p].outbound = {}
        /\ dtls[p].state = "Initial"
    BY SMT, <2>1 DEF NewSession
  <2>3. Staged(dtls[p])
    BY <2>2 DEF Staged
  <2>4. OnWire(p) = {}
    BY Zenon, <1>1 DEF OnWire
  <2> QED BY Zenon, <2>2, <2>3, <2>4 DEF Flying
<1>3. ASSUME NEW p \in Roles PROVE KeysOK(p)
  <2>1. srtp[p] = NewContext /\ queue[p] = {}
    BY Zenon, <1>1
  <2>2. Under(p) = {}
    BY Zenon, <1>1, <2>1 DEF Under
  <2>3. NoKeysYet(p)
    BY SMT, <2>1, <2>2 DEF NoKeysYet, NewContext
  <2>4. srtp[p].outbound \in [Streams -> {NoSession, <<"outbound", OwnHalf(p)>>}]
    BY Zenon, <2>3 DEF NoKeysYet
  <2> QED BY Zenon, <2>3, <2>4 DEF KeysOK, FirstKeys, NoKeysYet
<1>4. "client" \in Roles /\ "server" \in Roles
  BY Zenon DEF Roles
<1>5. ~Through(dtls["client"]) /\ ~Through(dtls["server"])
  BY Zenon, <1>2, <1>4, GenFacts DEF Through
<1>6. Agree(dtls["client"], dtls["server"], Flying("client"), Flying("server"))
  BY Zenon, <1>2, <1>4, <1>5 DEF Agree, InStep, FromClient, FromServer
<1> QED BY Zenon, <1>1, <1>2, <1>3, <1>6 DEF AgreeInv

\* What leaves the sessions and the wire alone, but for losses.
LEMMA MediaAgrees ==
    ASSUME KeyInv, AgreeInv, UNCHANGED <<dtls, setup>>, records' \subseteq records,
           \A q \in Roles : KeysOK(q)'
    PROVE  AgreeInv'
<1>1. \A q \in Roles : OnWire(q)' \subseteq OnWire(q)
  BY Zenon DEF OnWire
<1>2. \A q \in Roles : Flying(q)' \subseteq Flying(q)
  BY Zenon, <1>1 DEF Flying
<1>3. Agree(dtls["client"], dtls["server"], Flying("client")', Flying("server")')
  <2>1. "client" \in Roles /\ "server" \in Roles
    BY Zenon DEF Roles
  <2> QED BY Zenon, <1>2, <2>1 DEF AgreeInv, Agree, FromClient, FromServer
<1> QED BY Zenon, <1>3 DEF AgreeInv

LEMMA ProtectAgrees ==
    ASSUME KeyInv, AgreeInv, NEW p \in Roles, NEW x, Protect(p, x),
           UNCHANGED <<dtls, media, setup, records, srtp_installed, installed_as>>
    PROVE  AgreeInv'
<1> DEFINE c == get_outbound(srtp[p], x)
           S == {NoSession, <<"outbound", OwnHalf(p)>>}
<1>1. x \in Streams
  <2>1. setup.sends[p] \subseteq Streams
    BY SMT, KeyingAssumption DEF KeyingAssumption, AgreeInv
  <2> QED BY Zenon, <2>1 DEF Protect
<1>2. /\ DOMAIN srtp[p] = KeyFields /\ DOMAIN srtp = Roles /\ DOMAIN queue = Roles /\ FirstKeys(p)
      /\ KeysOK(p)
  BY Zenon DEF KeyInv, EngineOK, AgreeInv, KeysOK
<1>3. init_from_master_key(srtp[p].outbound_key) \in S
  BY Zenon, <1>2 DEF FirstKeys, init_from_master_key, InstallSession
<1>4. srtp[p].outbound \in [Streams -> S]
  BY Zenon, <1>2 DEF FirstKeys
<1> HIDE DEF S
<1>5. [srtp[p].outbound EXCEPT ![x] = init_from_master_key(srtp[p].outbound_key)] \in [Streams -> S]
  BY Zenon, <1>3, <1>4
<1>6. /\ c.outbound_key = srtp[p].outbound_key /\ c.inbound_key = srtp[p].inbound_key
      /\ c.inbound = srtp[p].inbound /\ c.outbound \in [Streams -> S]
  BY Zenon, <1>2, <1>4, <1>5 DEF get_outbound, KeyFields
<1> HIDE DEF c
<1>7. PICK built : /\ queue' = [queue EXCEPT ![p] = queue[p] \cup built]
                   /\ \A m \in built : m.to = Other(p) /\ m.key \in {NoKey, OwnHalf(p)}
                   /\ ~srtp_installed[p] => \A m \in built : m.key = NoKey
  <2>1. Packet(p, x, NoKey).to = Other(p) /\ Packet(p, x, NoKey).key = NoKey
        /\ DOMAIN Packet(p, x, NoKey) = {"to", "stream", "key"}
    BY Zenon DEF Packet
  <2>2. \A t \in S : \A m \in protect_rtp(t, Packet(p, x, NoKey)) :
            m.to = Other(p) /\ m.key \in {NoKey, OwnHalf(p)}
    BY SMT, <2>1 DEF protect_rtp, S
  <2>3. CASE srtp_installed[p]
    <3>1. /\ srtp' = [srtp EXCEPT ![p] = c]
          /\ queue' = [queue EXCEPT ![p] =
                queue[p] \cup protect_rtp(srtp'[p].outbound[x], Packet(p, x, NoKey))]
      BY Zenon, <2>3 DEF Protect, c
    <3>2. srtp'[p] = c
      BY Zenon, <1>2, <3>1
    <3>3. srtp'[p].outbound[x] \in S
      BY Zenon, <1>1, <1>6, <3>2
    <3> QED BY Zenon, <2>2, <2>3, <3>1, <3>3
  <2>4. CASE ~srtp_installed[p]
    <3> DEFINE one == {Packet(p, x, NoKey)}
    <3>1. queue' = [queue EXCEPT ![p] = queue[p] \cup one]
      BY Zenon, <2>4 DEF Protect
    <3>2. \A m \in one : m.to = Other(p) /\ m.key \in {NoKey, OwnHalf(p)} /\ m.key = NoKey
      BY Zenon, <2>1
    <3> HIDE DEF one
    <3> QED BY Zenon, <3>1, <3>2
  <2> QED BY Zenon, <2>3, <2>4
<1>8. queue'[p] = queue[p] \cup built /\ \A q \in Roles \ {p} : queue'[q] = queue[q]
  BY Zenon, <1>2, <1>7
<1>9. /\ srtp'[p] \in {srtp[p], c} /\ \A q \in Roles \ {p} : srtp'[q] = srtp[q]
      /\ ~srtp_installed[p] => srtp'[p] = srtp[p]
  BY Zenon, <1>2 DEF Protect, c
<1>12. \A q \in Roles : Unkeyed(q)' => Unkeyed(q)
  BY Zenon DEF Unkeyed
<1>10. KeysOK(p)'
  <2>1. /\ srtp'[p].outbound_key = srtp[p].outbound_key /\ srtp'[p].inbound_key = srtp[p].inbound_key
        /\ srtp'[p].inbound = srtp[p].inbound /\ srtp'[p].outbound \in [Streams -> S]
    BY Zenon, <1>4, <1>6, <1>9
  <2>2. \A m \in Under(p)' : m.key \in {NoKey, OwnHalf(p)}
    BY Zenon, <1>2, <1>7, <1>8 DEF Under, FirstKeys
  <2>3. OwnHalf(p)' = OwnHalf(p) /\ PeerHalf(p)' = PeerHalf(p)
    BY Zenon DEF OwnHalf, PeerHalf, Side
  <2>4. FirstKeys(p)'
    BY Zenon, <1>2, <2>1, <2>2, <2>3 DEF FirstKeys, S
  <2>5. Unkeyed(p)' => NoKeysYet(p)'
    <3> SUFFICES ASSUME Unkeyed(p) PROVE NoKeysYet(p)'
      BY Zenon, <1>12
    <3>1. ~srtp_installed[p] /\ NoKeysYet(p)
      BY Zenon, <1>2 DEF KeysOK, Unkeyed
    <3>2. srtp'[p] = srtp[p]
      BY Zenon, <1>9, <3>1
    <3>3. \A m \in Under(p)' : m.key = NoKey
      BY Zenon, <1>7, <1>8, <3>1 DEF Under, NoKeysYet
    <3> QED BY Zenon, <3>1, <3>2, <3>3 DEF NoKeysYet
  <2> QED BY Zenon, <2>4, <2>5 DEF KeysOK
<1>11. ASSUME NEW q \in Roles \ {p} PROVE KeysOK(q)'
  <2>1. Under(q)' \subseteq Under(q)
    BY Zenon, <1>8 DEF Under
  <2> QED BY Zenon, <1>9, <1>12, <2>1, KeysStay DEF AgreeInv
<1> QED BY Zenon, <1>10, <1>11, MediaAgrees

LEMMA PollAgrees ==
    ASSUME KeyInv, AgreeInv, NEW p \in Roles, TickPoll(p)
    PROVE  AgreeInv'
<1>1. /\ EngineOK(p) /\ DOMAIN queue = Roles /\ DOMAIN dtls = Roles
  BY Zenon DEF KeyInv, AgreeInv
<1>2. /\ \A q \in Roles : queue'[q] \subseteq queue[q]
      /\ media' \subseteq media \cup queue[p] /\ srtp' = srtp /\ setup' = setup
      /\ installed_as' = installed_as
  BY Zenon, <1>1 DEF TickPoll, DrainQueue, link
<1>3. \A m \in queue[p] : m.to = Other(p)
  BY Zenon, <1>1 DEF EngineOK, Fit
<1>4. \A q \in Roles : Under(q)' \subseteq Under(q)
  BY Zenon, <1>2, <1>3, OtherFacts DEF Under
<1>6. records' \subseteq records
  BY Zenon DEF TickPoll, PollDown, PollUp
<1>7. CASE UNCHANGED <<dtls, srtp_installed>>
  <2>1. \A q \in Roles : Unkeyed(q)' => Unkeyed(q)
    BY Zenon, <1>7 DEF Unkeyed
  <2>2. \A q \in Roles : KeysOK(q)'
    BY Zenon, <1>2, <1>4, <2>1, AllKeysStay
  <2> QED BY Zenon, <1>2, <1>6, <1>7, <2>2, MediaAgrees
<1>8. CASE ~ UNCHANGED <<dtls, srtp_installed>>
  <2> DEFINE t == rehandshake(dtls[p])
             mine == t.outbound \cup OnWire(p)
  <2>1. dtls[p].state = "Connected" /\ dtls' = [dtls EXCEPT ![p] = t]
        /\ srtp_installed' = [srtp_installed EXCEPT ![p] = @ /\ "setup" \in dtls[p].broken]
    BY Zenon, <1>8 DEF TickPoll, PollDown, PollUp, Rekey
  <2>2. Fits(p, dtls[p], dtls[Other(p)], dtls[p].outbound \cup OnWire(p), Flying(Other(p)))
    BY Zenon, FitsEach
  <2>3. DOMAIN dtls[p] = SessionFields /\ dtls[p].role = p /\ Staged(dtls[p])
    BY Zenon, <1>1 DEF EngineOK, Sound, AgreeInv
  <2>4. dtls[Other(p)].gen \in Nat /\ dtls[Other(p)].gen >= 1
    BY Zenon, OtherFacts DEF AgreeInv, Staged
  <2>5. /\ Staged(t) /\ Fits(p, t, dtls[Other(p)], mine, Flying(Other(p)))
        /\ IF "setup" \in dtls[p].broken THEN t.gen = dtls[p].gen ELSE t.gen # 1
    BY Zenon, <2>1, <2>2, <2>3, <2>4, RestartFits
  <2> HIDE DEF t
  <2>8. /\ dtls'[p] = t /\ srtp_installed'[p] = (srtp_installed[p] /\ "setup" \in dtls[p].broken)
        /\ \A q \in Roles \ {p} : dtls'[q] = dtls[q] /\ srtp_installed'[q] = srtp_installed[q]
    BY Zenon, <1>1, <2>1 DEF KeyInv
  <2>9. \A q \in Roles : Unkeyed(q)' => Unkeyed(q)
    BY Zenon, <2>5, <2>8 DEF Unkeyed
  <2>10. \A q \in Roles : KeysOK(q)'
    BY Zenon, <1>2, <1>4, <2>9, AllKeysStay
  <2>6. \A q \in Roles : OnWire(q)' \subseteq OnWire(q)
    BY Zenon, <1>6 DEF OnWire
  <2>7. OnWire(p)' \subseteq mine /\ t.outbound \subseteq mine
        /\ OnWire(Other(p))' \subseteq OnWire(Other(p))
    BY Zenon, <2>6, OtherFacts
  <2> HIDE DEF mine
  <2> QED BY Zenon, <1>2, <2>1, <2>5, <2>7, <2>10, SettleAgrees
<1> QED BY Zenon, <1>7, <1>8

LEMMA TickDrainAgrees ==
    ASSUME KeyInv, AgreeInv, NEW p \in Roles, NEW fired \in BOOLEAN, TickDrain(p, fired)
    PROVE  AgreeInv'
<1> DEFINE s == DtlsTick(dtls[p], fired)
<1>1. UNCHANGED <<queue, media, setup>>
  BY Zenon DEF TickDrain, link
<1>2. CASE ice[p]
  <2>1. drain_dtls(p, s, records)
    BY Zenon, <1>2 DEF TickDrain
  <2>2. Sound(dtls[p]) /\ dtls[p].role = p /\ Staged(dtls[p])
    BY Zenon DEF KeyInv, EngineOK, AgreeInv
  <2>3. Sound(s) /\ s.role = p
    BY Zenon, <2>2, TickCarries DEF Carries, Same
  <2>4. Fits(p, dtls[p], dtls[Other(p)], dtls[p].outbound \cup OnWire(p), Flying(Other(p)))
    BY Zenon, FitsEach
  <2>5. /\ Staged(s) /\ Fits(p, s, dtls[Other(p)], s.outbound \cup OnWire(p), Flying(Other(p)))
        /\ s.gen = dtls[p].gen
    BY Zenon, <2>2, <2>4, TickFits DEF Sound
  <2> HIDE DEF s
  <2> QED BY Zenon, <1>1, <2>1, <2>3, <2>5, DrainAgrees
<1>3. CASE ~ice[p]
  <2>1. UNCHANGED <<dtls, srtp, srtp_installed, installed_as, records>>
    BY Zenon, <1>3 DEF TickDrain, keying
  <2>2. \A q \in Roles : KeysOK(q)'
    BY Zenon, <1>1, <2>1, AllKeysStay DEF Unkeyed, Under
  <2> QED BY Zenon, <1>1, <2>1, <2>2, MediaAgrees
<1> QED BY Zenon, <1>2, <1>3

LEMMA RecvRecordAgrees ==
    ASSUME KeyInv, AgreeInv, NEW p \in Roles, RecvRecord(p)
    PROVE  AgreeInv'
<1>1. PICK r \in records : /\ r.to = p
        /\ LET s == feed_inbound(dtls[p], r.flight) IN
           \/ drain_dtls(p, s, records \ {r})
           \/ dtls' = [dtls EXCEPT ![p] = s] /\ records' = records \ {r}
              /\ UNCHANGED <<srtp, srtp_installed, installed_as>>
  BY ZenonT(30) DEF RecvRecord
<1> DEFINE s == feed_inbound(dtls[p], r.flight)
           o == dtls[Other(p)]
           theirs == Flying(Other(p))
           mine == s.outbound \cup OnWire(p)
<1>2. UNCHANGED <<queue, media, setup>>
  BY Zenon DEF RecvRecord, link
<1>3. /\ Sound(dtls[p]) /\ dtls[p].role = p /\ Staged(dtls[p])
  BY Zenon DEF KeyInv, EngineOK, AgreeInv
<1>4. Sound(s) /\ s.role = p
  BY Zenon, <1>3, FeedCarries DEF Carries, Same
<1>5. r.flight \in theirs
  BY Zenon, <1>1, OtherWay DEF Flying, OnWire
<1>6. Fits(p, dtls[p], o, dtls[p].outbound \cup OnWire(p), theirs)
  BY Zenon, FitsEach
<1>7. o.gen \in Nat /\ o.gen >= 1
  BY Zenon, OtherFacts DEF AgreeInv, Staged
<1> HIDE DEF o, theirs
<1>8. Facing(p, dtls[p], o, OnWire(p), theirs, {r.flight})
  BY Zenon, <1>3, <1>5, <1>6, <1>7 DEF Facing, Sound
<1>12. s = pump_handshake(dtls[p], {r.flight})
  BY Zenon DEF feed_inbound
<1>9. Staged(s) /\ Fits(p, s, o, mine, theirs) /\ s.gen = dtls[p].gen
  <2> DEFINE d == dtls[p]
             in == {r.flight}
             out == OnWire(p)
             t == pump_handshake(d, in)
  <2> HIDE DEF d, in, out
  <2>1. Facing(p, d, o, out, theirs, in)
    BY Zenon, <1>8 DEF d, in, out
  <2>2. Staged(t) /\ Fits(p, t, o, t.outbound \cup out, theirs) /\ t.gen = d.gen
    BY ONLY p \in Roles, <2>1, PumpFits, SMT
  <2> HIDE DEF s, t
  <2>3. s = t
    BY Zenon, <1>12 DEF t, d, in
  <2> QED BY Zenon, <2>2, <2>3 DEF d, out
<1> HIDE DEF s
<1>10. CASE drain_dtls(p, s, records \ {r})
  <2>1. records \ {r} \subseteq records
    BY Zenon
  <2> QED BY Zenon, <1>2, <1>4, <1>9, <1>10, <2>1, DrainAgrees DEF o, theirs
<1>11. CASE /\ dtls' = [dtls EXCEPT ![p] = s] /\ records' = records \ {r}
            /\ UNCHANGED <<srtp, srtp_installed, installed_as>>
  <2>4. \A q \in Roles : dtls'[q].gen = dtls[q].gen
    BY Zenon, <1>9, <1>11 DEF KeyInv
  <2>1. \A q \in Roles : KeysOK(q)'
    BY Zenon, <1>2, <1>11, <2>4, AllKeysStay DEF Unkeyed, Under
  <2>2. \A q \in Roles : OnWire(q)' \subseteq OnWire(q)
    BY Zenon, <1>11 DEF OnWire
  <2>3. OnWire(p)' \subseteq mine /\ s.outbound \subseteq mine
        /\ OnWire(Other(p))' \subseteq OnWire(Other(p))
    BY Zenon, <2>2, OtherFacts
  <2> HIDE DEF mine
  <2> QED BY Zenon, <1>2, <1>9, <1>11, <2>1, <2>3, SettleAgrees DEF o, theirs
<1> QED BY Zenon, <1>1, <1>10, <1>11 DEF s

LEMMA RecvMediaAgrees ==
    ASSUME KeyInv, AgreeInv, NEW p \in Roles, RecvMedia(p)
    PROVE  AgreeInv'
<1> DEFINE c == get_inbound(srtp[p])
<1>1. DOMAIN srtp[p] = KeyFields /\ DOMAIN srtp = Roles /\ KeysOK(p) /\ FirstKeys(p)
  BY Zenon DEF KeyInv, EngineOK, AgreeInv, KeysOK
<1>2. media' \subseteq media
      /\ UNCHANGED <<dtls, queue, records, setup, srtp_installed, installed_as>>
  BY Zenon DEF RecvMedia, link
<1>3. \A q \in Roles : Under(q)' \subseteq Under(q)
  BY Zenon, <1>2 DEF Under
<1>4. /\ c.outbound_key = srtp[p].outbound_key /\ c.inbound_key = srtp[p].inbound_key
      /\ c.outbound = srtp[p].outbound
      /\ c.inbound \in {srtp[p].inbound, init_from_master_key_inbound(srtp[p].inbound_key)}
  BY Zenon, <1>1 DEF get_inbound, KeyFields
<1>5. srtp' = srtp \/ (srtp_installed[p] /\ srtp' = [srtp EXCEPT ![p] = c])
  BY Zenon DEF RecvMedia
<1> HIDE DEF c
<1>6. init_from_master_key_inbound(srtp[p].inbound_key) \in {NoSession, <<"inbound", PeerHalf(p)>>}
  BY Zenon, <1>1 DEF FirstKeys, init_from_master_key_inbound, InstallSession
<1>7. (srtp'[p] = srtp[p] \/ (srtp_installed[p] /\ srtp'[p] = c))
      /\ \A q \in Roles \ {p} : srtp'[q] = srtp[q]
  BY Zenon, <1>1, <1>5
<1>10. \A q \in Roles : Unkeyed(q)' => Unkeyed(q)
  BY Zenon, <1>2 DEF Unkeyed
<1>8. KeysOK(p)'
  <2>1. CASE srtp'[p] = srtp[p]
    BY Zenon, <1>1, <1>2, <1>3, <1>10, <2>1, KeysStay
  <2>2. CASE srtp_installed[p] /\ srtp'[p] = c
    <3>1. ~Unkeyed(p)'
      BY Zenon, <1>2, <2>2 DEF Unkeyed
    <3>2. OwnHalf(p)' = OwnHalf(p) /\ PeerHalf(p)' = PeerHalf(p)
      BY Zenon, <1>2 DEF OwnHalf, PeerHalf, Side
    <3>3. FirstKeys(p)'
      BY Zenon, <1>1, <1>3, <1>4, <1>6, <2>2, <3>2 DEF FirstKeys
    <3> QED BY Zenon, <3>1, <3>3 DEF KeysOK
  <2> QED BY Zenon, <1>7, <2>1, <2>2
<1>9. \A q \in Roles \ {p} : KeysOK(q)'
  BY Zenon, <1>2, <1>3, <1>7, <1>10, KeysStay DEF AgreeInv
<1> QED BY Zenon, <1>2, <1>8, <1>9, MediaAgrees

LEMMA CloseAgrees ==
    ASSUME KeyInv, AgreeInv, NEW p \in Roles, close(p)
    PROVE  AgreeInv'
<1> DEFINE s == DtlsClose(dtls[p])
           mine == dtls[p].outbound \cup OnWire(p)
<1>1. /\ DOMAIN dtls[p] = SessionFields /\ Staged(dtls[p]) /\ DOMAIN srtp = Roles
      /\ DOMAIN queue = Roles /\ DOMAIN dtls = Roles /\ KeysOK(p) /\ FirstKeys(p)
  BY Zenon DEF KeyInv, EngineOK, Sound, AgreeInv, KeysOK
<1>2. /\ dtls' = [dtls EXCEPT ![p] = s] /\ srtp' = [srtp EXCEPT ![p] = NewContext]
      /\ queue' = [queue EXCEPT ![p] = {}]
      /\ UNCHANGED <<media, records, setup, srtp_installed, installed_as>>
  BY Zenon DEF close, link
<1>3. /\ s.gen = dtls[p].gen /\ s.step = dtls[p].step /\ s.peer = dtls[p].peer
      /\ s.keys = dtls[p].keys /\ s.outbound = dtls[p].outbound /\ s.state = "Closed"
  BY Zenon, <1>1 DEF DtlsClose, SessionFields
<1> HIDE DEF s
<1>4. Staged(s)
  BY Zenon, <1>1, <1>3 DEF Staged
<1>5. Fits(p, dtls[p], dtls[Other(p)], mine, Flying(Other(p)))
  BY Zenon, FitsEach
<1>6. s.outbound \subseteq mine /\ OnWire(p)' \subseteq mine
      /\ OnWire(Other(p))' \subseteq OnWire(Other(p))
  BY Zenon, <1>2, <1>3 DEF OnWire
<1> HIDE DEF mine
<1>7. Fits(p, s, dtls[Other(p)], mine, Flying(Other(p)))
  BY Zenon, <1>3, <1>5, FitsSame
<1>8. /\ srtp'[p] = NewContext /\ \A q \in Roles \ {p} : srtp'[q] = srtp[q]
      /\ \A q \in Roles : queue'[q] \subseteq queue[q]
  BY Zenon, <1>1, <1>2
<1>9. \A q \in Roles : Under(q)' \subseteq Under(q)
  BY Zenon, <1>2, <1>8 DEF Under
<1>12. \A q \in Roles : Unkeyed(q)' => Unkeyed(q)
  <2>1. \A q \in Roles : dtls'[q].gen = dtls[q].gen
    BY Zenon, <1>1, <1>2, <1>3
  <2> QED BY Zenon, <1>2, <2>1 DEF Unkeyed
<1>10. KeysOK(p)'
  <2>1. \A m \in Under(p)' : m.key \in {NoKey, OwnHalf(p)'}
    <3>1. OwnHalf(p)' = OwnHalf(p)
      BY Zenon, <1>2 DEF OwnHalf, Side
    <3> QED BY Zenon, <1>1, <1>9, <3>1 DEF FirstKeys
  <2>2. /\ srtp'[p].inbound_key = NoKey /\ srtp'[p].outbound_key = NoKey
        /\ srtp'[p].inbound = NoSession /\ srtp'[p].outbound = [x \in Streams |-> NoSession]
    BY SMT, <1>8 DEF NewContext
  <2>3. FirstKeys(p)'
    BY Zenon, <2>1, <2>2 DEF FirstKeys
  <2>4. Unkeyed(p)' => NoKeysYet(p)'
    <3>1. Unkeyed(p)' => \A m \in Under(p)' : m.key = NoKey
      BY Zenon, <1>1, <1>9, <1>12 DEF KeysOK, NoKeysYet
    <3> QED BY Zenon, <2>2, <3>1 DEF NoKeysYet
  <2> QED BY Zenon, <2>3, <2>4 DEF KeysOK
<1>11. \A q \in Roles \ {p} : KeysOK(q)'
  BY Zenon, <1>2, <1>8, <1>9, <1>12, KeysStay DEF AgreeInv
<1> QED BY Zenon, <1>2, <1>4, <1>6, <1>7, <1>10, <1>11, SettleAgrees

\* What a description or a failing library changes of a session is no part of the
\* handshake.
LEMMA SessionAgrees ==
    ASSUME KeyInv, AgreeInv, NEW p \in Roles, NEW s, dtls' = [dtls EXCEPT ![p] = s],
           s.gen = dtls[p].gen, s.step = dtls[p].step, s.peer = dtls[p].peer,
           s.keys = dtls[p].keys, s.state = dtls[p].state, s.outbound = dtls[p].outbound,
           UNCHANGED <<srtp, srtp_installed, installed_as, queue, media, records, setup>>
    PROVE  AgreeInv'
<1> DEFINE mine == dtls[p].outbound \cup OnWire(p)
<1>1. Staged(s)
  BY Zenon DEF AgreeInv, Staged
<1>2. Fits(p, dtls[p], dtls[Other(p)], mine, Flying(Other(p)))
  BY Zenon, FitsEach
<1>3. s.outbound \subseteq mine /\ OnWire(p)' \subseteq mine
      /\ OnWire(Other(p))' \subseteq OnWire(Other(p))
  BY Zenon DEF OnWire
<1> HIDE DEF mine
<1>4. Fits(p, s, dtls[Other(p)], mine, Flying(Other(p)))
  BY Zenon, <1>2, FitsSame
<1>5. \A q \in Roles : dtls'[q].gen = dtls[q].gen
  BY Zenon DEF KeyInv
<1>6. \A q \in Roles : KeysOK(q)'
  BY Zenon, <1>5, AllKeysStay DEF Unkeyed, Under
<1> QED BY Zenon, <1>1, <1>3, <1>4, <1>6, SettleAgrees

LEMMA DescribedFacts ==
    ASSUME KeyInv, NEW p \in Roles, LaterDescription(p)
    PROVE  \E s : /\ dtls' = [dtls EXCEPT ![p] = s] /\ s.gen = dtls[p].gen
                  /\ s.step = dtls[p].step /\ s.peer = dtls[p].peer /\ s.keys = dtls[p].keys
                  /\ s.state = dtls[p].state /\ s.outbound = dtls[p].outbound
<1>1. PICK d \in coming :
        LET s == set_role(dtls[p], d.role) IN
        dtls' = [dtls EXCEPT ![p] = IF d.fp = "absent" THEN s ELSE set_peer_fingerprint(s, d.fp)]
  BY Zenon DEF LaterDescription
<1> DEFINE s == set_role(dtls[p], d.role)
           t == IF d.fp = "absent" THEN s ELSE set_peer_fingerprint(s, d.fp)
<1>2. DOMAIN dtls[p] = SessionFields
  BY Zenon DEF KeyInv, EngineOK, Sound
<1>3. /\ DOMAIN s = SessionFields /\ s.state = dtls[p].state /\ s.step = dtls[p].step
      /\ s.keys = dtls[p].keys /\ s.gen = dtls[p].gen /\ s.peer = dtls[p].peer
      /\ s.outbound = dtls[p].outbound
  BY Zenon, <1>2 DEF set_role, SessionFields
<1> HIDE DEF s
<1>4. /\ t.state = dtls[p].state /\ t.step = dtls[p].step /\ t.keys = dtls[p].keys
      /\ t.gen = dtls[p].gen /\ t.peer = dtls[p].peer /\ t.outbound = dtls[p].outbound
  BY Zenon, <1>3 DEF set_peer_fingerprint, SessionFields
<1>5. dtls' = [dtls EXCEPT ![p] = t]
  BY Zenon, <1>1 DEF s
<1> HIDE DEF t
<1> QED BY Zenon, <1>4, <1>5

\* The halves are told apart by Booleans.
SideInv == installed_as \in [Roles -> BOOLEAN] /\ dtls_is_client \in [Roles -> BOOLEAN]

LEMMA SideInitial == Init => SideInv
BY SMT DEF Init, SideInv

LEMMA SideStep == SideInv /\ [Next]_vars => SideInv'
<1> SUFFICES ASSUME SideInv, [Next]_vars PROVE SideInv'
  BY Zenon
<1>1. ASSUME UNCHANGED <<installed_as, dtls_is_client>> PROVE SideInv'
  BY Zenon, <1>1 DEF SideInv
<1>2. ASSUME NEW p \in Roles, NEW d, Install(p, d), dtls_is_client' = dtls_is_client PROVE SideInv'
  <2>1. dtls_is_client[p] \in BOOLEAN
    BY Zenon, <1>2 DEF SideInv
  <2> QED BY Zenon, <1>2, <2>1 DEF Install, SideInv
<1>3. ASSUME NEW p \in Roles, NEW fired \in BOOLEAN, TickDrain(p, fired) PROVE SideInv'
  BY Zenon, <1>1, <1>2, <1>3 DEF TickDrain, drain_dtls, keying, roles
<1>4. ASSUME NEW p \in Roles, RecvRecord(p) PROVE SideInv'
  BY Zenon, <1>1, <1>2, <1>4 DEF RecvRecord, drain_dtls, roles
<1>5. ASSUME NEW p \in Roles, LaterDescription(p) PROVE SideInv'
  <2>1. PICK role : dtls_is_client' = [dtls_is_client EXCEPT ![p] = role = "client"]
    BY Zenon, <1>5 DEF LaterDescription
  <2>2. (role = "client") \in BOOLEAN
    BY Zenon
  <2> QED BY Zenon, <1>5, <2>1, <2>2 DEF LaterDescription, SideInv
<1>6. ASSUME NEW p \in Roles,
             \/ send_audio(p) \/ send_video(p) \/ TickPoll(p) \/ RecvMedia(p) \/ RecvEnd(p)
             \/ close(p) \/ IceUp(p) \/ IceDown(p) \/ Fail(p)
      PROVE  SideInv'
  BY Zenon, <1>1, <1>6 DEF send_audio, send_video, TickPoll, RecvMedia, RecvEnd, close, IceUp,
     IceDown, Fail, keying, roles
<1>7. CASE Lose \/ UNCHANGED vars
  BY Zenon, <1>1, <1>7 DEF Lose, vars, keying, roles
<1> QED BY Zenon, <1>3, <1>4, <1>5, <1>6, <1>7 DEF Next, Step

LEMMA AgreeStep == KeyInv /\ AgreeInv /\ [Next]_vars => AgreeInv'
<1> SUFFICES ASSUME KeyInv, AgreeInv, [Next]_vars PROVE AgreeInv'
  BY Zenon
<1>1. ASSUME UNCHANGED <<keying, queue, media, setup>>, records' \subseteq records
      PROVE  AgreeInv'
  <2>2. UNCHANGED <<dtls, srtp, srtp_installed, installed_as>>
    BY Zenon, <1>1 DEF keying
  <2>1. \A q \in Roles : KeysOK(q)'
    BY Zenon, <1>1, <2>2, AllKeysStay DEF Unkeyed, Under
  <2> QED BY Zenon, <1>1, <2>1, <2>2, MediaAgrees
<1>2. ASSUME NEW p \in Roles, send_audio(p) \/ send_video(p) PROVE AgreeInv'
  BY <1>2, ProtectAgrees DEF send_audio, send_video, link
<1>3. ASSUME NEW p \in Roles, TickPoll(p) PROVE AgreeInv'
  BY Zenon, <1>3, PollAgrees
<1>4. ASSUME NEW p \in Roles, NEW fired \in BOOLEAN, TickDrain(p, fired) PROVE AgreeInv'
  BY Zenon, <1>4, TickDrainAgrees
<1>5. ASSUME NEW p \in Roles, RecvRecord(p) PROVE AgreeInv'
  BY Zenon, <1>5, RecvRecordAgrees
<1>6. ASSUME NEW p \in Roles, RecvMedia(p) PROVE AgreeInv'
  BY Zenon, <1>6, RecvMediaAgrees
<1>7. ASSUME NEW p \in Roles, close(p) PROVE AgreeInv'
  BY Zenon, <1>7, CloseAgrees
<1>8. ASSUME NEW p \in Roles, RecvEnd(p) \/ IceUp(p) \/ IceDown(p) PROVE AgreeInv'
  BY Zenon, <1>1, <1>8 DEF RecvEnd, IceUp, IceDown, link
<1>9. CASE Lose
  BY Zenon, <1>1, <1>9 DEF Lose
<1>10. CASE UNCHANGED vars
  BY Zenon, <1>1, <1>10 DEF vars, link
<1>11. ASSUME NEW p \in Roles, LaterDescription(p) PROVE AgreeInv'
  <2>1. PICK s : /\ dtls' = [dtls EXCEPT ![p] = s] /\ s.gen = dtls[p].gen
                 /\ s.step = dtls[p].step /\ s.peer = dtls[p].peer /\ s.keys = dtls[p].keys
                 /\ s.state = dtls[p].state /\ s.outbound = dtls[p].outbound
    BY Zenon, <1>11, DescribedFacts
  <2>2. UNCHANGED <<srtp, srtp_installed, installed_as, queue, media, records, setup>>
    BY Zenon, <1>11 DEF LaterDescription, link
  <2> QED BY Zenon, <1>11, <2>1, <2>2, SessionAgrees
<1>12. ASSUME NEW p \in Roles, Fail(p) PROVE AgreeInv'
  <2>1. PICK b : dtls' = [dtls EXCEPT ![p].broken = b]
    BY Zenon, <1>12 DEF Fail
  <2>2. DOMAIN dtls[p] = SessionFields
    BY Zenon, <1>12 DEF KeyInv, EngineOK, Sound
  <2> DEFINE s == [dtls[p] EXCEPT !.broken = b]
  <2>3. /\ dtls' = [dtls EXCEPT ![p] = s] /\ s.gen = dtls[p].gen
        /\ s.step = dtls[p].step /\ s.peer = dtls[p].peer /\ s.keys = dtls[p].keys
        /\ s.state = dtls[p].state /\ s.outbound = dtls[p].outbound
    BY Zenon, <2>1, <2>2 DEF SessionFields
  <2>4. UNCHANGED <<srtp, srtp_installed, installed_as, queue, media, records, setup>>
    BY Zenon, <1>12 DEF Fail, link
  <2> HIDE DEF s
  <2> QED BY Zenon, <1>12, <2>3, <2>4, SessionAgrees
<1> QED BY Zenon, <1>2, <1>3, <1>4, <1>5, <1>6, <1>7, <1>8, <1>9, <1>10, <1>11, <1>12 DEF Next, Step

LEMMA InvGivesDecrypts == KeyInv /\ AgreeInv /\ SideInv => DecryptsWhatItGets
<1> SUFFICES ASSUME KeyInv, AgreeInv, SideInv, NEW p \in Roles, open[p], srtp_installed[p],
                    installed_as[p] # installed_as[Other(p)], NEW m \in media \cup queue[Other(p)], m.to = p, m.key # NoKey
             PROVE  unprotect_rtp(get_inbound(srtp[p]).inbound, m)
  BY Zenon DEF DecryptsWhatItGets
<1> DEFINE key == OwnHalf(Other(p))
<1>10. PeerHalf(p) = key
  <2>1. installed_as[p] \in BOOLEAN /\ installed_as[Other(p)] \in BOOLEAN
    BY Zenon, OtherFacts DEF SideInv
  <2>2. Side(Other(p)) = Other(Side(p))
    BY Zenon, <2>1 DEF Side, Other
  <2> QED BY Zenon, <2>2 DEF PeerHalf, OwnHalf
<1>1. HasOwnKeys(p) /\ DOMAIN srtp[p] = KeyFields /\ FirstKeys(p) /\ FirstKeys(Other(p))
  BY Zenon, OtherFacts DEF KeyInv, EngineOK, AgreeInv, KeysOK
<1>2. \A side, km : Half(side, km) # NoKey
  BY SMT DEF Half, NoKey
<1>3. srtp[p].inbound_key = key
  BY ZenonT(30), <1>1, <1>2, <1>10 DEF HasOwnKeys, FirstKeys
<1>4. m \in Under(Other(p))
  BY Zenon, OtherWay DEF Under
<1>5. m.key = key
  BY Zenon, <1>1, <1>4 DEF FirstKeys
<1>6. key # NoKey /\ <<"inbound", key>> # NoSession
  <2>1. key # NoKey
    BY Zenon, <1>2 DEF OwnHalf
  <2> HIDE DEF key
  <2>2. <<"inbound", key>> # NoSession
    BY SMT DEF NoSession
  <2> QED BY Zenon, <2>1, <2>2
<1>7. srtp[p].inbound \in {NoSession, <<"inbound", key>>}
  BY Zenon, <1>1, <1>10 DEF FirstKeys
<1> HIDE DEF key
<1>8. init_from_master_key_inbound(srtp[p].inbound_key) = <<"inbound", key>>
  BY Zenon, <1>3, <1>6 DEF init_from_master_key_inbound, InstallSession
<1>9. get_inbound(srtp[p]).inbound = <<"inbound", key>>
  BY Zenon, <1>1, <1>7, <1>8 DEF get_inbound, KeyFields
<1> QED BY Zenon, <1>5, <1>6, <1>9 DEF unprotect_rtp, InstallSession

(* Whatever is lost, delayed or restarted, whatever descriptions come and    *)
(* whichever call of wolfSSL fails, a protected packet opens under the keys  *)
(* of an engine that has keys, if the two installed theirs with different    *)
(* values of dtls_is_client: they never hold keys of two handshakes at a     *)
(* time (maybe_install_srtp_keys, rehandshake).                              *)
THEOREM MediaAlwaysOpens == Spec => []DecryptsWhatItGets
BY KeyInitial, KeyStep, AgreeInitial, AgreeStep, SideInitial, SideStep, InvGivesDecrypts, PTL
   DEF Spec

-----------------------------------------------------------------------------
(* The reassembler of handshake messages. *)

\* The buffer of a message of a handshake of which these bytes came, the last
\* at this time, and the message itself.
Buffered(a, m, bytes, at) ==
    [msg_type |-> Messages[m].type, total_length |-> Messages[m].len, epoch |-> 0,
     body |-> [i \in 1..Messages[m].len |-> IF i \in bytes THEN <<a, m, i>> ELSE <<>>],
     received |-> [i \in 1..Messages[m].len |-> IF i \in bytes THEN TRUE ELSE FALSE],
     last_seen |-> at]

BodyIn(a, m) == [i \in 1..Messages[m].len |-> <<a, m, i>>]

\* The inductive invariant: every buffer is the one its bytes determine, what
\* came is never a whole message, and what has no buffer has no bytes.
HrInv ==
    /\ hsClock \in Nat
    /\ here \in [DOMAIN Messages -> [bytes : SUBSET Nat, at : Nat]]
    /\ \A m \in DOMAIN Messages :
          here[m].bytes \subseteq 1..Messages[m].len /\ here[m].bytes # 1..Messages[m].len
    /\ DOMAIN bufs_ \subseteq DOMAIN Messages
    /\ \A m \in DOMAIN bufs_ : bufs_[m] = Buffered(attempt, m, here[m].bytes, here[m].at)
    /\ \A m \in DOMAIN Messages : m \notin DOMAIN bufs_ => here[m].bytes = {}
    /\ fed.result # "kFragmentBuffered" => fed.body = BodyIn(attempt, fed.seq)

----------------------------------------------------------------------------
\* The first fragment of a message is entered into an empty buffer.
LEMMA EmptyBuffer ==
    ASSUME NEW m \in DOMAIN Messages, NEW off \in Nat, NEW len \in Nat
    PROVE  FragmentBuf(Fragment(m, off, len)) = Buffered(attempt, m, {}, hsClock)
BY Zenon DEF FragmentBuf, Fragment, Buffered, Byte

\* A fragment adds its bytes to those that came before.
LEMMA FilledBuffer ==
    ASSUME NEW m \in DOMAIN Messages, NEW bytes, NEW at,
           NEW off \in Nat, NEW len \in Nat, off + len <= Messages[m].len
    PROVE  filled(Buffered(attempt, m, bytes, at), Fragment(m, off, len))
               = Buffered(attempt, m, bytes \cup (off + 1)..(off + len), hsClock)
<1> DEFINE r == Fragment(m, off, len)
           new == (off + 1)..(off + len)
           b == Buffered(attempt, m, bytes, at)
<1>1. r.frag_off = off /\ r.frag_len = len /\ r.data = [i \in 1..len |-> <<attempt, m, off + i>>]
  BY Zenon DEF Fragment, Byte
<1>2. \A i \in new : i - off \in 1..len /\ r.data[i - off] = <<attempt, m, i>>
  <2> SUFFICES ASSUME NEW i \in new PROVE i - off \in 1..len /\ r.data[i - off] = <<attempt, m, i>>
    BY Zenon
  <2>1. i - off \in 1..len /\ off + (i - off) = i
    OBVIOUS
  <2> QED BY Zenon, <1>1, <2>1
<1>3. b.body = [i \in 1..Messages[m].len |-> IF i \in bytes THEN <<attempt, m, i>> ELSE <<>>]
      /\ b.received = [i \in 1..Messages[m].len |-> IF i \in bytes THEN TRUE ELSE FALSE]
  BY Zenon DEF Buffered
<1>4. [i \in DOMAIN b.body |-> IF i \in new THEN r.data[i - off] ELSE b.body[i]]
          = [i \in 1..Messages[m].len |-> IF i \in bytes \cup new THEN <<attempt, m, i>> ELSE <<>>]
  BY Zenon, <1>2, <1>3
<1>5. [i \in DOMAIN b.received |-> b.received[i] \/ i \in new]
          = [i \in 1..Messages[m].len |-> IF i \in bytes \cup new THEN TRUE ELSE FALSE]
  BY Zenon, <1>3
<1>6. filled(b, r) = [b EXCEPT !.body = [i \in DOMAIN b.body |-> IF i \in new THEN r.data[i - off] ELSE b.body[i]],
                               !.received = [i \in DOMAIN b.received |-> b.received[i] \/ i \in new],
                               !.last_seen = hsClock]
  BY Zenon, <1>1 DEF filled
<1> QED BY ZenonT(30), <1>4, <1>5, <1>6 DEF Buffered

\* A buffer is complete when all bytes came, and then holds the message.
LEMMA CompleteBuffer ==
    ASSUME NEW m \in DOMAIN Messages, NEW at, NEW bytes \in SUBSET (1..Messages[m].len)
    PROVE  /\ (\A i \in DOMAIN Buffered(attempt, m, bytes, at).received : Buffered(attempt, m, bytes, at).received[i])
               <=> bytes = 1..Messages[m].len
           /\ bytes = 1..Messages[m].len => Buffered(attempt, m, bytes, at).body = BodyIn(attempt, m)
<1>1. Buffered(attempt, m, bytes, at).received = [i \in 1..Messages[m].len |-> IF i \in bytes THEN TRUE ELSE FALSE]
  BY Zenon DEF Buffered
<1>2. (\A i \in DOMAIN Buffered(attempt, m, bytes, at).received : Buffered(attempt, m, bytes, at).received[i])
          <=> \A i \in 1..Messages[m].len : i \in bytes
  BY Zenon, <1>1
<1>3. Buffered(attempt, m, bytes, at).body
          = [i \in 1..Messages[m].len |-> IF i \in bytes THEN <<attempt, m, i>> ELSE <<>>]
  BY Zenon DEF Buffered
<1>4. bytes = 1..Messages[m].len => Buffered(attempt, m, bytes, at).body = BodyIn(attempt, m)
  BY Zenon, <1>3 DEF BodyIn
<1> QED BY Zenon, <1>2, <1>4

\* What try_reassemble() makes of a fragment, in terms of the bytes that came.
LEMMA Reassembled ==
    ASSUME HrInv, NEW m \in DOMAIN Messages,
           NEW off \in 0..(Messages[m].len - 1), NEW len \in 1..(Messages[m].len - off)
    PROVE  LET t   == try_reassemble(Fragment(m, off, len))
               all == here[m].bytes \cup (off + 1)..(off + len)
           IN /\ len = Messages[m].len =>
                    t.bufs = bufs_ /\ t.body = BodyIn(attempt, m)
              /\ len # Messages[m].len /\ all = 1..Messages[m].len =>
                    t.bufs = Without(bufs_, {m}) /\ t.body = BodyIn(attempt, m)
              /\ len # Messages[m].len /\ all # 1..Messages[m].len =>
                    /\ t.result = "kFragmentBuffered"
                    /\ t.bufs = [k \in DOMAIN bufs_ \cup {m} |->
                                    IF k = m THEN Buffered(attempt, m, all, hsClock) ELSE bufs_[k]]
<1> DEFINE r == Fragment(m, off, len)
           t == try_reassemble(r)
           all == here[m].bytes \cup (off + 1)..(off + len)
           L == Messages[m].len
           old == IF m \in DOMAIN bufs_ THEN bufs_[m] ELSE FragmentBuf(r)
<1> HIDE DEF L
<1>1. L \in Nat /\ L >= 1 /\ L <= 16384 /\ off \in Nat /\ len \in Nat /\ off + len <= L /\ off < L /\ len >= 1
  <2>1. L \in Nat /\ L >= 1 /\ L <= 16384
    BY MessageLengths DEF MessageLengths, L
  <2>2. off \in 0..(L - 1) /\ len \in 1..(L - off)
    BY Zenon DEF L
  <2> QED BY <2>1, <2>2
<1>2. /\ r.msg_type = Messages[m].type /\ r.msg_len = L /\ r.msg_seq = m /\ r.frag_off = off
      /\ r.frag_len = len /\ r.epoch = 0 /\ r.size = 12 + len
      /\ r.data = [i \in 1..len |-> <<attempt, m, off + i>>]
  BY Zenon DEF Fragment, Byte, L
<1> HIDE DEF r
<1>3. sane(r)
  <2>1. L \in Nat /\ L >= 1 /\ L <= 16384 /\ off < L /\ len <= L /\ off + len <= L /\ 12 + len >= 12 + len
    BY <1>1
  <2> QED BY <1>2, <2>1 DEF sane
<1>4. unfragmented(r) <=> len = L
  BY <1>1, <1>2 DEF unfragmented
<1>5. m \in DOMAIN bufs_ => matches(bufs_[m], r)
  <2> SUFFICES ASSUME m \in DOMAIN bufs_ PROVE matches(bufs_[m], r)
    BY Zenon
  <2>1. bufs_[m] = Buffered(attempt, m, here[m].bytes, here[m].at)
    BY Zenon DEF HrInv
  <2>2. bufs_[m].msg_type = Messages[m].type /\ bufs_[m].total_length = L /\ bufs_[m].epoch = 0
    BY <2>1 DEF Buffered, L
  <2> QED BY Zenon, <1>2, <2>2 DEF matches
<1>6. \E bytes, at : old = Buffered(attempt, m, bytes, at) /\ bytes = here[m].bytes
  <2>1. CASE m \in DOMAIN bufs_
    BY Zenon, <2>1 DEF HrInv
  <2>2. CASE m \notin DOMAIN bufs_
    <3>1. old = Buffered(attempt, m, {}, hsClock)
      BY <2>2, <1>1, EmptyBuffer DEF r
    <3>2. here[m].bytes = {}
      BY Zenon, <2>2 DEF HrInv
    <3> QED BY Zenon, <3>1, <3>2
  <2> QED BY Zenon, <2>1, <2>2
<1>7. filled(old, r) = Buffered(attempt, m, all, hsClock)
  <2> PICK bytes, at : old = Buffered(attempt, m, bytes, at) /\ bytes = here[m].bytes
    BY Zenon, <1>6
  <2>1. off + len <= Messages[m].len
    BY SMTT(20), <1>1 DEF L
  <2>2. filled(Buffered(attempt, m, bytes, at), Fragment(m, off, len))
            = Buffered(attempt, m, bytes \cup (off + 1)..(off + len), hsClock)
    BY <1>1, <2>1, FilledBuffer
  <2> QED BY Zenon, <2>2 DEF r
<1>8. all \in SUBSET (1..L)
  <2>1. here[m].bytes \subseteq 1..L
    BY Zenon DEF HrInv, L
  <2>2. (off + 1)..(off + len) \subseteq 1..L
    BY <1>1
  <2> QED BY Zenon, <2>1, <2>2
<1>9. ASSUME len = L PROVE t.bufs = bufs_ /\ t.body = BodyIn(attempt, m)
  <2>1. off = 0
    BY <1>1, <1>9
  <2>2. r.data = BodyIn(attempt, m)
    <3>1. r.data = [i \in 1..L |-> <<attempt, m, off + i>>]
      BY Zenon, <1>2, <1>9
    <3>2. \A i \in 1..L : off + i = i
      BY <1>1, <2>1
    <3> QED BY Zenon, <3>1, <3>2 DEF BodyIn, L
  <2>3. t = [result |-> "kPassThrough", body |-> r.data, bufs |-> bufs_]
    BY Zenon, <1>4, <1>9 DEF try_reassemble
  <2> QED BY <2>2, <2>3
<1>10. ASSUME len # L
       PROVE  t = IF \A i \in DOMAIN filled(old, r).received : filled(old, r).received[i]
                  THEN [result |-> "kReassembled", body |-> filled(old, r).body,
                        bufs |-> Without(bufs_, {m})]
                  ELSE [result |-> "kFragmentBuffered", body |-> <<>>,
                        bufs |-> [k \in DOMAIN bufs_ \cup {m} |->
                                     IF k = m THEN filled(old, r) ELSE bufs_[k]]]
  <2>1. ~(unfragmented(r) \/ ~sane(r))
    BY Zenon, <1>3, <1>4, <1>10
  <2>2. ~(m \in DOMAIN bufs_ /\ ~matches(bufs_[m], r)) /\ r.size = 12 + r.frag_len
    BY Zenon, <1>2, <1>5
  <2> QED BY Zenon, <1>2, <2>1, <2>2 DEF try_reassemble
<1>11. ASSUME len # L, all = 1..L PROVE t.bufs = Without(bufs_, {m}) /\ t.body = BodyIn(attempt, m)
  <2> HIDE DEF all, old, t
  <2>1. \A i \in DOMAIN Buffered(attempt, m, all, hsClock).received : Buffered(attempt, m, all, hsClock).received[i]
    BY Zenon, <1>8, <1>11, CompleteBuffer DEF L
  <2>2. Buffered(attempt, m, all, hsClock).body = BodyIn(attempt, m)
    BY Zenon, <1>8, <1>11, CompleteBuffer DEF L
  <2>3. t = [result |-> "kReassembled", body |-> Buffered(attempt, m, all, hsClock).body,
             bufs |-> Without(bufs_, {m})]
    BY Zenon, <1>7, <1>10, <1>11, <2>1
  <2> QED BY Zenon, <2>2, <2>3
<1>12. ASSUME len # L, all # 1..L
       PROVE  /\ t.result = "kFragmentBuffered"
              /\ t.bufs = [k \in DOMAIN bufs_ \cup {m} |->
                              IF k = m THEN Buffered(attempt, m, all, hsClock) ELSE bufs_[k]]
  <2> HIDE DEF all, old, t
  <2>1. ~ \A i \in DOMAIN Buffered(attempt, m, all, hsClock).received : Buffered(attempt, m, all, hsClock).received[i]
    BY Zenon, <1>8, <1>12, CompleteBuffer DEF L
  <2>2. t = [result |-> "kFragmentBuffered", body |-> <<>>,
             bufs |-> [k \in DOMAIN bufs_ \cup {m} |->
                          IF k = m THEN Buffered(attempt, m, all, hsClock) ELSE bufs_[k]]]
    BY <1>7, <1>10, <1>12, <2>1
  <2> QED BY Zenon, <2>2
<1> QED BY Zenon, <1>9, <1>11, <1>12 DEF r, L

----------------------------------------------------------------------------
LEMMA HrInitial == HrInit => HrInv
<1> SUFFICES ASSUME HrInit PROVE HrInv
  BY Zenon
<1>1. DOMAIN bufs_ = {} /\ hsClock = 0 /\ here = [m \in DOMAIN Messages |-> Absent]
  BY DEF HrInit
<1>2. fed.result = "kFragmentBuffered"
  BY Zenon DEF HrInit, Nothing
<1>3. Absent \in [bytes : SUBSET Nat, at : Nat] /\ Absent.bytes = {}
  BY Zenon DEF Absent
<1>4. \A m \in DOMAIN Messages : {} # 1..Messages[m].len
  <2> SUFFICES ASSUME NEW m \in DOMAIN Messages PROVE 1 \in 1..Messages[m].len
    BY Zenon
  <2> QED BY MessageLengths DEF MessageLengths
<1> QED BY Zenon, <1>1, <1>2, <1>3, <1>4 DEF HrInv

LEMMA FeedKeeps ==
    ASSUME HrInv, NEW m \in DOMAIN Messages,
           NEW off \in 0..(Messages[m].len - 1), NEW len \in 1..(Messages[m].len - off),
           FeedFragment(m, off, len)
    PROVE  HrInv'
<1> DEFINE t == try_reassemble(Fragment(m, off, len))
           all == here[m].bytes \cup (off + 1)..(off + len)
           L == Messages[m].len
<1>1. /\ bufs_' = t.bufs /\ fed' = [result |-> t.result, seq |-> m, body |-> t.body]
      /\ here' = IF len = L THEN here
                 ELSE [here EXCEPT ![m] = IF all = 1..L THEN Absent ELSE [bytes |-> all, at |-> hsClock]]
      /\ hsClock' = hsClock /\ attempt' = attempt
  BY Zenon DEF FeedFragment
<1>2. /\ len = L => t.bufs = bufs_ /\ t.body = BodyIn(attempt, m)
      /\ len # L /\ all = 1..L => t.bufs = Without(bufs_, {m}) /\ t.body = BodyIn(attempt, m)
      /\ len # L /\ all # 1..L =>
            /\ t.result = "kFragmentBuffered"
            /\ t.bufs = [k \in DOMAIN bufs_ \cup {m} |->
                            IF k = m THEN Buffered(attempt, m, all, hsClock) ELSE bufs_[k]]
  BY Zenon, Reassembled
<1>5. all \subseteq 1..L /\ all \subseteq Nat
  <2>1. here[m].bytes \subseteq 1..L
    BY Zenon DEF HrInv
  <2>2. L \in Nat
    BY MessageLengths DEF MessageLengths
  <2> HIDE DEF L
  <2>3. off \in 0..(L - 1) /\ len \in 1..(L - off)
    BY Zenon DEF L
  <2>4. (off + 1)..(off + len) \subseteq 1..L /\ 1..L \subseteq Nat
    BY SMTT(20), <2>2, <2>3
  <2> QED BY Zenon, <2>1, <2>4
<1> HIDE DEF t, all, L
<1>6. fed'.result # "kFragmentBuffered" => fed'.body = BodyIn(attempt', fed'.seq)
  <2>1. fed'.result = t.result /\ fed'.body = t.body /\ fed'.seq = m
    BY Zenon, <1>1
  <2> QED BY Zenon, <1>1, <1>2, <2>1
<1>7. CASE len = L
  <2>1. bufs_' = bufs_ /\ here' = here
    BY Zenon, <1>1, <1>2, <1>7
  <2> QED BY Zenon, <1>1, <1>6, <2>1 DEF HrInv
<1>8. CASE len # L /\ all = 1..L
  <2>1. bufs_' = Without(bufs_, {m}) /\ here' = [here EXCEPT ![m] = Absent]
    BY <1>1, <1>2, <1>8
  <2>2. DOMAIN bufs_' = DOMAIN bufs_ \ {m} /\ \A k \in DOMAIN bufs_ \ {m} : bufs_'[k] = bufs_[k]
    BY Zenon, <2>1 DEF Without
  <2>3. Absent \in [bytes : SUBSET Nat, at : Nat] /\ Absent.bytes = {}
    BY Zenon DEF Absent
  <2>4. here' \in [DOMAIN Messages -> [bytes : SUBSET Nat, at : Nat]]
        /\ here'[m] = Absent /\ \A k \in DOMAIN Messages \ {m} : here'[k] = here[k]
    BY <2>1, <2>3 DEF HrInv
  <2>5. {} # 1..Messages[m].len
    <3>1. 1 \in 1..Messages[m].len
      BY SMTT(20), MessageLengths DEF MessageLengths
    <3> QED BY Zenon, <3>1
  <2> QED BY ZenonT(30), <1>1, <1>6, <2>2, <2>3, <2>4, <2>5 DEF HrInv
<1>9. CASE len # L /\ all # 1..L
  <2>1. bufs_' = [k \in DOMAIN bufs_ \cup {m} |-> IF k = m THEN Buffered(attempt, m, all, hsClock) ELSE bufs_[k]]
        /\ here' = [here EXCEPT ![m] = [bytes |-> all, at |-> hsClock]]
    BY <1>1, <1>2, <1>9
  <2>2. here' \in [DOMAIN Messages -> [bytes : SUBSET Nat, at : Nat]]
        /\ here'[m].bytes = all /\ here'[m].at = hsClock
        /\ \A k \in DOMAIN Messages \ {m} : here'[k] = here[k]
    BY Zenon, <1>5, <2>1 DEF HrInv
  <2>3. DOMAIN bufs_' = DOMAIN bufs_ \cup {m} /\ bufs_'[m] = Buffered(attempt, m, all, hsClock)
        /\ \A k \in DOMAIN bufs_ \ {m} : bufs_'[k] = bufs_[k]
    BY Zenon, <2>1
  <2>4. all \subseteq 1..Messages[m].len /\ all # 1..Messages[m].len
    BY Zenon, <1>5, <1>9 DEF L
  <2> QED BY ZenonT(30), <1>1, <1>6, <2>2, <2>3, <2>4 DEF HrInv
<1> QED BY Zenon, <1>7, <1>8, <1>9

LEMMA ExpiryKeeps == ASSUME HrInv, gc_expired PROVE HrInv'
<1> DEFINE old(at) == hsClock + 1 - at >= GcTtl
           gone == {m \in DOMAIN bufs_ : old(bufs_[m].last_seen)}
<1>1. /\ hsClock' = hsClock + 1 /\ attempt' = attempt /\ fed' = Nothing
      /\ bufs_' = Without(bufs_, gone)
      /\ here' = [m \in DOMAIN here |-> IF old(here[m].at) THEN Absent ELSE here[m]]
  BY Zenon DEF gc_expired
<1>2. \A m \in DOMAIN bufs_ : bufs_[m].last_seen = here[m].at
  <2>1. \A m \in DOMAIN bufs_ : bufs_[m] = Buffered(attempt, m, here[m].bytes, here[m].at)
    BY Zenon DEF HrInv
  <2> QED BY <2>1 DEF Buffered
<1>3. Absent \in [bytes : SUBSET Nat, at : Nat] /\ Absent.bytes = {}
  BY Zenon DEF Absent
<1>4. \A m \in DOMAIN Messages : {} # 1..Messages[m].len
  <2> SUFFICES ASSUME NEW m \in DOMAIN Messages PROVE 1 \in 1..Messages[m].len
    BY Zenon
  <2> QED BY MessageLengths DEF MessageLengths
<1>6. fed'.result = "kFragmentBuffered"
  BY Zenon, <1>1 DEF Nothing
<1> HIDE DEF old
<1>7. DOMAIN bufs_' = DOMAIN bufs_ \ gone /\ \A m \in DOMAIN bufs_ \ gone : bufs_'[m] = bufs_[m]
  BY Zenon, <1>1 DEF Without
<1>8. here' \in [DOMAIN Messages -> [bytes : SUBSET Nat, at : Nat]]
      /\ \A m \in DOMAIN Messages : here'[m] = IF old(here[m].at) THEN Absent ELSE here[m]
  BY Zenon, <1>1, <1>3 DEF HrInv
<1>9. \A m \in DOMAIN bufs_ : m \in gone <=> old(here[m].at)
  BY ZenonT(30), <1>2
<1> HIDE DEF gone
<1>10. hsClock' \in Nat
  BY <1>1 DEF HrInv
<1>11. \A m \in DOMAIN bufs_' : bufs_'[m] = Buffered(attempt', m, here'[m].bytes, here'[m].at)
  BY Zenon, <1>1, <1>7, <1>8, <1>9 DEF HrInv
<1>12. \A m \in DOMAIN Messages : m \notin DOMAIN bufs_' => here'[m].bytes = {}
  BY Zenon, <1>3, <1>7, <1>8, <1>9 DEF HrInv
<1>13. \A m \in DOMAIN Messages :
          here'[m].bytes \subseteq 1..Messages[m].len /\ here'[m].bytes # 1..Messages[m].len
  BY Zenon, <1>3, <1>4, <1>8 DEF HrInv
<1> QED BY Zenon, <1>6, <1>7, <1>8, <1>10, <1>11, <1>12, <1>13 DEF HrInv

LEMMA ClearKeeps == ASSUME HrInv, clear PROVE HrInv'
<1>1. /\ hsClock' = hsClock /\ fed' = Nothing /\ DOMAIN bufs_' = {}
      /\ here' = [m \in DOMAIN here |-> Absent]
  BY DEF clear
<1>2. Absent \in [bytes : SUBSET Nat, at : Nat] /\ Absent.bytes = {}
  BY Zenon DEF Absent
<1>3. \A m \in DOMAIN Messages : {} # 1..Messages[m].len
  <2> SUFFICES ASSUME NEW m \in DOMAIN Messages PROVE 1 \in 1..Messages[m].len
    BY Zenon
  <2> QED BY MessageLengths DEF MessageLengths
<1>4. fed'.result = "kFragmentBuffered"
  BY Zenon, <1>1 DEF Nothing
<1>5. here' \in [DOMAIN Messages -> [bytes : SUBSET Nat, at : Nat]]
      /\ \A m \in DOMAIN Messages : here'[m].bytes = {}
  BY Zenon, <1>1, <1>2 DEF HrInv
<1> QED BY Zenon, <1>1, <1>3, <1>4, <1>5 DEF HrInv

\* The invariant gives the property: a buffer has received what came.
LEMMA InvGivesExact == HrInv => ReassemblyExact
<1> SUFFICES ASSUME HrInv, NEW m \in DOMAIN Messages
             PROVE  {i \in 1..Messages[m].len : m \in DOMAIN bufs_ /\ bufs_[m].received[i]} = here[m].bytes
  BY Zenon DEF HrInv, ReassemblyExact, Body, BodyIn, Byte
<1>1. here[m].bytes \subseteq 1..Messages[m].len
  BY Zenon DEF HrInv
<1>2. CASE m \notin DOMAIN bufs_
  BY Zenon, <1>2 DEF HrInv
<1>3. CASE m \in DOMAIN bufs_
  <2>1. bufs_[m].received = [i \in 1..Messages[m].len |-> IF i \in here[m].bytes THEN TRUE ELSE FALSE]
    <3>1. bufs_[m] = Buffered(attempt, m, here[m].bytes, here[m].at)
      BY Zenon, <1>3 DEF HrInv
    <3> QED BY <3>1 DEF Buffered
  <2>2. \A i \in 1..Messages[m].len : bufs_[m].received[i] <=> i \in here[m].bytes
    BY Zenon, <2>1
  <2> QED BY Zenon, <1>1, <1>3, <2>2
<1> QED BY Zenon, <1>2, <1>3

(* What goes on to wolfSSL is a whole message of the current handshake, byte *)
(* for byte, and the reassembler holds exactly the bytes that came and are   *)
(* still short of a message, for any messages up to 16384 bytes, any way of  *)
(* cutting, repeating and reordering them, and any gc_ttl_                   *)
(* (DtlsHandshakeReassembler, try_reassemble(), gc_expired(), clear()).      *)
THEOREM ReassemblyIsExact == HrSpec => []ReassemblyExact
<1>1. HrInv /\ [HrNext]_hrVars => HrInv'
  <2> SUFFICES ASSUME HrInv, [HrNext]_hrVars PROVE HrInv'
    BY Zenon
  <2>1. ASSUME NEW m \in DOMAIN Messages, NEW off \in 0..(Messages[m].len - 1),
               NEW len \in 1..(Messages[m].len - off), FeedFragment(m, off, len)
        PROVE  HrInv'
    BY Zenon, <2>1, FeedKeeps
  <2>2. CASE gc_expired
    BY Zenon, <2>2, ExpiryKeeps
  <2>3. CASE clear
    BY Zenon, <2>3, ClearKeeps
  <2>4. CASE UNCHANGED hrVars
    BY Zenon, <2>4 DEF HrInv, hrVars
  <2> QED BY Zenon, <2>1, <2>2, <2>3, <2>4 DEF HrNext
<1> QED BY <1>1, HrInitial, InvGivesExact, PTL DEF HrSpec

-----------------------------------------------------------------------
(* The fields of the blocks are apart from one another.                    *)

LEMMA FieldFacts ==
    /\ {"jb_mode", "sc_strategy", "sc_impl", "bwe_impl", "bwe_min_kbps"} \subseteq Fields
    /\ TransportFields \subseteq Fields
    /\ TransportFields \cap {"jb_mode", "sc_strategy", "sc_impl", "bwe_impl", "bwe_min_kbps"} = {}
    /\ {"strategy", "tm_stack", "tc_enabled", "tc_reliability"} \cup OptionalNumbers \subseteq TransportFields
<1>1. /\ "jb_mode" \in JbFields /\ {"sc_strategy", "sc_impl"} \subseteq SchedulerFields
      /\ {"bwe_impl", "bwe_min_kbps"} \subseteq BweFields
    BY DEF JbFields, JitterBufferConfig, SchedulerFields, SchedulerConfig, BweFields, BweConfig
<1>2. /\ TransportFields \cap {"jb_mode", "sc_strategy", "sc_impl", "bwe_impl", "bwe_min_kbps"} = {}
      /\ {"strategy", "tm_stack", "tc_enabled", "tc_reliability"} \cup OptionalNumbers \subseteq TransportFields
    BY DEF TransportFields, TransportStackConfig, OptionalNumbers
<1>3. \A b \in Blocks : DOMAIN b \subseteq Fields
    BY Zenon DEF Fields
<1>4. JbFields \subseteq Fields /\ SchedulerFields \subseteq Fields /\ BweFields \subseteq Fields
      /\ TransportFields \subseteq Fields
    BY Zenon, <1>3 DEF Blocks, JbFields, SchedulerFields, BweFields, TransportFields
<1> QED BY Zenon, <1>1, <1>2, <1>4

\* The defaults of the fields that a document may leave out.
LEMMA DefaultFacts ==
    /\ \A k \in OptionalNumbers : Profile[k] = 0
    /\ Profile["strategy"] = "" /\ Profile["tc_reliability"] = "" /\ Profile["tm_stack"] = ""
    /\ Profile["tc_enabled"] = FALSE
<1>1. \A k \in TransportFields : /\ k \notin DOMAIN Implementations /\ k \notin DOMAIN AudioConfig
                                 /\ k \notin BweFields /\ k \notin JbFields /\ k \notin SchedulerFields
    BY DEF TransportStackConfig, BweConfig, Implementations, AudioConfig, JitterBufferConfig,
           SchedulerConfig, BweFields, JbFields, TransportFields, SchedulerFields
<1>2. \A k \in TransportFields : Profile[k] = TransportStackConfig[k]
    BY Zenon, <1>1 DEF Profile, Fields, Blocks, BweFields, JbFields, TransportFields, SchedulerFields
<1>3. /\ \A k \in OptionalNumbers : TransportStackConfig[k] = 0
      /\ TransportStackConfig["strategy"] = "" /\ TransportStackConfig["tc_reliability"] = ""
      /\ TransportStackConfig["tm_stack"] = "" /\ TransportStackConfig["tc_enabled"] = FALSE
    BY DEF TransportStackConfig, OptionalNumbers
<1> QED BY ZenonT(30), <1>2, <1>3, FieldFacts

\* The two enumerations of the default profile.
LEMMA DefaultEnums ==
    Profile["jb_mode"] = "kLowLatency" /\ Profile["sc_strategy"] = "kStrictPriority"
<1>1. /\ \A b \in {Implementations, AudioConfig, BweConfig, SchedulerConfig, TransportStackConfig} :
            "jb_mode" \notin DOMAIN b
      /\ \A b \in {Implementations, AudioConfig, BweConfig, JitterBufferConfig, TransportStackConfig} :
            "sc_strategy" \notin DOMAIN b
    BY SMTT(20) DEF TransportStackConfig, BweConfig, Implementations, AudioConfig, JitterBufferConfig,
           SchedulerConfig
<1>2. /\ "jb_mode" \in DOMAIN JitterBufferConfig /\ JitterBufferConfig["jb_mode"] = "kLowLatency"
      /\ "sc_strategy" \in DOMAIN SchedulerConfig /\ SchedulerConfig["sc_strategy"] = "kStrictPriority"
    BY DEF JitterBufferConfig, SchedulerConfig
<1>3. Profile["jb_mode"] = JitterBufferConfig["jb_mode"]
    BY Zenon, <1>1, <1>2, FieldFacts DEF Profile, Blocks
<1>4. Profile["sc_strategy"] = SchedulerConfig["sc_strategy"]
    BY Zenon, <1>1, <1>2, FieldFacts DEF Profile, Blocks
<1> QED BY ZenonT(30), <1>2, <1>3, <1>4

----------------------------------------------------------------------------
(* Saving and loading                                                      *)

\* The keys a document may lack: the one its schema does not know and those of
\* the transport block.
LEMMA Unwritten ==
    ASSUME NEW p
    PROVE  /\ Written(p) \subseteq Fields
           /\ {"jb_mode", "sc_strategy", "sc_impl", "bwe_impl"} \subseteq Written(p)
           /\ \A k \in Fields \ Written(p) : k = "bwe_min_kbps" \/ k \in TransportFields
           /\ "bwe_min_kbps" \notin Written(p)
<1>1. "bwe_min_kbps" \notin {"jb_mode", "sc_strategy", "sc_impl", "bwe_impl"}
    OBVIOUS
<1>2. OptionalNumbers \cup {"strategy", "tc_reliability"} \subseteq TransportFields
    BY Zenon, FieldFacts
<1>3. PICK cut : cut \subseteq TransportFields /\ Written(p) = (Fields \ {"bwe_min_kbps"}) \ cut
    BY Zenon, <1>2 DEF Written
<1> QED BY Zenon, <1>1, <1>3, FieldFacts

LEMMA StrategyNames ==
    /\ \A m \in Modes : string_to_jitter_buffer_mode(ModeName(m)) = m
    /\ \A s \in Strategies : string_to_scheduler_strategy(default_impl_for(s)) = s
    /\ \A s : default_impl_for(s) # ""
BY DEF Modes, Strategies, string_to_jitter_buffer_mode, ModeName, string_to_scheduler_strategy,
       default_impl_for

\* What becomes of each field.
LEMMA ReloadFields ==
    ASSUME NEW p, IsProfile(p)
    PROVE  /\ Reload(p) = [k \in Fields |-> Reload(p)[k]]
           /\ Reload(p)["jb_mode"] = p["jb_mode"] /\ Reload(p)["sc_strategy"] = p["sc_strategy"]
           /\ Reload(p)["sc_impl"] = resolve_scheduler_impl(p)
           /\ \A k \in Fields : k \notin {"jb_mode", "sc_strategy", "sc_impl"} =>
                 Reload(p)[k] = IF k \in Written(p) THEN p[k] ELSE Profile[k]
<1> DEFINE d == profile_to_json_string(p)
<1>1. /\ DOMAIN d = Written(p)
      /\ d["jb_mode"] = ModeName(p["jb_mode"]) /\ d["sc_strategy"] = default_impl_for(p["sc_strategy"])
      /\ d["sc_impl"] = resolve_scheduler_impl(p)
      /\ \A k \in Written(p) : k \notin {"jb_mode", "sc_strategy", "sc_impl"} => d[k] = p[k]
    BY Unwritten DEF profile_to_json_string
<1>2. resolve_scheduler_impl(p) # ""
    BY Zenon, StrategyNames DEF resolve_scheduler_impl
<1>3. Reload(p) = profile_from_json_file(d)
    BY Zenon DEF Reload
<1> HIDE DEF d
<1>4. Reload(p) = [k \in Fields |-> Reload(p)[k]]
    BY Zenon, <1>3 DEF profile_from_json_file
<1>0. p["jb_mode"] \in Modes /\ p["sc_strategy"] \in Strategies
    BY Zenon DEF IsProfile
<1>5. Reload(p)["jb_mode"] = p["jb_mode"]
    <2>1. Reload(p)["jb_mode"] = string_to_jitter_buffer_mode(d["jb_mode"])
        BY Zenon, <1>1, <1>3, Unwritten, FieldFacts DEF profile_from_json_file
    <2> QED BY Zenon, <1>0, <1>1, <2>1, StrategyNames
<1>6. Reload(p)["sc_strategy"] = p["sc_strategy"]
    <2>1. Reload(p)["sc_strategy"] = string_to_scheduler_strategy(d["sc_strategy"])
        BY Zenon, <1>1, <1>3, Unwritten, FieldFacts DEF profile_from_json_file
    <2> QED BY Zenon, <1>0, <1>1, <2>1, StrategyNames
<1>7. Reload(p)["sc_impl"] = resolve_scheduler_impl(p)
    BY ZenonT(30), <1>1, <1>2, <1>3, Unwritten, FieldFacts DEF profile_from_json_file
<1>8. ASSUME NEW k \in Fields, k \notin {"jb_mode", "sc_strategy", "sc_impl"}
      PROVE  Reload(p)[k] = IF k \in Written(p) THEN p[k] ELSE Profile[k]
    <2>1. Reload(p)[k] = IF k \in DOMAIN d THEN d[k]
                         ELSE IF BlockOf(k) \cap DOMAIN d # {} THEN JsonDefault[k] ELSE Profile[k]
        BY Zenon, <1>3, <1>8 DEF profile_from_json_file
    <2>2. JsonDefault[k] = Profile[k]
        <3>1. DOMAIN Profile = Fields
            BY Zenon DEF Profile
        <3> QED BY Zenon, <1>8, <3>1 DEF JsonDefault
    <2> QED BY <1>1, <1>8, <2>1, <2>2
<1> QED BY Zenon, <1>4, <1>5, <1>6, <1>7, <1>8

\* A profile that a document can hold comes back unchanged.
LEMMA RoundTrip ==
    ASSUME NEW p, IsProfile(p), Portable(p)
    PROVE  Reload(p) = p
<1>1. p["sc_impl"] = resolve_scheduler_impl(p)
    BY Zenon DEF Portable, resolve_scheduler_impl
<1>2. p["bwe_min_kbps"] = Profile["bwe_min_kbps"]
    BY Zenon DEF Portable
<1>3. ASSUME NEW k \in Fields, k \notin Written(p), k # "bwe_min_kbps" PROVE p[k] = Profile[k]
    <2>1. CASE p.strategy # "" \/ p.tm_stack # "" \/ p.tc_enabled
        BY Zenon, <1>3, <2>1, DefaultFacts DEF Written
    <2>2. CASE ~(p.strategy # "" \/ p.tm_stack # "" \/ p.tc_enabled)
        BY Zenon, <1>3, <2>2, Unwritten DEF Portable
    <2> QED BY Zenon, <2>1, <2>2
<1>4. \A k \in Fields : Reload(p)[k] = p[k]
    BY <1>1, <1>2, <1>3, ReloadFields
<1>5. p = [k \in Fields |-> p[k]]
    BY DEF IsProfile
<1> QED BY <1>4, <1>5, ReloadFields

\* What was loaded is a profile that a document can hold.
LEMMA ReloadPortable ==
    ASSUME NEW p, IsProfile(p)
    PROVE  IsProfile(Reload(p)) /\ Portable(Reload(p))
<1> DEFINE q == Reload(p)
<1>1. IsProfile(q)
    BY ReloadFields DEF IsProfile
<1>2. q["bwe_min_kbps"] = Profile["bwe_min_kbps"]
    BY ReloadFields, Unwritten, FieldFacts
<1>3. q["sc_impl"] # ""
    <2>1. resolve_scheduler_impl(p) # ""
        BY Zenon, StrategyNames DEF resolve_scheduler_impl
    <2> QED BY Zenon, <2>1, ReloadFields
<1>4. CASE p.strategy # "" \/ p.tm_stack # "" \/ p.tc_enabled
    <2>1. "tm_stack" \in Written(p) /\ "tc_enabled" \in Written(p)
          /\ (p.strategy # "" => "strategy" \in Written(p))
        BY Zenon, <1>4, FieldFacts DEF Written, OptionalNumbers
    <2>2. q["tm_stack"] = p["tm_stack"] /\ q["tc_enabled"] = p["tc_enabled"]
          /\ (p.strategy # "" => q["strategy"] = p["strategy"])
        BY Zenon, <2>1, FieldFacts, ReloadFields
    <2> QED BY Zenon, <1>1, <1>2, <1>3, <1>4, <2>2 DEF Portable
<1>5. CASE ~(p.strategy # "" \/ p.tm_stack # "" \/ p.tc_enabled)
    <2>1. \A k \in TransportFields : k \notin Written(p)
        BY Zenon, <1>5 DEF Written
    <2>2. \A k \in TransportFields : q[k] = Profile[k]
        BY <2>1, FieldFacts, ReloadFields
    <2> QED BY Zenon, <1>1, <1>2, <1>3, <2>2 DEF Portable
<1> QED BY Zenon, <1>4, <1>5

----------------------------------------------------------------------------
(* The theorem                                                             *)

\* Every profile there is, the builder's and the registered ones, is one.
AsmInv == IsProfile(profile_) /\ \A n \in DOMAIN profiles_ : IsProfile(profiles_[n])

LEMMA DefaultIsProfile == IsProfile(Profile)
<1>1. Profile = [k \in Fields |-> Profile[k]]
    BY DEF Profile
<1> QED BY Zenon, <1>1, DefaultEnums DEF IsProfile, Modes, Strategies

\* Assigning other fields keeps a profile one.
LEMMA EditKeeps ==
    ASSUME NEW p, IsProfile(p), NEW f, NEW v, f \notin {"jb_mode", "sc_strategy"}
    PROVE  IsProfile([p EXCEPT ![f] = v])
BY FieldFacts DEF IsProfile

\* The helpers that the built-in profiles are made with.
LEMMA TsKeeps ==
    ASSUME NEW p, IsProfile(p), NEW a, NEW b, NEW c PROVE IsProfile(ts(p, a, b, c))
BY Zenon, FieldFacts DEF ts, IsProfile
LEMMA ControlKeeps ==
    ASSUME NEW p, IsProfile(p), NEW a, NEW b PROVE IsProfile(ts_control(p, a, b))
BY Zenon, FieldFacts DEF ts_control, IsProfile
LEMMA BweKeeps ==
    ASSUME NEW p, IsProfile(p), NEW a, NEW b PROVE IsProfile(Bwe(p, a, b))
BY Zenon, FieldFacts DEF Bwe, IsProfile
LEMMA JbKeeps ==
    ASSUME NEW p, IsProfile(p), NEW a, NEW b, NEW c PROVE IsProfile(Jb(p, a, b, c))
BY Zenon, FieldFacts DEF Jb, IsProfile
LEMMA BareKeeps ==
    ASSUME NEW p, IsProfile(p) PROVE IsProfile(Bare(p))
BY Zenon, FieldFacts DEF Bare, IsProfile
LEMMA HelpersKeep ==
    /\ \A p, a, b, c : IsProfile(p) => IsProfile(ts(p, a, b, c))
    /\ \A p, a, b : IsProfile(p) => IsProfile(ts_control(p, a, b))
    /\ \A p, a, b : IsProfile(p) => IsProfile(Bwe(p, a, b))
    /\ \A p, a, b, c : IsProfile(p) => IsProfile(Jb(p, a, b, c))
    /\ \A p : IsProfile(p) => IsProfile(Bare(p))
    /\ \A p, a : IsProfile(p) => IsProfile([p EXCEPT !.tc_ttl = a])
BY Zenon, TsKeeps, ControlKeeps, BweKeeps, JbKeeps, BareKeeps, EditKeeps

LEMMA BuiltInsAreProfiles == \A p \in BuiltIns : IsProfile(p)
<1> USE DefaultIsProfile
<1>1. IsProfile(kProfileCall)
    <2>1. IsProfile([Profile EXCEPT !.name = "call"])
        BY FieldFacts DEF IsProfile
    <2> QED BY <2>1, HelpersKeep DEF kProfileCall, ts_browser_call
<1>2. IsProfile(kProfileLive)
    <2>1. IsProfile([Profile EXCEPT !.name = "live", !.sc_strategy = "kWeightedFair",
                             !.sc_impl = "weighted_fair", !.jb_mode = "kLive"])
        BY Zenon, FieldFacts DEF IsProfile, Modes, Strategies
    <2> QED BY <2>1, HelpersKeep DEF kProfileLive, ts_browser_call
<1>3. IsProfile(kProfileTransport)
    <2>1. IsProfile([Profile EXCEPT !.name = "transport", !.sc_enabled = FALSE])
        BY Zenon, FieldFacts DEF IsProfile
    <2> QED BY <2>1, HelpersKeep DEF kProfileTransport, ts_sfu_relay
<1>4. IsProfile(kProfileAgent)
    <2>1. IsProfile([Profile EXCEPT !.name = "agent", !.timeline_enabled = TRUE,
                                    !.datachannel_enabled = TRUE])
        BY Zenon, FieldFacts DEF IsProfile
    <2> QED BY <2>1, HelpersKeep DEF kProfileAgent, ts_agent_gateway
<1>5. IsProfile(kProfileTeleop)
    <2>1. IsProfile([Profile EXCEPT !.name = "teleop", !.audio3a_name = "", !.timeline_enabled = TRUE,
                               !.datachannel_enabled = TRUE, !.sc_control = 20])
        BY Zenon, FieldFacts DEF IsProfile
    <2> QED BY <2>1, HelpersKeep DEF kProfileTeleop, ts_teleop_ultra_low_latency
<1>6. IsProfile(kProfileRelay)
    <2>1. IsProfile([Profile EXCEPT !.name = "relay", !.sc_enabled = FALSE])
        BY Zenon, FieldFacts DEF IsProfile
    <2>2. IsProfile(ts_sfu_relay(Bare([Profile EXCEPT !.name = "relay", !.sc_enabled = FALSE])))
        BY ZenonT(30), <2>1, HelpersKeep DEF ts_sfu_relay
    <2> QED BY Zenon, <2>2, FieldFacts DEF kProfileRelay, IsProfile
<1>7. IsProfile(kProfileAgentGateway)
    BY <1>4, FieldFacts DEF kProfileAgentGateway, IsProfile
<1>8. IsProfile(kProfileRelayAgent)
    <2>1. IsProfile(Bare(Profile))
        BY Zenon, HelpersKeep
    <2>2. IsProfile([Bare(Profile) EXCEPT !.name = "relay-agent", !.audio3a_name = "webrtc_apm",
                          !.timeline_enabled = TRUE, !.datachannel_enabled = TRUE,
                          !.sc_control = 20])
        BY Zenon, <2>1, FieldFacts DEF IsProfile
    <2> QED BY <2>2, HelpersKeep DEF kProfileRelayAgent, ts_sfu_agent, ts_sfu_relay
<1>9. IsProfile(kProfileAgentLowLatency)
    <2>1. IsProfile([kProfileAgent EXCEPT !.name = "agent-low-latency"])
        BY <1>4, FieldFacts DEF IsProfile
    <2> QED BY <2>1, HelpersKeep DEF kProfileAgentLowLatency, ts_agent_gateway
<1> QED BY Zenon, <1>1, <1>2, <1>3, <1>4, <1>5, <1>6, <1>7, <1>8, <1>9 DEF BuiltIns

LEMMA LoadedIsProfile ==
    ASSUME NEW d
    PROVE  IsProfile(profile_from_json_file(d))
<1> DEFINE q == profile_from_json_file(d)
<1>1. q = [k \in Fields |-> q[k]]
    BY DEF profile_from_json_file
<1>2. q["jb_mode"] \in Modes
    BY FieldFacts DEF profile_from_json_file, string_to_jitter_buffer_mode, Modes
<1>3. q["sc_strategy"] \in Strategies
    BY FieldFacts DEF profile_from_json_file, string_to_scheduler_strategy, Strategies
<1> QED BY <1>1, <1>2, <1>3 DEF IsProfile

LEMMA AsmInvInit == AsmInit => AsmInv
<1> SUFFICES ASSUME AsmInit PROVE AsmInv
    OBVIOUS
<1>1. \A n \in DOMAIN profiles_ : \E p \in BuiltIns : profiles_[n] = p
    <2>1. TAKE n \in DOMAIN profiles_
    <2>2. n \in {p.name : p \in BuiltIns} /\ profiles_[n] = CHOOSE p \in BuiltIns : p.name = n
        BY <2>1 DEF AsmInit
    <2>3. \E p \in BuiltIns : p.name = n
        BY <2>2
    <2> QED BY Zenon, <2>2, <2>3
<1> QED BY Zenon, <1>1, BuiltInsAreProfiles, DefaultIsProfile DEF AsmInv, AsmInit

\* Registering a profile under its name.
LEMMA RegisterKeeps ==
    ASSUME AsmInv, NEW p, IsProfile(p), register_profile(p)
    PROVE  \A n \in DOMAIN profiles_' : IsProfile(profiles_'[n])
BY DEF AsmInv, register_profile

LEMMA AsmInvStep == AsmInv /\ [AsmNext]_asmAll => AsmInv'
<1> SUFFICES ASSUME AsmInv, [AsmNext]_asmAll PROVE AsmInv'
    OBVIOUS
<1>1. CASE RegisterUser
    <2>1. PICK p \in UserProfiles : register_profile(p)
        BY Zenon, <1>1 DEF RegisterUser
    <2>2. IsProfile(p)
        BY Zenon, ProfileAssumption DEF ProfileAssumption
    <2> QED BY Zenon, <1>1, <2>1, <2>2, RegisterKeeps DEF RegisterUser, AsmInv
<1>2. CASE load_profile
    <2>1. PICK n : profile_' = IF n \in DOMAIN profiles_ THEN profiles_[n] ELSE profile_
        BY Zenon, <1>2 DEF load_profile
    <2> QED BY <1>2, <2>1 DEF load_profile, AsmInv
<1>3. CASE override
    <2>1. PICK o \in Overrides :
              profile_' = [k \in Fields |-> IF k \in DOMAIN o THEN o[k] ELSE profile_[k]]
        BY Zenon, <1>3 DEF override
    <2>2. profile_'["jb_mode"] \in Modes /\ profile_'["sc_strategy"] \in Strategies
        BY SMTT(20), <2>1, ProfileAssumption, FieldFacts DEF ProfileAssumption, AsmInv, IsProfile
    <2>3. profile_' = [k \in Fields |-> profile_'[k]]
        BY <2>1
    <2>4. IsProfile(profile_)'
        BY Zenon, <2>2, <2>3 DEF IsProfile
    <2> QED BY Zenon, <1>3, <2>4 DEF override, AsmInv
<1>4. CASE save_profile
    BY Zenon, <1>4 DEF save_profile, AsmInv
<1>5. CASE load_file
    <2>1. PICK d \in files : register_profile(profile_from_json_file(d))
        BY Zenon, <1>5 DEF load_file
    <2> QED BY Zenon, <1>5, <2>1, LoadedIsProfile, RegisterKeeps DEF load_file, AsmInv
<1>6. CASE UNCHANGED asmAll
    BY Zenon, <1>6 DEF asmAll, AsmInv
<1> QED BY Zenon, <1>1, <1>2, <1>3, <1>4, <1>5, <1>6 DEF AsmNext

\* Whatever the application registers, loads and overrides, a profile that the
\* builder has made comes back from a file as it was saved when a document can
\* hold it, and a second round trip never changes what the first one left
\* (save_profile and load_file of assembly.cpp).
THEOREM ProfilesRoundTrip == AsmSpec => []SavedProfileLoads
<1>1. AsmInv => SavedProfileLoads
    BY Zenon, RoundTrip, ReloadPortable DEF AsmInv, SavedProfileLoads
<1> QED BY PTL, <1>1, AsmInvInit, AsmInvStep DEF AsmSpec
=============================================================================
