--------------------------- MODULE MCEngineKeying ---------------------------
(***************************************************************************)
(* Setups for the signalling of two engines and for the keying of their     *)
(* media.  Init chooses one of the two; the other stands still.             *)
(***************************************************************************)
EXTENDS EngineKeying, EngineSignaling

VARIABLE phase
mcVars == <<phase, vars, sgVars>>

Both(x) == [p \in Roles |-> x]
Only(p, x, y) == [q \in Roles |-> IF q = p THEN x ELSE y]

\* A record is lost and nothing flaps; ICE flaps at one engine while either sends; ICE
\* flaps at both; a certificate is not the announced one; a later description swaps
\* the roles at one engine or at both; it announces another certificate, the right one
\* or one in another hash; wolfSSL fails.
Plain == [pin |-> Both("peer"), later |-> {}, faults |-> Both({}), sends |-> Both({}),
          flaps |-> Both(0), losses |-> 0]
Swap(p) == [to |-> p, role |-> Other(p), fp |-> "absent"]
Repin(p, fp) == [to |-> p, role |-> p, fp |-> fp]
MCSetups ==
    {[Plain EXCEPT !.sends = Both({"audio"}), !.losses = 1],
     [Plain EXCEPT !.flaps = Both(1)]}
    \cup {[Plain EXCEPT !.sends = Only("client", {"audio", "video"}, {}), !.flaps = Only("client", 1, 0)],
          [Plain EXCEPT !.sends = Only("client", {"video"}, {}), !.flaps = Only("server", 1, 0)]}
    \cup {[Plain EXCEPT !.pin = Only(p, "other", "peer"), !.sends = Only(p, {"audio"}, {}),
                        !.flaps = Only(p, 1, 0)] : p \in Roles}
    \cup {[Plain EXCEPT !.sends = Only(p, {"audio"}, {}), !.later = {Swap(p)}] : p \in Roles}
    \cup {[Plain EXCEPT !.sends = Only("client", {"audio"}, {}), !.later = {Swap(p) : p \in Roles}]}
    \cup {[Plain EXCEPT !.sends = Only(p, {"audio"}, {}), !.pin = Only(p, "other", "peer"),
                        !.later = {Repin(p, fp)}] :
            p \in Roles, fp \in {"other", "peer", "unsupported"}}
    \cup {[Plain EXCEPT !.faults = Only(p, {f}, {}), !.flaps = Only(p, IF f = "setup" THEN 1 ELSE 0, 0)] :
            p \in Roles, f \in Faults}

EngineConfig(u) ==
    [ufrag |-> u, pwd |-> "pwd", fp |-> "fp" \o u, timeline_enabled |-> TRUE, video |-> TRUE,
     sctp |-> TRUE, sctp_port |-> "5000", candidates |-> <<"c">>]
OneOffer == [cfg |-> [e \in Engines |-> EngineConfig(e)],
             offers |-> [e \in Engines |-> IF e = "a" THEN 1 ELSE 0],
             repeats |-> 1, losses |-> 1, closes |-> {}, foreign |-> {}, script |-> <<>>]
\* What another stack sends: text it cannot read, an offer whose fingerprint and
\* credentials stand in the session part, one that restarts ICE, one with a
\* fingerprint in another hash.
Garbage == [to |-> "a", lines |-> <<Line("bad", "", <<>>, 0)>>]
SessionLevel == [to |-> "a", lines |->
    <<Line("v", "", <<>>, 0), Line("o", "f1", <<>>, 1), Attr("fingerprint", "fpb"),
      Attr("ice-ufrag", "u1"), Attr("ice-pwd", "p1"), Line("m", "text", <<>>, 9),
      Line("m", "audio", <<"111", "0">>, 9), Line("a", "rtpmap", <<"111">>, 48000),
      Attr("direction", "sendonly"), Line("a", "extmap", <<kAbsSendTimeUri, "sendonly">>, 3)>>]
Restart == [to |-> "a", lines |->
    <<Line("o", "f1", <<>>, 2), Line("m", "audio", <<"111">>, 9), Attr("ice-ufrag", "u2"),
      Attr("ice-pwd", "p2"), Attr("fingerprint", "fpb"), Attr("setup", "passive")>>]
OtherHash == [to |-> "a", lines |->
    <<Line("o", "f1", <<>>, 3), Line("m", "audio", <<"111">>, 9), Attr("fingerprint", kOtherHash)>>]
\* One exchange, with an engine that closes or has no timeline; offers from both
\* ends; two offers from one; one exchange after another; another stack.
MCSgSetups ==
    { [OneOffer EXCEPT !.closes = {"b"}, !.cfg["b"].timeline_enabled = FALSE],
      [OneOffer EXCEPT !.offers = [e \in Engines |-> 1], !.cfg["b"].video = FALSE],
      [OneOffer EXCEPT !.offers["a"] = 2, !.cfg["a"].sctp_port = "5001"],
      [OneOffer EXCEPT !.offers = [e \in Engines |-> IF e = "a" THEN 2 ELSE 1], !.repeats = 0,
                       !.losses = 0],
      [OneOffer EXCEPT !.foreign = {"b"}, !.script = <<Garbage, SessionLevel, Restart, OtherHash>>] }
MCIds == <<"s1", "s2", "s3">>

MCInit ==
    /\ phase \in {"signaling", "keying"}
    /\ Init /\ SgInit
    /\ phase = "keying" => sgSetup = CHOOSE s \in SgSetups : TRUE
    /\ phase = "signaling" => setup = CHOOSE s \in Setups : TRUE
Keying == phase = "keying" /\ Next /\ UNCHANGED <<phase, sgVars>>
Signaling == phase = "signaling" /\ SgNext /\ UNCHANGED <<phase, vars>>
MCSpec == MCInit /\ [][Keying \/ Signaling]_mcVars /\ KeyingFairness

\* The state of signalling and of keying stays in its types.
MCTypeOK == TypeOK /\ SgTypeOK
=============================================================================
