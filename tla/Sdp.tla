-------------------------------- MODULE Sdp --------------------------------
(***************************************************************************)
(* SDP as the engine reads and writes it: the munger, which turns a         *)
(* session description into lines, and the parser, which reads lines back.  *)
(* A line is its type letter, attribute name, words and number; layout and  *)
(* wording are left out.                                                    *)
(***************************************************************************)
EXTENDS Naturals, Sequences, FiniteSets, SequencesExt

MediaType == {"audio", "video", "application", "data", "text"}
Direction == {"sendrecv", "sendonly", "recvonly", "inactive"}

\* "" and <<>> stand for an absent value, fp for algorithm and value together.
MediaDescription ==
    [type |-> "audio", formats |-> <<>>, direction |-> "sendrecv", mid |-> "",
     ice_ufrag |-> "", ice_pwd |-> "", ice_options |-> "", fp |-> "", dtls_setup |-> "",
     rtcp_mux |-> FALSE, rtpmap |-> <<>>, extmap |-> <<>>, candidates |-> <<>>,
     extra_attrs |-> <<>>]
SessionDescription ==
    [sid |-> "", version |-> 0, bundle_mids |-> <<>>, ice_options |-> "", fp |-> "",
     dtls_setup |-> "", extra_attrs |-> <<>>, media |-> <<>>]
RtpMap(fmt, rate) == [fmt |-> fmt, rate |-> rate]
ExtMap(id, dir, uri) == [id |-> id, dir |-> dir, uri |-> uri]

Line(t, k, v, n) == [t |-> t, k |-> k, v |-> v, n |-> n]
Attr(k, v) == Line("a", k, <<v>>, 0)
AttrIf(k, v) == IF v = "" THEN <<>> ELSE <<Attr(k, v)>>
ForEach(seq, Op(_)) == [i \in DOMAIN seq |-> Op(seq[i])]

(***************************************************************************)
(* Munger                                                                   *)
(***************************************************************************)
\* An extra attribute is written name:value, or the name alone.  One that was
\* read from a line keeps the whole text as its name.
Extra(name, value) == [name |-> name, value |-> value]
ExtraLine(x) == Line("a", "extra", IF x.value = "" THEN <<x.name>> ELSE <<x.name, x.value>>, 0)
ExtLine(e) == Line("a", "extmap", IF e.dir = "sendrecv" THEN <<e.uri>> ELSE <<e.uri, e.dir>>, e.id)

emit_media_attrs(m) ==
    LET rtp(r) == Line("a", "rtpmap", <<r.fmt>>, r.rate)
        cand(c) == Attr("candidate", c)
        byId(e, f) == e.id < f.id
    IN  AttrIf("ice-ufrag", m.ice_ufrag) \o AttrIf("ice-pwd", m.ice_pwd)
        \o AttrIf("ice-options", m.ice_options) \o AttrIf("fingerprint", m.fp)
        \o AttrIf("setup", m.dtls_setup)
        \o (IF m.rtcp_mux THEN <<Attr("rtcp-mux", "")>> ELSE <<>>)
        \o AttrIf("mid", m.mid)
        \o (IF m.direction = "sendrecv" THEN <<>> ELSE <<Attr("direction", m.direction)>>)
        \o ForEach(m.rtpmap, rtp)
        \o ForEach(SortSeq(m.extmap, byId), ExtLine)
        \o ForEach(m.candidates, cand) \o ForEach(m.extra_attrs, ExtraLine)

to_sdp(d) ==
    LET block(m) == <<Line("m", m.type, m.formats, 9)>> \o emit_media_attrs(m)
    IN  <<Line("v", "", <<>>, 0), Line("o", IF d.sid = "" THEN "0" ELSE d.sid, <<>>, d.version),
          Line("s", "", <<>>, 0), Line("t", "", <<>>, 0)>>
        \o (IF d.bundle_mids = <<>> THEN <<>> ELSE <<Line("a", "group", d.bundle_mids, 0)>>)
        \o AttrIf("ice-options", d.ice_options) \o AttrIf("fingerprint", d.fp)
        \o AttrIf("setup", d.dtls_setup) \o ForEach(d.extra_attrs, ExtraLine)
        \o FlattenSeq(ForEach(d.media, block))

(***************************************************************************)
(* Parser: one line at a time into the session or the open media block      *)
(***************************************************************************)
Inherit(s, m) == IF m.fp = "" THEN [m EXCEPT !.fp = s.fp] ELSE m
Finalize(p) == IF p.open THEN [p.s EXCEPT !.media = Append(@, Inherit(p.s, p.m))] ELSE p.s

parse_origin(s, l) == [s EXCEPT !.sid = l.k, !.version = l.n]
parse_media_desc(l) == [MediaDescription EXCEPT !.type = l.k, !.formats = l.v]
\* Mutant: the clock rate after the slash is not read.
parse_rtpmap_NoRate(l) == RtpMap(l.v[1], 0)
parse_rtpmap(l) == RtpMap(l.v[1], l.n)
parse_extmap(l) == ExtMap(l.n, IF Len(l.v) = 2 THEN l.v[2] ELSE "sendrecv", l.v[1])

\* The prefix "ice-options:" is taken for one character longer than it is.
CutFirst(v) == IF v = "trickle" THEN "rickle" ELSE v
\* Everything up to the first blank is the name, the colon included.
Glued(l) == IF Len(l.v) = 1 THEN Extra(l.v[1], "") ELSE
            Extra(CASE l.v = <<"sctp-port", "5000">> -> "sctp-port:5000"
                    [] l.v = <<"sctp-port", "5001">> -> "sctp-port:5001"
                    [] OTHER -> "ssrc:1", "")

SessionAttr(s, l) ==
    LET extra(x) == [s EXCEPT !.extra_attrs = Append(@, x)]
    IN  CASE l.k \in {"ice-ufrag", "ice-pwd"} -> extra(Extra(l.k, l.v[1]))
          [] l.k \in {"rtcp-mux", "direction"} -> extra(Extra("a", l.v[1]))
          [] l.k = "ice-options" -> [s EXCEPT !.ice_options = CutFirst(l.v[1])]
          [] l.k = "fingerprint" -> [s EXCEPT !.fp = l.v[1]]
          [] l.k = "setup" -> [s EXCEPT !.dtls_setup = l.v[1]]
          [] l.k = "extra" -> extra(Glued(l))
          [] OTHER -> s

\* emplace() keeps the first rtpmap of a format.
MediaAttr(m, l) ==
    CASE l.k = "ice-ufrag" -> [m EXCEPT !.ice_ufrag = l.v[1]]
      [] l.k = "ice-pwd" -> [m EXCEPT !.ice_pwd = l.v[1]]
      [] l.k = "ice-options" -> [m EXCEPT !.ice_options = CutFirst(l.v[1])]
      [] l.k = "fingerprint" -> [m EXCEPT !.fp = l.v[1]]
      [] l.k = "setup" -> [m EXCEPT !.dtls_setup = l.v[1]]
      [] l.k = "rtcp-mux" -> [m EXCEPT !.rtcp_mux = TRUE]
      [] l.k = "direction" -> [m EXCEPT !.direction = l.v[1]]
      [] l.k = "mid" -> [m EXCEPT !.mid = l.v[1]]
      [] l.k = "candidate" -> [m EXCEPT !.candidates = Append(@, l.v[1])]
      [] l.k = "extmap" -> [m EXCEPT !.extmap = Append(@, parse_extmap(l))]
      [] l.k = "rtpmap" -> [m EXCEPT !.rtpmap = IF \E i \in DOMAIN @ : @[i].fmt = l.v[1]
                                                THEN @ ELSE Append(@, parse_rtpmap(l))]
      [] OTHER -> [m EXCEPT !.extra_attrs = Append(@, Glued(l))]

ParseLine(p, l) ==
    CASE l.t = "o" -> [p EXCEPT !.s = parse_origin(@, l)]
      [] l.t = "t" /\ ~p.open -> [p EXCEPT !.s.extra_attrs = Append(@, Extra("t", "0 0"))]
      [] l.t = "a" /\ l.k = "group" -> [p EXCEPT !.s.bundle_mids = @ \o l.v]
      [] l.t = "a" /\ l.k # "group" /\ p.open -> [p EXCEPT !.m = MediaAttr(@, l)]
      [] l.t = "a" /\ l.k # "group" /\ ~p.open -> [p EXCEPT !.s = SessionAttr(@, l)]
      [] l.t = "m" -> [s |-> Finalize(p), m |-> parse_media_desc(l), open |-> TRUE]
      [] OTHER -> p

ParseError == [SessionDescription EXCEPT !.sid = "error"]
\* One line without "<letter>=" refuses the text as a whole.
parse(lines) ==
    IF \E i \in DOMAIN lines : lines[i].t = "bad" THEN ParseError
    ELSE LET after[i \in 0..Len(lines)] ==
                 IF i = 0 THEN [s |-> SessionDescription, m |-> MediaDescription, open |-> FALSE]
                 ELSE ParseLine(after[i - 1], lines[i])
         IN  Finalize(after[Len(lines)])
=============================================================================
