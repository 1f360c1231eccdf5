---------------------------- MODULE VideoPipeline ----------------------------
(***************************************************************************)
(* The video pipeline end to end (src/modules/video_pipeline with          *)
(* video_payload and video_rtcp_feedback, and the engine's side of it in   *)
(* engine_media.cpp): the sender splits encoded frames into RTP payloads   *)
(* and keeps them for retransmission, the receiver follows the sequence    *)
(* numbers, puts FU-A fragments together and fills the jitter buffer, and  *)
(* its loss reports travel back as RTCP through the engine's pending       *)
(* report.                                                                 *)
(*                                                                         *)
(* The sender runs in one engine, the receiver in another; the link        *)
(* between them loses, repeats and reorders.  A NAL unit is its place in   *)
(* the stream and its size; a payload is the list of chunks it carries,    *)
(* a chunk being a NAL unit and the number of a fragment of it, 0 for the  *)
(* whole unit.  VpSeqSpace stands for 2^16 and VpBlpBits for the 16 bits   *)
(* of a NACK entry.  The jitter buffer is VideoJitterBuffer, abstracted    *)
(* here to which frames wait for a marker and when the timer forces them.  *)
(***************************************************************************)
EXTENDS Integers, Sequences, FiniteSets, SequencesExt

CONSTANTS
    VpSetups,     \* the streams and configurations a behaviour may start with
    VpSeqSpace,   \* number of RTP sequence numbers (2^16)
    VpBlpBits     \* width of NackEntry::blp (16)

VARIABLES
    vpSetup,   \* frames, configuration and bounds, fixed
    vs,        \* the sender: VideoSender, SenderAdapter, encoder request
    vr,        \* the receiver: VideoReceiver and its engine's pending report
    vlink,     \* RTP packets under way
    vback,     \* RTCP datagrams under way
    vhist      \* history, for the properties

vpVars == <<vpSetup, vs, vr, vlink, vback, vhist>>

Mtu == vpSetup.mtu

\* parse_annex_b, parse_length_prefixed: the NAL units of the f-th frame.
NalusOf(f) == [k \in DOMAIN vpSetup.frames[f].nalus |->
                  [id |-> <<f, k>>, size |-> vpSetup.frames[f].nalus[k]]]

----------------------------------------------------------------------------
(* The packetizer                                                          *)

VpPacket(ts, kind, chunks, start, end, marker) ==
    [seq |-> 0, ts |-> ts, kind |-> kind, chunks |-> chunks, start |-> start,
     end |-> end, marker |-> marker]

Oversized(n) == n.size > Mtu

\* build_fu_a over the body of one NAL unit, Mtu - 2 bytes at a time; the
\* marker is set on the last fragment of every unit.
Fragments(n, ts) ==
    LET c == (n.size - 1 + Mtu - 3) \div (Mtu - 2)
    IN  [k \in 1 .. c |-> VpPacket(ts, "fua", <<<<n.id, k>>>>, k = 1, k = c, k = c)]

\* The end of the STAP-A group that starts at i: two bytes of length and the
\* unit itself, as many as fit in Mtu - 1, none of them oversized.
GroupEnd(ns, i) ==
    LET used[k \in i - 1 .. Len(ns)] ==
            IF k = i - 1 THEN 0 ELSE used[k - 1] + 2 + ns[k].size
        fits(j) == \A k \in i .. j : ~Oversized(ns[k]) /\ used[k] <= Mtu - 1
    IN  CHOOSE j \in i - 1 .. Len(ns) :
            fits(j) /\ \A l \in j + 1 .. Len(ns) : ~fits(l)

\* The fragments of the oversized units only, as large_fragments holds them.
LargeFragments(ns, ts) ==
    LET big == SelectSeq(ns, Oversized)
    IN  [k \in DOMAIN big |-> Fragments(big[k], ts)]

\* emit_h264 indexes large_fragments, which has one entry per oversized
\* unit, with the unit's place in the frame: past its end the behaviour is
\* undefined.
IndexedPastEnd(ns) ==
    \E i \in DOMAIN ns : Oversized(ns[i]) /\ i > Len(SelectSeq(ns, Oversized))

\* One frame's payloads in the order of their units.  A unit too long for a
\* STAP-A of its own and not longer than the MTU is in no group.
emit_h264(ns, ts) ==
    LET large == LargeFragments(ns, ts)
        from[i \in 1 .. Len(ns) + 1] ==
            IF i > Len(ns) THEN <<>>
            ELSE IF Oversized(ns[i]) THEN large[i] \o from[i + 1]
            ELSE LET j == GroupEnd(ns, i)
                     chunks == [k \in 1 .. j - i + 1 |-> <<ns[i + k - 1].id, 0>>]
                 IN  IF j = i - 1 THEN from[i + 1]
                     ELSE <<VpPacket(ts, IF j = i THEN "single" ELSE "stap", chunks,
                                     FALSE, FALSE, TRUE)>> \o from[j + 1]
    IN  from[1]

\* VP8 and VP9: one packet per frame.
emit_simple(ns, ts) ==
    <<VpPacket(ts, "single", [k \in DOMAIN ns |-> <<ns[k].id, 0>>], FALSE, FALSE, TRUE)>>

----------------------------------------------------------------------------
(* The sender                                                              *)

EmptySlot == [seq |-> 0, filled |-> FALSE, pkt |-> VpPacket(0, "none", <<>>, FALSE, FALSE, FALSE)]

\* cache_packet: the ring slot at the head takes the packet.
cache_packet(s, p) ==
    IF vpSetup.cache = 0 THEN s
    ELSE [s EXCEPT !.cache[s.head + 1] = [seq |-> p.seq, filled |-> TRUE, pkt |-> p],
                   !.head = (@ + 1) % vpSetup.cache]

\* emit: the payloads get consecutive sequence numbers.
Numbered(s, ps) ==
    [k \in DOMAIN ps |-> [ps[k] EXCEPT !.seq = (s.next_seq + k - 1) % VpSeqSpace]]

\* The sender after emitting the numbered packets.
Emitted(s, ps) ==
    LET after[k \in 0 .. Len(ps)] ==
            IF k = 0 THEN s
            ELSE [cache_packet(after[k - 1], ps[k]) EXCEPT
                     !.next_seq = (ps[k].seq + 1) % VpSeqSpace]
    IN  after[Len(ps)]

\* Mutant: slots that were never filled are searched too.
find_cached_Unfilled(s, seq) == {k \in DOMAIN s.cache : s.cache[k].seq = seq}

\* The slots that hold the packet with this sequence number.
find_cached(s, seq) == {k \in DOMAIN s.cache : s.cache[k].filled /\ s.cache[k].seq = seq}

\* The packet retransmit(seq) hands to the packet callback, if any.
retransmit(s, seq) ==
    LET at == find_cached(s, seq)
    IN  IF at = {} THEN <<>>
        ELSE <<s.cache[CHOOSE k \in at : \A l \in at : k <= l].pkt>>

\* send_video: encode, push_frame, packetize, number, cache and send.  The
\* frame answers the encoder's request and consumes the pending key-frame
\* marker.  A frame whose units index large_fragments past its end leaves the
\* program undefined.
push_frame ==
    LET f  == vhist.pushed + 1
        ns == NalusOf(f)
        ts == vpSetup.frames[f].ts
        ps == Numbered(vs, IF vpSetup.codec = "h264" THEN emit_h264(ns, ts)
                           ELSE emit_simple(ns, ts))
    IN  /\ vs.open /\ ~vhist.undefined /\ f <= Len(vpSetup.frames)
        /\ \/ /\ vpSetup.codec = "h264" /\ IndexedPastEnd(ns)
              /\ vhist' = [vhist EXCEPT !.undefined = TRUE]
              /\ UNCHANGED <<vs, vlink>>
           \/ /\ ~(vpSetup.codec = "h264" /\ IndexedPastEnd(ns))
              /\ vs' = [Emitted(vs, ps) EXCEPT !.keyframe_pending = FALSE, !.forced = FALSE]
              /\ vlink' = vlink \o ps
              /\ vhist' = [vhist EXCEPT
                    !.pushed = f,
                    !.of = [s \in DOMAIN @ \union {ps[k].seq : k \in DOMAIN ps} |->
                               IF \E k \in DOMAIN ps : ps[k].seq = s
                               THEN ps[CHOOSE k \in DOMAIN ps : ps[k].seq = s]
                               ELSE @[s]]]
        /\ UNCHANGED <<vpSetup, vr, vback>>

----------------------------------------------------------------------------
(* RTCP feedback                                                           *)

\* A NACK entry: a packet id and the offsets set in its bit mask.  Sorted by
\* the distance from the first number of the list, which is only folded when
\* it exceeds half the space.
pack_nack_entries(seqs) ==
    LET raw(s) == s - seqs[1]
        dist(s) == IF raw(s) >= VpSeqSpace \div 2 THEN raw(s) - VpSeqSpace ELSE raw(s)
        ds == SetToSortSeq({dist(seqs[k]) : k \in DOMAIN seqs}, LAMBDA a, b : a < b)
        from[i \in 1 .. Len(ds) + 1] ==
            IF i > Len(ds) THEN <<>>
            ELSE LET in == {k \in i + 1 .. Len(ds) : ds[k] - ds[i] <= VpBlpBits}
                 IN  <<[pid |-> (seqs[1] + ds[i]) % VpSeqSpace,
                        blp |-> {ds[k] - ds[i] : k \in in}]>>
                     \o from[i + 1 + Cardinality(in)]
    IN  IF seqs = <<>> THEN <<>> ELSE from[1]

\* The sequence numbers an entry list asks for, in wire order.
unpack_nack_entries(es) ==
    LET one(e) == <<e.pid>> \o [k \in 1 .. Cardinality(e.blp) |->
            (e.pid + SetToSortSeq(e.blp, LAMBDA a, b : a < b)[k]) % VpSeqSpace]
        from[i \in 1 .. Len(es) + 1] ==
            IF i > Len(es) THEN <<>> ELSE one(es[i]) \o from[i + 1]
    IN  from[1]

\* The sub-packets of an RTCP datagram, as built and as parsed: key-frame
\* requests, loss reports, reports of no interest here, and those whose
\* header, length or contents the parser refuses.
RtcpPart(kind) == [kind |-> kind, entries |-> <<>>, lost |-> {}]
PliPart == RtcpPart("pli")
FirPart == RtcpPart("fir")
OtherPart == RtcpPart("other")
MalformedPart == RtcpPart("malformed")
NackPart(seqs) ==
    [kind |-> "nack", entries |-> pack_nack_entries(seqs), lost |-> ToSet(seqs)]

\* build_feedback_rtcp: the NACK first, then the PLI.
build_feedback_rtcp(fb) ==
    (IF fb.missing = <<>> THEN <<>> ELSE <<NackPart(fb.missing)>>)
    \o (IF fb.key THEN <<PliPart>> ELSE <<>>)

\* The sub-packets of a datagram apply_feedback_rtcp gets to: it stops at
\* the first whose header, length or contents it refuses.
Reached(c) ==
    LET bad == {k \in DOMAIN c : c[k].kind = "malformed"}
    IN  IF bad = {} THEN c ELSE SubSeq(c, 1, (CHOOSE k \in bad : \A l \in bad : k <= l) - 1)

\* The number of key-frame requests among them, PLI or FIR.
KeyRequests(c) == Cardinality({k \in DOMAIN c : c[k].kind \in {"pli", "fir"}})

\* The packets retransmitted for the NACKs among them.
Resent(s, c) ==
    LET seqs[i \in 1 .. Len(c) + 1] ==
            IF i > Len(c) THEN <<>>
            ELSE (IF c[i].kind = "nack" THEN unpack_nack_entries(c[i].entries) ELSE <<>>)
                 \o seqs[i + 1]
        asked == seqs[1]
        from[k \in 1 .. Len(asked) + 1] ==
            IF k > Len(asked) THEN <<>> ELSE retransmit(s, asked[k]) \o from[k + 1]
    IN  from[1]

\* SenderAdapter::apply_feedback_rtcp and the engine's handle_rtcp: a request
\* met before a malformed sub-packet counts, whatever the call returns, and
\* the engine forwards it to the encoder at once.
apply_feedback(s, c) ==
    [s EXCEPT !.keyframe_pending = @ \/ KeyRequests(Reached(c)) > 0,
              !.forced = @ \/ KeyRequests(Reached(c)) > 0]

handle_rtcp(i) ==
    LET c == vback[i]
    IN  /\ ~vhist.undefined
        /\ vback' = RemoveAt(vback, i)
        /\ IF vs.open
           THEN /\ vs' = apply_feedback(vs, c)
                /\ vlink' = vlink \o Resent(vs, Reached(c))
                /\ vhist' = [vhist EXCEPT !.resent = @ + Len(Resent(vs, Reached(c)))]
           ELSE UNCHANGED <<vs, vlink, vhist>>
        /\ Len(Resent(vs, Reached(c))) + vhist.resent <= vpSetup.max_resent
        /\ UNCHANGED <<vpSetup, vr>>

----------------------------------------------------------------------------
(* The receiver                                                            *)

vp_seq_delta(newer, older) ==
    LET d == (newer - older) % VpSeqSpace IN IF d >= VpSeqSpace \div 2 THEN d - VpSeqSpace ELSE d

\* Mutant: the newer report replaces the pending one.
Queued_Replaces(fb, missing, key) == [missing |-> missing, key |-> key]

\* queue_video_feedback: merge the report into the pending one.
Queued(fb, missing, key) ==
    [missing |-> fb.missing \o missing, key |-> fb.key \/ key]

\* The adapter passes a report on only if it says something.
install_feedback_bridge(fb, missing, key) ==
    IF missing = <<>> /\ ~key THEN fb ELSE Queued(fb, missing, key)

\* The numbers skipped between the highest one and seq.
Gap(r, seq) ==
    LET d == vp_seq_delta(seq, r.highest)
    IN  IF ~r.seq_initialised \/ d <= 1 THEN <<>>
        ELSE [k \in 1 .. d - 1 |-> (r.expected_next + k - 1) % VpSeqSpace]

\* A number that is not newer than the highest one changes nothing; a gap is
\* reported once, through the NACK list and through the feedback callback.
track_seq(r, seq) ==
    IF r.seq_initialised /\ vp_seq_delta(seq, r.highest) <= 0 THEN r
    ELSE [r EXCEPT !.seq_initialised = TRUE, !.highest = seq,
                   !.expected_next = (seq + 1) % VpSeqSpace,
                   !.pending_nacks = @ \o Gap(r, seq),
                   !.fb = install_feedback_bridge(@, Gap(r, seq), FALSE)]

NoFua == [on |-> FALSE, ts |-> 0, seq |-> 0, buf |-> <<>>]
NoBucket == [marker |-> FALSE, fu |-> FALSE]

\* The jitter buffer's insert(): the chunks join the frame of the timestamp;
\* fragments given to it raw keep the frame incomplete up to their end.
jb_insert(r, p, chunks) ==
    LET old == IF p.ts \in DOMAIN r.jb THEN r.jb[p.ts] ELSE NoBucket
        new == [marker |-> old.marker \/ p.marker,
                fu |-> IF p.kind # "fua" \/ vpSetup.expect_fu_a THEN old.fu
                       ELSE IF p.start THEN TRUE ELSE IF p.end THEN FALSE ELSE old.fu]
    IN  [r EXCEPT !.jb = [ts \in DOMAIN @ \union {p.ts} |-> IF ts = p.ts THEN new ELSE @[ts]],
                  !.got = @ \o chunks]

\* FU-A: a start fragment begins anew, a stray one is dropped, the end one
\* flushes the unit under the number and timestamp of the start.
handle_fua(r, p) ==
    LET begun == IF p.start THEN [on |-> TRUE, ts |-> p.ts, seq |-> r.highest, buf |-> <<>>]
                 ELSE r.fua
        fed == [begun EXCEPT !.buf = @ \o p.chunks]
    IN  IF ~begun.on THEN r
        ELSE IF ~p.end THEN [r EXCEPT !.fua = fed]
        ELSE [jb_insert(r, [p EXCEPT !.ts = fed.ts], fed.buf) EXCEPT
                 !.fua = [fed EXCEPT !.on = FALSE, !.buf = <<>>]]

\* The depacketizer: FU-A when the receiver reassembles, otherwise the whole
\* payload, a STAP-A with its units one after the other.
handle_payload(r, p) ==
    IF vpSetup.codec = "h264" /\ p.kind = "fua" /\ vpSetup.expect_fu_a
    THEN handle_fua(r, p)
    ELSE jb_insert(r, p, p.chunks)

\* drain_frames after the timer forced the frames of `late' out: every frame
\* complete or forced leaves; a forced one without its marker asks for a key
\* frame.
drain_frames(r, late) ==
    LET done == {ts \in DOMAIN r.jb : r.jb[ts].marker /\ ~r.jb[ts].fu}
        lost == {ts \in late : ~r.jb[ts].marker}
    IN  [r EXCEPT !.jb = [ts \in DOMAIN @ \ (done \union late) |-> @[ts]],
                  !.fb = install_feedback_bridge(@, <<>>, lost # {}),
                  !.keyed = @ \/ lost # {}]

\* The engine's handle_rtp for the video payload type: push_rtp, then tick.
push_rtp(i) ==
    LET p == vlink[i]
        tracked == track_seq(vr, p.seq)
        fed == handle_payload(tracked, p)
    IN  /\ ~vhist.undefined
        /\ vlink' = RemoveAt(vlink, i)
        /\ IF ~vr.open THEN UNCHANGED <<vr, vhist>>
           ELSE /\ \E late \in SUBSET {ts \in DOMAIN fed.jb : ~(fed.jb[ts].marker /\ ~fed.jb[ts].fu)} :
                      vr' = drain_frames(fed, late)
                /\ vhist' = [vhist EXCEPT
                      !.arrived = @ \union {p.seq},
                      !.reported = @ \o SubSeq(tracked.fb.missing, Len(vr.fb.missing) + 1,
                                               Len(tracked.fb.missing)),
                      !.wrong = @ \/ \E s \in ToSet(tracked.fb.missing) \ ToSet(vr.fb.missing) :
                                        s \in vhist.arrived \union {p.seq},
                      !.disturbed = @ \/ i # 1]
        /\ UNCHANGED <<vpSetup, vs, vback>>

NoReport == [missing |-> <<>>, key |-> FALSE]

\* tick() of the receiving engine: flush_video_feedback takes the report out
\* before it looks at the receiver, at ICE and at the SRTCP session, builds it
\* and sends it.  Where one of them fails the report is gone (`sent' FALSE); a
\* closed receiver builds none.
flush_video_feedback(sent) ==
    /\ vr.fb # NoReport /\ ~vhist.undefined
    /\ sent => vr.open
    /\ vr' = [vr EXCEPT !.fb = NoReport, !.keyed = FALSE]
    /\ vback' = IF sent THEN Append(vback, build_feedback_rtcp(vr.fb)) ELSE vback
    /\ vhist' = [vhist EXCEPT !.taken = @ \o vr.fb.missing,
                              !.keyLost = @ \/ (vr.keyed /\ ~vr.fb.key)]
    /\ UNCHANGED <<vpSetup, vs, vlink>>

\* vp_pop_nack_entries: the host drains the receiver's own list.
vp_pop_nack_entries ==
    /\ vr.open /\ vr.pending_nacks # <<>> /\ vpSetup.closes /\ ~vhist.undefined
    /\ vr' = [vr EXCEPT !.pending_nacks = <<>>]
    /\ UNCHANGED <<vpSetup, vs, vlink, vback, vhist>>

\* The adapters' close(): the concrete objects go, later calls do nothing.
CloseReceiver ==
    /\ vr.open /\ vpSetup.closes /\ ~vhist.undefined
    /\ vr' = [vr EXCEPT !.open = FALSE, !.jb = [ts \in {} |-> NoBucket], !.fua = NoFua,
                        !.pending_nacks = <<>>]
    /\ UNCHANGED <<vpSetup, vs, vlink, vback, vhist>>

CloseSender ==
    /\ vs.open /\ vpSetup.closes /\ ~vhist.undefined
    /\ vs' = [vs EXCEPT !.open = FALSE, !.cache = [k \in DOMAIN @ |-> EmptySlot]]
    /\ UNCHANGED <<vpSetup, vr, vlink, vback, vhist>>

\* VideoReceiver::reset().
reset_receiver ==
    /\ vr.open /\ vpSetup.resets /\ ~vhist.undefined /\ vr.seq_initialised
    /\ vr' = [vr EXCEPT !.seq_initialised = FALSE, !.highest = 0, !.expected_next = 0,
                        !.pending_nacks = <<>>, !.fua = [@ EXCEPT !.on = FALSE, !.buf = <<>>],
                        !.jb = [ts \in {} |-> NoBucket]]
    /\ vhist' = [vhist EXCEPT !.arrived = {}, !.disturbed = TRUE]
    /\ UNCHANGED <<vpSetup, vs, vlink, vback>>

----------------------------------------------------------------------------
(* The link                                                                *)

VpLose(i) ==
    /\ ~vhist.undefined
    /\ vlink' = RemoveAt(vlink, i)
    /\ vhist' = [vhist EXCEPT !.disturbed = TRUE]
    /\ UNCHANGED <<vpSetup, vs, vr, vback>>

VpRepeat(i) ==
    /\ vhist.repeats < vpSetup.repeats /\ ~vhist.undefined
    /\ vlink' = Append(vlink, vlink[i])
    /\ vhist' = [vhist EXCEPT !.disturbed = TRUE, !.repeats = @ + 1]
    /\ UNCHANGED <<vpSetup, vs, vr, vback>>

\* A datagram of another sender's RTCP: reports, FIR, malformed parts.
VpForeign(c) ==
    /\ vhist.foreign < 1 /\ ~vhist.undefined
    /\ vback' = Append(vback, c)
    /\ vhist' = [vhist EXCEPT !.foreign = @ + 1]
    /\ UNCHANGED <<vpSetup, vs, vr, vlink>>

----------------------------------------------------------------------------
VpInit ==
    /\ vpSetup \in VpSetups
    /\ vs = [open |-> TRUE, next_seq |-> vpSetup.initial_seq, keyframe_pending |-> FALSE,
             cache |-> [k \in 1 .. vpSetup.cache |-> EmptySlot], head |-> 0, forced |-> FALSE]
    /\ vr = [open |-> TRUE, seq_initialised |-> FALSE, highest |-> 0, expected_next |-> 0,
             pending_nacks |-> <<>>, fua |-> NoFua, jb |-> [ts \in {} |-> NoBucket],
             got |-> <<>>, fb |-> NoReport, keyed |-> FALSE]
    /\ vlink = <<>>
    /\ vback = <<>>
    /\ vhist = [pushed |-> 0, undefined |-> FALSE, of |-> [s \in {} |-> EmptySlot.pkt],
                resent |-> 0, repeats |-> 0, foreign |-> 0, arrived |-> {},
                reported |-> <<>>, taken |-> <<>>, wrong |-> FALSE, keyLost |-> FALSE,
                disturbed |-> FALSE]

VpNext ==
    \/ push_frame
    \/ \E i \in DOMAIN vlink : push_rtp(i) \/ VpLose(i) \/ VpRepeat(i)
    \/ \E i \in DOMAIN vback : handle_rtcp(i)
    \/ \E sent \in BOOLEAN : flush_video_feedback(sent)
    \/ \E c \in vpSetup.foreign : VpForeign(c)
    \/ vp_pop_nack_entries \/ reset_receiver
    \/ CloseReceiver \/ CloseSender

----------------------------------------------------------------------------
(* Properties                                                              *)

VpTypeOK ==
    /\ vs.next_seq \in 0 .. VpSeqSpace - 1
    /\ vs.head \in 0 .. (IF vpSetup.cache = 0 THEN 0 ELSE vpSetup.cache - 1)
    /\ vr.highest \in 0 .. VpSeqSpace - 1 /\ vr.expected_next \in 0 .. VpSeqSpace - 1
    /\ \A k \in DOMAIN vr.pending_nacks : vr.pending_nacks[k] \in 0 .. VpSeqSpace - 1
    /\ vhist.pushed \in 0 .. Len(vpSetup.frames)

\* A unit the packetizer leaves out: too long for a STAP-A of its own, and
\* not long enough to be fragmented.
LeftOut(n) == ~Oversized(n) /\ 2 + n.size > Mtu - 1

\* What the receiver should hand to the jitter buffer for the f-th frame.
ExpectedChunks(f) ==
    LET ns == NalusOf(f)
        of(n) == IF vpSetup.codec # "h264" THEN <<<<n.id, 0>>>>
                 ELSE IF LeftOut(n) THEN <<>>
                 ELSE IF ~Oversized(n) THEN <<<<n.id, 0>>>>
                 ELSE [k \in 1 .. Cardinality({b \in 1 .. n.size - 1 : (b - 1) % (Mtu - 2) = 0})
                          |-> <<n.id, k>>]
        from[k \in 1 .. Len(ns) + 1] == IF k > Len(ns) THEN <<>> ELSE of(ns[k]) \o from[k + 1]
    IN  from[1]

\* The oversized units of the frame come before all others.
LargeFirst(f) ==
    LET ns == NalusOf(f)
    IN  \A i, j \in DOMAIN ns : i < j /\ Oversized(ns[j]) => Oversized(ns[i])

\* Over a link that delivers everything once and in order, the receiver has
\* given the jitter buffer, or holds in reassembly, a prefix of the units
\* that were sent, fragment for fragment and nothing twice, and all of them
\* once the link is empty.  (emit_h264 against handle_payload, for frames
\* whose oversized units come first.)
InOrderFaithful ==
    LET from[f \in 1 .. vhist.pushed + 1] ==
            IF f > vhist.pushed THEN <<>> ELSE ExpectedChunks(f) \o from[f + 1]
        held == vr.got \o vr.fua.buf
    IN  ~vhist.disturbed /\ vhist.resent = 0 /\ vr.open
        /\ (\A f \in 1 .. vhist.pushed : vpSetup.codec = "h264" => LargeFirst(f)) =>
            /\ IsPrefix(held, from[1])
            /\ vlink = <<>> => held = from[1]

\* Every packet on the wire is the one its sequence number was given to:
\* a retransmission repeats number, timestamp, marker and payload.
RetransmitExact ==
    \A i \in DOMAIN vlink :
        /\ vlink[i].seq \in DOMAIN vhist.of
        /\ vlink[i] = vhist.of[vlink[i].seq]

\* What is on the wire, and what the receiver makes of it, is what was sent: an
\* undisturbed link delivers the units fragment for fragment, and a
\* retransmission repeats its packet exactly (emit_h264, push_rtp, retransmit).
SentUnchanged == InOrderFaithful /\ RetransmitExact

\* Reports are merged without loss on the receiving side.  Every number the
\* tracker found missing had not arrived and is in exactly one report, in
\* order: the pending one or one flush_video_feedback took out.  A key-frame request is never merged away
\* before its report is taken out.  A NACK on the wire asks for exactly the
\* numbers of its report.  A report taken out and not sent is dropped whole; its
\* losses are not reported again (track_seq, queue_video_feedback,
\* flush_video_feedback, build_feedback_rtcp).
FeedbackMerged ==
    /\ ~vhist.wrong
    /\ vhist.reported = vhist.taken \o vr.fb.missing
    /\ ~vhist.keyLost /\ (vr.keyed => vr.fb.key)
    /\ \A i \in DOMAIN vback : \A k \in DOMAIN vback[i] :
          vback[i][k].kind = "nack" =>
              LET asked == unpack_nack_entries(vback[i][k].entries)
              IN  ToSet(asked) = vback[i][k].lost /\ Len(asked) = Cardinality(vback[i][k].lost)

\* Every NAL unit of a frame that push_frame accepted is in some packet.
EveryNaluSent ==
    vhist.undefined = FALSE /\
    \A f \in 1 .. vhist.pushed : \A k \in DOMAIN NalusOf(f) :
        \E s \in DOMAIN vhist.of : \E c \in ToSet(vhist.of[s].chunks) : c[1] = <<f, k>>
=============================================================================
