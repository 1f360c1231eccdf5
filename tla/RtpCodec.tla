------------------------------ MODULE RtpCodec ------------------------------
(***************************************************************************)
(* RTP and RTCP packets as bytes: the builders, which keep their state from *)
(* one build to the next and are used with their setters in any order, the  *)
(* parser, and the adapter that takes a packet apart and builds it again.   *)
(*                                                                          *)
(* Source: modules/rtp/src/builder.cpp, parser.cpp and rtp_plugin.cpp.      *)
(* A 32-bit field is a pair of 16-bit halves, a 64-bit one a pair of those. *)
(***************************************************************************)
EXTENDS Integers, Sequences, SequencesExt

CONSTANTS
    Headers,       \* by field of the fixed header: the values it is given
    Sources,       \* contributing sources
    Extensions,    \* generic extensions, [type, data]
    SendTimes,     \* abs-send-time values, of 32 bits
    ExtIds,        \* negotiated ids, 0 included
    RtpPayloads,
    Paddings,
    ReportFields,  \* by field of a report: the value it is given
    ReportBlocks,  \* report blocks, and how many calls add one: [n, block]
    NackEntries,
    MaxCsrc, MaxSetters, MaxReports     \* bounds

VARIABLES
    pb,            \* the PacketBuilder
    asked,         \* what the caller asked of the builder, the last word on each part
    setters,       \* calls so far
    rcb,           \* the RTCP builder in use, if it is not pb
    compound,      \* the bytes of the compound packet so far
    reports        \* the reports it was made of

rtpVars == <<pb, asked, setters, rcb, compound, reports>>

\* An optional is a sequence of at most one value.
None == <<>>
Some(v) == <<v>>
Fail(why) == [ok |-> FALSE, why |-> why]
Ok(v) == [ok |-> TRUE, value |-> v]
Bytes(raw, off, n) == SubSeq(raw, off + 1, off + n)
Zeros(n) == [i \in 1..n |-> 0]

\* Pieces of one size, one behind the other.
Joined(pieces, size) ==
    [i \in 1..(size * Len(pieces)) |-> pieces[((i - 1) \div size) + 1][((i - 1) % size) + 1]]

write_be16(v) == <<v \div 256, v % 256>>
write_be32(v) == write_be16(v[1]) \o write_be16(v[2])
write_be64(v) == write_be32(v[1]) \o write_be32(v[2])
write_be24(v) == <<(v \div 65536) % 256, (v \div 256) % 256, v % 256>>
read_be16(raw, off) == raw[off + 1] * 256 + raw[off + 2]
read_be32(raw, off) == <<read_be16(raw, off), read_be16(raw, off + 2)>>
read_be24(raw, off) == raw[off + 1] * 65536 + raw[off + 2] * 256 + raw[off + 3]
sign_extend_24(x) == IF x >= 8388608 THEN x - 16777216 ELSE x

kExtProfileOneByte == 48862
kExtProfileTwoByte == 4096
kExtProfileOneByteMaxId == 14
kFixedHeaderSize == 12
kRtcpHeaderSize == 4
kReportBlockSize == 24
kNackFciSize == 4

----------------------------------------------------------------------------
(* PacketBuilder.                                                           *)

FreshHeader == [ssrc |-> <<0, 0>>, seq |-> 0, timestamp |-> <<0, 0>>, payload_type |-> 0, marker |-> FALSE]

NewPacketBuilder ==
    [header |-> FreshHeader, csrc |-> <<>>, extension |-> None, ast |-> None,
     ast_id |-> 1, payload |-> <<>>, padding |-> 0]

add_csrc(b, v) == [b EXCEPT !.csrc = Append(@, v)]

set_extension(b, e) == [b EXCEPT !.extension = Some(e), !.ast = None, !.ast_id = 1]

\* Mutant: an extension set before stays beside the abs-send-time.
set_abs_send_time_Beside(b, t, id) ==
    [b EXCEPT !.ast = Some(t), !.ast_id = IF id = 0 THEN 1 ELSE id]

set_abs_send_time(b, t, id) ==
    [b EXCEPT !.ast = Some(t), !.ast_id = IF id = 0 THEN 1 ELSE id, !.extension = None]

clear_extension(b) == [b EXCEPT !.extension = None, !.ast = None, !.ast_id = 1]

has_extension(b) == b.extension # None \/ b.ast # None

RoundUp(n) == ((n + 3) \div 4) * 4

compute_size(b) ==
    kFixedHeaderSize + 4 * Len(b.csrc)
    + (IF has_extension(b)
       THEN 4 + RoundUp(IF b.extension # None THEN Len(b.extension[1].data)
                        ELSE IF b.ast_id <= kExtProfileOneByteMaxId THEN 4 ELSE 5)
       ELSE 0)
    + Len(b.payload) + (IF b.padding > 0 THEN b.padding + 1 ELSE 0)

ExtensionBytes(b) ==
    CASE ~has_extension(b) -> <<>>
      [] b.ast # None /\ b.ast_id <= kExtProfileOneByteMaxId ->
            write_be16(kExtProfileOneByte) \o write_be16(1)
            \o <<b.ast_id * 16 + 2>> \o write_be24(b.ast[1])
      [] b.ast # None /\ b.ast_id > kExtProfileOneByteMaxId ->
            write_be16(kExtProfileTwoByte) \o write_be16(2)
            \o <<b.ast_id % 256, 3>> \o write_be24(b.ast[1]) \o Zeros(3)
      [] OTHER ->
            LET size == Len(b.extension[1].data) IN
            write_be16(b.extension[1].type) \o write_be16(RoundUp(size) \div 4)
            \o b.extension[1].data \o Zeros(RoundUp(size) - size)

Flag(c, bit) == IF c THEN bit ELSE 0

build(b) ==
    <<128 + Flag(b.padding > 0, 32) + Flag(has_extension(b), 16) + (Len(b.csrc) % 16),
      Flag(b.header.marker, 128) + (b.header.payload_type % 128)>>
    \o write_be16(b.header.seq) \o write_be32(b.header.timestamp) \o write_be32(b.header.ssrc)
    \o Joined([i \in DOMAIN b.csrc |-> write_be32(b.csrc[i])], 4)
    \o ExtensionBytes(b) \o b.payload
    \o (IF b.padding > 0 THEN Append(Zeros(b.padding), b.padding % 256) ELSE <<>>)

----------------------------------------------------------------------------
(* The parser.                                                              *)

parse_rtp(raw) ==
    LET b0 == raw[1]
        csrc_count == b0 % 16
        header_size == kFixedHeaderSize + 4 * csrc_count
        ext_bit == (b0 \div 16) % 2 = 1
        ext_length == read_be16(raw, header_size + 2) * 4
        ext_size == IF ext_bit THEN 4 + ext_length ELSE 0
        start == header_size + ext_size
        padding_count == raw[Len(raw)]
        padded == (b0 \div 32) % 2 = 1 /\ Len(raw) > start
        trailer == IF padded THEN padding_count + 1 ELSE 0
    IN IF \/ Len(raw) < kFixedHeaderSize \/ b0 \div 64 # 2
          \/ Len(raw) < header_size
          \/ ext_bit /\ (Len(raw) < header_size + 4 \/ Len(raw) < start)
          \/ padded /\ (padding_count = 0 \/ padding_count + 1 > Len(raw) - start)
       THEN Fail("ProtocolError")
       ELSE Ok([header |-> [ssrc |-> read_be32(raw, 8), seq |-> read_be16(raw, 2),
                            timestamp |-> read_be32(raw, 4), payload_type |-> raw[2] % 128,
                            marker |-> raw[2] >= 128],
                csrc |-> [i \in 1..csrc_count |-> read_be32(raw, kFixedHeaderSize + 4 * (i - 1))],
                extension |-> IF ext_bit
                              THEN Some([type |-> read_be16(raw, header_size),
                                         data |-> Bytes(raw, header_size + 4, ext_length)])
                              ELSE None,
                payload |-> Bytes(raw, start, Len(raw) - start - trailer)])

\* The elements of a block from an offset on: the one with this id, if any.
find_extension_element(block, profile, id) ==
    LET one[off \in 0..Len(block)] ==
            LET hdr == block[off + 1]
                len == (hdr % 16) + 1
            IN IF off = Len(block) THEN Fail("NotFound")
               ELSE IF off + 1 + len > Len(block) THEN Fail("ProtocolError")
               ELSE IF hdr \div 16 = id /\ id # 0 THEN Ok(Bytes(block, off + 1, len))
               ELSE one[off + 1 + len]
        two[off \in 0..Len(block)] ==
            LET len == block[off + 2]
            IN IF off + 1 >= Len(block) THEN Fail("NotFound")
               ELSE IF off + 2 + len > Len(block) THEN Fail("ProtocolError")
               ELSE IF block[off + 1] = id /\ id # 0 THEN Ok(Bytes(block, off + 2, len))
               ELSE two[off + 2 + len]
    IN CASE block = <<>> -> Fail("InvalidArgument")
         [] block # <<>> /\ profile = kExtProfileOneByte -> one[0]
         [] block # <<>> /\ profile = kExtProfileTwoByte -> two[0]
         [] OTHER -> Fail("ProtocolError")

\* The element's three bytes, or the whole one-byte element of the default id.
parse_abs_send_time_extension(d) ==
    CASE Len(d) = 3 -> Ok(read_be24(d, 0))
      [] Len(d) = 4 /\ d[1] = 1 * 16 + 2 -> Ok(read_be24(d, 1))
      [] OTHER -> Fail("ProtocolError")

(* The adapter: a parsed packet as a header with its own copy of the        *)
(* extension, and a packet built from such a header.                        *)
view_to_plugin_packet(v) ==
    [header |-> v.header, csrc |-> v.csrc, ext |-> v.extension, payload |-> v.payload]

apply_header_to_builder(p) ==
    LET b == [NewPacketBuilder EXCEPT !.header = p.header, !.csrc = p.csrc]
    IN IF p.ext = None THEN b ELSE set_extension(b, p.ext[1])

build_packet(p) == build([apply_header_to_builder(p) EXCEPT !.payload = p.payload])

----------------------------------------------------------------------------
(* RTCP: a sender report, a receiver report or a generic NACK, and a        *)
(* compound packet of them.                                                 *)

kSR == 200
kRR == 201
kRTPFB == 205
GenericNACK == 1

FreshReport(kind) ==
    [kind |-> kind, ssrc |-> <<0, 0>>, media |-> <<0, 0>>, ntp |-> <<<<0, 0>>, <<0, 0>>>>,
     rtp |-> <<0, 0>>, packets |-> <<0, 0>>, octets |-> <<0, 0>>, blocks |-> <<>>]

\* So many calls with one block: those beyond the 31st have no effect.
kMaxReportBlocks == 31
add_report_block(r, block, n) ==
    LET room == kMaxReportBlocks - Len(r.blocks)
    IN [r EXCEPT !.blocks = @ \o [i \in 1..(IF n < room THEN n ELSE room) |-> block]]

add_entry(r, entry) == [r EXCEPT !.blocks = Append(@, entry)]

serialise_report_block(b) ==
    write_be32(b.ssrc) \o <<b.fraction>> \o write_be24(b.lost % 16777216)
    \o write_be32(b.highest) \o write_be32(b.jitter)
    \o write_be32(b.last_sr) \o write_be32(b.delay)

RtcpPacket(rc_or_fmt, pt, body) ==
    <<128 + (rc_or_fmt % 32), pt>> \o write_be16(Len(body) \div 4) \o body

BlockBytes(r) ==
    Joined([i \in DOMAIN r.blocks |-> serialise_report_block(r.blocks[i])], kReportBlockSize)

build_sr(r) ==
    RtcpPacket(Len(r.blocks), kSR,
        write_be32(r.ssrc) \o write_be64(r.ntp) \o write_be32(r.rtp)
        \o write_be32(r.packets) \o write_be32(r.octets) \o BlockBytes(r))

build_rr(r) == RtcpPacket(Len(r.blocks), kRR, write_be32(r.ssrc) \o BlockBytes(r))

build_nack(r) ==
    RtcpPacket(GenericNACK, kRTPFB,
        write_be32(r.ssrc) \o write_be32(r.media)
        \o Joined([i \in DOMAIN r.blocks |->
                      write_be16(r.blocks[i].packet_id) \o write_be16(r.blocks[i].blp)], kNackFciSize))

build_report(r) ==
    CASE r.kind = kSR -> build_sr(r) [] r.kind = kRR -> build_rr(r) [] OTHER -> build_nack(r)

\* The common header is sound, and its length is at least that of the body.
rtcp_header_ok(raw, pt, min) ==
    /\ Len(raw) >= kRtcpHeaderSize /\ raw[1] \div 64 = 2 /\ raw[2] = pt
    /\ LET total == (read_be16(raw, 2) + 1) * 4 IN total <= Len(raw) /\ total >= min

parse_report_block(p) ==
    [ssrc |-> read_be32(p, 0), fraction |-> p[5], lost |-> sign_extend_24(read_be24(p, 5)),
     highest |-> read_be32(p, 8), jitter |-> read_be32(p, 12),
     last_sr |-> read_be32(p, 16), delay |-> read_be32(p, 20)]

\* The report blocks behind the first so many bytes, as many as the header counts.
parse_blocks(raw, from) ==
    [i \in 1..(raw[1] % 32) |->
        parse_report_block(Bytes(raw, from + (i - 1) * kReportBlockSize, kReportBlockSize))]

parse_sr(raw) ==
    LET from == kRtcpHeaderSize + 4 + 20
    IN IF ~rtcp_header_ok(raw, kSR, from) \/ Len(raw) < from + (raw[1] % 32) * kReportBlockSize
       THEN Fail("ProtocolError")
       ELSE Ok([FreshReport(kSR) EXCEPT
                !.ssrc = read_be32(raw, 4), !.ntp = <<read_be32(raw, 8), read_be32(raw, 12)>>,
                !.rtp = read_be32(raw, 16), !.packets = read_be32(raw, 20),
                !.octets = read_be32(raw, 24), !.blocks = parse_blocks(raw, from)])

parse_rr(raw) ==
    LET from == kRtcpHeaderSize + 4
    IN IF ~rtcp_header_ok(raw, kRR, from) \/ Len(raw) < from + (raw[1] % 32) * kReportBlockSize
       THEN Fail("ProtocolError")
       ELSE Ok([FreshReport(kRR) EXCEPT
                !.ssrc = read_be32(raw, 4), !.blocks = parse_blocks(raw, from)])

parse_nack(raw) ==
    LET from == kRtcpHeaderSize + 8
        entry(off) == [packet_id |-> read_be16(raw, off), blp |-> read_be16(raw, off + 2)]
    IN IF \/ ~rtcp_header_ok(raw, kRTPFB, from) \/ raw[1] % 32 # GenericNACK
          \/ (Len(raw) - from) % kNackFciSize # 0
       THEN Fail("ProtocolError")
       ELSE Ok([FreshReport(kRTPFB) EXCEPT
                !.ssrc = read_be32(raw, 4), !.media = read_be32(raw, 8),
                !.blocks = [i \in 1..((Len(raw) - from) \div kNackFciSize) |->
                               entry(from + (i - 1) * kNackFciSize)]])

parse_report(p) ==
    CASE p.type = kSR -> parse_sr(p.raw) [] p.type = kRR -> parse_rr(p.raw) [] OTHER -> parse_nack(p.raw)

\* The packets of a compound packet, as far as their lengths make sense.
scan_rtcp_compound(raw) ==
    LET packet_size(off) == (read_be16(raw, off + 2) + 1) * 4
        from[off \in 0..Len(raw)] ==
            IF off + 4 > Len(raw) \/ off + packet_size(off) > Len(raw) THEN <<>>
            ELSE <<[type |-> raw[off + 2], raw |-> Bytes(raw, off, packet_size(off))]>>
                 \o from[off + packet_size(off)]
    IN IF from[0] = <<>> /\ raw # <<>> THEN <<[type |-> 204, raw |-> raw]>> ELSE from[0]

\* build_rtcp_compound() puts the packets one behind the other.
build_rtcp_compound(packets) == FlattenSeq(packets)

----------------------------------------------------------------------------
(* A caller uses one builder, in any order, and builds as it goes.          *)

NoExtension == <<"none">>
NothingAsked ==
    [header |-> FreshHeader, csrc |-> <<>>, ext |-> NoExtension, payload |-> <<>>, padding |-> 0]

UseReport(kind) == rcb' = Some(FreshReport(kind)) /\ asked' = FreshReport(kind)

RtpCodecInit ==
    /\ pb = NewPacketBuilder /\ setters = 0 /\ compound = <<>> /\ reports = <<>>
    /\ \/ rcb = None /\ asked = NothingAsked
       \/ \E kind \in {kSR, kRR, kRTPFB} : rcb = Some(FreshReport(kind)) /\ asked = FreshReport(kind)

PacketCall(b, a) ==
    /\ rcb = None /\ setters < MaxSetters
    /\ pb' = b /\ asked' = a /\ setters' = setters + 1
    /\ UNCHANGED <<rcb, compound, reports>>

SetHeaderField ==
    \E f \in DOMAIN Headers : \E v \in Headers[f] :
        PacketCall([pb EXCEPT !.header[f] = v], [asked EXCEPT !.header[f] = v])

AddCsrc ==
    \E v \in Sources :
        Len(pb.csrc) < MaxCsrc /\ PacketCall(add_csrc(pb, v), [asked EXCEPT !.csrc = Append(@, v)])

SetExtension ==
    \E e \in Extensions : PacketCall(set_extension(pb, e), [asked EXCEPT !.ext = <<"generic", e>>])

SetAbsSendTime ==
    \E t \in SendTimes, id \in ExtIds :
        PacketCall(set_abs_send_time(pb, t, id),
                   [asked EXCEPT !.ext = <<"abs-send-time", t, IF id = 0 THEN 1 ELSE id>>])

ClearExtension == PacketCall(clear_extension(pb), [asked EXCEPT !.ext = NoExtension])

SetPayload == \E p \in RtpPayloads : PacketCall([pb EXCEPT !.payload = p], [asked EXCEPT !.payload = p])

SetPadding == \E n \in Paddings : PacketCall([pb EXCEPT !.padding = n], [asked EXCEPT !.padding = n])

ResetPacket == PacketCall(NewPacketBuilder, NothingAsked)

ReportCall(r, a) ==
    /\ setters < MaxSetters /\ setters' = setters + 1
    /\ rcb' = Some(r) /\ asked' = a
    /\ UNCHANGED <<pb, compound, reports>>

SetReportField ==
    /\ rcb # None
    /\ \E f \in DOMAIN ReportFields[rcb[1].kind] :
          LET v == ReportFields[rcb[1].kind][f]
          IN ReportCall([rcb[1] EXCEPT ![f] = v], [asked EXCEPT ![f] = v])

AddReportBlocks ==
    /\ rcb # None /\ rcb[1].kind # kRTPFB
    /\ \E call \in ReportBlocks :
          ReportCall(add_report_block(rcb[1], call.block, call.n),
                     [asked EXCEPT !.blocks = @ \o [i \in 1..call.n |-> call.block]])

AddNackEntry ==
    /\ rcb # None /\ rcb[1].kind = kRTPFB
    /\ \E e \in NackEntries : ReportCall(add_entry(rcb[1], e), [asked EXCEPT !.blocks = Append(@, e)])

ResetReport == rcb # None /\ ReportCall(FreshReport(rcb[1].kind), FreshReport(rcb[1].kind))

\* The report goes into the compound packet, and the next one is begun.
BuildReport ==
    /\ rcb # None /\ Len(reports) < MaxReports
    /\ compound' = build_rtcp_compound(<<compound, build_report(rcb[1])>>)
    /\ reports' = Append(reports, asked)
    /\ \E kind \in {kSR, kRR, kRTPFB} : UseReport(kind)
    /\ UNCHANGED <<pb, setters>>

RtpCodecNext ==
    \/ SetHeaderField \/ AddCsrc \/ SetExtension \/ SetAbsSendTime \/ ClearExtension
    \/ SetPayload \/ SetPadding \/ ResetPacket
    \/ SetReportField \/ AddReportBlocks \/ AddNackEntry \/ ResetReport \/ BuildReport

RtpCodecSpec == RtpCodecInit /\ [][RtpCodecNext]_rtpVars

----------------------------------------------------------------------------
\* The extension of a parsed packet is the one last asked for: a generic one
\* filled up to words, or an abs-send-time that is found under its id and
\* under no other.
ExtensionAsAsked(v) ==
    CASE asked.ext[1] = "none" -> v.extension = None
      [] asked.ext[1] = "generic" ->
            LET e == asked.ext[2]
            IN v.extension = Some([type |-> e.type,
                                   data |-> e.data \o Zeros(RoundUp(Len(e.data)) - Len(e.data))])
      [] OTHER ->
            /\ v.extension # None
            /\ \A id \in ExtIds \cup {asked.ext[3]} :
                 LET element == find_extension_element(v.extension[1].data, v.extension[1].type, id)
                 IN IF id = asked.ext[3]
                    THEN element.ok /\ parse_abs_send_time_extension(element.value)
                                           = Ok(asked.ext[2] % 16777216)
                    ELSE element = Fail("NotFound")

PacketAsAsked ==
    LET raw == build(pb)
        parsed == parse_rtp(raw)
    IN /\ Len(raw) = compute_size(pb) /\ parsed.ok
       /\ parsed.value.header = [asked.header EXCEPT !.payload_type = @ % 128]
       /\ parsed.value.csrc = asked.csrc /\ parsed.value.payload = asked.payload
       /\ ExtensionAsAsked(parsed.value)
       /\ parse_rtp(build_packet(view_to_plugin_packet(parsed.value))) = parsed

\* A report holds at most 31 blocks; further ones are dropped by the builder.
AsCounted(r) ==
    IF r.kind = kRTPFB \/ Len(r.blocks) <= kMaxReportBlocks THEN r
    ELSE [r EXCEPT !.blocks = SubSeq(@, 1, kMaxReportBlocks)]

ReportsAsAsked ==
    LET packets == scan_rtcp_compound(compound)
    IN /\ Len(packets) = Len(reports)
       /\ \A i \in DOMAIN reports : parse_report(packets[i]) = Ok(AsCounted(reports[i]))

(* Whatever the order of the setters (builder.cpp:69-136), a packet built   *)
(* from the state they leave has the size compute_size() says, the parser   *)
(* gives back what was last asked of each part, an abs-send-time is found   *)
(* under the negotiated id in either element form and under no other, and   *)
(* the adapter forwards the packet unchanged but for its padding.  The      *)
(* reports of a compound packet come back one by one as they were built.    *)
CodecRoundTrip == IF rcb = None THEN PacketAsAsked ELSE ReportsAsAsked
=============================================================================
