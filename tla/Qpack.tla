------------------------------- MODULE Qpack -------------------------------
(***************************************************************************)
(* The QPACK codec of the WebTransport server: the decoder with its dynamic *)
(* table, fed by the peer's encoder stream, and the encoder of the server's *)
(* response, which refers to the static table only.                         *)
(*                                                                          *)
(* Source: web_transport/src/web_transport_qpack.{hpp,cpp}.  Bytes are      *)
(* integers and strings are sequences of bytes.  The Huffman tables are the *)
(* generated ones; of the static table the strings are reduced to which of  *)
(* them are equal.  The peer is a conforming encoder.                       *)
(***************************************************************************)
EXTENDS Integers, Sequences

CONSTANTS
    kMaxTableCapacity, kEntryOverhead,
    SplitAnywhere,       \* a chunk may end inside an instruction after whole ones
    MaxInstructions      \* bound on the instructions of the peer

VARIABLES
    qd,       \* QpackDecoder
    peer,     \* what the peer's encoder inserted, dropped, and its capacity
    estream   \* instructions under way, each a sequence of bytes

qpVars == <<qd, peer, estream>>

----------------------------------------------------------------------------
(* Generated tables.  A name or a value of the static table is one byte that  *)
(* stands for it, 0 for the empty value.                                     *)

StaticNames == <<
    1, 2, 3, 4, 5, 6, 7, 8, 9, 10, 11, 12, 13, 14, 15, 16, 16, 16, 16, 16, 16, 16, 17,
    17, 18, 18, 18, 18, 18, 19, 19, 20, 21, 22, 22, 23, 24, 24, 24, 24, 24, 24, 25, 25,
    26, 26, 26, 26, 26, 26, 26, 26, 26, 26, 26, 27, 28, 28, 28, 29, 29, 30, 31, 18, 18,
    18, 18, 18, 18, 18, 18, 18, 32, 33, 33, 22, 34, 34, 34, 35, 36, 37, 37, 38, 39, 40,
    41, 42, 43, 44, 45, 46, 47, 48, 49, 50, 51, 52, 52>>

StaticValues == <<
    0, 1, 2, 0, 2, 0, 0, 0, 0, 0, 0, 0, 0, 0, 0, 3, 4, 5, 6, 7, 8, 9, 10, 11, 12, 13,
    14, 15, 16, 17, 18, 19, 20, 21, 22, 23, 24, 25, 26, 27, 28, 29, 30, 31, 18, 32, 33,
    34, 35, 36, 37, 38, 39, 40, 41, 42, 43, 44, 45, 46, 47, 48, 49, 50, 51, 52, 53, 54,
    55, 56, 57, 58, 0, 59, 60, 23, 61, 62, 63, 64, 22, 61, 65, 66, 0, 67, 68, 0, 0, 0,
    0, 69, 0, 23, 68, 0, 0, 70, 71>>

kStaticTable ==
    [i \in 0..98 |-> [name  |-> <<StaticNames[i + 1]>>,
                      value |-> IF StaticValues[i + 1] = 0 THEN <<>> ELSE <<StaticValues[i + 1]>>]]

kHuffmanMaxBits == 30

(* Indexed by length, 0 first: the number of symbols of the length, the first *)
(* of their codes and its place among the symbols.                           *)
kHuffmanCount == <<
    0, 0, 0, 0, 0, 10, 26, 32, 6, 0, 5, 3, 2, 6, 2, 3, 0, 0, 0, 3, 8, 13, 26, 29, 12, 4,
    15, 19, 29, 0, 4>>

kHuffmanFirstCode == <<
    0, 0, 0, 0, 0, 0, 20, 92, 248, 508, 1016, 2042, 4090, 8184, 16380, 32764, 65534,
    131068, 262136, 524272, 1048550, 2097116, 4194258, 8388568, 16777194, 33554412,
    67108832, 134217694, 268435426, 536870910, 1073741820>>

kHuffmanSymbolStart == <<
    0, 0, 0, 0, 0, 0, 10, 36, 68, 74, 74, 79, 82, 84, 90, 92, 95, 95, 95, 95, 98, 106,
    119, 145, 174, 186, 190, 205, 224, 253, 253>>

kHuffmanSymbols == <<
    48, 49, 50, 97, 99, 101, 105, 111, 115, 116, 32, 37, 45, 46, 47, 51, 52, 53, 54, 55,
    56, 57, 61, 65, 95, 98, 100, 102, 103, 104, 108, 109, 110, 112, 114, 117, 58, 66,
    67, 68, 69, 70, 71, 72, 73, 74, 75, 76, 77, 78, 79, 80, 81, 82, 83, 84, 85, 86, 87,
    89, 106, 107, 113, 118, 119, 120, 121, 122, 38, 42, 44, 59, 88, 90, 33, 34, 40, 41,
    63, 39, 43, 124, 35, 62, 0, 36, 64, 91, 93, 126, 94, 125, 60, 96, 123, 92, 195, 208,
    128, 130, 131, 162, 184, 194, 224, 226, 153, 161, 167, 172, 176, 177, 179, 209, 216,
    217, 227, 229, 230, 129, 132, 133, 134, 136, 146, 154, 156, 160, 163, 164, 169, 170,
    173, 178, 181, 185, 186, 187, 189, 190, 196, 198, 228, 232, 233, 1, 135, 137, 138,
    139, 140, 141, 143, 147, 149, 150, 151, 152, 155, 157, 158, 165, 166, 168, 174, 175,
    180, 182, 183, 188, 191, 197, 231, 239, 9, 142, 144, 145, 148, 159, 171, 206, 215,
    225, 236, 237, 199, 207, 234, 235, 192, 193, 200, 201, 202, 205, 210, 213, 218, 219,
    238, 240, 242, 243, 255, 203, 204, 211, 212, 214, 221, 222, 223, 241, 244, 245, 246,
    247, 248, 250, 251, 252, 253, 254, 2, 3, 4, 5, 6, 7, 8, 11, 12, 14, 15, 16, 17, 18,
    19, 20, 21, 23, 24, 25, 26, 27, 28, 29, 30, 31, 127, 220, 249, 10, 13, 22, 256>>

----------------------------------------------------------------------------
(* Primitives.  A cursor is the rest of the bytes.                          *)

Miss == [ok |-> FALSE]
Hit(v, rest) == [ok |-> TRUE, value |-> v, rest |-> rest]
From(s, i) == SubSeq(s, i, Len(s))

encode_prefixed_int(bits, prefix, value) ==
    LET mask == 2^bits - 1
        tail[r \in Nat] == IF r >= 128 THEN <<(r % 128) + 128>> \o tail[r \div 128] ELSE <<r>>
    IN IF value < mask THEN <<prefix + value>>
       ELSE <<prefix + mask>> \o tail[value - mask]

\* At most nine bytes follow the prefix.
decode_prefixed_int(data, bits) ==
    LET mask == 2^bits - 1
        more[i \in 2..11] ==
            IF i > Len(data) \/ 7 * (i - 2) > 56 THEN Miss
            ELSE LET low == (data[i] % 128) * 2^(7 * (i - 2))
                     up  == more[i + 1]
                 IN IF data[i] < 128 THEN Hit(low, From(data, i + 1))
                    ELSE IF up.ok THEN Hit(low + up.value, up.rest) ELSE Miss
    IN IF data = <<>> THEN Miss
       ELSE IF data[1] % 2^bits < mask THEN Hit(data[1] % 2^bits, Tail(data))
       ELSE IF more[2].ok THEN Hit(mask + more[2].value, more[2].rest) ELSE Miss

\* Symbol by symbol: a code is the first run of bits that is in the table.
\* What is left at the end must be a short prefix of EOS.
huffman_decode(raw) ==
    LET end == 8 * Len(raw)
        bit(k) == (raw[(k \div 8) + 1] \div 2^(7 - (k % 8))) % 2
        text[k \in 0..end] ==
            LET left == end - k
                code[l \in 0..left] == IF l = 0 THEN 0 ELSE 2 * code[l - 1] + bit(k + l - 1)
                above(l) == code[l] - kHuffmanFirstCode[l + 1]
                InTable(l) == above(l) \in 0..(kHuffmanCount[l + 1] - 1)
                lengths == 1..(IF left < kHuffmanMaxBits THEN left ELSE kHuffmanMaxBits)
                Cons(sym, more) ==
                    IF sym # 256 /\ more.ok THEN Hit(<<sym>> \o more.value, <<>>) ELSE Miss
                Read(l) == Cons(kHuffmanSymbols[kHuffmanSymbolStart[l + 1] + above(l) + 1], text[k + l])
            IN IF \E l \in lengths : InTable(l) THEN Read(CHOOSE l \in lengths : InTable(l))
               ELSE IF left <= 7 /\ code[left] = 2^left - 1 THEN Hit(<<>>, <<>>) ELSE Miss
    IN text[0]

\* The text behind its length, plain or in the Huffman code.
StringOf(length, huffman) ==
    LET raw == SubSeq(length.rest, 1, length.value)
        rest == From(length.rest, length.value + 1)
        Text(t) == IF t.ok THEN Hit(t.value, rest) ELSE Miss
    IN IF ~length.ok THEN Miss
       ELSE IF length.value > Len(length.rest) THEN Miss
       ELSE IF huffman THEN Text(huffman_decode(raw)) ELSE Hit(raw, rest)

decode_string(data, bits) ==
    IF data = <<>> THEN Miss
    ELSE StringOf(decode_prefixed_int(data, bits - 1), (data[1] \div 2^(bits - 1)) % 2 = 1)

encode_string_literal(s) == encode_prefixed_int(7, 0, Len(s)) \o s

----------------------------------------------------------------------------
(* The dynamic table: oldest entry first.                                   *)

QpackDecoder ==
    [table |-> <<>>, insert_count |-> 0, dropped_count |-> 0, capacity |-> 0,
     size |-> 0, buffer |-> <<>>, failed |-> FALSE]

EntrySize(e) == Len(e.name) + Len(e.value) + kEntryOverhead

evict_oldest(q) ==
    IF q.table = <<>> THEN q
    ELSE [q EXCEPT !.size = @ - EntrySize(Head(q.table)), !.table = Tail(@),
                   !.dropped_count = @ + 1]

\* Evicts while more than limit is taken.
EvictTo(q, limit) ==
    LET go[n \in 0..Len(q.table)] ==
            IF n = 0 THEN q
            ELSE LET p == go[n - 1] IN IF p.size > limit THEN evict_oldest(p) ELSE p
    IN go[Len(q.table)]

set_capacity(q, capacity) == EvictTo([q EXCEPT !.capacity = capacity], capacity)

insert_entry(q, e) ==
    LET p == EvictTo(q, q.capacity - EntrySize(e))
    IN IF q.capacity = 0 \/ EntrySize(e) > q.capacity THEN [q EXCEPT !.failed = TRUE]
       ELSE [p EXCEPT !.size = @ + EntrySize(e), !.table = Append(@, e), !.insert_count = @ + 1]

entry_by_absolute(q, index) ==
    IF index < q.dropped_count \/ index - q.dropped_count >= Len(q.table) THEN Miss
    ELSE Hit(q.table[index - q.dropped_count + 1], <<>>)

entry_by_relative(q, index, base) ==
    IF index >= base THEN Miss ELSE entry_by_absolute(q, base - 1 - index)

static_entry(index) == IF index > 98 THEN Miss ELSE Hit(kStaticTable[index], <<>>)

----------------------------------------------------------------------------
(* Field sections.                                                          *)

\* Mutant: the count is read as sent, without the wrap of its encoding.
RequiredInsertCount_NoWrap(q, encoded) == Hit(IF encoded = 0 THEN 0 ELSE encoded - 1, <<>>)

\* The Required Insert Count travels modulo twice the entries a table can hold.
RequiredInsertCount(q, encoded) ==
    LET full_range == 2 * (kMaxTableCapacity \div kEntryOverhead)
        max_value  == q.insert_count + full_range \div 2
        ric        == (max_value \div full_range) * full_range + encoded - 1
    IN CASE encoded = 0 -> Hit(0, <<>>)
         [] encoded > full_range -> Miss
         [] encoded \in 1..full_range /\ ric > max_value ->
                IF ric <= full_range THEN Miss ELSE Hit(ric - full_range, <<>>)
         [] OTHER -> IF ric = 0 THEN Miss ELSE Hit(ric, <<>>)

\* A name or a whole line by reference, and the value that follows a name.
Indexed(entry, index) == IF entry.ok THEN Hit(entry.value, index.rest) ELSE Miss

Pair(name, value) ==
    IF value.ok THEN Hit([name |-> name, value |-> value.value], value.rest) ELSE Miss

Named(entry, index) ==
    IF entry.ok THEN Pair(entry.value.name, decode_string(index.rest, 8)) ELSE Miss

\* A literal name of so many prefix bits, then a literal value.
LiteralLine(rem, bits) ==
    LET After(name) == IF name.ok THEN Pair(name.value, decode_string(name.rest, 8)) ELSE Miss
    IN After(decode_string(rem, bits))

\* A line that begins with this byte and refers to an entry below or above Base.
Reference(q, base, first, index) ==
    LET static == IF first >= 128 THEN first >= 192 ELSE (first \div 16) % 2 = 1
        before == IF static THEN static_entry(index.value)
                  ELSE entry_by_relative(q, index.value, base)
        after  == entry_by_absolute(q, base + index.value)
    IN CASE ~index.ok -> Miss
         [] first >= 128 /\ index.ok -> Indexed(before, index)
         [] first \in 64..127 /\ index.ok -> Named(before, index)
         [] first \in 16..31 /\ index.ok -> Indexed(after, index)
         [] first < 16 /\ index.ok -> Named(after, index)

field_line(q, base, rem) ==
    LET first == rem[1]
        bits  == CASE first >= 128 -> 6 [] first \in 64..127 -> 4
                   [] first \in 16..31 -> 4 [] OTHER -> 3
    IN IF first \in 32..63 THEN LiteralLine(rem, 4)
       ELSE Reference(q, base, first, decode_prefixed_int(rem, bits))

\* The lines up to the end of the section.
field_lines(q, base, section) ==
    LET Cons(l, more) == IF more.ok THEN Hit(<<l.value>> \o more.value, <<>>) ELSE Miss
        lines[rem \in Seq(0..255)] ==
            LET Then(l) == IF l.ok THEN Cons(l, lines[l.rest]) ELSE Miss
            IN IF rem = <<>> THEN Hit(<<>>, <<>>) ELSE Then(field_line(q, base, rem))
    IN lines[section]

\* Base is given by its distance from the Required Insert Count.
Section(q, below, ric, delta) ==
    LET base == IF below THEN ric.value - delta.value - 1 ELSE ric.value + delta.value
    IN IF ~delta.ok \/ ~ric.ok \/ (below /\ base < 0) THEN Miss
       ELSE field_lines(q, base, delta.rest)

decode(q, block) ==
    LET After(count) ==
            IF ~count.ok THEN Miss
            ELSE IF count.rest = <<>> THEN Miss
            ELSE Section(q, (count.rest[1] \div 64) % 2 = 1,
                         RequiredInsertCount(q, count.value), decode_prefixed_int(count.rest, 7))
    IN After(decode_prefixed_int(block, 8))

find_static_entry(e) == {i \in DOMAIN kStaticTable : kStaticTable[i] = e}

find_static_name(name) == {i \in DOMAIN kStaticTable : kStaticTable[i].name = name}

First(S) == CHOOSE i \in S : \A j \in S : i <= j

\* Prefix and one line; the server's sections refer to no dynamic entry.
encode_field_section(e) ==
    <<0, 0>> \o
    IF find_static_entry(e) # {} THEN encode_prefixed_int(6, 192, First(find_static_entry(e)))
    ELSE IF find_static_name(e.name) # {}
         THEN encode_prefixed_int(4, 80, First(find_static_name(e.name)))
              \o encode_string_literal(e.value)
         ELSE encode_prefixed_int(3, 32, Len(e.name)) \o e.name
              \o encode_string_literal(e.value)

----------------------------------------------------------------------------
(* The encoder stream.  An instruction is applied once its bytes are all    *)
(* there; a return before the end leaves the whole buffer as it was, the    *)
(* instructions already applied included.                                   *)

Done(q, rest) == [on |-> TRUE, q |-> q, rest |-> rest]
More(q) == [on |-> FALSE, q |-> q]
Failed(q) == [on |-> FALSE, q |-> [q EXCEPT !.failed = TRUE]]

InsertPair(q, pair) ==
    IF pair.ok THEN Done(insert_entry(q, pair.value), pair.rest) ELSE More(q)

InsertNamed(q, entry, value) ==
    IF ~value.ok THEN More(q)
    ELSE IF ~entry.ok THEN Failed(q)
    ELSE Done(insert_entry(q, [entry.value EXCEPT !.value = value.value]), value.rest)

Duplicate(q, entry, rest) ==
    IF entry.ok THEN Done(insert_entry(q, entry.value), rest) ELSE Failed(q)

\* An instruction that begins with this byte and an index, or a capacity.
IndexedInstruction(q, first, index) ==
    LET recent == IF index.value >= q.insert_count THEN Miss
                  ELSE entry_by_absolute(q, q.insert_count - 1 - index.value)
    IN CASE ~index.ok -> More(q)
         [] first >= 128 /\ index.ok ->
              InsertNamed(q, IF first >= 192 THEN static_entry(index.value) ELSE recent,
                          decode_string(index.rest, 8))
         [] first \in 32..63 /\ index.ok ->
              IF index.value > kMaxTableCapacity THEN Failed(q)
              ELSE Done(set_capacity(q, index.value), index.rest)
         [] first < 32 /\ index.ok -> Duplicate(q, recent, index.rest)

instruction(q, rem) ==
    IF rem[1] \in 64..127 THEN InsertPair(q, LiteralLine(rem, 6))
    ELSE IndexedInstruction(q, rem[1], decode_prefixed_int(rem, IF rem[1] >= 128 THEN 6 ELSE 5))

feed_encoder_stream(q, data) ==
    LET all == q.buffer \o data
        Apply(p) == IF ~p.on \/ p.rest = <<>> THEN p ELSE instruction(p.q, p.rest)
        at[n \in 0..Len(all)] ==
            IF n = 0 THEN Done([q EXCEPT !.buffer = all], all) ELSE Apply(at[n - 1])
        Fed(end) == IF end.on THEN [end.q EXCEPT !.buffer = <<>>] ELSE end.q
    IN Fed(at[Len(all)])

----------------------------------------------------------------------------
(* The peer's encoder, from the RFC the code quotes: it keeps the newest    *)
(* entries that fit, and never inserts one that does not fit at all.        *)

Sum(es) == LET s[n \in 0..Len(es)] == IF n = 0 THEN 0 ELSE s[n - 1] + EntrySize(es[n])
           IN s[Len(es)]

Fitting(p, entries, capacity) ==
    [p EXCEPT !.entries = entries, !.capacity = capacity,
              !.dropped = First({d \in @..Len(entries) : Sum(From(entries, d + 1)) <= capacity})]

Emit(bytes, p) ==
    /\ peer.sent < MaxInstructions
    /\ peer' = [p EXCEPT !.sent = @ + 1]
    /\ estream' = Append(estream, bytes)
    /\ UNCHANGED qd

PeerCapacity(c) ==
    /\ c # peer.capacity
    /\ Emit(encode_prefixed_int(5, 32, c), Fitting(peer, peer.entries, c))

PeerInsert(bytes, e) ==
    /\ EntrySize(e) <= peer.capacity
    /\ Emit(bytes, Fitting(peer, Append(peer.entries, e), peer.capacity))

\* Each value is used once, so that no two entries are alike unless duplicated.
Fresh == <<100 + peer.sent>>
Live == (peer.dropped + 1)..Len(peer.entries)

PeerInsertLiteral ==
    PeerInsert(encode_prefixed_int(5, 64, 1) \o Fresh \o <<0>>, [name |-> Fresh, value |-> <<>>])

PeerInsertStatic ==
    PeerInsert(encode_prefixed_int(6, 192, 70) \o encode_string_literal(Fresh),
               [name |-> kStaticTable[70].name, value |-> Fresh])

PeerInsertNamed(k) ==
    LET e == [peer.entries[k] EXCEPT !.value = Fresh]
    IN PeerInsert(encode_prefixed_int(6, 128, Len(peer.entries) - k)
                  \o encode_string_literal(Fresh), e)

PeerDuplicate(k) ==
    PeerInsert(encode_prefixed_int(5, 0, Len(peer.entries) - k), peer.entries[k])

\* So many whole instructions and the first bytes of the next reach the decoder.
Flat(chunks) == LET f[n \in 0..Len(chunks)] == IF n = 0 THEN <<>> ELSE f[n - 1] \o chunks[n]
                IN f[Len(chunks)]

Arrive(whole, part) ==
    LET next == IF part = 0 THEN <<>> ELSE estream[whole + 1]
    IN /\ whole + part > 0
       /\ part < Len(next) \/ part = 0
       /\ SplitAnywhere \/ whole = 0 \/ part = 0
       /\ qd' = feed_encoder_stream(qd, Flat(SubSeq(estream, 1, whole)) \o SubSeq(next, 1, part))
       /\ estream' = (IF part = 0 THEN <<>> ELSE <<From(next, part + 1)>>)
                     \o From(estream, whole + (IF part = 0 THEN 1 ELSE 2))
       /\ UNCHANGED peer

QpInit ==
    /\ qd = QpackDecoder
    /\ peer = [entries |-> <<>>, dropped |-> 0, capacity |-> 0, sent |-> 0]
    /\ estream = <<>>

QpNext ==
    \/ \E c \in {0, kMaxTableCapacity \div 2, kMaxTableCapacity} : PeerCapacity(c)
    \/ PeerInsertLiteral
    \/ PeerInsertStatic
    \/ \E k \in Live : PeerInsertNamed(k) \/ PeerDuplicate(k)
    \/ \E whole \in 0..Len(estream) :
          \E part \in 0..(IF whole = Len(estream) THEN 0 ELSE Len(estream[whole + 1])) :
              Arrive(whole, part)

----------------------------------------------------------------------------
(* Every instruction of the encoder stream takes effect exactly once,       *)
(* however the stream is cut into chunks (web_transport_qpack.hpp:          *)
(* "Incomplete trailing data is buffered until the next call").             *)
AppliedOnce ==
    estream = <<>> =>
        /\ ~qd.failed
        /\ qd.insert_count = Len(peer.entries)
        /\ qd.dropped_count = peer.dropped
        /\ qd.table = From(peer.entries, peer.dropped + 1)

(* Lines a conforming encoder may write for the entry of an absolute index: *)
(* Base lies at or above the Required Insert Count.  A Base below it is     *)
(* left out: the RFC puts its sign in the top bit, decode() reads the next. *)
Prefix(ric, base) ==
    <<(ric % (2 * (kMaxTableCapacity \div kEntryOverhead))) + 1>>
    \o encode_prefixed_int(7, 0, base - ric)

\* Texts of codes of 5, 13 and 8 bits, of 30 bits, and of 26 and 5 bits, and the
\* bytes they make.
Texts == {<<97, 0, 38>>, <<10>>, <<255, 97>>}
Huffman(text) ==
    CASE text = <<97, 0, 38>> -> <<132, 31, 254, 62, 63>>
      [] text = <<10>> -> <<132, 255, 255, 255, 243>>
      [] text = <<255, 97>> -> <<132, 255, 255, 251, 135>>

\* Names and values whose lengths lie around the widths of the prefixes.
Names == {[i \in 1..n |-> 100] : n \in {0, 1, 6, 7, 8, 126, 127, 128}} \cup {<<5>>}

Line(a, base) == encode_prefixed_int(6, 128, base - 1 - a)

NameLine(a, base, text) == encode_prefixed_int(4, 64, base - 1 - a) \o Huffman(text)

(* A field section whose entries have arrived and are still in the table    *)
(* decodes to the fields the encoder meant, for a base at the count, one    *)
(* above it and 63 above it, however often the count has wrapped; and the   *)
(* server's own sections decode to the fields they were made from.  (decode *)
(* takes bit 0x40 for the sign of the delta, so a base 64 or more above the *)
(* count is read as one below it, and the property stops short of that.)    *)
(* Spelled values are tried when nothing is on its way; every table the     *)
(* decoder can have occurs in such a state.                                 *)
SectionsDecode ==
    /\ AppliedOnce
    /\ \A a \in qd.dropped_count..(qd.insert_count - 1) :
          \A ric \in (a + 1)..qd.insert_count : \A base \in {ric, ric + 1, ric + 63} :
             LET e == peer.entries[a + 1]
             IN /\ decode(qd, Prefix(ric, base) \o Line(a, base)) = Hit(<<e>>, <<>>)
                /\ base = qd.insert_count /\ estream = <<>> =>
                      \A text \in Texts : decode(qd, Prefix(ric, base) \o NameLine(a, base, text))
                                            = Hit(<<[e EXCEPT !.value = text]>>, <<>>)
    /\ peer.sent = 1 =>
          \A e \in {kStaticTable[i] : i \in 0..98}
                   \cup {[name |-> n, value |-> v] : n \in Names, v \in Names} :
             decode(qd, encode_field_section(e)) = Hit(<<e>>, <<>>)
=============================================================================
