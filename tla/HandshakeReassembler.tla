------------------------ MODULE HandshakeReassembler ------------------------
(***************************************************************************)
(* The reassembler in front of wolfSSL's DTLS 1.2: fragments of a handshake *)
(* message are collected by msg_seq and handed on as one record when every  *)
(* byte is there; what stays incomplete for gc_ttl_ is dropped.             *)
(*                                                                          *)
(* Source: modules/dtls/include/nimrtc/dtls/dtls_handshake_reassembler.hpp, *)
(* and its three uses in dtls_wolfssl_session.cpp.  The network loses,      *)
(* copies and reorders, and the peer may cut a retransmission differently:  *)
(* any fragment of the current handshake may arrive at any time.            *)
(***************************************************************************)
EXTENDS Integers, Sequences

CONSTANTS
    Messages,      \* by msg_seq: type and length of the peer's messages
    GcTtl,         \* gc_ttl_ in ticks
    MaxTicks, MaxArrivals, MaxRestarts     \* bounds

\* A message of the handshake has a length the reassembler takes.
ASSUME MessageLengths ==
    /\ \A m \in DOMAIN Messages : Messages[m].len \in Nat \ {0} /\ Messages[m].len <= 16384
    /\ GcTtl \in Nat

VARIABLES
    bufs_,         \* by msg_seq: FragmentBuf
    fed,           \* the last thing handed to wolfSSL
    hsClock,       \* ticks so far
    attempt,       \* handshakes begun: their messages differ
    arrivals,      \* records so far
    here           \* by msg_seq: bytes that came and have not gone on, and when the last did

hrVars == <<bufs_, fed, hsClock, attempt, arrivals, here>>

Byte(m, i) == <<attempt, m, i>>
Body(m) == [i \in 1..Messages[m].len |-> Byte(m, i)]

\* One record with one handshake fragment.
Fragment(m, off, len) ==
    [msg_type |-> Messages[m].type, msg_len |-> Messages[m].len, msg_seq |-> m,
     frag_off |-> off, frag_len |-> len, epoch |-> 0, size |-> 12 + len,
     data |-> [i \in 1..len |-> Byte(m, off + i)]]

FragmentBuf(r) ==
    [msg_type |-> r.msg_type, total_length |-> r.msg_len, epoch |-> r.epoch,
     body |-> [i \in 1..r.msg_len |-> <<>>], received |-> [i \in 1..r.msg_len |-> FALSE],
     last_seen |-> hsClock]

Nothing == [result |-> "kFragmentBuffered", seq |-> 0, body |-> <<>>]

unfragmented(r) == r.frag_off = 0 /\ r.frag_len = r.msg_len /\ r.size = 12 + r.msg_len

sane(r) ==
    /\ r.msg_len > 0 /\ r.msg_len <= 16384 /\ r.frag_off < r.msg_len /\ r.frag_len <= r.msg_len
    /\ r.frag_off + r.frag_len <= r.msg_len /\ r.size >= 12 + r.frag_len

matches(buf, r) ==
    buf.msg_type = r.msg_type /\ buf.total_length = r.msg_len /\ buf.epoch = r.epoch

\* Mutant: only the first fragment sets the time of the buffer.
filled_FirstSeen(buf, r) ==
    [buf EXCEPT
        !.body = [i \in DOMAIN @ |-> IF i \in (r.frag_off + 1)..(r.frag_off + r.frag_len)
                                     THEN r.data[i - r.frag_off] ELSE @[i]],
        !.received = [i \in DOMAIN @ |-> @[i] \/ i \in (r.frag_off + 1)..(r.frag_off + r.frag_len)]]

filled(buf, r) ==
    [buf EXCEPT
        !.body = [i \in DOMAIN @ |-> IF i \in (r.frag_off + 1)..(r.frag_off + r.frag_len)
                                     THEN r.data[i - r.frag_off] ELSE @[i]],
        !.received = [i \in DOMAIN @ |-> @[i] \/ i \in (r.frag_off + 1)..(r.frag_off + r.frag_len)],
        !.last_seen = hsClock]

Without(bufs, ms) == [m \in DOMAIN bufs \ ms |-> bufs[m]]

\* The result, the record that goes on, and the buffers afterwards.
try_reassemble(r) ==
    LET known == r.msg_seq \in DOMAIN bufs_
        buf   == filled(IF known THEN bufs_[r.msg_seq] ELSE FragmentBuf(r), r)
        pass  == [result |-> "kPassThrough", body |-> r.data, bufs |-> bufs_]
    IN CASE unfragmented(r) \/ ~sane(r) -> pass
         [] ~(unfragmented(r) \/ ~sane(r)) /\ known /\ ~matches(bufs_[r.msg_seq], r) -> pass
         [] ~(unfragmented(r) \/ ~sane(r)) /\ ~known /\ r.size # 12 + r.frag_len -> pass
         [] OTHER ->
              IF \A i \in DOMAIN buf.received : buf.received[i]
              THEN [result |-> "kReassembled", body |-> buf.body,
                    bufs |-> Without(bufs_, {r.msg_seq})]
              ELSE [result |-> "kFragmentBuffered", body |-> <<>>,
                    bufs |-> [m \in DOMAIN bufs_ \cup {r.msg_seq} |->
                                 IF m = r.msg_seq THEN buf ELSE bufs_[m]]]

----------------------------------------------------------------------------
Absent == [bytes |-> {}, at |-> 0]

HrInit ==
    /\ bufs_ = << >> /\ fed = Nothing /\ hsClock = 0 /\ attempt = 0 /\ arrivals = 0
    /\ here = [m \in DOMAIN Messages |-> Absent]

\* feed_inbound(): the message a fragment completes goes on in its place, a
\* fragment that is kept ends the call.
FeedFragment(m, off, len) ==
    LET t   == try_reassemble(Fragment(m, off, len))
        all == here[m].bytes \cup (off + 1)..(off + len)
    IN /\ arrivals < MaxArrivals /\ arrivals' = arrivals + 1
       /\ bufs_' = t.bufs
       /\ fed' = [result |-> t.result, seq |-> m, body |-> t.body]
       /\ here' = IF len = Messages[m].len THEN here
                  ELSE [here EXCEPT ![m] = IF all = 1..Messages[m].len THEN Absent
                                           ELSE [bytes |-> all, at |-> hsClock]]
       /\ UNCHANGED <<hsClock, attempt>>

\* tick() drops what has seen no fragment for gc_ttl_.
gc_expired ==
    /\ hsClock < MaxTicks /\ hsClock' = hsClock + 1
    /\ bufs_' = Without(bufs_, {m \in DOMAIN bufs_ : hsClock + 1 - bufs_[m].last_seen >= GcTtl})
    /\ here' = [m \in DOMAIN here |->
                   IF hsClock + 1 - here[m].at >= GcTtl THEN Absent ELSE here[m]]
    /\ fed' = Nothing
    /\ UNCHANGED <<attempt, arrivals>>

\* teardown(): the next handshake, whose messages differ, starts with no buffer.
clear ==
    /\ attempt < MaxRestarts /\ attempt' = attempt + 1
    /\ here' = [m \in DOMAIN here |-> Absent] /\ fed' = Nothing
    /\ bufs_' = << >>
    /\ UNCHANGED <<hsClock, arrivals>>

HrNext ==
    \/ \E m \in DOMAIN Messages : \E off \in 0..(Messages[m].len - 1) :
          \E len \in 1..(Messages[m].len - off) : FeedFragment(m, off, len)
    \/ gc_expired
    \/ clear

HrSpec == HrInit /\ [][HrNext]_hrVars

HrTypeOK ==
    /\ DOMAIN bufs_ \subseteq DOMAIN Messages /\ attempt \in 0..MaxRestarts
    /\ hsClock \in 0..MaxTicks /\ arrivals \in 0..MaxArrivals

\* What goes on to wolfSSL is a whole message of this handshake, byte for byte,
\* however its fragments were cut, repeated or reordered; and it goes on as soon
\* as all its bytes came with no silence of gc_ttl_ between them: what the
\* reassembler holds is exactly what came and is still short of a message
\* (try_reassemble(), gc_expired(), clear()).
ReassemblyExact ==
    /\ fed.result # "kFragmentBuffered" => fed.body = Body(fed.seq)
    /\ \A m \in DOMAIN Messages :
          {i \in 1..Messages[m].len : m \in DOMAIN bufs_ /\ bufs_[m].received[i]} = here[m].bytes
=============================================================================
