--------------------------- MODULE ArqRawUdpProofs ---------------------------
(***************************************************************************)
(* Proofs about the ARQ over raw UDP, for every sequence space, window,    *)
(* number of sending threads and network: the receiver never goes back, and *)
(* on a clean link (one caller, nothing lost or reordered) the ARQ          *)
(* implements FifoDelivery.                                                 *)
(***************************************************************************)
EXTENDS ArqRawUdp, TLAPS

-----------------------------------------------------------------------------
(* Arithmetic of the sequence space. *)

\* Reduction modulo S of a number at most one cycle away from 0..S-1.
LEMMA ModNear ==
  ASSUME NEW S \in Nat, S > 0, NEW x \in Int
  PROVE  /\ 0 <= x /\ x < S => x % S = x
         /\ S <= x /\ x < 2 * S => x % S = x - S
         /\ -S <= x /\ x < 0 => x % S = x + S
<1>1. 0 <= x /\ x < S => x % S = x
  OBVIOUS
<1>2. S <= x /\ x < 2 * S => x % S = x - S
  OBVIOUS
<1>3. -S <= x /\ x < 0 => x % S = x + S
  OBVIOUS
<1> QED BY Zenon, <1>1, <1>2, <1>3

\* The sequence number that send() call n draws.
Number(n) == (FirstSeq + n - 1) % SeqSpace

LEMMA SpaceFacts ==
  /\ SeqSpace \in Nat /\ Window \in Nat /\ Window >= 1 /\ SeqSpace >= 2 * Window
  /\ FirstSeq \in Int /\ 0 <= FirstSeq /\ FirstSeq < SeqSpace
BY ArqAssumption DEF ArqAssumption

\* Within one cycle the numbers are consecutive, wrapping once at most.
LEMMA NumberValue ==
  ASSUME NEW n \in Int, 1 <= n, n <= SeqSpace
  PROVE  /\ Number(n) = IF FirstSeq + n - 1 < SeqSpace THEN FirstSeq + n - 1
                                                       ELSE FirstSeq + n - 1 - SeqSpace
         /\ Number(n) \in Int /\ 0 <= Number(n) /\ Number(n) < SeqSpace
         /\ Number(n) \in Seqs
<1> DEFINE x == FirstSeq + n - 1
<1>1. x \in Int /\ 0 <= x /\ x < 2 * SeqSpace /\ SeqSpace > 0 /\ SeqSpace \in Nat
  BY SpaceFacts
<1>2. Number(n) = IF x < SeqSpace THEN x ELSE x - SeqSpace
  <2> HIDE DEF x
  <2>1. Number(n) = x % SeqSpace
    BY Zenon DEF Number, x
  <2> QED BY <2>1, <1>1, ModNear
<1> QED BY <1>1, <1>2, SpaceFacts DEF Seqs

\* SeqDiff of two numbers of the same cycle is their distance.
LEMMA NumberDiff ==
  ASSUME NEW a \in Int, 1 <= a, a <= SeqSpace, NEW b \in Int, 1 <= b, b <= SeqSpace
  PROVE  SeqDiff(Number(a), Number(b)) = IF a >= b THEN a - b ELSE a - b + SeqSpace
<1> DEFINE d == Number(a) - Number(b)
<1>1. d \in {a - b, a - b + SeqSpace, a - b - SeqSpace} /\ d \in Int
         /\ -SeqSpace < d /\ d < SeqSpace /\ SeqSpace \in Nat /\ SeqSpace > 0
  <2>1. /\ Number(a) = FirstSeq + a - 1 \/ Number(a) = FirstSeq + a - 1 - SeqSpace
        /\ Number(a) \in Int /\ 0 <= Number(a) /\ Number(a) < SeqSpace
    BY Zenon, NumberValue
  <2>2. /\ Number(b) = FirstSeq + b - 1 \/ Number(b) = FirstSeq + b - 1 - SeqSpace
        /\ Number(b) \in Int /\ 0 <= Number(b) /\ Number(b) < SeqSpace
    BY Zenon, NumberValue
  <2> QED BY <2>1, <2>2, SpaceFacts
<1>2. SeqDiff(Number(a), Number(b)) = d % SeqSpace
  BY Zenon DEF SeqDiff
<1> HIDE DEF d
<1>3. d % SeqSpace = IF d >= 0 THEN d ELSE d + SeqSpace
  BY <1>1, ModNear
<1> QED BY <1>1, <1>2, <1>3

\* No number is drawn twice in a cycle.
LEMMA NumberInjective ==
  ASSUME NEW a \in Int, 1 <= a, a <= SeqSpace, NEW b \in Int, 1 <= b, b <= SeqSpace,
         Number(a) = Number(b)
  PROVE  a = b
BY NumberValue, SpaceFacts

\* Counting on from a number reaches the numbers of the following calls.
LEMMA NumberAdd ==
  ASSUME NEW a \in Int, 1 <= a, NEW j \in Int, 0 <= j, a + j <= SeqSpace
  PROVE  (Number(a) + j) % SeqSpace = Number(a + j)
<1> DEFINE c == a + j
<1>1. a <= SeqSpace /\ c \in Int /\ 1 <= c /\ c <= SeqSpace
  BY SpaceFacts
<1> DEFINE x == Number(a) + j
<1>2. x \in Int /\ 0 <= x /\ x < 2 * SeqSpace /\ SeqSpace \in Nat /\ SeqSpace > 0
  BY <1>1, NumberValue, SpaceFacts
<1>3. x % SeqSpace = IF x < SeqSpace THEN x ELSE x - SeqSpace
  <2> HIDE DEF x
  <2> QED BY <1>2, ModNear
<1>4. Number(a) = IF FirstSeq + a - 1 < SeqSpace THEN FirstSeq + a - 1
                                                 ELSE FirstSeq + a - 1 - SeqSpace
  BY Zenon, <1>1, NumberValue
<1>5. Number(c) = IF FirstSeq + c - 1 < SeqSpace THEN FirstSeq + c - 1
                                                 ELSE FirstSeq + c - 1 - SeqSpace
  <2> HIDE DEF c
  <2> QED BY Zenon, <1>1, NumberValue
<1> QED BY <1>1, <1>3, <1>4, <1>5, SpaceFacts

-----------------------------------------------------------------------------
(* ARQ, any link: the receiver goes forward. *)

FrameRec == [seq : Seqs, payload : Nat]
PendingRec == [seq : Seqs, payload : Nat, retransmit_count : Nat]
CallRec == {IdleCall} \union [at : {"framed", "pushed"}, seq : Seqs, payload : Nat]

\* f belongs to a send() call made so far, under the number that call drew.
Numbered(f) == f.payload \in 1..sends /\ f.seq = Number(f.payload)

\* The sender, the network and the types.
SenderInv ==
    /\ link \in Links /\ sends \in 0..MaxSends /\ tx_seq = Number(sends + 1)
    /\ caller \in [Callers -> CallRec]
    /\ \A c \in Callers : caller[c] # IdleCall => Numbered(caller[c])
    /\ tx_pending \in Seq(PendingRec)
    /\ \A i \in 1..Len(tx_pending) : Numbered(tx_pending[i])
    /\ data \in Seq(FrameRec)
    /\ \A i \in 1..Len(data) : Numbered(data[i])

\* The buffered packets are those of the b-th base's window, each under its number.
Buffered(b) ==
    \A k \in DOMAIN rx_buffer :
        /\ rx_buffer[k] \in Nat /\ b < rx_buffer[k]
        /\ rx_buffer[k] < b + Window /\ rx_buffer[k] <= sends
        /\ k = Number(rx_buffer[k])

\* s is in the order of sending and reaches packet b at most.
InOrderUpTo(s, b) ==
    /\ s \in Seq(Nat)
    /\ \A i \in 1..Len(s) : s[i] <= b
    /\ Forward(s)

\* The base stands at packet b: nothing after b has been handed out.
BaseAt(b) ==
    /\ rx_base_seq = Number(b)
    /\ Buffered(b)
    /\ InOrderUpTo(rx_delivered, b) /\ InOrderUpTo(received, b)
    /\ \A i \in 1..Len(received), j \in 1..Len(rx_delivered) : received[i] < rx_delivered[j]

\* The base stands at a packet sent, or just behind the last.
ReceiverInv ==
    /\ rx_initialized \in BOOLEAN
    /\ rx_initialized => \E b \in 1..(sends + 1) : BaseAt(b)
    /\ ~rx_initialized => rx_buffer = <<>> /\ rx_delivered = <<>> /\ received = <<>>

ArqInv == SenderInv /\ ReceiverInv

-----------------------------------------------------------------------------
(* Sequences the threads build. *)

\* What SubSeq, \o and Append are made of.
LEMMA SubSeqParts ==
  ASSUME NEW T, NEW s \in Seq(T), NEW a \in Int, NEW b \in Int, 1 <= a, b <= Len(s)
  PROVE  /\ SubSeq(s, a, b) \in Seq(T)
         /\ Len(SubSeq(s, a, b)) = IF a <= b THEN b - a + 1 ELSE 0
         /\ \A i \in 1..(b - a + 1) : SubSeq(s, a, b)[i] = s[a + i - 1]
BY SMTT(20)

LEMMA ConcatParts ==
  ASSUME NEW T, NEW s \in Seq(T), NEW t \in Seq(T)
  PROVE  /\ s \o t \in Seq(T)
         /\ Len(s \o t) = Len(s) + Len(t)
         /\ \A i \in 1..(Len(s) + Len(t)) :
               (s \o t)[i] = IF i <= Len(s) THEN s[i] ELSE t[i - Len(s)]
OBVIOUS

LEMMA AppendParts ==
  ASSUME NEW T, NEW s \in Seq(T), NEW e \in T
  PROVE  Append(s, e) = s \o <<e>>
OBVIOUS

\* A function on 1..n is a sequence.
LEMMA FunctionSeq ==
  ASSUME NEW T, NEW n \in Nat, NEW w \in [1..n -> T]
  PROVE  w \in Seq(T) /\ Len(w) = n
OBVIOUS

\* What a loop over the positions in I collects comes from those positions.
LEMMA AtSeq ==
  ASSUME NEW T, NEW s \in Seq(T), NEW I \in SUBSET (1..Len(s)), NEW m \in Nat,
         NEW ix \in InOrder(m, I)
  PROVE  /\ At(s, ix) \in Seq(T)
         /\ \A k \in 1..Len(At(s, ix)) : \E i \in I : At(s, ix)[k] = s[i]
<1>0. Len(s) \in Nat /\ \A i \in 1..Len(s) : s[i] \in T
  OBVIOUS
<1>1. PICK n \in 0..m : ix \in [1..n -> I]
  BY Zenon DEF InOrder
<1>2. n \in Nat
  BY <1>1
<1>4. At(s, ix) = [k \in 1..n |-> s[ix[k]]]
  BY Zenon, <1>1 DEF At
<1>5. \A k \in 1..n : ix[k] \in I /\ s[ix[k]] \in T
  BY Zenon, <1>0, <1>1
<1>6. At(s, ix) \in [1..n -> T]
  BY Zenon, <1>4, <1>5
<1>7. At(s, ix) \in Seq(T) /\ Len(At(s, ix)) = n
  BY <1>2, <1>6
<1> QED BY Zenon, <1>4, <1>5, <1>7

LEMMA SeqDomain ==
  ASSUME NEW T, NEW s \in Seq(T)
  PROVE  DOMAIN s = 1..Len(s)
OBVIOUS

\* Taking one element out.
LEMMA DropAtSeq ==
  ASSUME NEW T, NEW s \in Seq(T), NEW i \in 1..Len(s)
  PROVE  /\ DropAt(s, i) \in Seq(T)
         /\ Len(DropAt(s, i)) = Len(s) - 1
         /\ \A k \in 1..(Len(s) - 1) : DropAt(s, i)[k] = IF k < i THEN s[k] ELSE s[k + 1]
<1> DEFINE a == SubSeq(s, 1, i - 1)
           b == SubSeq(s, i + 1, Len(s))
<1>0. Len(s) \in Nat /\ i \in Int /\ 1 <= i /\ i <= Len(s)
  OBVIOUS
<1>1. /\ a \in Seq(T) /\ Len(a) = i - 1
      /\ \A k \in 1..(i - 1) : a[k] = s[k]
  BY <1>0, SubSeqParts
<1>2. /\ b \in Seq(T) /\ Len(b) = Len(s) - i
      /\ \A k \in 1..(Len(s) - i) : b[k] = s[i + k]
  BY <1>0, SubSeqParts
<1>3. DropAt(s, i) = a \o b
  BY Zenon DEF DropAt
<1> HIDE DEF a, b
<1>4. /\ a \o b \in Seq(T) /\ Len(a \o b) = Len(a) + Len(b)
      /\ \A k \in 1..(Len(a) + Len(b)) : (a \o b)[k] = IF k <= Len(a) THEN a[k] ELSE b[k - Len(a)]
  BY Zenon, <1>1, <1>2, ConcatParts
<1>5. ASSUME NEW k \in 1..(Len(s) - 1)
      PROVE  (a \o b)[k] = IF k < i THEN s[k] ELSE s[k + 1]
  <2>1. CASE k < i
    BY <2>1, <1>0, <1>1, <1>2, <1>4
  <2>2. CASE ~(k < i)
    <3>1. k - (i - 1) \in 1..(Len(s) - i)
      BY <2>2, <1>0
    <3>2. b[k - (i - 1)] = s[i + (k - (i - 1))]
      BY Zenon, <3>1, <1>2
    <3>3. i + (k - (i - 1)) = k + 1
      BY <1>0
    <3> QED BY SMTT(20), <2>2, <3>2, <3>3, <1>0, <1>1, <1>2, <1>4
  <2> QED BY Zenon, <2>1, <2>2
<1> QED BY SMTT(20), <1>0, <1>1, <1>2, <1>3, <1>4, <1>5

\* Putting a later run behind an earlier one keeps the order.
LEMMA InOrderConcat ==
  ASSUME NEW b \in Nat, NEW u \in Nat, b <= u, NEW s, NEW t,
         InOrderUpTo(s, b), InOrderUpTo(t, u), \A j \in 1..Len(t) : t[j] > b
  PROVE  InOrderUpTo(s \o t, u)
<1>1. s \in Seq(Nat) /\ t \in Seq(Nat) /\ Len(s) \in Nat /\ Len(t) \in Nat
  BY DEF InOrderUpTo
<1>2. /\ s \o t \in Seq(Nat) /\ Len(s \o t) = Len(s) + Len(t)
      /\ \A k \in 1..(Len(s) + Len(t)) : (s \o t)[k] = IF k <= Len(s) THEN s[k] ELSE t[k - Len(s)]
  BY ZenonT(30), <1>1, ConcatParts
<1> DEFINE w == s \o t
           m == Len(s)
           n == Len(t)
<1>3. /\ w \in Seq(Nat) /\ Len(w) = m + n /\ m \in Nat /\ n \in Nat
      /\ \A k \in 1..(m + n) : w[k] = IF k <= m THEN s[k] ELSE t[k - m]
  BY Zenon, <1>1, <1>2
<1>4. /\ \A k \in 1..m : s[k] \in Nat /\ s[k] <= b
      /\ \A k \in 1..n : t[k] \in Nat /\ t[k] > b /\ t[k] <= u
      /\ \A i, j \in 1..m : i < j => s[i] <= s[j] /\ (i + 1 < j => s[i] < s[j])
      /\ \A i, j \in 1..n : i < j => t[i] <= t[j] /\ (i + 1 < j => t[i] < t[j])
  BY SMTT(20), <1>1 DEF InOrderUpTo, Forward
<1>5. w \in Seq(Nat) /\ Len(w) = m + n
  BY Zenon, <1>3
<1> HIDE DEF w, m, n
<1>6. ASSUME NEW k \in 1..(m + n)
      PROVE  /\ k \in Int /\ w[k] \in Nat /\ w[k] <= u
             /\ k <= m => w[k] = s[k] /\ w[k] <= b /\ k \in 1..m
             /\ k > m => w[k] = t[k - m] /\ w[k] > b /\ k - m \in 1..n
  <2>1. CASE k <= m
    BY SMTT(20), <2>1, <1>3, <1>4
  <2>2. CASE k > m
    <3>1. k - m \in 1..n
      BY <2>2, <1>3
    <3> QED BY SMTT(20), <2>2, <3>1, <1>3, <1>4
  <2> QED BY <2>1, <2>2, <1>3
<1>7. ASSUME NEW i \in 1..(m + n), NEW j \in 1..(m + n), i < j
      PROVE  w[i] <= w[j] /\ (i + 1 < j => w[i] < w[j])
  <2>1. CASE j <= m
    <3>1. i \in 1..m /\ j \in 1..m /\ i <= m
      BY <2>1, <1>3, <1>7
    <3>2. s[i] <= s[j] /\ (i + 1 < j => s[i] < s[j])
      BY Zenon, <3>1, <1>4, <1>7
    <3> QED BY Zenon, <2>1, <3>1, <3>2, <1>6
  <2>2. CASE i <= m /\ j > m
    BY SMTT(20), <2>2, <1>6
  <2>3. CASE i > m /\ j > m
    <3>1. i - m < j - m /\ (i + 1 < j => i - m + 1 < j - m)
      BY <1>3, <1>7
    <3> QED BY Zenon, <2>3, <3>1, <1>4, <1>6
  <2> QED BY <2>1, <2>2, <2>3, <1>3, <1>7
<1>8. InOrderUpTo(w, u)
  BY Zenon, <1>5, <1>6, <1>7 DEF InOrderUpTo, Forward
<1> QED BY Zenon, <1>8 DEF w

-----------------------------------------------------------------------------
(* ArqInv is inductive. *)

LEMMA LinkFacts ==
  ASSUME link \in Links
  PROVE  /\ MaxSends \in Nat /\ MaxSends + Window <= SeqSpace
         /\ MaxRetransmits \in Nat /\ MaxCloses \in Nat /\ MaxDups \in Nat
         /\ Lossy \in BOOLEAN /\ Reordering \in BOOLEAN
         /\ link.callers \subseteq Callers
BY Zenon, ArqAssumption, OneCycle
   DEF ArqAssumption, OneCycle, MaxSends, MaxRetransmits, MaxCloses, MaxDups, Lossy, Reordering

\* The send() calls made so far stay within the cycle.
LEMMA SendsFit ==
  ASSUME SenderInv
  PROVE  sends \in Nat /\ sends + Window <= SeqSpace /\ SeqSpace \in Nat /\ Window \in Nat
         /\ Window >= 1
BY SMTT(20), LinkFacts, SpaceFacts DEF SenderInv

LEMMA ArqInitInv == ArqInit => ArqInv
<1> SUFFICES ASSUME ArqInit PROVE ArqInv
  BY Zenon
<1>1. link \in Links
  BY Zenon DEF ArqInit
<1>2. MaxSends \in Nat
  BY Zenon, <1>1, LinkFacts
<1>3. tx_seq = Number(1)
  BY NumberValue, SpaceFacts DEF ArqInit
<1>4. SenderInv
  BY <1>1, <1>2, <1>3 DEF ArqInit, SenderInv, CallRec
<1>5. ReceiverInv
  BY Zenon DEF ArqInit, ReceiverInv
<1> QED BY Zenon, <1>4, <1>5 DEF ArqInv

LEMMA SpanGrows ==
  ASSUME NEW m \in Nat, NEW n \in Nat, m <= n, NEW b \in 1..(m + 1)
  PROVE  b \in 1..(n + 1)
OBVIOUS

\* A step that leaves the receiver alone and forgets no send() call.
LEMMA ReceiverKept ==
  ASSUME ReceiverInv, UNCHANGED rx, sends \in Nat, sends' \in Nat, sends <= sends'
  PROVE  ReceiverInv'
<1>1. CASE rx_initialized
  <2>1. PICK b \in 1..(sends + 1) : BaseAt(b)
    BY Zenon, <1>1 DEF ReceiverInv
  <2>2. b \in 1..(sends' + 1)
    BY Zenon, SpanGrows
  <2>3. Buffered(b)'
    BY <2>1 DEF rx, BaseAt, Buffered
  <2>4. BaseAt(b)'
    BY Zenon, <2>1, <2>3 DEF rx, BaseAt
  <2> QED BY Zenon, <1>1, <2>2, <2>4 DEF ReceiverInv, rx
<1>2. CASE ~rx_initialized
  BY Zenon, <1>2 DEF ReceiverInv, rx
<1> QED BY Zenon, <1>1, <1>2 DEF ReceiverInv

\* A step that leaves the sender's threads alone and adds no frame.
LEMMA SenderKept ==
  ASSUME SenderInv, UNCHANGED <<link, sends, tx_seq, caller>>,
         tx_pending' \in Seq(PendingRec),
         \A i \in 1..Len(tx_pending') : Numbered(tx_pending'[i]),
         data' \in Seq(FrameRec),
         \A i \in 1..Len(data') : Numbered(data'[i])
  PROVE  SenderInv'
BY Zenon DEF SenderInv, Numbered, MaxSends

LEMMA SendFrameInv ==
  ASSUME SenderInv, NEW c \in Callers, SendFrame(c)
  PROVE  SenderInv'
<1> USE DEF SendFrame
<1>0. sends \in Nat /\ sends + 1 <= MaxSends /\ MaxSends + Window <= SeqSpace /\ MaxSends \in Nat
      /\ SeqSpace \in Nat /\ Window \in Nat /\ Window >= 1
  BY SMTT(20), LinkFacts, SpaceFacts DEF SenderInv
<1>1. tx_seq' = Number(sends' + 1)
  <2>1. (Number(sends + 1) + 1) % SeqSpace = Number((sends + 1) + 1)
    BY <1>0, NumberAdd
  <2> QED BY Zenon, <2>1 DEF SenderInv
<1>2. tx_seq \in Seqs
  BY <1>0, NumberValue DEF SenderInv
<1>3. caller' \in [Callers -> CallRec]
  BY SMTT(20), <1>0, <1>2 DEF SenderInv, CallRec
<1>4. ASSUME NEW d \in Callers, caller'[d] # IdleCall
      PROVE  Numbered(caller[d])'
  <2>1. CASE d = c
    BY <2>1, <1>0 DEF SenderInv, Numbered
  <2>2. CASE d # c
    BY SMTT(20), <2>2, <1>0, <1>4 DEF SenderInv, Numbered
  <2> QED BY Zenon, <2>1, <2>2
<1>5. /\ \A i \in 1..Len(tx_pending) : Numbered(tx_pending[i])'
      /\ \A i \in 1..Len(data) : Numbered(data[i])'
  <2>1. ASSUME NEW r, Numbered(r) PROVE r.payload \in 1..sends' /\ r.seq = Number(r.payload)
    BY <1>0, <2>1 DEF Numbered
  <2>2. /\ \A i \in 1..Len(tx_pending) : Numbered(tx_pending[i])
        /\ \A i \in 1..Len(data) : Numbered(data[i])
    BY Zenon DEF SenderInv
  <2> QED BY Zenon, <1>0, <2>1, <2>2 DEF Numbered
<1> QED BY SMTT(20), <1>0, <1>1, <1>3, <1>4, <1>5 DEF SenderInv, MaxSends

LEMMA SendPushInv ==
  ASSUME SenderInv, NEW c \in Callers, SendPush(c)
  PROVE  SenderInv'
<1> USE DEF SendPush
<1>1. caller[c] \in [at : {"framed", "pushed"}, seq : Seqs, payload : Nat] /\ Numbered(caller[c])
  BY DEF SenderInv, CallRec, IdleCall
<1>2. CASE WindowFull
  BY Zenon, <1>2 DEF SenderInv, CallRec, Numbered, MaxSends
<1>3. CASE ~WindowFull
  <2> DEFINE p == [seq |-> caller[c].seq, payload |-> caller[c].payload, retransmit_count |-> 0]
  <2>1. p \in PendingRec /\ Numbered(p)
    BY Zenon, <1>1 DEF PendingRec, Numbered
  <2>2. tx_pending' = Append(tx_pending, p)
    BY Zenon, <1>3
  <2>3. caller' = [caller EXCEPT ![c].at = "pushed"]
    BY Zenon, <1>3
  <2>4. caller'[c].seq = caller[c].seq /\ caller'[c].payload = caller[c].payload
    BY Zenon, <1>1, <2>3 DEF SenderInv
  <2>5. caller' \in [Callers -> CallRec]
    BY Zenon, <1>1, <2>3 DEF SenderInv, CallRec
  <2>6. ASSUME NEW d \in Callers, caller'[d] # IdleCall
        PROVE  Numbered(caller[d])'
    BY Zenon, <1>1, <2>3, <2>4, <2>6 DEF SenderInv, Numbered
  <2> HIDE DEF p
  <2>7. tx_pending' \in Seq(PendingRec) /\ \A i \in 1..Len(tx_pending') : Numbered(tx_pending'[i])
    BY SMTT(20), <2>1, <2>2 DEF SenderInv
  <2> QED BY Zenon, <2>5, <2>6, <2>7 DEF SenderInv, Numbered, MaxSends
<1> QED BY Zenon, <1>2, <1>3

LEMMA SendWireInv ==
  ASSUME SenderInv, NEW c \in Callers, SendWire(c)
  PROVE  SenderInv'
<1> USE DEF SendWire
<1> DEFINE f == [seq |-> caller[c].seq, payload |-> caller[c].payload]
<1>1. caller[c] \in [at : {"framed", "pushed"}, seq : Seqs, payload : Nat] /\ Numbered(caller[c])
  BY DEF SenderInv, CallRec, IdleCall
<1>2. f \in FrameRec /\ Numbered(f)
  BY Zenon, <1>1 DEF FrameRec, Numbered
<1>3. data' = Append(data, f) \/ data' = data
  BY Zenon
<1>4. caller' = [caller EXCEPT ![c] = IdleCall]
  BY Zenon
<1> HIDE DEF f
<1>5. data' \in Seq(FrameRec) /\ \A i \in 1..Len(data') : Numbered(data'[i])
  BY <1>2, <1>3 DEF SenderInv
<1> QED BY <1>4, <1>5 DEF SenderInv, CallRec, Numbered, MaxSends

LEMMA RetransmitInv ==
  ASSUME SenderInv, Retransmit
  PROVE  SenderInv'
<1>1. PICK due \in SUBSET (1..Len(tx_pending)) : retransmit_main(due)
  BY Zenon DEF Retransmit
<1> DEFINE n == Len(tx_pending)
           spent == {i \in due : tx_pending[i].retransmit_count >= MaxRetransmits}
           again == due \ spent
           marked == [i \in 1..n |->
                        IF i \in again THEN [tx_pending[i] EXCEPT !.retransmit_count = @ + 1]
                        ELSE tx_pending[i]]
           frames == [i \in 1..n |-> [seq |-> tx_pending[i].seq, payload |-> tx_pending[i].payload]]
<1>2. n \in Nat /\ \A i \in 1..n : tx_pending[i] \in PendingRec /\ Numbered(tx_pending[i])
  BY DEF SenderInv
<1>3. \A i \in 1..n : marked[i] \in PendingRec /\ Numbered(marked[i])
  BY <1>2 DEF PendingRec, Numbered
<1>4. \A i \in 1..n : frames[i] \in FrameRec /\ Numbered(frames[i])
  BY Zenon, <1>2 DEF PendingRec, FrameRec, Numbered
<1>5. PICK kept \in InOrder(n, (1..n) \ spent), sent \in InOrder(n, again) :
         /\ tx_pending' = At(marked, kept) /\ data' = data \o At(frames, sent)
         /\ UNCHANGED <<link, sends, tx_seq, caller>>
  BY Zenon, <1>1 DEF retransmit_main
<1>6. /\ (1..n) \ spent \in SUBSET (1..n) /\ again \in SUBSET (1..n)
      /\ marked \in [1..n -> PendingRec] /\ frames \in [1..n -> FrameRec]
  <2>1. marked \in [1..n -> PendingRec]
    BY Zenon, <1>3
  <2>2. frames \in [1..n -> FrameRec]
    BY Zenon, <1>4
  <2>3. (1..n) \ spent \in SUBSET (1..n) /\ again \in SUBSET (1..n)
    BY Zenon
  <2> QED BY Zenon, <2>1, <2>2, <2>3
<1> HIDE DEF n, spent, again, marked, frames
<1>7. marked \in Seq(PendingRec) /\ Len(marked) = n /\ frames \in Seq(FrameRec) /\ Len(frames) = n
  BY <1>2, <1>6
<1>8. /\ At(marked, kept) \in Seq(PendingRec)
      /\ \A k \in 1..Len(At(marked, kept)) : \E i \in 1..n : At(marked, kept)[k] = marked[i]
  <2> DEFINE K == (1..n) \ spent
  <2>1. K \in SUBSET (1..n) /\ kept \in InOrder(n, K)
    BY Zenon, <1>5, <1>6
  <2> HIDE DEF K
  <2>2. K \in SUBSET (1..Len(marked))
    BY Zenon, <2>1, <1>7
  <2>3. /\ At(marked, kept) \in Seq(PendingRec)
        /\ \A k \in 1..Len(At(marked, kept)) : \E i \in K : At(marked, kept)[k] = marked[i]
    BY <2>1, <2>2, <1>2, <1>7, AtSeq
  <2> QED BY Zenon, <2>1, <2>3
<1>9. /\ At(frames, sent) \in Seq(FrameRec)
      /\ \A k \in 1..Len(At(frames, sent)) : \E i \in 1..n : At(frames, sent)[k] = frames[i]
  <2>1. again \in SUBSET (1..n) /\ sent \in InOrder(n, again)
    BY Zenon, <1>5, <1>6
  <2>3. again \in SUBSET (1..Len(frames))
    BY Zenon, <2>1, <1>7
  <2>2. /\ At(frames, sent) \in Seq(FrameRec)
        /\ \A k \in 1..Len(At(frames, sent)) : \E i \in again : At(frames, sent)[k] = frames[i]
    BY <2>1, <2>3, <1>2, <1>7, AtSeq
  <2> QED BY Zenon, <2>2, <1>6
<1>10. tx_pending' \in Seq(PendingRec) /\ \A k \in 1..Len(tx_pending') : Numbered(tx_pending'[k])
  BY Zenon, <1>3, <1>5, <1>8
<1>11. \A k \in 1..Len(At(frames, sent)) : Numbered(At(frames, sent)[k])
  BY Zenon, <1>4, <1>9
<1>12. data' \in Seq(FrameRec) /\ \A k \in 1..Len(data') : Numbered(data'[k])
  <2> DEFINE t == At(frames, sent)
  <2>1. t \in Seq(FrameRec) /\ data \in Seq(FrameRec) /\ data' = data \o t
        /\ \A k \in 1..Len(t) : Numbered(t[k])
    BY Zenon, <1>5, <1>9, <1>11 DEF SenderInv
  <2> HIDE DEF t
  <2>2. /\ data' \in Seq(FrameRec) /\ Len(data') = Len(data) + Len(t)
        /\ \A k \in 1..(Len(data) + Len(t)) :
              data'[k] = IF k <= Len(data) THEN data[k] ELSE t[k - Len(data)]
    BY Zenon, <2>1, ConcatParts
  <2>3. ASSUME NEW k \in 1..Len(data') PROVE Numbered(data'[k])
    <3>0. Len(data) \in Nat /\ Len(t) \in Nat
      BY <2>1
    <3>1. CASE k <= Len(data)
      <4>1. k \in 1..Len(data) /\ data'[k] = data[k]
        BY <3>0, <3>1, <2>2
      <4> QED BY Zenon, <4>1 DEF SenderInv
    <3>2. CASE k > Len(data)
      <4>1. k - Len(data) \in 1..Len(t)
        BY <3>0, <3>2, <2>2
      <4> QED BY SMTT(20), <4>1, <3>0, <3>2, <2>1, <2>2
    <3> QED BY <3>0, <3>1, <3>2
  <2> QED BY Zenon, <2>2, <2>3
<1> QED BY Zenon, <1>5, <1>10, <1>12, SenderKept

LEMMA ApplyAckInv ==
  ASSUME SenderInv, NEW a, apply_ack_frame(a), UNCHANGED <<link, data>>
  PROVE  SenderInv'
<1> DEFINE I == {i \in 1..Len(tx_pending) : ~Acknowledges(a, tx_pending[i].seq)}
<1>1. PICK kept \in InOrder(Len(tx_pending), I) : tx_pending' = At(tx_pending, kept)
  BY Zenon DEF apply_ack_frame
<1>2. I \in SUBSET (1..Len(tx_pending))
  BY Zenon
<1> HIDE DEF I
<1>3. /\ At(tx_pending, kept) \in Seq(PendingRec)
      /\ \A k \in 1..Len(At(tx_pending, kept)) : \E i \in I : At(tx_pending, kept)[k] = tx_pending[i]
  <2>1. tx_pending \in Seq(PendingRec)
    BY Zenon DEF SenderInv
  <2> QED BY SMTT(20), <1>1, <1>2, <2>1, AtSeq
<1>4. \A k \in 1..Len(tx_pending') : Numbered(tx_pending'[k])
  BY Zenon, <1>1, <1>2, <1>3 DEF SenderInv
<1> QED BY Zenon, <1>1, <1>3, <1>4, SenderKept DEF apply_ack_frame, SenderInv

\* Frames only leave the network.
LEMMA TakenNumbered ==
  ASSUME SenderInv, NEW i \in 1..Len(data), NEW copy \in BOOLEAN
  PROVE  /\ Drawn(data, i, copy) \in Seq(FrameRec)
         /\ \A k \in 1..Len(Drawn(data, i, copy)) : Numbered(Drawn(data, i, copy)[k])
<1>1. CASE copy
  BY Zenon, <1>1 DEF Drawn, SenderInv
<1>2. CASE ~copy
  <2> DEFINE r == DropAt(data, i)
  <2>1. Drawn(data, i, copy) = r
    BY Zenon, <1>2 DEF Drawn
  <2>2. /\ r \in Seq(FrameRec) /\ Len(r) = Len(data) - 1
        /\ \A k \in 1..(Len(data) - 1) : r[k] = IF k < i THEN data[k] ELSE data[k + 1]
    BY Zenon, DropAtSeq DEF SenderInv
  <2>3. Len(data) \in Nat /\ \A k \in 1..Len(data) : Numbered(data[k])
    BY DEF SenderInv
  <2> HIDE DEF r
  <2>4. \A k \in 1..Len(r) : Numbered(r[k])
    BY <2>2, <2>3
  <2> QED BY Zenon, <2>1, <2>2, <2>4
<1> QED BY Zenon, <1>1, <1>2

LEMMA LoseInv ==
  ASSUME SenderInv, Lose
  PROVE  SenderInv'
<1>1. UNCHANGED <<link, sends, tx_seq, caller, tx_pending>>
  BY Zenon DEF Lose, tx
<1>2. CASE UNCHANGED data
  BY Zenon, <1>1, <1>2, SenderKept DEF SenderInv
<1>3. CASE \E i \in Arrivable(data) : data' = DropAt(data, i)
  <2>1. PICK i \in 1..Len(data) : data' = Drawn(data, i, FALSE)
    BY Zenon, <1>3 DEF Arrivable, Drawn
  <2> QED BY Zenon, <1>1, <2>1, TakenNumbered, SenderKept DEF SenderInv
<1> QED BY Zenon, <1>2, <1>3 DEF Lose

\* Inside the window a frame's distance from the base is its distance in send() calls.
LEMMA FrameInWindow ==
  ASSUME SenderInv, NEW b \in 1..(sends + 1), NEW f, Numbered(f),
         SeqDiff(f.seq, Number(b)) < Window
  PROVE  f.payload \in Nat /\ f.payload >= b /\ SeqDiff(f.seq, Number(b)) = f.payload - b
<1>1. /\ f.payload \in Int /\ 1 <= f.payload /\ f.payload <= sends
      /\ b \in Int /\ 1 <= b /\ b <= sends + 1
  BY SendsFit DEF Numbered
<1>2. SeqDiff(f.seq, Number(b)) =
         IF f.payload >= b THEN f.payload - b ELSE f.payload - b + SeqSpace
  <2>1. f.seq = Number(f.payload)
    BY Zenon DEF Numbered
  <2>2. f.payload <= SeqSpace /\ b <= SeqSpace
    BY <1>1, SendsFit
  <2> QED BY Zenon, <1>1, <2>1, <2>2, NumberDiff
<1> QED BY <1>1, <1>2, SendsFit

\* The receiver's first frame.
LEMMA FirstFrame ==
  ASSUME SenderInv, ReceiverInv, ~rx_initialized, NEW f, Numbered(f), UNCHANGED <<sends, received>>,
         rx_initialized', rx_base_seq' = f.seq, rx_delivered' = rx_delivered \o <<f.payload>>,
         UNCHANGED rx_buffer
  PROVE  ReceiverInv'
<1>1. f.payload \in 1..(sends + 1) /\ f.payload \in Nat
  BY SendsFit DEF Numbered
<1>2. /\ rx_buffer' = <<>> /\ received' = <<>> /\ rx_delivered = <<>>
  BY Zenon DEF ReceiverInv
<1>3. rx_delivered' = <<f.payload>>
  BY <1>1, <1>2
<1>4. InOrderUpTo(<<f.payload>>, f.payload) /\ InOrderUpTo(<<>>, f.payload)
  BY <1>1 DEF InOrderUpTo, Forward
<1>5. Buffered(f.payload)'
  BY <1>2 DEF Buffered
<1>6. BaseAt(f.payload)'
  BY <1>2, <1>3, <1>4, <1>5 DEF BaseAt, Numbered
<1> QED BY Zenon, <1>1, <1>6 DEF ReceiverInv

\* A frame that is kept for later.
LEMMA FrameBuffered ==
  ASSUME SenderInv, NEW b \in 1..(sends + 1), BaseAt(b), NEW f, Numbered(f),
         SeqDiff(f.seq, Number(b)) < Window, SeqDiff(f.seq, Number(b)) > 1,
         BufferFrame(f), UNCHANGED <<sends, received>>
  PROVE  BaseAt(b)'
<1>1. /\ f.payload \in Nat /\ f.payload > b /\ f.payload < b + Window /\ f.payload <= sends
      /\ f.seq = Number(f.payload)
  BY FrameInWindow, SendsFit DEF Numbered
<1>2. /\ DOMAIN rx_buffer' = DOMAIN rx_buffer \union {f.seq}
      /\ \A k \in DOMAIN rx_buffer' : rx_buffer'[k] = IF k = f.seq THEN f.payload ELSE rx_buffer[k]
  BY Zenon DEF BufferFrame
<1>3. Buffered(b)'
  BY Zenon, <1>1, <1>2 DEF Buffered, BaseAt
<1> QED BY Zenon, <1>3 DEF BaseAt, BufferFrame

\* The entries that the walk from packet b + 1 delivers.
LEMMA WalkedPackets ==
  ASSUME SenderInv, NEW b \in Nat, b >= 1, b + 1 <= sends, Buffered(b),
         NEW n \in 0..Window, WalkEnds(Number(b + 1), n)
  PROVE  /\ \A j \in 0..(n - 1) : /\ (Number(b + 1) + j) % SeqSpace = Number(b + 1 + j)
                                  /\ Number(b + 1 + j) \in DOMAIN rx_buffer
                                  /\ rx_buffer[Number(b + 1 + j)] = b + 1 + j
                                  /\ b + 1 + j <= sends
         /\ (Number(b + 1) + n) % SeqSpace = Number(b + 1 + n)
         /\ Number(b + 1 + n) \notin DOMAIN rx_buffer
<1>0. sends \in Nat /\ sends + Window <= SeqSpace /\ SeqSpace \in Nat /\ Window \in Nat /\ n \in Nat
      /\ n <= Window
  BY SendsFit
<1>1. ASSUME NEW j \in 0..n
      PROVE  (Number(b + 1) + j) % SeqSpace = Number(b + 1 + j)
  <2>1. j \in Int /\ 0 <= j /\ (b + 1) + j <= SeqSpace /\ b + 1 \in Int /\ 1 <= b + 1
    BY <1>0
  <2> QED BY Zenon, <2>1, NumberAdd
<1>2. ASSUME NEW j \in 0..(n - 1)
      PROVE  /\ Number(b + 1 + j) \in DOMAIN rx_buffer
             /\ rx_buffer[Number(b + 1 + j)] = b + 1 + j
             /\ b + 1 + j <= sends
  <2>1. j \in 0..n /\ j \in Nat
    BY <1>0
  <2>2. (Number(b + 1) + j) % SeqSpace \in DOMAIN rx_buffer
    BY Zenon DEF WalkEnds
  <2>3. Number(b + 1 + j) \in DOMAIN rx_buffer
    BY Zenon, <1>1, <2>1, <2>2
  <2> DEFINE k == Number(b + 1 + j)
             p == rx_buffer[k]
             q == b + 1 + j
  <2>4. p \in Nat /\ b < p /\ p <= sends /\ k = Number(p)
    BY Zenon, <2>3 DEF Buffered
  <2>5. q \in Int /\ 1 <= q /\ q <= SeqSpace /\ p \in Int /\ 1 <= p /\ p <= SeqSpace
    BY <1>0, <2>1, <2>4
  <2>6. Number(p) = Number(q)
    BY Zenon, <2>4
  <2>7. p = q
    <3> HIDE DEF p, q
    <3> QED BY Zenon, <2>5, <2>6, NumberInjective
  <2> QED BY Zenon, <2>3, <2>4, <2>7
<1>3. (Number(b + 1) + n) % SeqSpace \notin DOMAIN rx_buffer
  BY Zenon DEF WalkEnds
<1>4. n \in 0..n /\ \A j \in 0..(n - 1) : j \in 0..n
  BY <1>0
<1> QED BY Zenon, <1>1, <1>2, <1>3, <1>4

\* Packet b + 1 and the n packets of the walk go behind what was handed up.
LEMMA HandedUpInOrder ==
  ASSUME NEW b \in Nat, NEW n \in Nat, NEW s, NEW r, InOrderUpTo(s, b), InOrderUpTo(r, b),
         \A i \in 1..Len(r), j \in 1..Len(s) : r[i] < s[j],
         NEW w \in Seq(Nat), Len(w) = n, \A j \in 1..n : w[j] = b + j,
         NEW d, d = s \o (<<b + 1>> \o w)
  PROVE  /\ InOrderUpTo(d, b + 1 + n) /\ InOrderUpTo(r, b + 1 + n)
         /\ \A i \in 1..Len(r), j \in 1..Len(d) : r[i] < d[j]
<1> DEFINE t == <<b + 1>> \o w
           m == Len(s)
<1>1. /\ t \in Seq(Nat) /\ Len(t) = 1 + n
      /\ \A j \in 1..(1 + n) : t[j] = IF j <= 1 THEN <<b + 1>>[j] ELSE w[j - 1]
  <2>1. <<b + 1>> \in Seq(Nat) /\ Len(<<b + 1>>) = 1
    OBVIOUS
  <2> QED BY SMTT(20), <2>1, ConcatParts
<1>2. ASSUME NEW j \in 1..(1 + n)
      PROVE  /\ j \in Int /\ 1 <= j /\ j <= 1 + n
             /\ j = 1 => t[j] = b + 1
             /\ j # 1 => t[j] = b + j - 1
  <2>1. CASE j = 1
    BY <2>1, <1>1
  <2>2. CASE j # 1
    <3>1. j - 1 \in 1..n /\ ~(j <= 1)
      BY <2>2
    <3>2. t[j] = w[j - 1] /\ w[j - 1] = b + (j - 1)
      BY Zenon, <3>1, <1>1
    <3> QED BY <3>2, <2>2
  <2> QED BY Zenon, <2>1, <2>2
<1> HIDE DEF t
<1>3. ASSUME NEW j \in 1..(1 + n)
      PROVE  t[j] \in Nat /\ t[j] >= b + 1 /\ t[j] > b /\ t[j] <= b + 1 + n
  <2>1. j \in Int /\ 1 <= j /\ j <= 1 + n
    OBVIOUS
  <2>2. t[j] = b + 1 \/ (j >= 2 /\ t[j] = b + j - 1)
    BY <2>1, <1>2
  <2> QED BY SMTT(20), <2>1, <2>2
<1>4. ASSUME NEW i \in 1..(1 + n), NEW j \in 1..(1 + n), i < j
      PROVE  t[i] <= t[j] /\ (i + 1 < j => t[i] < t[j])
  <2>1. i \in Int /\ j \in Int /\ 1 <= i /\ t[j] = b + j - 1 /\ j >= 2
    BY <1>2, <1>4
  <2>2. (i = 1 /\ t[i] = b + 1) \/ (i # 1 /\ t[i] = b + i - 1)
    BY Zenon, <1>2
  <2> QED BY <2>1, <2>2, <1>4
<1>5. InOrderUpTo(t, b + 1 + n)
  BY Zenon, <1>1, <1>3, <1>4 DEF InOrderUpTo, Forward
<1>6. InOrderUpTo(s \o t, b + 1 + n)
  <2>1. b + 1 + n \in Nat /\ b <= b + 1 + n /\ \A j \in 1..Len(t) : t[j] > b
    BY <1>1, <1>3
  <2> QED BY Zenon, <2>1, <1>5, InOrderConcat
<1>7. d = s \o t
  BY Zenon DEF t
<1>8. s \in Seq(Nat) /\ r \in Seq(Nat) /\ m \in Nat
      /\ \A i \in 1..Len(r) : r[i] \in Nat /\ r[i] <= b
  BY SMTT(20) DEF InOrderUpTo
<1>9. /\ Len(d) = m + (1 + n)
      /\ \A j \in 1..(m + (1 + n)) : d[j] = IF j <= m THEN s[j] ELSE t[j - m]
  <2>1. /\ Len(s \o t) = Len(s) + Len(t)
        /\ \A j \in 1..(Len(s) + Len(t)) : (s \o t)[j] = IF j <= Len(s) THEN s[j] ELSE t[j - Len(s)]
    <3>1. s \in Seq(Nat) /\ t \in Seq(Nat)
      BY Zenon, <1>1, <1>8
    <3> QED BY Zenon, <3>1, ConcatParts
  <2> QED BY Zenon, <2>1, <1>1, <1>7
<1> HIDE DEF m
<1>10. ASSUME NEW i \in 1..Len(r), NEW j \in 1..(m + (1 + n))
       PROVE  r[i] < d[j]
  <2>1. CASE j <= m
    <3>1. j \in 1..m /\ d[j] = s[j]
      BY <2>1, <1>8, <1>9
    <3> QED BY Zenon, <3>1 DEF m
  <2>2. CASE j > m
    <3>1. j - m \in 1..(1 + n)
      BY <2>2, <1>8
    <3>2. t[j - m] \in Nat /\ t[j - m] >= b + 1
      BY Zenon, <3>1, <1>3
    <3>3. d[j] = t[j - m]
      <4>1. ~(j <= m)
        BY <2>2, <1>8
      <4> QED BY Zenon, <4>1, <1>9
    <3>4. r[i] \in Nat /\ r[i] <= b
      BY Zenon, <1>8
    <3>5. r[i] < t[j - m]
      BY SMTT(20), <3>2, <3>4
    <3> QED BY Zenon, <3>3, <3>5
  <2>3. m \in Int /\ j \in Int
    BY <1>8
  <2>4. j <= m \/ j > m
    BY <2>3
  <2> QED BY Zenon, <2>1, <2>2, <2>4
<1>11. InOrderUpTo(r, b + 1 + n)
  <2>1. ASSUME NEW i \in 1..Len(r) PROVE r[i] <= b + 1 + n
    BY SMTT(20), <1>8
  <2> QED BY Zenon, <2>1 DEF InOrderUpTo
<1> QED BY Zenon, <1>6, <1>7, <1>9, <1>10, <1>11

\* The packet that was due, and whatever it frees.
LEMMA FrameInTurn ==
  ASSUME SenderInv, NEW b \in 1..(sends + 1), BaseAt(b), NEW f, Numbered(f), f.payload = b + 1,
         UNCHANGED <<sends, received>>, NEW n \in 0..Window, WalkEnds(f.seq, n),
         rx_delivered' = rx_delivered \o (<<f.payload>> \o Walked(f.seq, n)),
         rx_base_seq' = (f.seq + n) % SeqSpace,
         rx_buffer' = WithoutKeys(rx_buffer, {(f.seq + j) % SeqSpace : j \in 0..(n - 1)})
  PROVE  \E c \in 1..(sends + 1) : BaseAt(c)'
<1>0. /\ sends \in Nat /\ b \in Nat /\ b >= 1 /\ b + 1 <= sends /\ n \in Nat /\ n <= Window
      /\ Window \in Nat /\ f.seq = Number(b + 1)
      /\ SeqSpace \in Nat /\ sends + Window <= SeqSpace
  BY SMTT(20), SendsFit DEF Numbered
<1> DEFINE c == b + 1 + n
           w == Walked(f.seq, n)
<1>1. /\ \A j \in 0..(n - 1) : /\ (f.seq + j) % SeqSpace = Number(b + 1 + j)
                               /\ Number(b + 1 + j) \in DOMAIN rx_buffer
                               /\ rx_buffer[Number(b + 1 + j)] = b + 1 + j
                               /\ b + 1 + j <= sends
      /\ rx_base_seq' = Number(c) /\ Number(c) \notin DOMAIN rx_buffer
  BY SMTT(20), <1>0, WalkedPackets DEF BaseAt
<1>2. c \in 1..(sends + 1) /\ c \in Nat /\ b <= c
  <2>1. CASE n = 0
    BY <1>0, <2>1
  <2>2. CASE n > 0
    <3>1. n - 1 \in 0..(n - 1)
      BY <1>0, <2>2
    <3>2. b + 1 + (n - 1) <= sends
      BY Zenon, <1>1, <3>1
    <3> QED BY SMTT(20), <1>0, <3>2
  <2> QED BY SMTT(20), <2>1, <2>2, <1>0
<1>3. w \in Seq(Nat) /\ Len(w) = n /\ \A j \in 1..n : w[j] = b + j
  <2>1. ASSUME NEW j \in 1..n PROVE rx_buffer[(f.seq + j - 1) % SeqSpace] = b + j
    <3>1. j - 1 \in 0..(n - 1) /\ j \in Int
      BY <1>0
    <3>2. (f.seq + (j - 1)) % SeqSpace = Number(b + 1 + (j - 1))
          /\ rx_buffer[Number(b + 1 + (j - 1))] = b + 1 + (j - 1)
      BY Zenon, <3>1, <1>1
    <3>3. f.seq \in Int
      BY SMTT(20), <1>0, NumberValue
    <3>4. f.seq + (j - 1) = f.seq + j - 1 /\ b + 1 + (j - 1) = b + j
      BY SMTT(20), <3>1, <3>3, <1>0
    <3> QED BY Zenon, <3>2, <3>4
  <2>2. w = [j \in 1..n |-> b + j]
    BY Zenon, <2>1 DEF Walked
  <2>3. w \in [1..n -> Nat]
    BY <2>2, <1>0
  <2>4. w \in Seq(Nat) /\ Len(w) = n
    BY Zenon, <1>0, <2>3, FunctionSeq
  <2> QED BY Zenon, <2>2, <2>4
<1>4. f.payload = b + 1 /\ rx_delivered' = rx_delivered \o (<<b + 1>> \o w)
  BY Zenon
<1> HIDE DEF w
<1>5. /\ InOrderUpTo(rx_delivered, b) /\ InOrderUpTo(received, b)
      /\ \A i \in 1..Len(received), j \in 1..Len(rx_delivered) : received[i] < rx_delivered[j]
  BY Zenon DEF BaseAt
<1>6. PICK d : d = rx_delivered \o (<<b + 1>> \o w)
  BY Zenon
<1>7. /\ InOrderUpTo(d, c) /\ InOrderUpTo(received, c)
      /\ \A i \in 1..Len(received), j \in 1..Len(d) : received[i] < d[j]
  <2>1. PICK s, r : s = rx_delivered /\ r = received
    BY Zenon
  <2>2. InOrderUpTo(s, b) /\ InOrderUpTo(r, b) /\ \A i \in 1..Len(r), j \in 1..Len(s) : r[i] < s[j]
    BY Zenon, <1>5, <2>1
  <2>3. b \in Nat /\ n \in Nat /\ d = s \o (<<b + 1>> \o w)
    BY Zenon, <1>0, <1>6, <2>1
  <2>4. /\ InOrderUpTo(d, b + 1 + n) /\ InOrderUpTo(r, b + 1 + n)
        /\ \A i \in 1..Len(r), j \in 1..Len(d) : r[i] < d[j]
    BY ZenonT(30), <1>3, <2>2, <2>3, HandedUpInOrder
  <2> QED BY Zenon, <2>1, <2>4
<1>8. d = rx_delivered'
  BY Zenon, <1>4, <1>6
<1>9. /\ InOrderUpTo(rx_delivered, c)' /\ InOrderUpTo(received, c)'
      /\ \A i \in 1..Len(received'), j \in 1..Len(rx_delivered') : received'[i] < rx_delivered'[j]
  BY Zenon, <1>7, <1>8 DEF InOrderUpTo, Forward
<1>10. Buffered(c)'
  <2>1. SUFFICES ASSUME NEW k \in DOMAIN rx_buffer'
                 PROVE  /\ rx_buffer'[k] \in Nat /\ c < rx_buffer'[k]
                        /\ rx_buffer'[k] < c + Window /\ rx_buffer'[k] <= sends
                        /\ k = Number(rx_buffer'[k])
    BY Zenon DEF Buffered
  <2>2. /\ k \in DOMAIN rx_buffer /\ rx_buffer'[k] = rx_buffer[k]
        /\ \A j \in 0..(n - 1) : k # (f.seq + j) % SeqSpace
    BY Zenon DEF WithoutKeys
  <2> DEFINE p == rx_buffer[k]
  <2>3. p \in Nat /\ b < p /\ p < b + Window /\ p <= sends /\ k = Number(p)
    BY Zenon, <2>2 DEF BaseAt, Buffered
  <2>4. p # c
    BY Zenon, <2>2, <2>3, <1>1
  <2>5. ~(p < c)
    <3>1. SUFFICES ASSUME p < c PROVE FALSE
      BY Zenon
    <3>2. p - (b + 1) \in 0..(n - 1) /\ b + 1 + (p - (b + 1)) = p
      BY SMTT(20), <3>1, <2>3, <1>0
    <3>3. (f.seq + (p - (b + 1))) % SeqSpace = Number(b + 1 + (p - (b + 1)))
      BY Zenon, <3>2, <1>1
    <3> QED BY Zenon, <3>2, <3>3, <2>2, <2>3
  <2>6. c < p /\ p < c + Window
    <3>1. c \in Nat /\ b <= c
      BY Zenon, <1>2
    <3> HIDE DEF p, c
    <3> QED BY ONLY SMTT(20), <2>3, <2>4, <2>5, <3>1, <1>0
  <2> QED BY Zenon, <2>2, <2>3, <2>6
<1>11. BaseAt(c)'
  BY Zenon, <1>1, <1>9, <1>10 DEF BaseAt
<1> QED BY Zenon, <1>2, <1>11

LEMMA HandleDataInv ==
  ASSUME SenderInv, ReceiverInv, NEW f, Numbered(f), HandleData(f), UNCHANGED sends
  PROVE  ReceiverInv'
<1>1. rx_initialized' /\ UNCHANGED <<sends, received>>
  BY Zenon DEF HandleData
<1>2. CASE ~rx_initialized
  BY Zenon, <1>1, <1>2, FirstFrame DEF HandleData, HandUp
<1>3. CASE rx_initialized
  <2>1. PICK b \in 1..(sends + 1) : BaseAt(b)
    BY Zenon, <1>3 DEF ReceiverInv
  <2>2. rx_base_seq = Number(b)
    BY Zenon, <2>1 DEF BaseAt
  <2>3. CASE IgnoreFrame(f)
    <3>1. BaseAt(b)'
      BY Zenon, <1>1, <2>1, <2>3 DEF IgnoreFrame, BaseAt, Buffered
    <3> QED BY Zenon, <1>1, <3>1 DEF ReceiverInv
  <2>4. CASE /\ seq_in_window(f.seq, rx_base_seq) /\ SeqDiff(f.seq, rx_base_seq) > 1
             /\ BufferFrame(f)
    <3>1. BaseAt(b)'
      BY Zenon, <1>1, <2>1, <2>2, <2>4, FrameBuffered DEF seq_in_window
    <3> QED BY Zenon, <1>1, <3>1 DEF ReceiverInv
  <2>5. ASSUME seq_in_window(f.seq, rx_base_seq), SeqDiff(f.seq, rx_base_seq) = 1,
               NEW n \in 0..Window, WalkEnds(f.seq, n),
               rx_delivered' = rx_delivered \o (<<f.payload>> \o Walked(f.seq, n)),
               rx_base_seq' = (f.seq + n) % SeqSpace,
               rx_buffer' = WithoutKeys(rx_buffer, {(f.seq + j) % SeqSpace : j \in 0..(n - 1)})
        PROVE  ReceiverInv'
    <3>1. f.payload = b + 1
      <4>1. f.payload \in Nat /\ f.payload - b = 1
        BY Zenon, <2>2, <2>5, FrameInWindow DEF seq_in_window
      <4> QED BY <4>1, SendsFit
    <3>2. \E c \in 1..(sends + 1) : BaseAt(c)'
      BY Zenon, <1>1, <2>1, <2>5, <3>1, FrameInTurn
    <3> QED BY Zenon, <1>1, <3>2 DEF ReceiverInv
  <2> QED BY Zenon, <1>3, <2>3, <2>4, <2>5 DEF HandleData, HandUp
<1> QED BY Zenon, <1>2, <1>3

\* What recv() hands out goes behind what it handed out before.
LEMMA ReceivedInOrder ==
  ASSUME NEW b \in Nat, NEW s, NEW t, InOrderUpTo(s, b), InOrderUpTo(t, b),
         \A i \in 1..Len(s), j \in 1..Len(t) : s[i] < t[j]
  PROVE  InOrderUpTo(s \o t, b)
<1> DEFINE w == s \o t
           m == Len(s)
           n == Len(t)
<1>1. /\ s \in Seq(Nat) /\ t \in Seq(Nat) /\ m \in Nat /\ n \in Nat
      /\ \A i \in 1..m : s[i] \in Nat /\ s[i] <= b
      /\ \A i \in 1..n : t[i] \in Nat /\ t[i] <= b
      /\ \A i, j \in 1..m : i < j => s[i] <= s[j] /\ (i + 1 < j => s[i] < s[j])
      /\ \A i, j \in 1..n : i < j => t[i] <= t[j] /\ (i + 1 < j => t[i] < t[j])
      /\ \A i \in 1..m, j \in 1..n : s[i] < t[j]
  BY SMTT(20) DEF InOrderUpTo, Forward
<1>2. /\ w \in Seq(Nat) /\ Len(w) = m + n
      /\ \A k \in 1..(m + n) : w[k] = IF k <= m THEN s[k] ELSE t[k - m]
  BY <1>1, ConcatParts
<1> HIDE DEF w, m, n
<1>3. ASSUME NEW k \in 1..(m + n)
      PROVE  /\ k \in Int
             /\ k <= m \/ k > m
             /\ k <= m => k \in 1..m /\ w[k] = s[k]
             /\ k > m => k - m \in 1..n /\ w[k] = t[k - m]
  BY <1>1, <1>2
<1>4. ASSUME NEW k \in 1..(m + n) PROVE w[k] <= b
  BY Zenon, <1>1, <1>3
<1>5. ASSUME NEW i \in 1..(m + n), NEW j \in 1..(m + n), i < j
      PROVE  w[i] <= w[j] /\ (i + 1 < j => w[i] < w[j])
  <2>1. CASE j <= m
    <3>1. i <= m
      BY <2>1, <1>1, <1>3, <1>5
    <3>2. i \in 1..m /\ j \in 1..m /\ w[i] = s[i] /\ w[j] = s[j]
      BY Zenon, <2>1, <3>1, <1>3
    <3> QED BY Zenon, <3>2, <1>1, <1>5
  <2>2. CASE i <= m /\ j > m
    <3>1. i \in 1..m /\ j - m \in 1..n /\ w[i] = s[i] /\ w[j] = t[j - m]
      BY Zenon, <2>2, <1>3
    <3> QED BY <3>1, <1>1
  <2>3. CASE i > m /\ j > m
    <3>1. i - m \in 1..n /\ j - m \in 1..n /\ w[i] = t[i - m] /\ w[j] = t[j - m]
      BY Zenon, <2>3, <1>3
    <3>2. i - m < j - m /\ (i + 1 < j => i - m + 1 < j - m)
      BY SMTT(20), <1>1, <1>3, <1>5
    <3> QED BY Zenon, <3>1, <3>2, <1>1
  <2> QED BY Zenon, <2>1, <2>2, <2>3, <1>3
<1>6. InOrderUpTo(w, b)
  BY Zenon, <1>2, <1>4, <1>5 DEF InOrderUpTo, Forward
<1> QED BY Zenon, <1>6 DEF w

\* close() of the receiving end, and recv().
LEMMA HandedOutInv ==
  ASSUME ReceiverInv, sends \in Nat, UNCHANGED <<rx_initialized, rx_base_seq, sends>>,
         \/ rx_buffer' = <<>> /\ rx_delivered' = <<>> /\ UNCHANGED received
         \/ UNCHANGED rx_buffer /\ rx_delivered' = <<>> /\ received' = received \o rx_delivered
  PROVE  ReceiverInv'
<1>1. CASE ~rx_initialized
  <2>1. received' = <<>> /\ rx_delivered' = <<>> /\ rx_buffer' = <<>>
    BY <1>1 DEF ReceiverInv
  <2> QED BY Zenon, <1>1, <2>1 DEF ReceiverInv
<1>2. CASE rx_initialized
  <2>1. PICK b \in 1..(sends + 1) : BaseAt(b)
    BY Zenon, <1>2 DEF ReceiverInv
  <2>2. InOrderUpTo(received \o rx_delivered, b)
    BY <2>1, ReceivedInOrder DEF BaseAt
  <2>3. InOrderUpTo(received, b)'
    BY Zenon, <2>1, <2>2 DEF BaseAt, InOrderUpTo, Forward
  <2>4. rx_delivered' = <<>> /\ InOrderUpTo(rx_delivered, b)'
    <3>1. rx_delivered' = <<>>
      BY Zenon
    <3>2. InOrderUpTo(<<>>, b)
      BY SMTT(20) DEF InOrderUpTo, Forward
    <3> QED BY Zenon, <3>1, <3>2 DEF InOrderUpTo, Forward
  <2>5. Buffered(b)'
    BY SMTT(20), <2>1 DEF BaseAt, Buffered
  <2>6. BaseAt(b)'
    BY <2>1, <2>3, <2>4, <2>5 DEF BaseAt
  <2> QED BY Zenon, <1>2, <2>6 DEF ReceiverInv
<1> QED BY Zenon, <1>1, <1>2 DEF ReceiverInv

LEMMA ArqNextInv == ArqInv /\ [ArqNext]_arqVars => ArqInv'
<1> SUFFICES ASSUME SenderInv, ReceiverInv, [ArqNext]_arqVars PROVE SenderInv' /\ ReceiverInv'
  BY Zenon DEF ArqInv
<1>0. sends \in Nat
  BY Zenon, SendsFit
<1>1. CASE open_tx \/ close_tx \/ open_rx \/ UNCHANGED arqVars
  <2>1. UNCHANGED <<link, sends, tx_seq, caller, data>> /\ (tx_pending' = tx_pending \/ tx_pending' = <<>>)
        /\ UNCHANGED <<rx_initialized, rx_base_seq, rx_buffer, rx_delivered, received>>
    BY Zenon, <1>1 DEF open_tx, close_tx, open_rx, arqVars, tx, rx
  <2>2. SenderInv'
    <3>1. /\ tx_pending' \in Seq(PendingRec) /\ \A i \in 1..Len(tx_pending') : Numbered(tx_pending'[i])
          /\ data' \in Seq(FrameRec) /\ \A i \in 1..Len(data') : Numbered(data'[i])
      <4>1. CASE tx_pending' = tx_pending
        BY Zenon, <2>1, <4>1 DEF SenderInv
      <4>2. CASE tx_pending' = <<>>
        <5>1. <<>> \in Seq(PendingRec) /\ Len(<<>>) = 0
          OBVIOUS
        <5>2. \A i \in 1..Len(tx_pending') : Numbered(tx_pending'[i])
          BY <4>2, <5>1
        <5> QED BY Zenon, <2>1, <4>2, <5>1, <5>2 DEF SenderInv
      <4> QED BY Zenon, <2>1, <4>1, <4>2
    <3> QED BY Zenon, <2>1, <3>1, SenderKept
  <2>3. ReceiverInv'
    BY Zenon, <2>1 DEF ReceiverInv, BaseAt, Buffered
  <2> QED BY Zenon, <2>2, <2>3
<1>2. CASE close_rx \/ recv
  <2>1. UNCHANGED <<link, sends, tx_seq, caller, data, tx_pending>>
    BY Zenon, <1>2 DEF close_rx, recv, tx
  <2>2. SenderInv'
    BY Zenon, <2>1, SenderKept DEF SenderInv
  <2>3. ReceiverInv'
    BY Zenon, <1>0, <1>2, HandedOutInv DEF close_rx, recv, tx
  <2> QED BY Zenon, <2>2, <2>3
<1>3. ASSUME NEW c \in Callers, SendFrame(c) \/ SendPush(c) \/ SendWire(c)
      PROVE  SenderInv' /\ ReceiverInv'
  <2>1. SenderInv'
    BY Zenon, <1>3, SendFrameInv, SendPushInv, SendWireInv
  <2>2. UNCHANGED rx /\ (sends' = sends \/ sends' = sends + 1)
    BY Zenon, <1>3 DEF SendFrame, SendPush, SendWire
  <2>3. sends' \in Nat /\ sends <= sends'
    BY <1>0, <2>2
  <2> QED BY Zenon, <1>0, <2>1, <2>2, <2>3, ReceiverKept
<1>4. CASE Retransmit \/ Lose
  <2>1. SenderInv'
    BY Zenon, <1>4, RetransmitInv, LoseInv
  <2>2. UNCHANGED rx /\ sends' = sends
    BY Zenon, <1>4 DEF Retransmit, retransmit_main, Lose, tx
  <2> QED BY <1>0, <2>1, <2>2, ReceiverKept
<1>5. ASSUME NEW copy \in BOOLEAN, NEW i \in Arrivable(data), RecvData(i, copy)
      PROVE  SenderInv' /\ ReceiverInv'
  <2>1. i \in 1..Len(data) /\ Numbered(data[i])
    BY Zenon DEF Arrivable, SenderInv
  <2>2. UNCHANGED <<link, sends, tx_seq, caller, tx_pending>> /\ data' = Drawn(data, i, copy)
    BY Zenon, <1>5 DEF RecvData, tx
  <2>3. SenderInv'
    BY Zenon, <2>1, <2>2, TakenNumbered, SenderKept DEF SenderInv
  <2>4. ReceiverInv'
    BY Zenon, <1>5, <2>1, <2>2, HandleDataInv DEF RecvData
  <2> QED BY Zenon, <2>3, <2>4
<1>6. ASSUME NEW copy \in BOOLEAN, NEW i \in Arrivable(acks), RecvAck(i, copy)
      PROVE  SenderInv' /\ ReceiverInv'
  <2>1. UNCHANGED <<rx, link, data, sends>> /\ apply_ack_frame(acks[i])
    BY Zenon, <1>6 DEF RecvAck, apply_ack_frame
  <2> QED BY <1>0, <2>1, ApplyAckInv, ReceiverKept
<1>7. CASE recv_main
  BY Zenon, <1>5, <1>6, <1>7 DEF recv_main
<1> QED BY Zenon, <1>1, <1>2, <1>3, <1>4, <1>7 DEF ArqNext

LEMMA ArqInvReceiver == ArqInv => ReceiverInOrder
<1> SUFFICES ASSUME SenderInv, ReceiverInv PROVE ReceiverInOrder
  BY Zenon DEF ArqInv
<1>1. CASE ~rx_initialized
  BY <1>1 DEF ReceiverInv, ReceiverInOrder, Forward, RxBufferAhead
<1>2. CASE rx_initialized
  <2>1. PICK b \in 1..(sends + 1) : BaseAt(b)
    BY Zenon, <1>2 DEF ReceiverInv
  <2>2. Forward(received)
    BY Zenon, <2>1 DEF BaseAt, InOrderUpTo
  <2>3. ASSUME NEW k \in DOMAIN rx_buffer
        PROVE  SeqDiff(k, rx_base_seq) \in 1..(Window - 1)
    <3> DEFINE p == rx_buffer[k]
    <3>1. p \in Nat /\ b < p /\ p < b + Window /\ p <= sends /\ k = Number(p) /\ rx_base_seq = Number(b)
      BY Zenon, <2>1 DEF BaseAt, Buffered
    <3>2. /\ p \in Int /\ 1 <= p /\ p <= SeqSpace /\ b \in Int /\ 1 <= b /\ b <= SeqSpace
          /\ Window \in Nat
      BY <3>1, SendsFit
    <3> HIDE DEF p
    <3>3. SeqDiff(Number(p), Number(b)) = p - b
      BY <3>1, <3>2, NumberDiff
    <3> QED BY <3>1, <3>2, <3>3
  <2> QED BY Zenon, <2>2, <2>3 DEF ReceiverInOrder, RxBufferAhead
<1> QED BY Zenon, <1>1, <1>2 DEF ReceiverInv

\* Whatever the link loses, copies and reorders, whoever calls send() from how
\* many threads and whichever end is closed and reopened, recv() hands packets
\* out in the order of sending, none of them more than twice, and what recv_main
\* keeps for later lies ahead of its base and inside the window.
THEOREM ReceiverNeverGoesBack == ArqSpec => []ReceiverInOrder
<1>1. ArqInit => ArqInv
  BY Zenon, ArqInitInv
<1>2. ArqInv /\ [ArqNext]_arqVars => ArqInv'
  BY Zenon, ArqNextInv
<1>3. ArqInv => ReceiverInOrder
  BY Zenon, ArqInvReceiver
<1> QED BY <1>1, <1>2, <1>3, PTL DEF ArqSpec

-----------------------------------------------------------------------------
(* What a clean link keeps. *)

\* The accepted calls out of n, in order, the first of them among them.
AcceptedOf(acc, n) ==
    /\ acc \in Seq(Nat)
    /\ \A i \in 1..Len(acc) : i <= acc[i] /\ acc[i] <= n
    /\ \A i, j \in 1..Len(acc) : i < j => j - i <= acc[j] - acc[i]
    /\ Len(acc) > 0 => acc[1] = 1

Among(p, acc) == \E k \in 1..Len(acc) : acc[k] = p
Unbroken(q, acc) == q \in 1..Len(acc) /\ acc[q] = q     \* no call up to q was refused
InFirst(q, d, n) == \E j \in 1..n : d[j].payload = q

\* A frame finds the unbroken packets before its own delivered up to R or
\* ahead of it in the network, and no unbroken packet is ever lost.
Covered(d, acc, R) ==
    \A i \in 1..Len(d), q \in 1..Len(acc) :
        Unbroken(q, acc) /\ q < d[i].payload => q <= R \/ InFirst(q, d, i - 1)
InFlight(d, acc, R, P) ==
    \A q \in 1..Len(acc) : Unbroken(q, acc) => q <= R \/ InFirst(q, d, Len(d)) \/ q \in P

Reached == Len(delivered)                       \* packets 1..Reached are delivered
Pushed == {sends} \intersect {caller[c].payload : c \in {d \in Callers : caller[d].at = "pushed"}}
Idle == \A c \in Callers : caller[c] = IdleCall

CleanSenderInv ==
    /\ AcceptedOf(accepted, sends) /\ closes = 0
    /\ Len(accepted) = 0 => (Idle /\ sends = 0) \/ (~Idle /\ sends = 1)
    /\ \A c \in Callers : caller[c] # IdleCall =>
          /\ c \in link.callers /\ tx_opened
          /\ caller[c].payload = sends
          /\ caller[c].at = "framed" => \A i \in 1..Len(accepted) : accepted[i] < sends
          /\ caller[c].at = "pushed" => Among(sends, accepted)
    /\ \A i \in 1..Len(tx_pending) : Among(tx_pending[i].payload, accepted)
    /\ \A i \in 1..Len(data) : Among(data[i].payload, accepted)

\* With a window of one packet recv_main drops everything after the first.
CleanDataInv ==
    Window > 1 \/ Reached = 0 => /\ Covered(data, accepted, Reached)
                                 /\ InFlight(data, accepted, Reached, Pushed)

CleanReceiverInv ==
    /\ delivered \in Seq(Nat) /\ Reached <= Len(accepted)
    /\ \A i \in 1..Reached : delivered[i] = i /\ accepted[i] = i
    /\ rx_initialized <=> Reached >= 1
    /\ rx_initialized => rx_base_seq = Number(Reached)
    /\ DOMAIN rx_buffer # {} => ~Unbroken(Reached + 1, accepted) /\ Reached < Len(accepted)

CleanInv == Clean => CleanSenderInv /\ CleanDataInv /\ CleanReceiverInv

-----------------------------------------------------------------------------
(* Accepted packets and frames on the wire. *)

\* Before an unbroken packet every packet is unbroken.
LEMMA UnbrokenBelow ==
  ASSUME NEW acc, NEW n \in Nat, AcceptedOf(acc, n), NEW q, Unbroken(q, acc), NEW r \in 1..q
  PROVE  Unbroken(r, acc)
<1>1. /\ Len(acc) \in Nat /\ q \in 1..Len(acc) /\ acc[q] = q /\ r \in 1..Len(acc)
      /\ acc[r] \in Nat /\ r <= acc[r]
  BY SMTT(20) DEF AcceptedOf, Unbroken
<1>2. CASE r < q
  <2>1. q - r <= acc[q] - acc[r]
    BY Zenon, <1>1, <1>2 DEF AcceptedOf
  <2>2. r \in Nat /\ q \in Nat
    BY ONLY <1>1
  <2>3. acc[r] = r
    BY ONLY SMTT(20), <1>1, <2>1, <2>2
  <2> QED BY Zenon, <1>1, <2>3 DEF Unbroken
<1>3. CASE r = q
  BY Zenon, <1>3
<1> QED BY <1>1, <1>2, <1>3

\* A packet beyond the next one is accepted, the next one not: there is a gap.
LEMMA BeyondGap ==
  ASSUME NEW acc, NEW n \in Nat, AcceptedOf(acc, n), NEW R \in Nat,
         \A i \in 1..R : acc[i] = i, NEW p \in Nat, p > R, Among(p, acc)
  PROVE  R < Len(acc) /\ (~Unbroken(R + 1, acc) => p > R + 1)
<1>1. PICK k \in 1..Len(acc) : acc[k] = p
  BY Zenon DEF Among
<1>2. k \in Nat /\ k > R /\ Len(acc) \in Nat
  BY <1>1 DEF AcceptedOf
<1>3. R + 1 \in 1..Len(acc) /\ acc[R + 1] \in Nat /\ R + 1 <= acc[R + 1] /\ acc[R + 1] <= p
  <2>1. R + 1 \in 1..Len(acc)
    BY <1>2
  <2>2. acc[R + 1] \in Nat /\ R + 1 <= acc[R + 1]
    BY SMTT(20), <2>1 DEF AcceptedOf
  <2>3. CASE k = R + 1
    BY SMTT(20), <1>1, <2>1, <2>2, <2>3
  <2>4. CASE R + 1 < k
    <3>1. k - (R + 1) <= acc[k] - acc[R + 1]
      BY Zenon, <2>1, <2>4 DEF AcceptedOf
    <3> QED BY SMTT(20), <3>1, <2>1, <2>2, <2>4, <1>1, <1>2
  <2> QED BY <1>2, <2>3, <2>4
<1> QED BY SMTT(20), <1>2, <1>3 DEF Unbroken

LEMMA AcceptedMore ==
  ASSUME NEW acc, NEW n \in Nat, NEW m \in Nat, n <= m, AcceptedOf(acc, n)
  PROVE  AcceptedOf(acc, m)
BY SMTT(20) DEF AcceptedOf

\* send() accepts call n.
LEMMA AcceptOne ==
  ASSUME NEW acc, NEW n \in Nat, n >= 1, AcceptedOf(acc, n),
         \A i \in 1..Len(acc) : acc[i] < n, Len(acc) = 0 => n = 1
  PROVE  /\ AcceptedOf(Append(acc, n), n)
         /\ Len(Append(acc, n)) = Len(acc) + 1
         /\ Append(acc, n)[Len(acc) + 1] = n
         /\ \A i \in 1..Len(acc) : Append(acc, n)[i] = acc[i]
         /\ Len(acc) + 1 <= n
<1> DEFINE m == Len(acc)
           a == Append(acc, n)
<1>1. acc \in Seq(Nat) /\ m \in Nat
  BY DEF AcceptedOf
<1>2. a \in Seq(Nat) /\ Len(a) = m + 1 /\ a[m + 1] = n /\ \A i \in 1..m : a[i] = acc[i]
  BY <1>1
<1>3. /\ \A i \in 1..m : acc[i] \in Nat /\ i <= acc[i] /\ acc[i] < n
      /\ \A i, j \in 1..m : i < j => j - i <= acc[j] - acc[i]
      /\ m > 0 => acc[1] = 1
      /\ m = 0 => n = 1
  BY SMTT(20), <1>1 DEF AcceptedOf
<1> HIDE DEF m, a
<1>4. m + 1 <= n
  <2>1. CASE m = 0
    BY <1>3, <2>1
  <2>2. CASE m > 0
    <3>1. m \in 1..m
      BY SMTT(20), <1>1, <2>2
    <3>2. acc[m] \in Nat /\ m <= acc[m] /\ acc[m] < n
      BY Zenon, <1>3, <3>1
    <3> QED BY SMTT(20), <1>1, <3>2
  <2> QED BY SMTT(20), <1>1, <2>1, <2>2
<1>5. \A i \in 1..(m + 1) : i <= a[i] /\ a[i] <= n
  <2>1. TAKE i \in 1..(m + 1)
  <2>2. CASE i = m + 1
    BY SMTT(20), <1>1, <1>2, <1>4, <2>2
  <2>3. CASE i # m + 1
    <3>1. i \in 1..m
      BY <1>1, <2>3
    <3> QED BY SMTT(20), <1>2, <1>3, <3>1
  <2> QED BY Zenon, <2>2, <2>3
<1>6. ASSUME NEW i \in 1..(m + 1), NEW j \in 1..(m + 1), i < j
      PROVE  j - i <= a[j] - a[i]
  <2>1. i \in 1..m /\ a[i] = acc[i] /\ acc[i] \in Nat /\ acc[i] < n
    BY SMTT(20), <1>1, <1>2, <1>3, <1>6
  <2>2. CASE j = m + 1
    <3>1. CASE i = m
      BY SMTT(20), <1>1, <1>2, <2>1, <2>2, <3>1
    <3>2. CASE i < m
      <4>1. m \in 1..m /\ acc[m] \in Nat /\ acc[m] < n /\ m - i <= acc[m] - acc[i]
        BY SMTT(20), <1>1, <1>3, <2>1, <3>2
      <4>2. (m + 1) - i <= n - acc[i]
        BY SMTT(20), <4>1, <1>1, <2>1
      <4> QED BY Zenon, <4>2, <1>2, <2>1, <2>2
    <3> QED BY SMTT(20), <1>1, <2>1, <3>1, <3>2
  <2>3. CASE j # m + 1
    <3>1. j \in 1..m
      BY <1>1, <2>3
    <3> QED BY Zenon, <1>2, <1>3, <1>6, <2>1, <3>1
  <2> QED BY Zenon, <2>2, <2>3
<1>7. a[1] = 1
  <2>1. CASE m = 0
    BY <1>2, <1>3, <2>1
  <2>2. CASE m > 0
    BY <1>1, <1>2, <1>3, <2>2
  <2> QED BY <1>1, <2>1, <2>2
<1>8. AcceptedOf(a, n)
  BY Zenon, <1>2, <1>5, <1>6, <1>7 DEF AcceptedOf
<1> QED BY Zenon, <1>2, <1>4, <1>8 DEF a, m

\* Frames follow the ones in the network.
LEMMA FramesAdded ==
  ASSUME NEW d \in Seq(FrameRec), NEW t \in Seq(FrameRec), NEW acc \in Seq(Nat), NEW R \in Nat,
         NEW P \in SUBSET Nat, NEW Q, Covered(d, acc, R), InFlight(d, acc, R, P),
         \A x \in P : \A i \in 1..Len(t) : t[i].payload <= x,
         \A x \in P : x \in Q \/ InFirst(x, t, Len(t))
  PROVE  Covered(d \o t, acc, R) /\ InFlight(d \o t, acc, R, Q)
<1> DEFINE w == d \o t
           m == Len(d)
           n == Len(t)
<1>1. /\ m \in Nat /\ n \in Nat /\ Len(w) = m + n
      /\ \A k \in 1..(m + n) : w[k] = IF k <= m THEN d[k] ELSE t[k - m]
  BY ConcatParts
<1>2. /\ \A q \in 1..Len(acc) : Unbroken(q, acc) => q <= R \/ InFirst(q, d, m) \/ q \in P
      /\ \A i \in 1..m, q \in 1..Len(acc) :
            Unbroken(q, acc) /\ q < d[i].payload => q <= R \/ InFirst(q, d, i - 1)
      /\ \A i \in 1..n : t[i] \in FrameRec /\ t[i].payload \in Nat
      /\ \A x \in P : \A i \in 1..n : t[i].payload <= x
      /\ \A x \in P : x \in Q \/ InFirst(x, t, n)
  <2>1. \A i \in 1..Len(t) : t[i] \in FrameRec
    OBVIOUS
  <2>2. \A f \in FrameRec : f.payload \in Nat
    BY Zenon DEF FrameRec
  <2> QED BY Zenon, <2>1, <2>2 DEF InFlight, Covered
<1>a. Len(acc) \in Nat
  OBVIOUS
<1> HIDE DEF w, m, n
<1>3. ASSUME NEW q, NEW k \in Nat, k <= m, NEW l \in Nat, k <= l, l <= m + n, InFirst(q, d, k)
      PROVE  InFirst(q, w, l)
  <2>1. PICK j \in 1..k : d[j].payload = q
    BY ZenonT(30), <1>3 DEF InFirst
  <2>2. j \in 1..l /\ w[j] = d[j]
    BY SMTT(20), <1>1, <1>3
  <2> QED BY Zenon, <2>1, <2>2 DEF InFirst
<1>4. ASSUME NEW i \in 1..(m + n), NEW q \in 1..Len(acc), Unbroken(q, acc), q < w[i].payload
      PROVE  q <= R \/ InFirst(q, w, i - 1)
  <2>1. CASE i <= m
    <3>1. i \in 1..m /\ w[i] = d[i]
      BY <1>1, <2>1
    <3>2. q <= R \/ InFirst(q, d, i - 1)
      BY Zenon, <1>2, <1>4, <3>1
    <3> QED BY SMTT(20), <1>1, <1>3, <3>1, <3>2
  <2>2. CASE i > m
    <3>1. i - m \in 1..n /\ w[i] = t[i - m]
      BY SMTT(20), <1>1, <2>2
    <3>2. t[i - m].payload \in Nat /\ (q \in P => t[i - m].payload <= q)
      BY ZenonT(30), <1>2, <3>1
    <3>3. q \notin P
      BY SMTT(20), <1>a, <1>4, <3>1, <3>2
    <3>4. q <= R \/ InFirst(q, d, m)
      BY Zenon, <1>2, <1>4, <3>3
    <3>5. m \in Nat /\ m <= m /\ i - 1 \in Nat /\ m <= i - 1 /\ i - 1 <= m + n
      BY <1>1, <2>2
    <3> QED BY ZenonT(30), <1>3, <3>4, <3>5
  <2> QED BY SMTT(20), <1>1, <2>1, <2>2
<1>5. ASSUME NEW q \in 1..Len(acc), Unbroken(q, acc)
      PROVE  q <= R \/ InFirst(q, w, m + n) \/ q \in Q
  <2>1. CASE InFirst(q, d, m)
    <3>1. m \in Nat /\ m <= m /\ m + n \in Nat /\ m <= m + n /\ m + n <= m + n
      BY SMTT(20), <1>1
    <3> QED BY ZenonT(30), <1>3, <2>1, <3>1
  <2>2. CASE InFirst(q, t, n)
    <3>1. PICK j \in 1..n : t[j].payload = q
      BY Zenon, <2>2 DEF InFirst
    <3>2. m + j \in 1..(m + n) /\ w[m + j] = t[j]
      <4>1. m + j \in 1..(m + n) /\ ~(m + j <= m) /\ (m + j) - m = j
        BY <1>1
      <4> QED BY Zenon, <1>1, <4>1
    <3> QED BY Zenon, <3>1, <3>2 DEF InFirst
  <2> QED BY Zenon, <1>2, <1>5, <2>1, <2>2
<1>6. Covered(w, acc, R) /\ InFlight(w, acc, R, Q)
  BY Zenon, <1>1, <1>4, <1>5 DEF Covered, InFlight
<1> QED BY Zenon, <1>6 DEF w

\* The first frame leaves the network, delivered or behind a gap.
LEMMA FrameTaken ==
  ASSUME NEW d \in Seq(FrameRec), Len(d) >= 1, NEW acc \in Seq(Nat), NEW R \in Nat,
         NEW S \in Nat, R <= S, NEW P, Covered(d, acc, R), InFlight(d, acc, R, P),
         d[1].payload <= S \/ ~Unbroken(d[1].payload, acc), NEW copy \in BOOLEAN
  PROVE  Covered(Drawn(d, 1, copy), acc, S) /\ InFlight(Drawn(d, 1, copy), acc, S, P)
<1>a. Len(acc) \in Nat /\ Len(d) \in Nat
  OBVIOUS
<1>1. CASE copy
  <2>1. \A q \in 1..Len(acc) : q <= R => q <= S
    BY <1>a
  <2> QED BY ZenonT(30), <1>1, <2>1 DEF Covered, InFlight, Drawn
<1>2. CASE ~copy
  <2> DEFINE r == DropAt(d, 1)
             m == Len(d) - 1
  <2>1. /\ m \in Nat /\ Len(r) = m /\ 1 \in 1..Len(d)
        /\ \A k \in 1..(Len(d) - 1) : r[k] = IF k < 1 THEN d[k] ELSE d[k + 1]
    <3>1. m \in Nat /\ 1 \in 1..Len(d)
      BY SMTT(20), <1>a
    <3> QED BY ZenonT(30), <3>1, DropAtSeq
  <2>2. \A k \in 1..m : r[k] = d[k + 1] /\ k + 1 \in 1..Len(d)
    BY <1>a, <2>1
  <2>3. /\ \A q \in 1..Len(acc) : Unbroken(q, acc) => q <= R \/ InFirst(q, d, m + 1) \/ q \in P
        /\ \A i \in 1..(m + 1), q \in 1..Len(acc) :
              Unbroken(q, acc) /\ q < d[i].payload => q <= R \/ InFirst(q, d, i - 1)
    <3>1. m + 1 = Len(d)
      BY <1>a
    <3> HIDE DEF m
    <3> QED BY Zenon, <3>1 DEF InFlight, Covered
  <2> HIDE DEF r, m
  <2>4. ASSUME NEW q \in 1..Len(acc), Unbroken(q, acc), NEW k \in 0..m,
               q <= R \/ InFirst(q, d, k + 1)
        PROVE  q <= S \/ InFirst(q, r, k)
    <3>1. CASE q <= R
      BY <3>1, <1>a
    <3>2. CASE InFirst(q, d, k + 1)
      <4>1. PICK j \in 1..(k + 1) : d[j].payload = q
        BY Zenon, <3>2 DEF InFirst
      <4>2. CASE j = 1
        BY Zenon, <4>1, <4>2, <2>4
      <4>3. CASE j # 1
        <5>1. j - 1 \in 1..k /\ j - 1 \in 1..m /\ (j - 1) + 1 = j
          BY <4>3, <2>1
        <5>2. r[j - 1].payload = q
          BY Zenon, <2>2, <4>1, <5>1
        <5> QED BY ZenonT(30), <5>1, <5>2 DEF InFirst
      <4> QED BY Zenon, <4>2, <4>3
    <3> QED BY ZenonT(30), <2>4, <3>1, <3>2
  <2>5. ASSUME NEW i \in 1..m, NEW q \in 1..Len(acc), Unbroken(q, acc), q < r[i].payload
        PROVE  q <= S \/ InFirst(q, r, i - 1)
    <3>0. m \in Nat /\ i \in Int /\ 1 <= i /\ i <= m
      BY <2>1
    <3>1. i + 1 \in 1..(m + 1) /\ (i + 1) - 1 = i /\ r[i] = d[i + 1] /\ i - 1 \in 0..m
          /\ (i - 1) + 1 = i
      <4>1. i + 1 \in 1..(m + 1) /\ (i + 1) - 1 = i /\ i - 1 \in 0..m /\ (i - 1) + 1 = i
        BY SMTT(20), <3>0
      <4>2. r[i] = d[i + 1]
        BY Zenon, <2>2
      <4> QED BY ZenonT(30), <4>1, <4>2
    <3>2. q <= R \/ InFirst(q, d, (i + 1) - 1)
      BY Zenon, <2>3, <2>5, <3>1
    <3>3. q <= R \/ InFirst(q, d, (i - 1) + 1)
      BY ZenonT(30), <3>1, <3>2
    <3> QED BY ZenonT(30), <2>4, <2>5, <3>1, <3>3
  <2>6. ASSUME NEW q \in 1..Len(acc), Unbroken(q, acc)
        PROVE  q <= S \/ InFirst(q, r, m) \/ q \in P
    <3>1. m \in 0..m
      BY <2>1
    <3> QED BY ZenonT(30), <2>3, <2>4, <2>6, <3>1
  <2>7. Covered(r, acc, S) /\ InFlight(r, acc, S, P)
    BY ZenonT(30), <2>1, <2>5, <2>6 DEF Covered, InFlight
  <2> QED BY Zenon, <1>2, <2>7 DEF Drawn, r
<1> QED BY ZenonT(30), <1>1, <1>2

CleanState == CleanSenderInv /\ CleanDataInv /\ CleanReceiverInv

\* One thread calls send(), so the others stay where they are.
LEMMA OneCaller ==
  ASSUME Clean, CleanState, NEW c \in link.callers, NEW d \in Callers, d # c
  PROVE  caller[d] = IdleCall
BY Zenon DEF Clean, CleanState, CleanSenderInv

\* What CleanDataInv says of the state after a step that moves the frames to d
\* and the receiver to n.
LEMMA CleanDataTo ==
  ASSUME NEW d, NEW n, data' = d, Reached' = n, accepted' = accepted, Pushed' = Pushed,
         Window > 1 \/ n = 0 => Covered(d, accepted, n) /\ InFlight(d, accepted, n, Pushed)
  PROVE  CleanDataInv'
BY Zenon DEF CleanDataInv

\* A step that leaves the frames and both ends of the link alone.
LEMMA CleanDataStays ==
  ASSUME CleanDataInv, data' = data, accepted' = accepted, delivered' = delivered, Pushed' = Pushed
  PROVE  CleanDataInv'
<1>1. Reached' = Reached
  BY Zenon DEF Reached
<1>2. Window > 1 \/ Reached = 0 => Covered(data, accepted, Reached) /\ InFlight(data, accepted, Reached, Pushed)
  BY Zenon DEF CleanDataInv
<1> QED BY Zenon, <1>1, <1>2, CleanDataTo

\* A step of neither send() nor the receiver.
LEMMA CleanQuiet ==
  ASSUME CleanState, UNCHANGED <<link, sends, caller, accepted, delivered, rx_initialized,
                                 rx_base_seq, rx_buffer, data, closes>>,
         tx_opened => tx_opened',
         \A i \in 1..Len(tx_pending') : Among(tx_pending'[i].payload, accepted)
  PROVE  CleanState'
<1>1. CleanSenderInv'
  BY Zenon DEF CleanState, CleanSenderInv, Idle, Among
<1>2. Pushed' = Pushed
  BY Zenon DEF Pushed
<1>3. CleanDataInv'
  BY Zenon, <1>2, CleanDataStays DEF CleanState
<1>4. CleanReceiverInv'
  BY Zenon DEF CleanState, CleanReceiverInv, Reached, Unbroken
<1> QED BY Zenon, <1>1, <1>3, <1>4 DEF CleanState

LEMMA SendFrameClean ==
  ASSUME SenderInv, Clean, CleanState, NEW c \in Callers, SendFrame(c)
  PROVE  CleanState'
<1> USE DEF SendFrame, rx
<1>1. sends \in Nat /\ sends' = sends + 1 /\ c \in link.callers /\ caller[c] = IdleCall
  BY Zenon, SendsFit
<1>2. \A d \in Callers : caller[d] = IdleCall
  BY ZenonT(30), <1>1, OneCaller
<1>3. /\ caller \in [Callers -> CallRec] /\ caller'[c].at = "framed" /\ caller'[c].payload = sends'
      /\ \A d \in Callers : d # c => caller'[d] = IdleCall
      /\ caller'[c] # IdleCall
  BY ZenonT(30), <1>1, <1>2 DEF SenderInv, IdleCall
<1>4. AcceptedOf(accepted, sends) /\ Len(accepted) \in Nat
      /\ \A i \in 1..Len(accepted) : accepted[i] \in Nat /\ accepted[i] <= sends
  BY SMTT(20) DEF CleanState, CleanSenderInv, AcceptedOf
<1>5. AcceptedOf(accepted, sends + 1)
  BY SMTT(20), <1>1, <1>4, AcceptedMore
<1>6. Len(accepted) = 0 => sends = 0
  BY ZenonT(30), <1>2 DEF CleanState, CleanSenderInv, Idle
<1>7. CleanSenderInv'
  <2>1. AcceptedOf(accepted, sends)' /\ closes' = 0
    BY ZenonT(30), <1>1, <1>5 DEF CleanState, CleanSenderInv, AcceptedOf
  <2>2. Len(accepted') = 0 => (~Idle' /\ sends' = 1)
    BY SMTT(20), <1>1, <1>3, <1>6 DEF Idle
  <2>3. \A i \in 1..Len(accepted) : accepted[i] < sends + 1
    BY SMTT(20), <1>1, <1>4
  <2>4. ASSUME NEW d \in Callers, caller'[d] # IdleCall
        PROVE  /\ d \in link.callers /\ tx_opened /\ caller'[d].payload = sends'
               /\ caller'[d].at = "framed" /\ "framed" # "pushed"
    BY ZenonT(30), <1>1, <1>3, <2>4
  <2> QED BY ZenonT(30), <1>1, <2>1, <2>2, <2>3, <2>4 DEF CleanState, CleanSenderInv, Among
<1>8. Pushed = {} /\ Pushed' = {}
  BY SMTT(20), <1>2, <1>3 DEF Pushed, IdleCall
<1>9. CleanDataInv'
  BY Zenon, <1>8, CleanDataStays DEF CleanState
<1>10. CleanReceiverInv'
  BY Zenon DEF CleanState, CleanReceiverInv, Reached, Unbroken
<1> QED BY ZenonT(30), <1>7, <1>9, <1>10 DEF CleanState

LEMMA SendRefusedClean ==
  ASSUME SenderInv, Clean, CleanState, NEW c \in Callers, SendPush(c), WindowFull
  PROVE  CleanState'
<1> USE DEF SendPush, rx
<1>1. caller[c] # IdleCall /\ caller[c].at = "framed" /\ c \in link.callers
  BY DEF IdleCall, CleanState, CleanSenderInv
<1>2. \A d \in Callers : d # c => caller[d] = IdleCall
  BY Zenon, <1>1, OneCaller
<1>3. \A d \in Callers : caller'[d] = IdleCall
  BY Zenon, <1>2 DEF SenderInv
<1>4. Len(accepted) > 0
  <2>1. 1 \in 1..Len(tx_pending)
    BY SendsFit DEF WindowFull, SenderInv
  <2>2. Among(tx_pending[1].payload, accepted)
    BY Zenon, <2>1 DEF CleanState, CleanSenderInv
  <2>3. Len(accepted) \in Nat
    BY DEF CleanState, CleanSenderInv, AcceptedOf
  <2> QED BY <2>2, <2>3 DEF Among
<1>5. CleanSenderInv'
  <2>1. Len(accepted') # 0
    BY <1>4
  <2>2. AcceptedOf(accepted, sends)' /\ closes' = 0
    BY Zenon DEF CleanState, CleanSenderInv, AcceptedOf
  <2> QED BY <1>3, <2>1, <2>2 DEF CleanState, CleanSenderInv, Among
<1>6. Pushed = {} /\ Pushed' = {}
  BY SMTT(20), <1>1, <1>2, <1>3 DEF Pushed, IdleCall
<1>7. CleanDataInv'
  BY Zenon, <1>6, CleanDataStays DEF CleanState
<1>8. CleanReceiverInv'
  BY Zenon DEF CleanState, CleanReceiverInv, Reached, Unbroken
<1> QED BY ZenonT(30), <1>5, <1>7, <1>8 DEF CleanState

LEMMA SendAcceptedClean ==
  ASSUME SenderInv, Clean, CleanState, NEW c \in Callers, SendPush(c), ~WindowFull
  PROVE  CleanState' /\ accepted' = Append(accepted, sends) /\ sends \in 1..MaxSends
<1> USE DEF SendPush, rx
<1>1. /\ caller[c] # IdleCall /\ caller[c].at = "framed" /\ c \in link.callers /\ tx_opened
      /\ caller[c].payload = sends /\ \A i \in 1..Len(accepted) : accepted[i] < sends
  BY DEF IdleCall, CleanState, CleanSenderInv
<1>2. \A d \in Callers : d # c => caller[d] = IdleCall
  BY Zenon, <1>1, OneCaller
<1>3. /\ \A d \in Callers : d # c => caller'[d] = IdleCall
      /\ caller'[c].at = "pushed" /\ caller'[c].payload = sends
      /\ caller'[c] # IdleCall
  BY Zenon, <1>1, <1>2 DEF SenderInv, IdleCall, CallRec
<1>4. sends \in Nat /\ sends >= 1 /\ sends \in 1..MaxSends
  <2>1. Numbered(caller[c])
    BY ZenonT(30), <1>1 DEF SenderInv
  <2>2. sends \in Nat /\ MaxSends \in Nat /\ sends <= MaxSends
    BY LinkFacts DEF SenderInv
  <2> QED BY SMTT(20), <1>1, <2>1, <2>2 DEF Numbered
<1>5. Len(accepted) = 0 => sends = 1
  BY <1>4 DEF CleanState, CleanSenderInv
<1> DEFINE m == Len(accepted)
           a == Append(accepted, sends)
<1>6. /\ AcceptedOf(a, sends) /\ Len(a) = m + 1 /\ a[m + 1] = sends
      /\ \A i \in 1..m : a[i] = accepted[i]
      /\ m + 1 <= sends
  BY ZenonT(30), <1>1, <1>4, <1>5, AcceptOne DEF CleanState, CleanSenderInv
<1>7. accepted' = a /\ m \in Nat
  BY SMTT(20), <1>1 DEF CleanState, CleanSenderInv, AcceptedOf
<1>8. \A p : Among(p, accepted) => Among(p, a)
  <2>1. 1..m \subseteq 1..(m + 1)
    BY <1>7
  <2> HIDE DEF a
  <2> QED BY Zenon, <1>6, <2>1 DEF Among
<1>9. Among(sends, a)
  <2>1. m + 1 \in 1..(m + 1)
    BY <1>7
  <2> HIDE DEF a, m
  <2> QED BY Zenon, <1>6, <2>1 DEF Among
<1>10. \A q : Unbroken(q, a) <=> Unbroken(q, accepted) \/ (q = m + 1 /\ q = sends)
  <2>1. \A q : q \in 1..(m + 1) <=> q \in 1..m \/ q = m + 1
    BY SMTT(20), <1>7
  <2>2. m + 1 \notin 1..m
    BY <1>7
  <2> HIDE DEF a
  <2> QED BY ZenonT(30), <1>6, <2>1, <2>2 DEF Unbroken
<1> HIDE DEF a
<1>11. CleanSenderInv'
  <2>1. AcceptedOf(accepted, sends)' /\ closes' = 0
    BY ZenonT(30), <1>6, <1>7 DEF CleanState, CleanSenderInv, AcceptedOf
  <2>2. Len(accepted') # 0
    BY <1>6, <1>7
  <2>3. ASSUME NEW d \in Callers, caller'[d] # IdleCall
        PROVE  /\ d \in link.callers /\ tx_opened /\ caller'[d].payload = sends
               /\ caller'[d].at = "pushed" /\ "framed" # "pushed"
    BY Zenon, <1>1, <1>3, <2>3
  <2>4. \A i \in 1..Len(tx_pending') : Among(tx_pending'[i].payload, a)
    <3> DEFINE e == [seq |-> caller[c].seq, payload |-> caller[c].payload, retransmit_count |-> 0]
    <3>1. tx_pending \in Seq(PendingRec) /\ Len(tx_pending) \in Nat /\ e.payload = sends
          /\ tx_pending' = Append(tx_pending, e)
      BY <1>1 DEF SenderInv
    <3>2. e \in PendingRec
      <4>1. caller[c] \in [at : {"framed", "pushed"}, seq : Seqs, payload : Nat]
        BY Zenon, <1>1 DEF SenderInv, CallRec
      <4> QED BY Zenon, <4>1 DEF PendingRec
    <3> HIDE DEF e
    <3>3. \A i \in 1..Len(tx_pending') :
             tx_pending'[i] = e \/ (i \in 1..Len(tx_pending) /\ tx_pending'[i] = tx_pending[i])
      BY SMTT(20), <3>1, <3>2
    <3> QED BY ZenonT(30), <1>8, <1>9, <3>1, <3>3 DEF CleanState, CleanSenderInv
  <2>5. \A i \in 1..Len(data) : Among(data[i].payload, a)
    BY Zenon, <1>8 DEF CleanState, CleanSenderInv
  <2>6. \A p : Among(p, a) => Among(p, accepted)'
    BY Zenon, <1>7 DEF Among
  <2>7. \A d \in Callers : caller'[d] # IdleCall =>
            /\ d \in link.callers' /\ tx_opened'
            /\ caller'[d].payload = sends'
            /\ caller'[d].at = "framed" => \A i \in 1..Len(accepted') : accepted'[i] < sends'
            /\ caller'[d].at = "pushed" => Among(sends, accepted)'
    BY Zenon, <1>9, <2>3, <2>6 DEF Among
  <2> QED BY ZenonT(30), <2>1, <2>2, <2>4, <2>5, <2>6, <2>7 DEF CleanSenderInv, Among
<1>12. Pushed = {} /\ Pushed' = {sends}
  BY <1>1, <1>2, <1>3 DEF Pushed, IdleCall
<1>13. CleanDataInv'
  <2>1. SUFFICES ASSUME Window > 1 \/ Reached = 0
                 PROVE  Covered(data, a, Reached) /\ InFlight(data, a, Reached, {sends})
    BY <1>7, <1>12 DEF CleanDataInv, Reached, Covered, InFlight, InFirst, Unbroken
  <2>2. Covered(data, accepted, Reached) /\ InFlight(data, accepted, Reached, {})
    BY Zenon, <1>12, <2>1 DEF CleanState, CleanDataInv
  <2>3. \A q : Unbroken(q, accepted) => q \in 1..Len(accepted)
    BY Zenon DEF Unbroken
  <2>4. Covered(data, a, Reached)
    <3>1. SUFFICES ASSUME NEW i \in 1..Len(data), NEW q \in 1..Len(a), Unbroken(q, a),
                          q < data[i].payload
                   PROVE  q <= Reached \/ InFirst(q, data, i - 1)
      BY Zenon DEF Covered
    <3>2. data[i].payload \in 1..sends
      BY Zenon DEF SenderInv, Numbered
    <3>3. Unbroken(q, accepted)
      BY SMTT(20), <1>4, <1>10, <3>1, <3>2
    <3> QED BY ZenonT(30), <2>2, <2>3, <3>1, <3>3 DEF Covered
  <2>5. InFlight(data, a, Reached, {sends})
    BY Zenon, <1>10, <2>2, <2>3 DEF InFlight
  <2> QED BY Zenon, <2>4, <2>5
<1>14. CleanReceiverInv'
  <2>1. Reached \in Nat /\ Reached <= m /\ \A i \in 1..Reached : i \in 1..m
    BY SMTT(20), <1>7 DEF CleanState, CleanReceiverInv, Reached
  <2>2. Reached <= m + 1 /\ (Reached < m => ~(Reached + 1 = m + 1) /\ Reached < m + 1)
    BY <1>7, <2>1
  <2>3. /\ delivered \in Seq(Nat) /\ Reached <= Len(a)
        /\ \A i \in 1..Reached : delivered[i] = i /\ a[i] = i
        /\ rx_initialized <=> Reached >= 1
        /\ rx_initialized => rx_base_seq = Number(Reached)
        /\ DOMAIN rx_buffer # {} => ~Unbroken(Reached + 1, a) /\ Reached < Len(a)
    BY Zenon, <1>6, <1>10, <2>1, <2>2 DEF CleanState, CleanReceiverInv
  <2> QED BY Zenon, <1>7, <2>3 DEF CleanReceiverInv, Reached, Unbroken
<1> QED BY ZenonT(30), <1>4, <1>7, <1>11, <1>13, <1>14 DEF CleanState, a

\* Frames of accepted packets are written behind those in the network.
LEMMA CleanDataGrows ==
  ASSUME SenderInv, CleanState, NEW t \in Seq(FrameRec), NEW Q, data' = data \o t,
         UNCHANGED <<accepted, delivered>>, Pushed' = Q,
         \A i \in 1..Len(t) : t[i].payload <= sends /\ Among(t[i].payload, accepted),
         \A x \in Pushed : x \in Q \/ InFirst(x, t, Len(t))
  PROVE  CleanDataInv' /\ \A i \in 1..Len(data') : Among(data'[i].payload, accepted)
<1>0. /\ sends \in Nat /\ Pushed \in SUBSET {sends} /\ accepted \in Seq(Nat)
      /\ delivered \in Seq(Nat) /\ Reached \in Nat /\ data \in Seq(FrameRec)
  <2>1. sends \in Nat /\ Pushed \in SUBSET {sends}
    BY Zenon, SendsFit DEF Pushed
  <2>2. /\ accepted \in Seq(Nat) /\ delivered \in Seq(Nat) /\ data \in Seq(FrameRec)
    BY Zenon DEF SenderInv, CleanState, CleanSenderInv, CleanReceiverInv, AcceptedOf
  <2>3. Reached \in Nat
    BY ONLY <2>2 DEF Reached
  <2> QED BY Zenon, <2>1, <2>2, <2>3
<1>1. CleanDataInv'
  <2>1. SUFFICES ASSUME Window > 1 \/ Reached = 0
                 PROVE  Covered(data \o t, accepted, Reached) /\ InFlight(data \o t, accepted, Reached, Q)
    <3>1. PICK w : w = data \o t
      BY Zenon
    <3>2. data' = w /\ Reached' = Reached /\ Pushed' = Q /\ accepted' = accepted
      BY ZenonT(30), <3>1 DEF Reached
    <3>3. Covered(w, accepted, Reached) /\ InFlight(w, accepted, Reached, Q) => CleanDataInv'
      <4>1. Covered(w, accepted, Reached) => Covered(data, accepted, Reached)'
        BY ONLY SMTT(20), <3>2 DEF Covered, InFirst, Unbroken
      <4>2. InFlight(w, accepted, Reached, Q) => InFlight(data, accepted, Reached, Pushed)'
        BY ONLY SMTT(20), <3>2 DEF InFlight, InFirst, Unbroken
      <4> QED BY Zenon, <4>1, <4>2 DEF CleanDataInv
    <3> QED BY Zenon, <3>1, <3>3 DEF CleanDataInv, Reached
  <2>2. Covered(data, accepted, Reached) /\ InFlight(data, accepted, Reached, Pushed)
    BY Zenon, <2>1 DEF CleanState, CleanDataInv
  <2>3. \A x \in Pushed : \A i \in 1..Len(t) : t[i].payload <= x
    BY Zenon, <1>0
  <2>4. Pushed \in SUBSET Nat
    BY Zenon, <1>0
  <2> QED BY Zenon, <1>0, <2>2, <2>3, <2>4, FramesAdded
<1>2. \A i \in 1..Len(data') : Among(data'[i].payload, accepted)
  <2> DEFINE w == data \o t
             m == Len(data)
             n == Len(t)
  <2>1. /\ m \in Nat /\ n \in Nat /\ Len(w) = m + n
        /\ \A k \in 1..(m + n) : w[k] = IF k <= m THEN data[k] ELSE t[k - m]
    BY SMTT(20), <1>0, ConcatParts
  <2>2. ASSUME NEW k \in 1..(m + n)
        PROVE  (k \in 1..m /\ w[k] = data[k]) \/ (k - m \in 1..n /\ w[k] = t[k - m])
    <3> HIDE DEF w, m, n
    <3> QED BY <2>1
  <2>3. \A i \in 1..m : Among(data[i].payload, accepted)
    BY Zenon DEF CleanState, CleanSenderInv
  <2> HIDE DEF w
  <2>4. \A k \in 1..Len(w) : Among(w[k].payload, accepted)
    BY Zenon, <2>1, <2>2, <2>3
  <2> QED BY Zenon, <2>4 DEF w
<1> QED BY Zenon, <1>1, <1>2

LEMMA SendWireClean ==
  ASSUME SenderInv, Clean, CleanState, NEW c \in Callers, SendWire(c)
  PROVE  CleanState'
<1> USE DEF SendWire, rx
<1>1. /\ caller[c] # IdleCall /\ caller[c].at = "pushed" /\ c \in link.callers /\ tx_opened
      /\ caller[c].payload = sends /\ Among(sends, accepted)
  BY DEF IdleCall, CleanState, CleanSenderInv
<1>2. \A d \in Callers : d # c => caller[d] = IdleCall
  BY Zenon, <1>1, OneCaller
<1>3. \A d \in Callers : caller'[d] = IdleCall
  BY Zenon, <1>2 DEF SenderInv
<1> DEFINE f == [seq |-> caller[c].seq, payload |-> caller[c].payload]
<1>4. f \in FrameRec /\ f.payload = sends /\ sends \in Nat
  <2>1. caller[c] \in [at : {"framed", "pushed"}, seq : Seqs, payload : Nat]
    BY ZenonT(30), <1>1 DEF SenderInv, CallRec
  <2> QED BY Zenon, <1>1, <2>1 DEF FrameRec
<1>5. Pushed = {sends} /\ Pushed' = {}
  BY SMTT(20), <1>1, <1>2, <1>3 DEF Pushed, IdleCall
<1>6. data' = data \o <<f>>
  <2>1. data' = Append(data, f) /\ data \in Seq(FrameRec)
    BY Zenon, <1>1 DEF SenderInv
  <2> HIDE DEF f
  <2> QED BY Zenon, <1>4, <2>1, AppendParts
<1> HIDE DEF f
<1>7. /\ <<f>> \in Seq(FrameRec) /\ Len(<<f>>) = 1 /\ <<f>>[1] = f
      /\ \A i \in 1..Len(<<f>>) : <<f>>[i].payload <= sends /\ Among(<<f>>[i].payload, accepted)
  <2>1. <<f>> \in Seq(FrameRec) /\ Len(<<f>>) = 1 /\ <<f>>[1] = f
    BY SMTT(20), <1>4
  <2>2. f.payload <= sends /\ Among(f.payload, accepted)
    BY SMTT(20), <1>1, <1>4
  <2> QED BY SMTT(20), <2>1, <2>2
<1>8. InFirst(sends, <<f>>, Len(<<f>>))
  BY <1>4, <1>7 DEF InFirst
<1>9. CleanDataInv' /\ \A i \in 1..Len(data') : Among(data'[i].payload, accepted)
  BY Zenon, <1>5, <1>6, <1>7, <1>8, CleanDataGrows
<1>10. CleanSenderInv'
  <2>1. Len(accepted) # 0
    BY <1>1 DEF Among, CleanState, CleanSenderInv, AcceptedOf
  <2>2. AcceptedOf(accepted, sends)' /\ closes' = 0
    BY Zenon DEF CleanState, CleanSenderInv, AcceptedOf
  <2>3. \A i \in 1..Len(tx_pending) : Among(tx_pending[i].payload, accepted)
    BY Zenon DEF CleanState, CleanSenderInv
  <2> QED BY ZenonT(30), <1>3, <1>9, <2>1, <2>2, <2>3 DEF CleanSenderInv, Among
<1>11. CleanReceiverInv'
  BY Zenon DEF CleanState, CleanReceiverInv, Reached, Unbroken
<1> QED BY ZenonT(30), <1>9, <1>10, <1>11 DEF CleanState

\* What is collected from the pending packets belongs to accepted packets.
LEMMA CollectedAmong ==
  ASSUME SenderInv, CleanState, NEW T, NEW s \in Seq(T), Len(s) = Len(tx_pending),
         \A i \in 1..Len(s) : s[i].payload = tx_pending[i].payload,
         NEW I \in SUBSET (1..Len(s)), NEW m \in Nat,
         NEW ix \in InOrder(m, I)
  PROVE  \A k \in 1..Len(At(s, ix)) : /\ Among(At(s, ix)[k].payload, accepted)
                                      /\ At(s, ix)[k].payload \in 1..sends
<1>1. TAKE k \in 1..Len(At(s, ix))
<1>2. PICK i \in I : At(s, ix)[k] = s[i]
  <2>1. At(s, ix) \in Seq(T)
    BY Zenon, AtSeq
  <2>2. DOMAIN At(s, ix) = 1..Len(At(s, ix))
    BY Zenon, <2>1, SeqDomain
  <2>3. /\ DOMAIN At(s, ix) = DOMAIN ix
        /\ \A n \in DOMAIN ix : ix[n] \in I /\ At(s, ix)[n] = s[ix[n]]
    <3>1. PICK n \in 0..m : ix \in [1..n -> I]
      BY Zenon DEF InOrder
    <3> QED BY Zenon, <3>1 DEF At
  <2> QED BY Zenon, <2>2, <2>3
<1>3. i \in 1..Len(s) /\ i \in 1..Len(tx_pending)
  BY Zenon
<1>4. Among(tx_pending[i].payload, accepted)
  BY Zenon, <1>3 DEF CleanState, CleanSenderInv
<1>5. tx_pending[i].payload \in 1..sends
  BY Zenon, <1>3 DEF SenderInv, Numbered
<1>6. s[i].payload = tx_pending[i].payload
  BY Zenon, <1>3
<1> QED BY ZenonT(30), <1>2, <1>4, <1>5, <1>6

LEMMA RetransmitClean ==
  ASSUME SenderInv, CleanState, Retransmit
  PROVE  CleanState'
<1>1. PICK due \in SUBSET (1..Len(tx_pending)) : retransmit_main(due)
  BY Zenon DEF Retransmit
<1> DEFINE n == Len(tx_pending)
           spent == {i \in due : tx_pending[i].retransmit_count >= MaxRetransmits}
           again == due \ spent
           marked == [i \in 1..n |->
                        IF i \in again THEN [tx_pending[i] EXCEPT !.retransmit_count = @ + 1]
                        ELSE tx_pending[i]]
           frames == [i \in 1..n |-> [seq |-> tx_pending[i].seq, payload |-> tx_pending[i].payload]]
<1>2. /\ \E kept \in InOrder(n, (1..n) \ spent) : tx_pending' = At(marked, kept)
      /\ \E sent \in InOrder(n, again) : data' = data \o At(frames, sent)
      /\ UNCHANGED <<tx_opened, caller, sends, accepted, rx, closes, link>>
  BY Zenon, <1>1 DEF retransmit_main
<1>3. PICK kept \in InOrder(n, (1..n) \ spent), sent \in InOrder(n, again) :
        tx_pending' = At(marked, kept) /\ data' = data \o At(frames, sent)
  BY ZenonT(30), <1>2
<1>4. n \in Nat /\ \A i \in 1..n : tx_pending[i] \in PendingRec
  BY SMTT(20) DEF SenderInv
<1>5. marked \in Seq(PendingRec) /\ Len(marked) = n /\ \A i \in 1..n : marked[i].payload = tx_pending[i].payload
  <2>1. \A i \in 1..n : marked[i] \in PendingRec /\ marked[i].payload = tx_pending[i].payload
    BY SMTT(20), <1>4 DEF PendingRec
  <2>2. marked \in [1..n -> PendingRec]
    BY Zenon, <2>1
  <2> HIDE DEF marked
  <2> QED BY SMTT(20), <1>4, <2>1, <2>2
<1>6. frames \in Seq(FrameRec) /\ Len(frames) = n /\ \A i \in 1..n : frames[i].payload = tx_pending[i].payload
  <2>1. \A i \in 1..n : frames[i] \in FrameRec /\ frames[i].payload = tx_pending[i].payload
    BY Zenon, <1>4 DEF PendingRec, FrameRec
  <2>2. frames \in [1..n -> FrameRec]
    BY Zenon, <2>1
  <2> HIDE DEF frames
  <2> QED BY SMTT(20), <1>4, <2>1, <2>2
<1>7. again \in SUBSET (1..n) /\ (1..n) \ spent \in SUBSET (1..n)
  BY Zenon
<1> HIDE DEF marked, frames, spent, again
<1>8. \A i \in 1..Len(tx_pending') : Among(tx_pending'[i].payload, accepted)
  BY ZenonT(30), <1>3, <1>4, <1>5, <1>7, CollectedAmong
<1>9. /\ At(frames, sent) \in Seq(FrameRec)
      /\ \A i \in 1..Len(At(frames, sent)) :
            /\ Among(At(frames, sent)[i].payload, accepted)
            /\ At(frames, sent)[i].payload \in 1..sends
  BY ZenonT(30), <1>3, <1>4, <1>6, <1>7, AtSeq, CollectedAmong
<1>10. sends \in Nat /\ \A p \in 1..sends : p <= sends
  BY SendsFit
<1>11. Pushed' = Pushed
  BY Zenon, <1>2 DEF Pushed
<1>12. CleanDataInv' /\ \A i \in 1..Len(data') : Among(data'[i].payload, accepted)
  BY Zenon, <1>2, <1>3, <1>9, <1>10, <1>11, CleanDataGrows DEF rx
<1>13. CleanSenderInv'
  BY Zenon, <1>2, <1>8, <1>12 DEF CleanState, CleanSenderInv, AcceptedOf, Idle, Among
<1>14. CleanReceiverInv'
  BY Zenon, <1>2 DEF CleanState, CleanReceiverInv, Reached, Unbroken, rx
<1> QED BY Zenon, <1>12, <1>13, <1>14 DEF CleanState

LEMMA RecvAckClean ==
  ASSUME SenderInv, CleanState, NEW i, NEW copy, RecvAck(i, copy)
  PROVE  CleanState'
<1> DEFINE I == {j \in 1..Len(tx_pending) : ~Acknowledges(acks[i], tx_pending[j].seq)}
<1>1. PICK kept \in InOrder(Len(tx_pending), I) : tx_pending' = At(tx_pending, kept)
  BY Zenon DEF RecvAck, apply_ack_frame
<1>2. I \in SUBSET (1..Len(tx_pending)) /\ tx_pending \in Seq(PendingRec)
  BY ZenonT(30) DEF SenderInv
<1> HIDE DEF I
<1>3. \A k \in 1..Len(tx_pending') : Among(tx_pending'[k].payload, accepted)
  BY SMTT(20), <1>1, <1>2, CollectedAmong
<1> QED BY Zenon, <1>3, CleanQuiet DEF RecvAck, apply_ack_frame, rx

\* What the frame at the front does to the receiver.
LEMMA FrameArrives ==
  ASSUME SenderInv, ReceiverInv, CleanState, NEW f, Numbered(f), Among(f.payload, accepted),
         HandleData(f),
         Window > 1 \/ Reached = 0 =>
            \A q \in 1..Len(accepted) : Unbroken(q, accepted) /\ q < f.payload => q <= Reached
  PROVE  \/ /\ f.payload = Reached + 1 /\ Unbroken(Reached + 1, accepted)
            /\ delivered' = Append(delivered, Reached + 1)
            /\ rx_base_seq' = Number(Reached + 1) /\ DOMAIN rx_buffer' = {}
         \/ /\ delivered' = delivered /\ rx_base_seq' = rx_base_seq /\ Reached >= 1
            /\ DOMAIN rx_buffer' # {} => ~Unbroken(Reached + 1, accepted) /\ Reached < Len(accepted)
            /\ Window > 1 => f.payload <= Reached \/ ~Unbroken(f.payload, accepted)
<1> DEFINE R == Reached
           p == f.payload
<1>0. /\ AcceptedOf(accepted, sends) /\ delivered \in Seq(Nat) /\ R \in Nat /\ R <= Len(accepted)
      /\ Len(accepted) \in Nat /\ sends \in Nat /\ Window \in Nat /\ Window >= 1
      /\ \A i \in 1..R : accepted[i] = i
      /\ rx_initialized <=> R >= 1
      /\ rx_initialized => rx_base_seq = Number(R)
      /\ DOMAIN rx_buffer # {} => ~Unbroken(R + 1, accepted) /\ R < Len(accepted)
  <2>1. AcceptedOf(accepted, sends) /\ delivered \in Seq(Nat) /\ R <= Len(accepted)
    BY Zenon DEF CleanState, CleanSenderInv, CleanReceiverInv
  <2>2. R \in Nat /\ Len(accepted) \in Nat /\ sends \in Nat /\ Window \in Nat /\ Window >= 1
    BY <2>1, SendsFit DEF AcceptedOf, Reached
  <2>3. /\ \A i \in 1..R : accepted[i] = i
        /\ rx_initialized <=> R >= 1
        /\ rx_initialized => rx_base_seq = Number(R)
        /\ DOMAIN rx_buffer # {} => ~Unbroken(R + 1, accepted) /\ R < Len(accepted)
    BY Zenon DEF CleanState, CleanReceiverInv
  <2> QED BY Zenon, <2>1, <2>2, <2>3
<1>1. p \in 1..sends /\ p \in Nat /\ Among(p, accepted)
  BY <1>0 DEF Numbered
<1>2. Window > 1 \/ R = 0 =>
        \A q \in 1..Len(accepted) : Unbroken(q, accepted) /\ q < p => q <= R
  BY Zenon
<1> HIDE DEF R, p
\* Behind a gap nothing is unbroken.
<1>3. ASSUME p > R + 1, Window > 1 \/ R = 0
      PROVE  ~Unbroken(R + 1, accepted) /\ R < Len(accepted) /\ ~Unbroken(p, accepted)
  <2>1. R < Len(accepted)
    BY SMTT(20), <1>0, <1>1, <1>3, BeyondGap
  <2>2. R + 1 \in 1..Len(accepted) /\ R + 1 < p /\ ~(R + 1 <= R)
    BY SMTT(20), <1>0, <1>1, <1>3, <2>1
  <2>3. ~Unbroken(R + 1, accepted)
    BY Zenon, <1>2, <1>3, <2>2
  <2>4. R + 1 \in 1..p
    BY SMTT(20), <1>0, <1>1, <1>3
  <2>5. ~Unbroken(p, accepted)
    BY Zenon, <1>0, <2>3, <2>4, UnbrokenBelow
  <2> QED BY ZenonT(30), <2>1, <2>3, <2>5
<1>4. p = R + 1 => Unbroken(R + 1, accepted) /\ DOMAIN rx_buffer = {}
  <2>1. SUFFICES ASSUME p = R + 1 PROVE Unbroken(R + 1, accepted) /\ DOMAIN rx_buffer = {}
    BY Zenon
  <2>2. p > R /\ ~(p > R + 1)
    BY <1>0, <2>1
  <2>3. ~Unbroken(R + 1, accepted) => p > R + 1
    BY Zenon, <1>0, <1>1, <2>2, BeyondGap
  <2> QED BY Zenon, <1>0, <2>2, <2>3
<1>5. CASE ~rx_initialized
  <2>1. R = 0 /\ rx_buffer = <<>> /\ rx_buffer' = rx_buffer /\ rx_base_seq' = f.seq
        /\ delivered' = delivered \o <<p>>
    BY SMTT(20), <1>0, <1>5 DEF ReceiverInv, HandleData, HandUp, p
  <2>2. p = R + 1
    <3>1. ~(p > R + 1)
      <4>1. SUFFICES ASSUME p > R + 1 PROVE FALSE
        BY Zenon
      <4>2. ~Unbroken(R + 1, accepted) /\ R < Len(accepted)
        BY ZenonT(30), <1>3, <2>1, <4>1
      <4>3. Unbroken(1, accepted)
        BY SMTT(20), <1>0, <2>1, <4>2 DEF AcceptedOf, Unbroken
      <4> QED BY <2>1, <4>2, <4>3
    <3> QED BY <1>0, <1>1, <2>1, <3>1
  <2>3. delivered' = Append(delivered, p)
    BY Zenon, <1>0, <1>1, <2>1, AppendParts
  <2>4. f.seq = Number(p)
    BY Zenon DEF Numbered, p
  <2> QED BY ZenonT(30), <1>4, <2>1, <2>2, <2>3, <2>4 DEF p, R
<1>6. CASE rx_initialized
  <2>1. R >= 1 /\ rx_base_seq = Number(R) /\ f.seq = Number(p) /\ R \in 1..(sends + 1) /\ R <= sends
    <3>1. R >= 1 /\ rx_base_seq = Number(R) /\ f.seq = Number(p)
      BY ZenonT(30), <1>0, <1>6 DEF Numbered, p
    <3>2. R \in 1..Len(accepted) /\ accepted[R] = R
      BY <1>0, <3>1
    <3>3. R <= sends
      BY Zenon, <1>0, <3>2 DEF AcceptedOf
    <3> QED BY SMTT(20), <1>0, <3>1, <3>3
  <2>2. seq_in_window(f.seq, rx_base_seq) => p >= R /\ SeqDiff(f.seq, rx_base_seq) = p - R
    BY Zenon, <2>1, FrameInWindow DEF seq_in_window, p
  <2>3. CASE /\ f.seq = rx_base_seq \/ ~seq_in_window(f.seq, rx_base_seq)
             /\ IgnoreFrame(f)
    <3>1. ASSUME Window > 1 PROVE p <= R \/ ~Unbroken(p, accepted)
      <4>1. p # R + 1
        <5>1. SUFFICES ASSUME p = R + 1 PROVE FALSE
          BY ZenonT(30)
        <5>2. SeqDiff(Number(p), Number(R)) = p - R
          BY SMTT(20), <1>0, <1>1, <2>1, <5>1, NumberDiff, SendsFit
        <5>3. seq_in_window(f.seq, rx_base_seq) /\ SeqDiff(f.seq, rx_base_seq) = 1
          BY SMTT(20), <1>0, <2>1, <3>1, <5>1, <5>2 DEF seq_in_window
        <5>4. f.seq # rx_base_seq
          <6>1. p # R /\ 1 <= R /\ R <= SeqSpace /\ 1 <= p /\ p <= SeqSpace /\ p \in Int /\ R \in Int
            BY SMTT(20), <1>0, <1>1, <2>1, <5>1, SendsFit
          <6> QED BY ZenonT(30), <2>1, <6>1, NumberInjective
        <5> QED BY Zenon, <2>3, <5>3, <5>4
      <4> QED BY SMTT(20), <1>0, <1>1, <1>3, <3>1, <4>1
    <3> QED BY ZenonT(30), <1>0, <2>1, <2>3, <3>1 DEF IgnoreFrame, p, R
  <2>4. CASE /\ seq_in_window(f.seq, rx_base_seq) /\ SeqDiff(f.seq, rx_base_seq) > 1
             /\ BufferFrame(f)
    <3>1. p > R + 1 /\ Window > 1
      BY SMTT(20), <1>0, <1>1, <2>2, <2>4 DEF seq_in_window
    <3>2. delivered' = delivered /\ rx_base_seq' = rx_base_seq
      BY Zenon, <2>4 DEF BufferFrame
    <3> QED BY ZenonT(30), <1>3, <2>1, <3>1, <3>2 DEF p, R
  <2>5. ASSUME seq_in_window(f.seq, rx_base_seq), SeqDiff(f.seq, rx_base_seq) = 1,
               NEW n \in 0..Window, WalkEnds(f.seq, n), HandUp(<<f.payload>> \o Walked(f.seq, n)),
               rx_base_seq' = (f.seq + n) % SeqSpace,
               rx_buffer' = WithoutKeys(rx_buffer, {(f.seq + j) % SeqSpace : j \in 0..(n - 1)})
        PROVE  /\ p = R + 1 /\ Unbroken(R + 1, accepted)
               /\ delivered' = Append(delivered, R + 1)
               /\ rx_base_seq' = Number(R + 1) /\ DOMAIN rx_buffer' = {}
    <3>1. p = R + 1
      BY SMTT(20), <1>0, <1>1, <2>2, <2>5
    <3>2. DOMAIN rx_buffer = {} /\ Unbroken(R + 1, accepted)
      BY ZenonT(30), <1>4, <3>1
    <3>3. n = 0
      <4>1. CASE n > 0
        <5>1. 0 \in 0..(n - 1)
          BY SMTT(20), <1>0, <4>1
        <5> QED BY Zenon, <2>5, <3>2, <5>1 DEF WalkEnds
      <4> QED BY <1>0, <4>1
    <3>4. Walked(f.seq, n) = <<>>
      <4>1. DOMAIN Walked(f.seq, n) = {}
        BY <3>3 DEF Walked
      <4>2. Walked(f.seq, n) \in [1..0 -> Nat]
        BY ZenonT(30), <3>3, <4>1 DEF Walked
      <4> QED BY SMTT(20), <4>1, <4>2
    <3>5. delivered' = delivered \o <<p>>
      <4>1. <<p>> \o <<>> = <<p>>
        BY ONLY SMT
      <4> QED BY Zenon, <2>5, <3>4, <4>1 DEF HandUp, p
    <3>6. delivered' = Append(delivered, p)
      BY ZenonT(30), <1>0, <1>1, <3>5, AppendParts
    <3>7. DOMAIN rx_buffer' = {}
      BY Zenon, <2>5, <3>2 DEF WithoutKeys
    <3>8. rx_base_seq' = Number(p)
      <4>1. 1 <= p /\ p \in Int /\ p + 0 <= SeqSpace
        BY SMTT(20), <1>0, <1>1, SendsFit
      <4>2. (Number(p) + 0) % SeqSpace = Number(p + 0) /\ p + 0 = p
        BY SMTT(20), <4>1, NumberAdd
      <4> QED BY ZenonT(30), <2>1, <2>5, <3>3, <4>2
    <3> QED BY ZenonT(30), <3>1, <3>2, <3>6, <3>7, <3>8
  <2> QED BY ZenonT(30), <1>6, <2>3, <2>4, <2>5 DEF HandleData, p, R
<1> QED BY Zenon, <1>0, <1>5, <1>6

\* A frame arrives on a clean link: the next packet is delivered, or nothing.
LEMMA RecvDataClean ==
  ASSUME SenderInv, ReceiverInv, Clean, CleanState,
         NEW i \in Arrivable(data), NEW copy \in BOOLEAN, RecvData(i, copy), UNCHANGED link
  PROVE  /\ CleanState'
         /\ \/ UNCHANGED delivered
            \/ Reached < Len(accepted) /\ delivered' = Append(delivered, accepted[Reached + 1])
<1> DEFINE f == data[1]
           R == Reached
<1>0. i = 1 /\ Len(data) \in Nat /\ Len(data) >= 1 /\ data \in Seq(FrameRec)
  BY DEF Arrivable, Clean, SenderInv
<1>1. /\ HandleData(f) /\ data' = Drawn(data, 1, copy) /\ rx_initialized' = TRUE
      /\ UNCHANGED <<tx, closes, link>>
  BY Zenon, <1>0 DEF RecvData, HandleData
<1>2. 1 \in 1..Len(data) /\ Numbered(f) /\ Among(f.payload, accepted) /\ f.payload \in Nat
  <2>1. 1 \in 1..Len(data)
    BY SMTT(20), <1>0
  <2>2. Numbered(f)
    BY Zenon, <2>1 DEF SenderInv
  <2>3. Among(f.payload, accepted)
    BY Zenon, <2>1 DEF CleanState, CleanSenderInv
  <2>4. f.payload \in Nat
    BY SMTT(20), <2>2, SendsFit DEF Numbered
  <2> QED BY Zenon, <2>1, <2>2, <2>3, <2>4
<1>3. /\ AcceptedOf(accepted, sends) /\ accepted \in Seq(Nat) /\ delivered \in Seq(Nat)
      /\ R \in Nat /\ R <= Len(accepted) /\ Len(accepted) \in Nat
      /\ \A k \in 1..R : delivered[k] = k /\ accepted[k] = k
      /\ rx_initialized <=> R >= 1
      /\ rx_initialized => rx_base_seq = Number(R)
  BY SMTT(20) DEF CleanState, CleanSenderInv, CleanReceiverInv, AcceptedOf, Reached
<1>4. Window > 1 \/ R = 0 => Covered(data, accepted, R) /\ InFlight(data, accepted, R, Pushed)
  BY Zenon DEF CleanState, CleanDataInv
<1>5. Window > 1 \/ R = 0 =>
        \A q \in 1..Len(accepted) : Unbroken(q, accepted) /\ q < f.payload => q <= R
  <2>1. \A q : ~InFirst(q, data, 1 - 1)
    BY DEF InFirst
  <2> QED BY Zenon, <1>2, <1>4, <2>1 DEF Covered
<1>6. \/ /\ f.payload = R + 1 /\ Unbroken(R + 1, accepted)
         /\ delivered' = Append(delivered, R + 1)
         /\ rx_base_seq' = Number(R + 1) /\ DOMAIN rx_buffer' = {}
      \/ /\ delivered' = delivered /\ rx_base_seq' = rx_base_seq /\ R >= 1
         /\ DOMAIN rx_buffer' # {} => ~Unbroken(R + 1, accepted) /\ R < Len(accepted)
         /\ Window > 1 => f.payload <= R \/ ~Unbroken(f.payload, accepted)
  BY ZenonT(30), <1>1, <1>2, <1>5, FrameArrives
<1>7. Pushed' = Pushed
  BY Zenon, <1>1 DEF Pushed, tx
<1>8. CleanSenderInv'
  <2>1. \A k \in 1..Len(data') : Among(data'[k].payload, accepted)
    <3>1. \A k \in 1..Len(data) : Among(data[k].payload, accepted)
      BY Zenon DEF CleanState, CleanSenderInv
    <3>2. CASE copy
      BY ZenonT(30), <1>1, <3>1, <3>2 DEF Drawn
    <3>3. CASE ~copy
      <4> DEFINE r == DropAt(data, 1)
      <4>1. /\ Len(r) = Len(data) - 1
            /\ \A k \in 1..(Len(data) - 1) : r[k] = IF k < 1 THEN data[k] ELSE data[k + 1]
        BY ZenonT(30), <1>0, <1>2, DropAtSeq
      <4> HIDE DEF r
      <4>2. \A k \in 1..Len(r) : r[k] = data[k + 1] /\ k + 1 \in 1..Len(data)
        BY SMTT(20), <1>0, <4>1
      <4>3. data' = r
        BY Zenon, <1>1, <3>3 DEF Drawn, r
      <4> QED BY Zenon, <3>1, <4>2, <4>3
    <3> QED BY Zenon, <3>2, <3>3
  <2> QED BY ZenonT(30), <1>1, <2>1 DEF CleanState, CleanSenderInv, AcceptedOf, Idle, Among, tx
<1> HIDE DEF f, R
<1>9. CASE /\ f.payload = R + 1 /\ Unbroken(R + 1, accepted)
           /\ delivered' = Append(delivered, R + 1)
           /\ rx_base_seq' = Number(R + 1) /\ DOMAIN rx_buffer' = {}
  <2> DEFINE e == Append(delivered, R + 1)
  <2>1. /\ R + 1 \in 1..Len(accepted) /\ accepted[R + 1] = R + 1 /\ R < Len(accepted)
        /\ R + 1 >= 1 /\ R + 1 <= Len(accepted) /\ R + 1 \in Nat
    BY <1>3, <1>9 DEF Unbroken
  <2>2. /\ e \in Seq(Nat) /\ Len(e) = R + 1 /\ \A k \in 1..(R + 1) : e[k] = k /\ accepted[k] = k
    <3>1. R = Len(delivered)
      BY Zenon DEF R, Reached
    <3>2. e \in Seq(Nat) /\ Len(e) = R + 1 /\ e[R + 1] = R + 1 /\ \A k \in 1..R : e[k] = delivered[k]
      BY SMTT(20), <1>3, <2>1, <3>1
    <3>3. \A k \in 1..(R + 1) : k \in 1..R \/ k = R + 1
      BY <1>3
    <3> HIDE DEF e
    <3> QED BY ZenonT(30), <1>3, <2>1, <3>2, <3>3
  <2> HIDE DEF e
  <2>3. delivered' = e /\ Reached' = R + 1 /\ accepted' = accepted
    BY Zenon, <1>1, <1>9, <2>2 DEF e, Reached, tx
  <2>4. CleanReceiverInv'
    BY Zenon, <1>1, <1>9, <2>1, <2>2, <2>3 DEF CleanReceiverInv
  <2>5. CleanDataInv'
    <3>1. SUFFICES ASSUME Window > 1
                   PROVE  Covered(data', accepted, R + 1) /\ InFlight(data', accepted, R + 1, Pushed)
      <4>1. R + 1 # 0
        BY SMTT(20), <1>3
      <4> QED BY SMTT(20), <1>7, <2>3, <4>1, CleanDataTo
    <3>2. R <= R + 1 /\ data[1].payload <= R + 1
      BY <1>3, <1>9 DEF f
    <3>3. Covered(data, accepted, R) /\ InFlight(data, accepted, R, Pushed)
      BY Zenon, <1>4, <3>1
    <3>4. /\ Covered(Drawn(data, 1, copy), accepted, R + 1)
          /\ InFlight(Drawn(data, 1, copy), accepted, R + 1, Pushed)
      BY Zenon, <1>0, <1>3, <2>1, <3>2, <3>3, FrameTaken
    <3> QED BY Zenon, <1>1, <3>4
  <2> QED BY ZenonT(30), <1>8, <1>9, <2>1, <2>4, <2>5 DEF CleanState, R
<1>10. CASE /\ delivered' = delivered /\ rx_base_seq' = rx_base_seq /\ R >= 1
            /\ DOMAIN rx_buffer' # {} => ~Unbroken(R + 1, accepted) /\ R < Len(accepted)
            /\ Window > 1 => f.payload <= R \/ ~Unbroken(f.payload, accepted)
  <2>1. Reached' = R /\ accepted' = accepted /\ rx_initialized
    BY Zenon, <1>1, <1>3, <1>10 DEF Reached, R, tx
  <2>2. CleanReceiverInv'
    BY Zenon, <1>1, <1>3, <1>10, <2>1 DEF CleanReceiverInv, Unbroken
  <2>3. CleanDataInv'
    <3>1. SUFFICES ASSUME Window > 1
                   PROVE  Covered(data', accepted, R) /\ InFlight(data', accepted, R, Pushed)
      <4>1. R # 0
        BY SMTT(20), <1>3, <1>10
      <4> QED BY SMTT(20), <1>7, <2>1, <4>1, CleanDataTo
    <3>2. R <= R /\ (data[1].payload <= R \/ ~Unbroken(data[1].payload, accepted))
      BY SMTT(20), <1>3, <1>10, <3>1 DEF f
    <3>3. Covered(data, accepted, R) /\ InFlight(data, accepted, R, Pushed)
      BY Zenon, <1>4, <3>1
    <3>4. /\ Covered(Drawn(data, 1, copy), accepted, R)
          /\ InFlight(Drawn(data, 1, copy), accepted, R, Pushed)
      BY Zenon, <1>0, <1>3, <3>2, <3>3, FrameTaken
    <3> QED BY Zenon, <1>1, <3>4
  <2> QED BY Zenon, <1>8, <1>10, <2>2, <2>3 DEF CleanState
<1> QED BY ZenonT(30), <1>6, <1>9, <1>10

LEMMA CleanUnchanged ==
  ASSUME UNCHANGED link
  PROVE  Clean' = Clean
BY Zenon DEF Clean, Lossy, Reordering, MaxCloses

LEMMA LinkFixed == [ArqNext]_arqVars => UNCHANGED link
BY Zenon DEF ArqNext, arqVars, open_tx, close_tx, open_rx, close_rx, SendFrame, SendPush, SendWire,
       Retransmit, retransmit_main, recv_main, RecvData, RecvAck, Lose, recv

LEMMA CleanInit == ArqInit => CleanInv
<1> SUFFICES ASSUME ArqInit PROVE CleanSenderInv /\ CleanDataInv /\ CleanReceiverInv
  BY Zenon DEF CleanInv
<1>1. Len(<<>>) = 0 /\ <<>> \in Seq(Nat) /\ Reached = 0 /\ 1..0 = {}
  BY SMTT(20) DEF ArqInit, Reached
<1>2. CleanSenderInv
  BY <1>1 DEF ArqInit, CleanSenderInv, AcceptedOf, Idle
<1>3. CleanDataInv
  BY Zenon, <1>1 DEF ArqInit, CleanDataInv, Covered, InFlight
<1>4. CleanReceiverInv
  BY <1>1 DEF ArqInit, CleanReceiverInv
<1> QED BY Zenon, <1>2, <1>3, <1>4

\* A step of the protocol on a clean link, and what FifoDelivery sees of it.
FifoStep ==
    \/ UNCHANGED <<accepted, delivered>>
    \/ /\ \E p \in 1..MaxSends : accepted' = Append(accepted, p)
       /\ UNCHANGED delivered
    \/ /\ Len(delivered) < Len(accepted)
       /\ delivered' = Append(delivered, accepted[Len(delivered) + 1])
       /\ UNCHANGED accepted

LEMMA CleanStep ==
  ASSUME ArqInv, Clean, CleanState, [ArqNext]_arqVars
  PROVE  CleanState' /\ FifoStep
<1>0. /\ SenderInv /\ ReceiverInv /\ UNCHANGED link
      /\ ~Lossy /\ MaxCloses = 0 /\ closes = 0
      /\ \A i \in 1..Len(tx_pending) : Among(tx_pending[i].payload, accepted)
  BY Zenon, LinkFixed DEF ArqInv, Clean, CleanState, CleanSenderInv
<1>1. CASE open_tx \/ open_rx \/ recv \/ UNCHANGED arqVars
  <2>1. /\ UNCHANGED <<link, sends, caller, accepted, delivered, rx_initialized,
                       rx_base_seq, rx_buffer, data, closes, tx_pending>>
        /\ tx_opened => tx_opened'
    BY SMTT(20), <1>1 DEF open_tx, open_rx, recv, arqVars, tx, rx
  <2> QED BY ZenonT(30), <1>0, <2>1, CleanQuiet DEF FifoStep
<1>2. ~(close_tx \/ close_rx \/ Lose)
  BY <1>0 DEF close_tx, close_rx, Lose
<1>3. ASSUME NEW c \in Callers, SendFrame(c) \/ SendPush(c) \/ SendWire(c)
      PROVE  CleanState' /\ FifoStep
  <2>1. CASE SendFrame(c)
    BY Zenon, <1>0, <2>1, SendFrameClean DEF SendFrame, FifoStep, rx
  <2>2. CASE SendPush(c) /\ WindowFull
    BY Zenon, <1>0, <2>2, SendRefusedClean DEF SendPush, FifoStep, rx
  <2>3. CASE SendPush(c) /\ ~WindowFull
    <3>1. delivered' = delivered
      BY Zenon, <2>3 DEF SendPush, rx
    <3> QED BY Zenon, <1>0, <2>3, <3>1, SendAcceptedClean DEF FifoStep
  <2>4. CASE SendWire(c)
    BY Zenon, <1>0, <2>4, SendWireClean DEF SendWire, FifoStep, rx
  <2> QED BY Zenon, <1>3, <2>1, <2>2, <2>3, <2>4
<1>4. CASE Retransmit
  BY Zenon, <1>0, <1>4, RetransmitClean DEF Retransmit, retransmit_main, FifoStep, rx
<1>5. CASE recv_main
  <2>1. ASSUME NEW copy \in BOOLEAN, NEW i \in Arrivable(data), RecvData(i, copy)
        PROVE  CleanState' /\ FifoStep
    <3>1. accepted' = accepted
      BY Zenon, <2>1 DEF RecvData, tx
    <3>2. /\ CleanState'
          /\ \/ UNCHANGED delivered
             \/ Reached < Len(accepted) /\ delivered' = Append(delivered, accepted[Reached + 1])
      BY Zenon, <1>0, <2>1, RecvDataClean
    <3> QED BY Zenon, <3>1, <3>2 DEF FifoStep, Reached
  <2>2. ASSUME NEW copy \in BOOLEAN, NEW i \in Arrivable(acks), RecvAck(i, copy)
        PROVE  CleanState' /\ FifoStep
    <3>1. CleanState'
      BY Zenon, <1>0, <2>2, RecvAckClean
    <3>2. UNCHANGED <<accepted, delivered>>
      BY Zenon, <2>2 DEF RecvAck, apply_ack_frame, rx
    <3> QED BY Zenon, <3>1, <3>2 DEF FifoStep
  <2> QED BY Zenon, <1>5, <2>1, <2>2 DEF recv_main
<1> QED BY Zenon, <1>1, <1>2, <1>3, <1>4, <1>5 DEF ArqNext

LEMMA CleanNext == ArqInv /\ CleanInv /\ [ArqNext]_arqVars => CleanInv'
BY Zenon, CleanStep, CleanUnchanged, LinkFixed DEF CleanInv, CleanState

LEMMA FifoInit == ArqInit => Abstract!Init
BY Zenon DEF ArqInit, Abstract!Init, OnCleanLink

LEMMA FifoNext ==
  ArqInv /\ CleanInv /\ [ArqNext]_arqVars
    => [Abstract!Next]_<<OnCleanLink(accepted), OnCleanLink(delivered)>>
<1> SUFFICES ASSUME ArqInv, CleanInv, [ArqNext]_arqVars
             PROVE  [Abstract!Next]_<<OnCleanLink(accepted), OnCleanLink(delivered)>>
  BY Zenon
<1>1. Clean' = Clean
  BY Zenon, CleanUnchanged, LinkFixed
<1>2. CASE ~Clean
  BY Zenon, <1>1, <1>2 DEF OnCleanLink
<1>3. CASE Clean
  <2>1. /\ OnCleanLink(accepted) = accepted /\ OnCleanLink(accepted)' = accepted'
        /\ OnCleanLink(delivered) = delivered /\ OnCleanLink(delivered)' = delivered'
    BY Zenon, <1>1, <1>3 DEF OnCleanLink
  <2>2. FifoStep
    BY Zenon, <1>3, CleanStep DEF CleanInv, CleanState
  <2>3. \A p \in 1..MaxSends : p \in UNION {1..l.max_sends : l \in Links}
    BY Zenon DEF ArqInv, SenderInv, MaxSends
  <2> QED BY Zenon, <2>1, <2>2, <2>3 DEF FifoStep, Abstract!Next, Abstract!Accept, Abstract!Deliver
<1> QED BY Zenon, <1>2, <1>3

\* On a link that loses and reorders nothing, with one sending thread, ARQ
\* over UDP is a FIFO queue: recv_main makes available exactly the packets
\* that send() accepted, in order and once each, though frames are written
\* again by spurious timeouts and copied by the network.
THEOREM CleanLinkIsFifo == ArqSpec => ImplementsFifo
<1>1. ArqInit => ArqInv /\ CleanInv /\ Abstract!Init
  BY Zenon, ArqInitInv, CleanInit, FifoInit
<1>2. ArqInv /\ CleanInv /\ [ArqNext]_arqVars => ArqInv' /\ CleanInv'
  BY Zenon, ArqNextInv, CleanNext
<1>3. ArqInv /\ CleanInv /\ [ArqNext]_arqVars
        => [Abstract!Next]_<<OnCleanLink(accepted), OnCleanLink(delivered)>>
  BY Zenon, FifoNext
<1> QED BY <1>1, <1>2, <1>3, PTL DEF ArqSpec, ImplementsFifo, Abstract!Spec
=============================================================================
