---------------------------- MODULE Framing_proofs ----------------------------
(***************************************************************************)
(* The safety invariants of Framing, proved for payloads of every length   *)
(* whose frame fits an int, for any number of packets and frames, and for       *)
(* pieces cut at any of the offsets of Cuts, whether or not the socket     *)
(* takes all it is given.                                                  *)
(*                                                                         *)
(* Both streams are frames one behind the other, each with a header that   *)
(* says its own length.  A reader that stands where a frame begins reads   *)
(* that length, so it takes the whole frame and nothing of the next one,   *)
(* and stands where a frame begins again.                                  *)
(***************************************************************************)
EXTENDS Framing, OrderedMap_proofs, SequenceTheorems, TLAPS

-------------------------------------------------------------------------------
(***************************************************************************)
(* The inductive invariant.                                                *)
(***************************************************************************)
Octet == 0..255

FrameSet == [at : Nat, header : Seq(Octet), len : Nat, bytes : Nat]

\* Frames one behind the other, each with a header that says what it holds.
Frames(st, ops, masked) ==
    /\ st \in Seq(FrameSet)
    /\ \A i \in DOMAIN st :
          /\ \E op \in ops : st[i].header = Header(op, st[i].len, masked)
          /\ st[i].bytes <= Len(st[i].header) + st[i].len
          /\ st[i].len \in Lens \cup {0}
    /\ st # <<>> => st[1].at = 0
    /\ \A i \in DOMAIN st : i < Len(st) => st[i + 1].at = st[i].at + st[i].bytes
    /\ \A i, j \in DOMAIN st : i < j => st[i].at + st[i].bytes <= st[j].at

Whole(st) == \A i \in DOMAIN st : st[i].bytes = Len(st[i].header) + st[i].len

\* Where the i-th frame begins, or will begin.
Place(st, i) == IF i <= Len(st) THEN st[i].at ELSE Bytes(st)

\* A packet is in the queue, taken, or written.
Sent ==
    /\ queued \in Seq(Lens) /\ local \in Seq(Lens) /\ queue \in Seq(Lens)
    /\ Len(queued) = Len(up) + Len(local) + Len(queue)
    /\ \A i \in DOMAIN up : up[i].len = queued[i]
    /\ \A i \in DOMAIN local : local[i] = queued[Len(up) + i]
    /\ \A i \in DOMAIN queue : queue[i] = queued[Len(up) + Len(local) + i]

\* The server is at the beginning of a frame, and has read those before it.
InStep ==
    /\ Len(read) <= Len(up)
    /\ \A i \in DOMAIN read : read[i] = up[i].len
    /\ spos = Place(up, Len(read) + 1)

Upgrading ==
    /\ up = <<>> /\ down = <<>> /\ handled = <<>> /\ read = <<>>
    /\ got = pos /\ got < ResponseLen

\* So is the client, as long as it reads.
Handled ==
    /\ handled \in Seq(Nat)
    /\ Len(handled) <= Len(down)
    /\ \A i \in DOMAIN handled : IsText(down[i]) /\ handled[i] = down[i].len
    /\ \A i \in DOMAIN down : i < Len(down) => IsText(down[i])
    /\ phase = "open" => pos = ResponseLen + Place(down, Len(handled) + 1)

Counters ==
    /\ got \in Nat /\ pos \in Nat /\ spos \in Nat /\ read \in Seq(Nat)
    /\ pos <= got /\ got <= ResponseLen + Bytes(down)
    /\ spos <= Bytes(up)
    /\ cut \in BOOLEAN /\ phase \in {"upgrade", "open", "ended"}

FramingInv ==
    /\ Frames(up, {Text}, TRUE) /\ Frames(down, {Text, Close}, FALSE)
    /\ Whole(down)
    /\ Sent
    /\ ~cut => Whole(up) /\ InStep
    /\ phase = "upgrade" => Upgrading
    /\ Handled
    /\ Counters
-------------------------------------------------------------------------------
(***************************************************************************)
(* What the header says is what the length is.                             *)
(***************************************************************************)

\* A number is its last byte and those before it.
LEMMA LastByte ==
    ASSUME NEW n \in Nat
    PROVE  n \div 256 \in Nat /\ n % 256 \in Octet /\ n = (n \div 256) * 256 + (n % 256)
BY SMT DEF Octet

\* Two bytes less, and three.
LEMMA MoreBytes ==
    ASSUME NEW n \in Nat
    PROVE  /\ n \div 65536 = (n \div 256) \div 256
           /\ n \div 16777216 = (n \div 65536) \div 256
BY SMTT(30)

\* The bytes of a number of 16 bits.
LEMMA TwoBytes ==
    ASSUME NEW len \in Nat, len <= 65535
    PROVE  /\ len \div 256 \in Octet /\ len % 256 \in Octet
           /\ (len \div 256) * 256 + (len % 256) = len
<1> DEFINE q == len \div 256
           r == len % 256
<1>1. q \in Nat /\ r \in Octet /\ len = q * 256 + r
  BY LastByte
<1> HIDE DEF q, r
<1>2. q \in Octet
  BY <1>1, SMT DEF Octet
<1> QED BY <1>1, <1>2 DEF q, r

\* The bytes of a number of 31 bits.
LEMMA FourBytes ==
    ASSUME NEW len \in Nat, len <= MaxLen
    PROVE  LET b3 == len \div 16777216
               b2 == (len \div 65536) % 256
               b1 == (len \div 256) % 256
               b0 == len % 256
           IN  /\ b3 \in 0..127 /\ b2 \in Octet /\ b1 \in Octet /\ b0 \in Octet
               /\ ((b3 * 256 + b2) * 256 + b1) * 256 + b0 = len
<1> DEFINE q1 == len \div 256
           q2 == len \div 65536
           q3 == len \div 16777216
<1>2. q1 \in Nat /\ len % 256 \in Octet /\ len = q1 * 256 + (len % 256)
  BY LastByte
<1>3. q2 \in Nat /\ q1 % 256 \in Octet /\ q1 = q2 * 256 + (q1 % 256)
  BY <1>2, LastByte, MoreBytes
<1>4. q3 \in Nat /\ q2 % 256 \in Octet /\ q2 = q3 * 256 + (q2 % 256)
  BY <1>3, LastByte, MoreBytes
<1> HIDE DEF q1, q2, q3
<1>5. q3 <= 127
  BY <1>2, <1>3, <1>4, SMT DEF Octet, MaxLen
<1>6. q3 \in 0..127
  BY <1>4, <1>5
<1> QED BY <1>2, <1>3, <1>4, <1>6 DEF q1, q2, q3

\* The 7 bits of the length.
Seven(len) == IF len < 126 THEN len ELSE IF len <= 65535 THEN 126 ELSE 127

\* h says that len bytes follow it.
Says(h, op, len, masked) ==
    /\ h \in Seq(Octet)
    /\ Len(h) = HeaderLen(Seven(len)) + (IF masked THEN 4 ELSE 0)
    /\ h[1] = 128 + op
    /\ h[2] = (IF masked THEN 128 ELSE 0) + Seven(len)
    /\ 126 <= len /\ len <= 65535 => h[3] * 256 + h[4] = len
    /\ 65535 < len =>
          /\ h[3] = 0 /\ h[4] = 0 /\ h[5] = 0 /\ h[6] = 0
          /\ h[7] \in 0..127
          /\ ((h[7] * 256 + h[8]) * 256 + h[9]) * 256 + h[10] = len

\* So do the bytes b behind the first one.
SaysLength(b, len, mask) ==
    /\ b \in Seq(Octet)
    /\ Len(b) = HeaderLen(Seven(len)) - 1
    /\ b[1] = mask + Seven(len)
    /\ 126 <= len /\ len <= 65535 => b[2] * 256 + b[3] = len
    /\ 65535 < len =>
          /\ b[2] = 0 /\ b[3] = 0 /\ b[4] = 0 /\ b[5] = 0
          /\ b[6] \in 0..127
          /\ ((b[6] * 256 + b[7]) * 256 + b[8]) * 256 + b[9] = len

\* What LengthBytes writes says the length, in each of the three forms.
LEMMA LengthSays ==
    ASSUME NEW len \in Nat, len <= MaxLen, NEW mask \in {0, 128}
    PROVE  SaysLength(LengthBytes(len, mask), len, mask)
<1> USE DEF SaysLength
<1>1. CASE len < 126
  <2>1. LengthBytes(len, mask) = <<mask + len>> /\ Seven(len) = len
    BY <1>1, SMT DEF LengthBytes, Seven
  <2>2. HeaderLen(len) = 2
    BY <1>1 DEF HeaderLen
  <2> QED BY <1>1, <2>1, <2>2 DEF Octet
<1>2. CASE 126 <= len /\ len <= 65535
  <2>1. LengthBytes(len, mask) = <<mask + 126, len \div 256, len % 256>> /\ Seven(len) = 126
    BY <1>2, SMT DEF LengthBytes, Seven
  <2>2. HeaderLen(126) = 4
    BY DEF HeaderLen
  <2>3. /\ len \div 256 \in Octet /\ len % 256 \in Octet
        /\ (len \div 256) * 256 + (len % 256) = len
    BY <1>2, TwoBytes
  <2> DEFINE x == len \div 256
             y == len % 256
  <2> HIDE DEF x, y
  <2>4. <<mask + 126, x, y>> \in Seq(Octet)
    BY <2>3 DEF Octet, x, y
  <2> QED BY <1>2, <2>1, <2>2, <2>3, <2>4 DEF x, y
<1>3. CASE 65535 < len
  <2> DEFINE b3 == len \div 16777216
             b2 == (len \div 65536) % 256
             b1 == (len \div 256) % 256
             b0 == len % 256
  <2>1. /\ LengthBytes(len, mask) = <<mask + 127, 0, 0, 0, 0, b3, b2, b1, b0>>
        /\ Seven(len) = 127
    BY <1>3, SMT DEF LengthBytes, Seven
  <2>2. HeaderLen(127) = 10
    BY DEF HeaderLen
  <2>3. /\ b3 \in 0..127 /\ b2 \in Octet /\ b1 \in Octet /\ b0 \in Octet
        /\ ((b3 * 256 + b2) * 256 + b1) * 256 + b0 = len
    BY FourBytes
  <2> HIDE DEF b3, b2, b1, b0
  <2>4. <<mask + 127, 0, 0, 0, 0, b3, b2, b1, b0>> \in Seq(Octet)
    BY <2>3 DEF Octet
  <2> QED BY <1>3, <2>1, <2>2, <2>3, <2>4
<1> QED BY <1>1, <1>2, <1>3

\* A byte, a line of bytes behind it, and another behind that.
LEMMA Behind ==
    ASSUME NEW x \in Octet, NEW s \in Seq(Octet), NEW t \in Seq(Octet)
    PROVE  LET h == <<x>> \o s
           IN  /\ h \in Seq(Octet) /\ h \o t \in Seq(Octet)
               /\ Len(h) = Len(s) + 1 /\ Len(h \o t) = Len(s) + 1 + Len(t)
               /\ h[1] = x /\ (h \o t)[1] = x
               /\ \A i \in 1..Len(s) : h[i + 1] = s[i] /\ (h \o t)[i + 1] = s[i]
<1> DEFINE h == <<x>> \o s
<1>1. <<x>> \in Seq(Octet) /\ Len(<<x>>) = 1 /\ <<x>>[1] = x
  OBVIOUS
<1>2. Len(s) \in Nat /\ Len(t) \in Nat
  BY LenProperties
<1>3. /\ h \in Seq(Octet) /\ Len(h) = Len(s) + 1
      /\ \A i \in 1..Len(s) + 1 : h[i] = IF i <= 1 THEN <<x>>[i] ELSE s[i - 1]
  BY <1>1, <1>2, ConcatProperties
<1>4. h[1] = x /\ \A i \in 1..Len(s) : h[i + 1] = s[i]
  BY <1>1, <1>2, <1>3
<1> HIDE DEF h
<1>5. /\ h \o t \in Seq(Octet) /\ Len(h \o t) = Len(s) + 1 + Len(t)
      /\ \A i \in 1..Len(h) + Len(t) : (h \o t)[i] = IF i <= Len(h) THEN h[i] ELSE t[i - Len(h)]
  <2>1. h \in Seq(Octet) /\ Len(h) = Len(s) + 1
    BY <1>3
  <2> QED BY <2>1, ConcatProperties, ZenonT(40)
<1>6. \A i \in 1..Len(h) : (h \o t)[i] = h[i]
  BY <1>2, <1>3, <1>5
<1> QED BY <1>2, <1>3, <1>4, <1>5, <1>6 DEF h

\* A header is what SendFrame, or the server, makes of opcode and length.
LEMMA HeaderSays ==
    ASSUME NEW op \in {Text, Close}, NEW len \in Nat, len <= MaxLen, NEW masked \in BOOLEAN
    PROVE  Says(Header(op, len, masked), op, len, masked)
<1> DEFINE mask == IF masked THEN 128 ELSE 0
           b    == LengthBytes(len, mask)
           h    == Header(op, len, masked)
           n    == HeaderLen(Seven(len)) - 1
<1>1. 128 + op \in Octet
  BY DEF Text, Close, Octet
<1>2. MaskBytes \in Seq(Octet) /\ Len(MaskBytes) = 4
  BY DEF MaskBytes, Octet
<1>3. mask \in {0, 128}
  OBVIOUS
<1>4. SaysLength(b, len, mask)
  <2> HIDE DEF mask
  <2> QED BY <1>3, LengthSays
<1>4a. b \in Seq(Octet) /\ Len(b) = n
  BY <1>4 DEF SaysLength
<1>5. n \in Nat /\ n >= 1 /\ (126 <= len /\ len <= 65535 => n = 3) /\ (65535 < len => n = 9)
  BY DEF HeaderLen, Seven
<1>6. h = IF masked THEN <<128 + op>> \o b \o MaskBytes ELSE <<128 + op>> \o b
  <2>1. h = IF masked THEN <<128 + op>> \o LengthBytes(len, 128) \o MaskBytes
            ELSE <<128 + op>> \o LengthBytes(len, 0)
    BY DEF Header
  <2> QED BY <2>1
<1> HIDE DEF b, h, n
<1>7. /\ h \in Seq(Octet) /\ Len(h) = n + 1 + (IF masked THEN 4 ELSE 0)
      /\ h[1] = 128 + op
      /\ \A i \in 1..n : h[i + 1] = b[i]
  <2> HIDE DEF mask
  <2>1. CASE masked
    <3> DEFINE g == <<128 + op>> \o b
    <3>1. h = g \o MaskBytes
      BY <2>1, <1>6
    <3>2. \A x \in Octet : \A s, t \in Seq(Octet) :
             LET u == <<x>> \o s
             IN  /\ u \o t \in Seq(Octet) /\ Len(u \o t) = Len(s) + 1 + Len(t)
                 /\ (u \o t)[1] = x
                 /\ \A i \in 1..Len(s) : (u \o t)[i + 1] = s[i]
      <4> HIDE DEF g, b, h, n, mask
      <4> QED BY Behind
    <3>3. /\ g \o MaskBytes \in Seq(Octet) /\ Len(g \o MaskBytes) = Len(b) + 1 + Len(MaskBytes)
          /\ (g \o MaskBytes)[1] = 128 + op
          /\ \A i \in 1..Len(b) : (g \o MaskBytes)[i + 1] = b[i]
      BY <3>2, <1>4a, <1>1, <1>2, ZenonT(40)
    <3> HIDE DEF g
    <3> QED BY <3>1, <3>3, <2>1, <1>2, <1>4a, <1>5
  <2>2. CASE ~masked
    BY <2>2, <1>1, <1>2, <1>4a, <1>5, <1>6, Behind
  <2> QED BY <2>1, <2>2
<1>8. h[2] = mask + Seven(len)
  <2>1. h[1 + 1] = b[1]
    BY <1>5, <1>7
  <2> QED BY <2>1, <1>4 DEF SaysLength
<1>9. Len(h) = HeaderLen(Seven(len)) + (IF masked THEN 4 ELSE 0)
  BY <1>5, <1>7 DEF n, HeaderLen, Seven
<1>10. 126 <= len /\ len <= 65535 => h[3] * 256 + h[4] = len
  <2> SUFFICES ASSUME 126 <= len /\ len <= 65535 PROVE h[3] * 256 + h[4] = len
    OBVIOUS
  <2>1. h[2 + 1] = b[2] /\ h[3 + 1] = b[3]
    BY <1>5, <1>7
  <2> QED BY <2>1, <1>4 DEF SaysLength
<1>11. 65535 < len =>
          /\ h[3] = 0 /\ h[4] = 0 /\ h[5] = 0 /\ h[6] = 0
          /\ h[7] \in 0..127
          /\ ((h[7] * 256 + h[8]) * 256 + h[9]) * 256 + h[10] = len
  <2> SUFFICES ASSUME 65535 < len
               PROVE  /\ h[3] = 0 /\ h[4] = 0 /\ h[5] = 0 /\ h[6] = 0
                      /\ h[7] \in 0..127
                      /\ ((h[7] * 256 + h[8]) * 256 + h[9]) * 256 + h[10] = len
    OBVIOUS
  <2>1. /\ h[2 + 1] = b[2] /\ h[3 + 1] = b[3] /\ h[4 + 1] = b[4] /\ h[5 + 1] = b[5]
        /\ h[6 + 1] = b[6] /\ h[7 + 1] = b[7] /\ h[8 + 1] = b[8] /\ h[9 + 1] = b[9]
    BY <1>5, <1>7
  <2>2. /\ b[2] = 0 /\ b[3] = 0 /\ b[4] = 0 /\ b[5] = 0
        /\ b[6] \in 0..127
        /\ ((b[6] * 256 + b[7]) * 256 + b[8]) * 256 + b[9] = len
    BY <1>4 DEF SaysLength
  <2> QED BY <2>1, <2>2
<1> QED BY <1>7, <1>8, <1>9, <1>10, <1>11 DEF Says, h

\* A header is made of bytes.
LEMMA HeaderBytes ==
    ASSUME NEW op \in {Text, Close}, NEW len \in Nat, len <= MaxLen, NEW masked \in BOOLEAN
    PROVE  Header(op, len, masked) \in Seq(Octet) /\ Len(Header(op, len, masked)) \in Nat
<1>1. Header(op, len, masked) \in Seq(Octet)
  BY HeaderSays DEF Says
<1> QED BY <1>1, LenProperties

-------------------------------------------------------------------------------
(***************************************************************************)
(* Reading: where a frame begins, its header is read as it was written.    *)
(***************************************************************************)

\* No byte is in two frames.
LEMMA OneFrame ==
    ASSUME NEW st, NEW ops, NEW masked, Frames(st, ops, masked),
           NEW f \in ToSet(st), NEW g \in ToSet(st), NEW p \in Nat,
           f.at <= p, p < f.at + f.bytes, g.at <= p, p < g.at + g.bytes
    PROVE  f = g
<1>1. PICK i \in DOMAIN st : f = st[i]
  BY DEF ToSet
<1>2. PICK j \in DOMAIN st : g = st[j]
  BY DEF ToSet
<1>3. f \in FrameSet /\ g \in FrameSet /\ i \in Nat /\ j \in Nat
  BY <1>1, <1>2, ElementOfSeq, LenProperties DEF Frames
<1>4. /\ i < j => f.at + f.bytes <= g.at
      /\ j < i => g.at + g.bytes <= f.at
  BY <1>1, <1>2 DEF Frames
<1>5. f.at \in Nat /\ f.bytes \in Nat /\ g.at \in Nat /\ g.bytes \in Nat
  BY <1>3 DEF FrameSet
<1>6. ~(i < j) /\ ~(j < i)
  BY <1>4, <1>5
<1> QED BY <1>1, <1>2, <1>3, <1>6

\* The bytes of a frame are those of its header and of its payload.
LEMMA ByteOf ==
    ASSUME NEW st, NEW ops, NEW masked, Frames(st, ops, masked),
           NEW i \in DOMAIN st, NEW k \in Nat, k < st[i].bytes
    PROVE  ByteAt(st, st[i].at + k) =
               IF k < Len(st[i].header) THEN st[i].header[k + 1] ELSE 123
<1> DEFINE p == st[i].at + k
           g == CHOOSE f \in ToSet(st) : f.at <= p /\ p < f.at + f.bytes
<1>1. st[i] \in ToSet(st)
  BY DEF ToSet
<1>2. st[i] \in FrameSet
  BY ElementOfSeq, LenProperties DEF Frames
<1>3. st[i].at \in Nat /\ st[i].bytes \in Nat
  BY <1>2 DEF FrameSet
<1>4. p \in Nat /\ st[i].at <= p /\ p < st[i].at + st[i].bytes
  BY <1>3
<1>5. g \in ToSet(st) /\ g.at <= p /\ p < g.at + g.bytes
  <2> HIDE DEF p
  <2> QED BY <1>1, <1>4
<1>6. g = st[i]
  <2> HIDE DEF g, p
  <2> QED BY <1>1, <1>4, <1>5, OneFrame
<1>7. ByteAt(st, p) = IF p - g.at < Len(g.header) THEN g.header[p - g.at + 1] ELSE 123
  BY DEF ByteAt
<1>8. p - st[i].at = k
  BY <1>3
<1> HIDE DEF p, g
<1>9. ByteAt(st, p) = IF k < Len(st[i].header) THEN st[i].header[k + 1] ELSE 123
  BY <1>6, <1>7, <1>8
<1> QED BY <1>9 DEF p

\* The length fits in the 7 bits as it is or names the longer form.
LEMMA SevenBits ==
    ASSUME NEW len \in Nat, NEW masked \in BOOLEAN, NEW b,
           b = (IF masked THEN 128 ELSE 0) + Seven(len)
    PROVE  /\ Seven(len) \in 0..127 /\ b \in Octet
           /\ b % 128 = Seven(len)
           /\ b >= 128 <=> masked
<1>1. Seven(len) \in 0..127
  BY DEF Seven
<1> DEFINE s == Seven(len)
<1> HIDE DEF s
<1>2. CASE masked
  <2>1. b = 128 + s /\ s \in 0..127
    BY <1>1, <1>2 DEF s
  <2>2. b % 128 = s
    BY <2>1, SMT
  <2> QED BY <2>1, <2>2, <1>2 DEF Octet, s
<1>3. CASE ~masked
  <2>1. b = s /\ s \in 0..127
    BY <1>1, <1>3 DEF s
  <2>2. b % 128 = s
    BY <2>1, SMT
  <2> QED BY <2>1, <2>2, <1>3 DEF Octet, s
<1> QED BY <1>2, <1>3

\* Of a frame that is there to its last byte, ReceiveLoop on avail bytes from
\* its first one finds the end exactly if they hold it.
LEMMA ParseFrame ==
    ASSUME NEW st, NEW ops, NEW masked \in BOOLEAN, Frames(st, ops, masked),
           ops \subseteq {Text, Close},
           NEW i \in DOMAIN st, st[i].bytes = Len(st[i].header) + st[i].len,
           NEW avail \in Nat
    PROVE  /\ st[i].bytes \in Nat /\ st[i].bytes >= 2
           /\ Parse(st, st[i].at, avail) =
                  IF avail < st[i].bytes THEN Incomplete
                  ELSE [op |-> IF IsText(st[i]) THEN Text ELSE Close,
                        len |-> st[i].len, size |-> st[i].bytes]
<1> DEFINE f == st[i]
           h == f.header
           l == f.len
           p == f.at
           B(k) == ByteAt(st, p + k)
           l7   == B(1) % 128
           ext  == HeaderLen(l7)
           len  == CASE l7 < 126 -> l7
                     [] l7 = 126 -> B(2) * 256 + B(3)
                     [] OTHER    -> IF (\E k \in 2..5 : B(k) # 0) \/ B(6) >= 128 THEN MaxLen
                                    ELSE ((B(6) * 256 + B(7)) * 256 + B(8)) * 256 + B(9)
           size == ext + (IF B(1) >= 128 THEN 4 ELSE 0)
<1>1. f \in FrameSet
  BY ElementOfSeq, LenProperties DEF Frames
<1>2. p \in Nat /\ f.bytes \in Nat /\ l \in Nat /\ h \in Seq(Octet) /\ Len(h) \in Nat
  BY <1>1, LenProperties DEF FrameSet
<1>3. l <= MaxLen
  <2>1. l \in Lens \cup {0}
    BY DEF Frames
  <2> QED BY <2>1, FramingAssumption, SMT DEF MaxLen
<1>4. PICK op \in {Text, Close} : h = Header(op, l, masked)
  BY DEF Frames
<1>5. Says(h, op, l, masked)
  BY <1>2, <1>3, <1>4, HeaderSays
<1>6. Parse(st, p, avail) =
          IF avail < 2 \/ avail < HeaderLen(l7) \/ avail < size THEN Incomplete
          ELSE IF ~Arrived(len, avail - size) THEN Incomplete
          ELSE [op |-> B(0) % 16, len |-> len, size |-> size + len]
  BY DEF Parse
<1>7. /\ HeaderLen(Seven(l)) \in {2, 4, 10}
      /\ 126 <= l /\ l <= 65535 => HeaderLen(Seven(l)) = 4
      /\ 65535 < l => HeaderLen(Seven(l)) = 10
  BY <1>2 DEF HeaderLen, Seven
<1>8. Len(h) = HeaderLen(Seven(l)) + (IF masked THEN 4 ELSE 0)
  BY <1>5 DEF Says
<1>9. \A k \in Nat : k < Len(h) => B(k) = h[k + 1]
  <2> SUFFICES ASSUME NEW k \in Nat, k < Len(h) PROVE B(k) = h[k + 1]
    OBVIOUS
  <2>1. k < st[i].bytes
    BY <1>2
  <2>2. ByteAt(st, st[i].at + k) = IF k < Len(st[i].header) THEN st[i].header[k + 1] ELSE 123
    BY <2>1, ByteOf
  <2> QED BY <2>2
<1> HIDE DEF B, f
<1>10. B(0) = 128 + op /\ B(1) = (IF masked THEN 128 ELSE 0) + Seven(l)
  <2>1. B(0) = h[0 + 1] /\ B(1) = h[1 + 1]
    BY <1>2, <1>7, <1>8, <1>9
  <2> QED BY <2>1, <1>5 DEF Says
<1>11. l7 = Seven(l) /\ (B(1) >= 128 <=> masked)
  BY <1>2, <1>10, SevenBits
<1>12. B(0) % 16 = op
  BY <1>10, SMT DEF Text, Close
<1>13. size = Len(h) /\ ext = HeaderLen(Seven(l))
  BY <1>8, <1>11
<1>14. len = l
  <2>1. CASE l < 126
    BY <2>1, <1>11 DEF Seven
  <2>2. CASE 126 <= l /\ l <= 65535
    <3>1. l7 = 126
      BY <2>2, <1>2, <1>11 DEF Seven
    <3>2. B(2) = h[2 + 1] /\ B(3) = h[3 + 1]
      BY <2>2, <1>7, <1>8, <1>9
    <3>3. h[3] * 256 + h[4] = l
      BY <2>2, <1>5 DEF Says
    <3> QED BY <3>1, <3>2, <3>3
  <2>3. CASE 65535 < l
    <3>1. l7 = 127
      BY <2>3, <1>2, <1>11 DEF Seven
    <3>2. /\ B(2) = h[2 + 1] /\ B(3) = h[3 + 1] /\ B(4) = h[4 + 1] /\ B(5) = h[5 + 1]
          /\ B(6) = h[6 + 1] /\ B(7) = h[7 + 1] /\ B(8) = h[8 + 1] /\ B(9) = h[9 + 1]
      BY <2>3, <1>7, <1>8, <1>9, SMTT(30)
    <3>3. /\ h[3] = 0 /\ h[4] = 0 /\ h[5] = 0 /\ h[6] = 0
          /\ h[7] \in 0..127
          /\ ((h[7] * 256 + h[8]) * 256 + h[9]) * 256 + h[10] = l
      BY <2>3, <1>5 DEF Says
    <3>4. ~((\E k \in 2..5 : B(k) # 0) \/ B(6) >= 128)
      <4>1. \A k \in 2..5 : B(k) = 0
        BY <3>2, <3>3
      <4>2. h[7] \in 0..127 /\ B(6) = h[7]
        BY <3>2, <3>3
      <4>2a. \A n \in 0..127 : ~(n >= 128)
        BY SMT
      <4>3. ~(B(6) >= 128)
        BY <4>2, <4>2a
      <4> HIDE DEF h
      <4> QED BY <4>1, <4>3
    <3>5. len = ((B(6) * 256 + B(7)) * 256 + B(8)) * 256 + B(9)
      BY <3>1, <3>4
    <3> QED BY <3>2, <3>3, <3>5
  <2> QED BY <2>1, <2>2, <2>3, <1>2
<1>15. op = IF IsText(f) THEN Text ELSE Close
  BY <1>5 DEF Says, IsText, Text, Close
<1>16. st[i].bytes = Len(h) + l
  BY DEF f
<1> HIDE DEF l7, ext, len, size, h, l, p
<1>17. Parse(st, p, avail) = IF avail < Len(h) + l THEN Incomplete
                             ELSE [op |-> op, len |-> l, size |-> Len(h) + l]
  BY <1>2, <1>6, <1>7, <1>8, <1>11, <1>12, <1>13, <1>14, SMTT(30) DEF Arrived
<1>18. st[i].bytes \in Nat /\ st[i].bytes >= 2
  BY <1>2, <1>7, <1>8, <1>16
<1> QED BY <1>15, <1>16, <1>17, <1>18 DEF p, l, f

-------------------------------------------------------------------------------
(***************************************************************************)
(* Streams that grow.                                                      *)
(***************************************************************************)

\* Where a stream ends, and what is before that.
LEMMA BytesFacts ==
    ASSUME NEW st, NEW ops, NEW masked, Frames(st, ops, masked)
    PROVE  /\ Bytes(st) \in Nat /\ Len(st) \in Nat /\ DOMAIN st = 1..Len(st)
           /\ \A i \in DOMAIN st :
                 /\ st[i] \in FrameSet /\ st[i].at \in Nat /\ st[i].bytes \in Nat
                 /\ st[i].at + st[i].bytes <= Bytes(st)
           /\ Place(st, 1) = 0
           /\ \A i \in DOMAIN st : /\ Place(st, i) = st[i].at
                                   /\ Place(st, i + 1) = st[i].at + st[i].bytes
           /\ Place(st, Len(st) + 1) = Bytes(st)
<1>1. Len(st) \in Nat /\ DOMAIN st = 1..Len(st)
  BY LenProperties DEF Frames
<1>2. \A i \in DOMAIN st : st[i] \in FrameSet /\ st[i].at \in Nat /\ st[i].bytes \in Nat
  <2>1. st \in Seq(FrameSet)
    BY DEF Frames
  <2>2. \A i \in DOMAIN st : st[i] \in FrameSet
    BY <2>1
  <2> QED BY <2>2 DEF FrameSet
<1>3. CASE st = <<>>
  <2>1. Len(st) = 0 /\ DOMAIN st = {}
    BY <1>3, EmptyDomain
  <2> QED BY <2>1, <1>1, <1>3 DEF Bytes, Place
<1>4. CASE st # <<>>
  <2>1. Len(st) \in DOMAIN st /\ 1 \in DOMAIN st
    BY <1>1, <1>4, EmptySeq DEF Frames
  <2>2. Bytes(st) = st[Len(st)].at + st[Len(st)].bytes
    BY <1>4 DEF Bytes, Last
  <2>3. \A i \in DOMAIN st : st[i].at + st[i].bytes <= Bytes(st)
    <3> SUFFICES ASSUME NEW i \in DOMAIN st, i # Len(st)
                 PROVE  st[i].at + st[i].bytes <= Bytes(st)
      BY <2>1, <2>2, <1>2
    <3>1. i < Len(st)
      BY <1>1
    <3>2. st[i].at + st[i].bytes <= st[Len(st)].at
      BY <2>1, <3>1 DEF Frames
    <3> QED BY <2>1, <2>2, <3>2, <1>2
  <2>4. st[1].at = 0 /\ Place(st, 1) = 0
    BY <1>1, <1>4, <2>1 DEF Frames, Place
  <2>5. \A i \in DOMAIN st : Place(st, i) = st[i].at
    BY <1>1 DEF Place
  <2>6. \A i \in DOMAIN st : Place(st, i + 1) = st[i].at + st[i].bytes
    <3> SUFFICES ASSUME NEW i \in DOMAIN st PROVE Place(st, i + 1) = st[i].at + st[i].bytes
      OBVIOUS
    <3>1. CASE i < Len(st)
      BY <3>1, <1>1 DEF Frames, Place
    <3>2. CASE i = Len(st)
      BY <3>2, <1>1, <2>2 DEF Place
    <3> QED BY <3>1, <3>2, <1>1
  <2>7. Place(st, Len(st) + 1) = Bytes(st)
    BY <1>1 DEF Place
  <2> QED BY <1>1, <1>2, <2>1, <2>2, <2>3, <2>4, <2>5, <2>6, <2>7
<1> QED BY <1>3, <1>4

\* A frame is written behind the others.
LEMMA AppendFrame ==
    ASSUME NEW st, NEW ops, NEW masked \in BOOLEAN, Frames(st, ops, masked),
           ops \subseteq {Text, Close}, NEW op \in ops,
           NEW len \in Lens \cup {0}, NEW n \in Nat, n <= Len(Header(op, len, masked)) + len,
           NEW f, f = [at |-> Bytes(st), header |-> Header(op, len, masked),
                       len |-> len, bytes |-> n]
    PROVE  /\ Frames(Append(st, f), ops, masked)
           /\ Bytes(Append(st, f)) = Bytes(st) + n
           /\ \A i \in 1..Len(st) + 1 : Place(Append(st, f), i) = Place(st, i)
<1> DEFINE e == Append(st, f)
           m == Len(st) + 1
<1>1. len \in Nat /\ len <= MaxLen
  BY FramingAssumption, SMT DEF MaxLen
<1>2. Header(op, len, masked) \in Seq(Octet)
  BY <1>1, HeaderSays DEF Says
<1>3. /\ Bytes(st) \in Nat /\ Len(st) \in Nat /\ DOMAIN st = 1..Len(st)
      /\ \A i \in DOMAIN st :
            /\ st[i].at \in Nat /\ st[i].bytes \in Nat
            /\ st[i].at + st[i].bytes <= Bytes(st)
      /\ Place(st, 1) = 0
      /\ \A i \in DOMAIN st : Place(st, i) = st[i].at
      /\ Place(st, m) = Bytes(st)
  BY BytesFacts
<1>4. f \in FrameSet
  BY <1>1, <1>2, <1>3 DEF FrameSet
<1>5. st \in Seq(FrameSet)
  BY DEF Frames
<1>6. /\ e \in Seq(FrameSet) /\ e # <<>> /\ Len(e) = m
      /\ DOMAIN e = DOMAIN st \cup {m} /\ m \notin DOMAIN st
      /\ \A i \in DOMAIN st : e[i] = st[i] /\ i < m
      /\ e[m] = f
  <2> HIDE DEF e
  <2> QED BY <1>4, <1>5, AppendFacts DEF e
<1> HIDE DEF e
<1>7. \A i \in DOMAIN e :
         /\ \E o \in ops : e[i].header = Header(o, e[i].len, masked)
         /\ e[i].bytes <= Len(e[i].header) + e[i].len
         /\ e[i].len \in Lens \cup {0}
  BY <1>6 DEF Frames
<1>8. e[1].at = 0
  <2>1. CASE st = <<>>
    BY <2>1, <1>6, EmptyDomain DEF Bytes
  <2>2. CASE st # <<>>
    <3>1. 1 \in DOMAIN st
      BY <2>2, <1>3, <1>5, EmptySeq
    <3> QED BY <2>2, <3>1, <1>6 DEF Frames
  <2> QED BY <2>1, <2>2
<1>9. \A i \in DOMAIN e : i < Len(e) => e[i + 1].at = e[i].at + e[i].bytes
  <2> SUFFICES ASSUME NEW i \in DOMAIN e, i < m PROVE e[i + 1].at = e[i].at + e[i].bytes
    BY <1>6
  <2>1. i \in DOMAIN st
    BY <1>6
  <2>2. CASE i < Len(st)
    <3>1. i + 1 \in DOMAIN st /\ st[i + 1].at = st[i].at + st[i].bytes
      BY <2>1, <2>2, <1>3 DEF Frames
    <3> QED BY <2>1, <3>1, <1>6
  <2>3. CASE i = Len(st)
    <3>1. Bytes(st) = st[i].at + st[i].bytes
      BY <2>1, <2>3, EmptyDomain DEF Bytes, Last
    <3> QED BY <2>1, <2>3, <3>1, <1>6
  <2> QED BY <2>1, <2>2, <2>3, <1>3
<1>10. \A i, j \in DOMAIN e : i < j => e[i].at + e[i].bytes <= e[j].at
  <2> SUFFICES ASSUME NEW i \in DOMAIN e, NEW j \in DOMAIN e, i < j
               PROVE  e[i].at + e[i].bytes <= e[j].at
    OBVIOUS
  <2>1. i \in DOMAIN st
    BY <1>3, <1>6
  <2>2. CASE j \in DOMAIN st
    BY <2>1, <2>2, <1>6 DEF Frames
  <2>3. CASE j = m
    BY <2>1, <2>3, <1>3, <1>6
  <2> QED BY <2>2, <2>3, <1>6
<1>11. Frames(e, ops, masked)
  BY <1>6, <1>7, <1>8, <1>9, <1>10 DEF Frames
<1>12. Bytes(e) = Bytes(st) + n
  BY <1>6 DEF Bytes, Last
<1>13. \A i \in 1..m : Place(e, i) = Place(st, i)
  <2> SUFFICES ASSUME NEW i \in 1..m PROVE Place(e, i) = Place(st, i)
    OBVIOUS
  <2>1. CASE i = m
    BY <2>1, <1>3, <1>6 DEF Place
  <2>2. CASE i # m
    <3>1. Len(st) \in Nat /\ DOMAIN st = 1..Len(st)
      BY <1>3
    <3>2. i \in DOMAIN st
      BY <2>2, <3>1
    <3> QED BY <3>2, <1>3, <1>6 DEF Place
  <2> QED BY <2>1, <2>2
<1> QED BY <1>11, <1>12, <1>13 DEF e

\* Every byte of a stream is in one of its frames, whole or cut short.
LEMMA Covered ==
    ASSUME NEW st, NEW ops, NEW masked, Frames(st, ops, masked),
           NEW p \in Nat, p < Bytes(st)
    PROVE  \E i \in DOMAIN st : st[i].at <= p /\ p < st[i].at + st[i].bytes
<1> DEFINE S == {i \in DOMAIN st : st[i].at <= p}
<1>1. /\ Bytes(st) \in Nat /\ Len(st) \in Nat /\ DOMAIN st = 1..Len(st)
      /\ \A i \in DOMAIN st : /\ st[i].at \in Nat /\ st[i].bytes \in Nat
                              /\ Place(st, i + 1) = st[i].at + st[i].bytes
      /\ Place(st, Len(st) + 1) = Bytes(st)
  BY BytesFacts
<1>2. st # <<>>
  BY DEF Bytes
<1>3. 1 \in S
  <2>1. 1 \in DOMAIN st
    BY <1>1, <1>2, EmptySeq DEF Frames
  <2> QED BY <2>1, <1>2 DEF Frames
<1>4. S \subseteq 1..Len(st)
  BY <1>1
<1>5. PICK k \in S : \A i \in S : i <= k
  <2> HIDE DEF S
  <2> QED BY <1>1, <1>3, <1>4, Highest
<1>6. p < st[k].at + st[k].bytes
  <2>1. CASE k = Len(st)
    BY <2>1, <1>1
  <2>2. CASE k < Len(st)
    <3>1. k + 1 \in DOMAIN st
      BY <2>2, <1>1
    <3>2. k + 1 \notin S
      BY <1>1, <1>5
    <3>3. st[k + 1].at = st[k].at + st[k].bytes
      BY <2>2 DEF Frames
    <3> QED BY <3>1, <3>2, <3>3, <1>1
  <2> QED BY <2>1, <2>2, <1>1
<1> QED BY <1>5, <1>6

\* What is read anywhere in a stream is a byte.
LEMMA BytesAreOctets ==
    ASSUME NEW st, NEW ops, NEW masked, Frames(st, ops, masked),
           NEW p \in Nat, p < Bytes(st)
    PROVE  ByteAt(st, p) \in Octet
<1>1. PICK i \in DOMAIN st : st[i].at <= p /\ p < st[i].at + st[i].bytes
  BY Covered
<1>2. st[i].at \in Nat /\ st[i].bytes \in Nat /\ st[i].header \in Seq(Octet)
  BY BytesFacts DEF FrameSet
<1> DEFINE k == p - st[i].at
           h == st[i].header
<1>3. k \in Nat /\ k < st[i].bytes /\ p = st[i].at + k
  BY <1>1, <1>2
<1>4. ByteAt(st, st[i].at + k) = IF k < Len(h) THEN h[k + 1] ELSE 123
  <2> HIDE DEF k
  <2> QED BY <1>3, ByteOf
<1>5. k < Len(h) => h[k + 1] \in Octet
  <2> HIDE DEF k, h
  <2> SUFFICES ASSUME k < Len(h) PROVE h[k + 1] \in Octet
    OBVIOUS
  <2>1. h \in Seq(Octet)
    BY <1>2 DEF h
  <2>2. k + 1 \in 1..Len(h)
    BY <2>1, <1>3, LenProperties
  <2> QED BY <2>1, <2>2, ElementOfSeq
<1> HIDE DEF k, h
<1>6. ByteAt(st, p) = IF k < Len(h) THEN h[k + 1] ELSE 123
  BY <1>3, <1>4
<1>7. 123 \in Octet
  BY DEF Octet
<1> QED BY <1>5, <1>6, <1>7

\* Wherever in a stream ReceiveLoop takes up, what it finds is no longer than
\* what is there.
LEMMA ParseTyped ==
    ASSUME NEW st, NEW ops, NEW masked, Frames(st, ops, masked),
           NEW p \in Nat, NEW avail \in Nat, p + avail <= Bytes(st),
           Parse(st, p, avail) # Incomplete
    PROVE  LET r == Parse(st, p, avail)
           IN  r.len \in Nat /\ r.size \in Nat /\ r.size <= avail
<1> DEFINE B(k) == ByteAt(st, p + k)
           l7   == B(1) % 128
           ext  == HeaderLen(l7)
           len  == CASE l7 < 126 -> l7
                     [] l7 = 126 -> B(2) * 256 + B(3)
                     [] OTHER    -> IF (\E k \in 2..5 : B(k) # 0) \/ B(6) >= 128 THEN MaxLen
                                    ELSE ((B(6) * 256 + B(7)) * 256 + B(8)) * 256 + B(9)
           size == ext + (IF B(1) >= 128 THEN 4 ELSE 0)
<1>1. Parse(st, p, avail) =
          IF avail < 2 \/ avail < HeaderLen(l7) \/ avail < size THEN Incomplete
          ELSE IF ~Arrived(len, avail - size) THEN Incomplete
          ELSE [op |-> B(0) % 16, len |-> len, size |-> size + len]
  BY DEF Parse
<1>2. \A k \in Nat : k < avail => B(k) \in Octet
  <2> SUFFICES ASSUME NEW k \in Nat, k < avail PROVE B(k) \in Octet
    OBVIOUS
  <2>1. Bytes(st) \in Nat
    BY BytesFacts
  <2>2. p + k \in Nat /\ p + k < Bytes(st)
    BY <2>1
  <2> QED BY <2>2, BytesAreOctets
<1> HIDE DEF B
<1>3. ~(avail < 2) /\ ~(avail < ext) /\ ~(avail < size) /\ Arrived(len, avail - size)
  BY <1>1
<1>4. B(1) \in Octet
  BY <1>2, <1>3
<1>5. l7 \in 0..127
  BY <1>4, SMT DEF Octet
<1> HIDE DEF l7
<1>6. ext \in {2, 4, 10} /\ (l7 = 126 => ext = 4) /\ (l7 = 127 => ext = 10)
  BY <1>5 DEF HeaderLen
<1>7. size \in Nat
  BY <1>4, <1>6 DEF Octet
<1>8. len \in Nat
  <2>1. CASE l7 < 126
    BY <2>1, <1>5
  <2>2. CASE l7 = 126
    <3>1. B(2) \in Octet /\ B(3) \in Octet
      BY <2>2, <1>2, <1>3, <1>6
    <3>2. \A x, y \in Octet : x * 256 + y \in Nat
      BY SMT DEF Octet
    <3> QED BY <2>2, <3>1, <3>2
  <2>3. CASE l7 = 127
    <3>1. B(6) \in Octet /\ B(7) \in Octet /\ B(8) \in Octet /\ B(9) \in Octet
      BY <2>3, <1>2, <1>3, <1>6
    <3>2. len = IF (\E k \in 2..5 : B(k) # 0) \/ B(6) >= 128 THEN MaxLen
                ELSE ((B(6) * 256 + B(7)) * 256 + B(8)) * 256 + B(9)
      BY <2>3
    <3>3. MaxLen \in Nat
      BY SMT DEF MaxLen
    <3>4. ((B(6) * 256 + B(7)) * 256 + B(8)) * 256 + B(9) \in Nat
      <4>1. \A w, x, y, z \in Octet : ((w * 256 + x) * 256 + y) * 256 + z \in Nat
        BY SMT DEF Octet
      <4> QED BY <3>1, <4>1
    <3> HIDE DEF len
    <3> QED BY <3>2, <3>3, <3>4
  <2> QED BY <2>1, <2>2, <2>3, <1>5
<1> HIDE DEF ext, len, size
<1>9. Parse(st, p, avail) = [op |-> B(0) % 16, len |-> len, size |-> size + len]
  BY <1>1, <1>3 DEF ext
<1> QED BY <1>3, <1>7, <1>8, <1>9 DEF Arrived

-------------------------------------------------------------------------------
(***************************************************************************)
(* The invariant is kept.                                                  *)
(***************************************************************************)

\* The initial state satisfies it.
LEMMA InitInv == FramingInit => FramingInv
<1> SUFFICES ASSUME FramingInit PROVE FramingInv
  OBVIOUS
<1> USE DEF FramingInit
<1>1. \A ops, masked : Frames(<<>>, ops, masked)
  BY EmptyDomain DEF Frames
<1>2. Whole(up) /\ Whole(down)
  BY EmptyDomain DEF Whole
<1>3. Bytes(<<>>) = 0 /\ \A i \in Nat \ {0} : Place(<<>>, i) = 0
  BY EmptyDomain DEF Bytes, Place
<1>4. Sent
  BY EmptyDomain DEF Sent
<1>5. InStep
  BY <1>3, EmptyDomain DEF InStep
<1>6. Upgrading
  BY FramingAssumption DEF Upgrading
<1>7. Handled
  BY EmptyDomain DEF Handled
<1>8. Counters
  <2>1. read \in Seq(Nat)
    BY EmptySeq
  <2>2. Bytes(up) = 0 /\ Bytes(down) = 0 /\ ResponseLen \in Nat
    BY <1>3, FramingAssumption
  <2>3. cut \in BOOLEAN /\ phase \in {"upgrade", "open", "ended"}
    OBVIOUS
  <2>4. got = 0 /\ pos = 0 /\ spos = 0
    OBVIOUS
  <2>5. pos <= got /\ got <= ResponseLen + Bytes(down) /\ spos <= Bytes(up)
    BY <2>2, <2>4
  <2> HIDE DEF FramingInit
  <2> QED BY <2>1, <2>3, <2>4, <2>5 DEF Counters
<1> QED BY <1>1, <1>2, <1>4, <1>5, <1>6, <1>7, <1>8 DEF FramingInv

\* What FramingInv says of the stream the client reads.
LEMMA ForemostFacts ==
    ASSUME FramingInv, phase = "open"
    PROVE  LET i == Len(handled) + 1
               n == got - pos
           IN  /\ n \in Nat /\ Len(handled) \in Nat
               /\ i \notin DOMAIN down => Foremost = Incomplete
               /\ i \in DOMAIN down =>
                     /\ pos = ResponseLen + down[i].at
                     /\ down[i].bytes \in Nat /\ down[i].bytes >= 2
                     /\ Foremost = IF n < down[i].bytes THEN Incomplete
                                   ELSE [op |-> IF IsText(down[i]) THEN Text ELSE Close,
                                         len |-> down[i].len, size |-> down[i].bytes]
<1> DEFINE i == Len(handled) + 1
           n == got - pos
<1>1. /\ Frames(down, {Text, Close}, FALSE) /\ Whole(down) /\ Handled /\ Counters
  BY DEF FramingInv
<1>2. n \in Nat /\ got \in Nat /\ pos \in Nat /\ got <= ResponseLen + Bytes(down)
  BY <1>1 DEF Counters
<1>3. Len(handled) \in Nat /\ Len(handled) <= Len(down) /\ pos = ResponseLen + Place(down, i)
  BY <1>1, LenProperties DEF Handled
<1>4. ResponseLen \in Nat
  BY FramingAssumption
<1>5. /\ Bytes(down) \in Nat /\ Len(down) \in Nat /\ DOMAIN down = 1..Len(down)
      /\ \A j \in DOMAIN down : down[j].at \in Nat /\ Place(down, j) = down[j].at
      /\ Place(down, Len(down) + 1) = Bytes(down)
  BY <1>1, BytesFacts
<1>6. ASSUME i \notin DOMAIN down PROVE Foremost = Incomplete
  <2>1. Len(handled) = Len(down)
    BY <1>3, <1>5, <1>6
  <2>2. n = 0
    BY <2>1, <1>2, <1>3, <1>4, <1>5
  <2>3. got - pos < 2
    BY <2>2
  <2> QED BY <2>3 DEF Foremost, Parse
<1>7. ASSUME i \in DOMAIN down
      PROVE  /\ pos = ResponseLen + down[i].at
             /\ down[i].bytes \in Nat /\ down[i].bytes >= 2
             /\ Foremost = IF n < down[i].bytes THEN Incomplete
                           ELSE [op |-> IF IsText(down[i]) THEN Text ELSE Close,
                                 len |-> down[i].len, size |-> down[i].bytes]
  <2>1. pos = ResponseLen + down[i].at /\ pos - ResponseLen = down[i].at
    BY <1>3, <1>4, <1>5, <1>7
  <2>2. down[i].bytes = Len(down[i].header) + down[i].len
    BY <1>1, <1>7 DEF Whole
  <2> HIDE DEF i, n
  <2>3. /\ down[i].bytes \in Nat /\ down[i].bytes >= 2
        /\ Parse(down, down[i].at, n) =
               IF n < down[i].bytes THEN Incomplete
               ELSE [op |-> IF IsText(down[i]) THEN Text ELSE Close,
                     len |-> down[i].len, size |-> down[i].bytes]
    BY <2>2, <1>1, <1>2, <1>7, ParseFrame
  <2>4. Foremost = Parse(down, down[i].at, n)
    BY <2>1 DEF Foremost, n
  <2> QED BY <2>1, <2>3, <2>4
<1> QED BY <1>2, <1>3, <1>6, <1>7

\* Nothing is there to be read before the upgrade.
LEMMA KeepsUpgradeRecv == ASSUME FramingInv, UpgradeRecv PROVE FramingInv'
<1> USE DEF UpgradeRecv, sendVars, peerVars
<1>1. /\ Upgrading /\ Sent /\ (~cut => Whole(up) /\ InStep) /\ Handled /\ Counters
  BY DEF FramingInv
<1>2. RecvEnds = {}
  BY <1>1, EmptyDomain DEF RecvEnds, Upgrading
<1>3. PICK n \in 1..ResponseLen :
         got < n /\ got' = n /\ pos' = n /\ phase' = IF n >= ResponseLen THEN "open" ELSE phase
  BY <1>2
<1>4. Bytes(<<>>) = 0 /\ Place(<<>>, 0 + 1) = 0
  BY EmptyDomain DEF Bytes, Place
<1>5. Frames(up, {Text}, TRUE)' /\ Frames(down, {Text, Close}, FALSE)' /\ Whole(down)'
  BY DEF FramingInv
<1>6. Sent' /\ (~cut' => Whole(up)' /\ InStep')
  BY <1>1 DEF Sent, InStep
<1>7. phase' = "upgrade" => Upgrading'
  BY <1>1, <1>3, FramingAssumption DEF Upgrading
<1>8. Handled'
  <2>1. phase' = "open" => pos' = ResponseLen + 0
    BY <1>3, FramingAssumption
  <2>2. down' = <<>> /\ handled' = <<>> /\ Len(<<>>) = 0
    BY <1>1, EmptyDomain DEF Upgrading
  <2> QED BY <2>1, <2>2, <1>1, <1>4 DEF Handled
<1>9. Counters'
  <2>1. down' = <<>>
    BY <1>1 DEF Upgrading
  <2> QED BY <2>1, <1>1, <1>3, <1>4, FramingAssumption DEF Counters
<1> QED BY <1>5, <1>6, <1>7, <1>8, <1>9 DEF FramingInv

\* The end of the connection leaves everything as it is.
LEMMA KeepsEnd == ASSUME FramingInv, UpgradeFails \/ LoopEnds PROVE FramingInv'
<1> USE DEF UpgradeFails, LoopEnds, sendVars, recvVars, peerVars
<1>1. /\ phase' = "ended"
      /\ UNCHANGED <<queue, local, up, down, got, pos, handled, spos, read, queued, cut>>
  OBVIOUS
<1>2. Frames(up, {Text}, TRUE)' /\ Frames(down, {Text, Close}, FALSE)' /\ Whole(down)'
  BY <1>1 DEF FramingInv
<1>3. Sent' /\ (~cut' => Whole(up)' /\ InStep')
  BY <1>1 DEF FramingInv, Sent, InStep
<1>4. Handled' /\ Counters'
  BY <1>1 DEF FramingInv, Handled, Counters
<1> QED BY <1>1, <1>2, <1>3, <1>4 DEF FramingInv

\* Send queues a packet, FlushSendQueue takes all there are.
LEMMA KeepsQueue ==
    ASSUME FramingInv, TakeQueue \/ \E len \in Lens : Send(len)
    PROVE  FramingInv'
<1>1. UNCHANGED <<phase, up, down, got, pos, handled, spos, read, cut>>
  BY DEF TakeQueue, Send, recvVars, peerVars
<1>2. Frames(up, {Text}, TRUE)' /\ Frames(down, {Text, Close}, FALSE)' /\ Whole(down)'
  BY <1>1 DEF FramingInv
<1>3. /\ ~cut' => Whole(up)' /\ InStep'
      /\ phase' = "upgrade" => Upgrading'
      /\ Handled' /\ Counters'
  BY <1>1 DEF FramingInv, InStep, Upgrading, Handled, Counters
<1>4. /\ queued \in Seq(Lens) /\ local \in Seq(Lens) /\ queue \in Seq(Lens)
      /\ Len(queued) = Len(up) + Len(local) + Len(queue)
      /\ \A i \in DOMAIN up : up[i].len = queued[i]
      /\ \A i \in DOMAIN local : local[i] = queued[Len(up) + i]
      /\ \A i \in DOMAIN queue : queue[i] = queued[Len(up) + Len(local) + i]
  BY DEF FramingInv, Sent
<1>5. /\ Len(up) \in Nat /\ Len(local) \in Nat /\ Len(queue) \in Nat
      /\ DOMAIN up = 1..Len(up) /\ DOMAIN local = 1..Len(local)
      /\ DOMAIN queue = 1..Len(queue) /\ DOMAIN queued = 1..Len(queued)
  BY <1>4, BytesFacts, LenProperties DEF FramingInv
<1>6. CASE TakeQueue
  <2>1. local = <<>> /\ local' = queue /\ queue' = <<>> /\ queued' = queued
    BY <1>6 DEF TakeQueue, TakesAll
  <2>2. Len(local) = 0 /\ Len(queue') = 0 /\ DOMAIN queue' = {} /\ queue' \in Seq(Lens)
    BY <2>1, EmptyDomain, EmptySeq
  <2>3. \A i \in DOMAIN local' : local'[i] = queued'[Len(up') + i]
    BY <2>1, <2>2, <1>1, <1>4, <1>5
  <2>4. Sent'
    BY <2>1, <2>2, <2>3, <1>1, <1>4, <1>5 DEF Sent
  <2> QED BY <2>4, <1>2, <1>3 DEF FramingInv
<1>7. ASSUME NEW len \in Lens, Send(len) PROVE FramingInv'
  <2>1. queue' = Append(queue, len) /\ queued' = Append(queued, len) /\ local' = local
    BY <1>7 DEF Send
  <2>2. /\ queue' \in Seq(Lens) /\ Len(queue') = Len(queue) + 1
        /\ DOMAIN queue' = DOMAIN queue \cup {Len(queue) + 1}
        /\ \A i \in DOMAIN queue : queue'[i] = queue[i]
        /\ queue'[Len(queue) + 1] = len
    <3>1. queue \in Seq(Lens)
      BY <1>4
    <3> QED BY <3>1, <2>1, AppendFacts
  <2>3. /\ queued' \in Seq(Lens) /\ Len(queued') = Len(queued) + 1
        /\ \A i \in DOMAIN queued : queued'[i] = queued[i]
        /\ queued'[Len(queued) + 1] = len
    <3>1. queued \in Seq(Lens)
      BY <1>4
    <3> QED BY <3>1, <2>1, AppendFacts
  <2>4. \A i \in DOMAIN up : up'[i].len = queued'[i]
    <3> SUFFICES ASSUME NEW i \in DOMAIN up PROVE up'[i].len = queued'[i]
      OBVIOUS
    <3>1. i \in DOMAIN queued
      BY <1>4, <1>5
    <3> QED BY <3>1, <2>3, <1>1, <1>4
  <2>5. \A i \in DOMAIN local : local'[i] = queued'[Len(up') + i]
    <3> SUFFICES ASSUME NEW i \in DOMAIN local PROVE local'[i] = queued'[Len(up') + i]
      OBVIOUS
    <3>1. Len(up) + i \in DOMAIN queued
      BY <1>4, <1>5
    <3> QED BY <3>1, <2>1, <2>3, <1>1, <1>4
  <2>6. \A i \in DOMAIN queue' : queue'[i] = queued'[Len(up') + Len(local') + i]
    <3> SUFFICES ASSUME NEW i \in DOMAIN queue'
                 PROVE  queue'[i] = queued'[Len(up') + Len(local') + i]
      OBVIOUS
    <3>1. CASE i \in DOMAIN queue
      <4>1. Len(up) + Len(local) + i \in DOMAIN queued
        BY <3>1, <1>4, <1>5
      <4> QED BY <3>1, <4>1, <2>1, <2>2, <2>3, <1>1, <1>4
    <3>2. CASE i = Len(queue) + 1
      <4>1. Len(up) + Len(local) + i = Len(queued) + 1
        BY <3>2, <1>4, <1>5
      <4> QED BY <3>2, <4>1, <2>1, <2>2, <2>3, <1>1
    <3> QED BY <3>1, <3>2, <2>2
  <2>7. Len(queued') = Len(up') + Len(local') + Len(queue')
    BY <2>1, <2>2, <2>3, <1>1, <1>4, <1>5
  <2>8. Sent'
    BY <2>1, <2>2, <2>3, <2>4, <2>5, <2>6, <2>7, <1>1, <1>4 DEF Sent
  <2> QED BY <2>8, <1>2, <1>3 DEF FramingInv
<1> QED BY <1>6, <1>7

\* SendFrame writes a frame behind the others, or a part of it.
LEMMA KeepsSendFrame == ASSUME FramingInv, SendFrame PROVE FramingInv'
<1>1. /\ Frames(up, {Text}, TRUE) /\ Sent /\ (~cut => Whole(up) /\ InStep)
      /\ Handled /\ Counters /\ (phase = "upgrade" => Upgrading)
  BY DEF FramingInv
<1>2. /\ phase = "open" /\ local # <<>> /\ local' = Tail(local)
      /\ UNCHANGED <<phase, queue, down, got, pos, handled, spos, read, queued>>
  BY DEF SendFrame, recvVars, peerVars
<1>3. /\ queued \in Seq(Lens) /\ local \in Seq(Lens) /\ queue \in Seq(Lens)
      /\ Len(queued) = Len(up) + Len(local) + Len(queue)
      /\ \A i \in DOMAIN up : up[i].len = queued[i]
      /\ \A i \in DOMAIN local : local[i] = queued[Len(up) + i]
      /\ \A i \in DOMAIN queue : queue[i] = queued[Len(up) + Len(local) + i]
  BY <1>1 DEF Sent
<1>4. /\ Bytes(up) \in Nat /\ Len(up) \in Nat /\ DOMAIN up = 1..Len(up)
      /\ Len(queue) \in Nat /\ DOMAIN queue = 1..Len(queue)
  BY <1>1, <1>3, BytesFacts, LenProperties
<1>5. /\ Head(local) = local[1] /\ Head(local) \in Lens /\ 1 \in DOMAIN local
      /\ Tail(local) \in Seq(Lens) /\ Len(local) = Len(Tail(local)) + 1
      /\ Len(Tail(local)) \in Nat
      /\ \A i \in DOMAIN Tail(local) : /\ i \in Nat /\ i > 0
                                       /\ i + 1 \in DOMAIN local /\ local[i + 1] = Tail(local)[i]
  <2>1. local \in Seq(Lens) /\ local # <<>>
    BY <1>2, <1>3
  <2> QED BY <2>1, TailFacts
<1>5a. PICK len \in Lens : len = Head(local)
  BY <1>5
<1> DEFINE h   == Header(Text, len, TRUE)
           all == Len(h) + len
<1>6. len \in Nat /\ len <= MaxLen
  BY FramingAssumption, SMT DEF MaxLen
<1>7a. h \in Seq(Octet)
  BY <1>6, HeaderBytes
<1>7. Len(h) \in Nat /\ all \in Nat
  <2>1. Len(h) \in Nat
    BY <1>6, HeaderBytes
  <2> HIDE DEF h
  <2> QED BY <2>1, <1>6
<1>8. PICK n \in Nat :
         /\ n <= all
         /\ up' = Append(up, [at |-> Bytes(up), header |-> h, len |-> len, bytes |-> n])
         /\ cut' = (cut \/ n < all)
  <2> DEFINE g == FrameAt(Bytes(up), Text, len, TRUE)
  <2>1. g = [at |-> Bytes(up), header |-> h, len |-> len, bytes |-> all]
    BY DEF FrameAt
  <2>2. g = FrameAt(Bytes(up), Text, Head(local), TRUE)
    BY <1>5a
  <2> HIDE DEF g
  <2>3. \E n \in IF Blocks THEN {0, Len(g.header), g.bytes} ELSE {g.bytes} :
           /\ up' = Append(up, [g EXCEPT !.bytes = n])
           /\ cut' = (cut \/ n < g.bytes)
    BY <2>2 DEF SendFrame
  <2> HIDE DEF h, all
  <2>4. g.header = h /\ g.bytes = all
    BY <2>1
  <2>5. PICK n \in {0, Len(h), all} :
           /\ up' = Append(up, [g EXCEPT !.bytes = n])
           /\ cut' = (cut \/ n < all)
    BY <2>3, <2>4
  <2>6. [g EXCEPT !.bytes = n] = [at |-> Bytes(up), header |-> h, len |-> len, bytes |-> n]
    BY <2>1
  <2>7. n \in Nat /\ n <= all
    BY <1>6, <1>7 DEF all
  <2> QED BY <2>5, <2>6, <2>7
<1> DEFINE f == [at |-> Bytes(up), header |-> h, len |-> len, bytes |-> n]
<1>9. /\ Frames(up', {Text}, TRUE)
      /\ Bytes(up') = Bytes(up) + n
      /\ \A i \in 1..Len(up) + 1 : Place(up', i) = Place(up, i)
  <2>1. f = [at |-> Bytes(up), header |-> Header(Text, len, TRUE), len |-> len, bytes |-> n]
    OBVIOUS
  <2>2. n <= Len(Header(Text, len, TRUE)) + len /\ up' = Append(up, f)
    BY <1>8
  <2>3. len \in Lens \cup {0}
    OBVIOUS
  <2>4. Text \in {Text} /\ {Text} \subseteq {Text, Close} /\ TRUE \in BOOLEAN
    OBVIOUS
  <2> HIDE DEF f, h
  <2>5. /\ Frames(Append(up, f), {Text}, TRUE)
        /\ Bytes(Append(up, f)) = Bytes(up) + n
        /\ \A i \in 1..Len(up) + 1 : Place(Append(up, f), i) = Place(up, i)
    <3> DEFINE ops == {Text}
               masked == TRUE
               hdr == Header(Text, len, masked)
    <3>1. /\ Frames(up, ops, masked) /\ ops \subseteq {Text, Close} /\ Text \in ops
          /\ masked \in BOOLEAN /\ n <= Len(hdr) + len
          /\ f = [at |-> Bytes(up), header |-> hdr, len |-> len, bytes |-> n]
      BY <2>1, <2>2, <2>4, <1>1
    <3> HIDE DEF ops, masked
    <3>2. /\ Frames(Append(up, f), ops, masked)
          /\ Bytes(Append(up, f)) = Bytes(up) + n
          /\ \A i \in 1..Len(up) + 1 : Place(Append(up, f), i) = Place(up, i)
      BY <3>1, <2>3, AppendFrame
    <3> QED BY <3>2 DEF ops, masked
  <2> QED BY <2>2, <2>5
<1>10. f \in FrameSet
  <2> HIDE DEF h
  <2> QED BY <1>4, <1>6, <1>7a, <1>8 DEF FrameSet
<1>11. /\ Len(up') = Len(up) + 1 /\ DOMAIN up' = DOMAIN up \cup {Len(up) + 1}
       /\ \A i \in DOMAIN up : up'[i] = up[i]
       /\ up'[Len(up) + 1] = f
  <2>1. up \in Seq(FrameSet) /\ up' = Append(up, f)
    BY <1>1, <1>8 DEF Frames
  <2> HIDE DEF f
  <2> QED BY <2>1, <1>10, AppendFacts
<1>12. f.len = len /\ f.bytes = n /\ f.header = h
  OBVIOUS
<1> HIDE DEF f, h
<1>13. Sent'
  <2>1. \A i \in DOMAIN up' : up'[i].len = queued'[i]
    <3>1. up'[Len(up) + 1].len = queued[Len(up) + 1]
      BY <1>3, <1>5, <1>5a, <1>11, <1>12
    <3> QED BY <3>1, <1>2, <1>3, <1>11
  <2>2. \A i \in DOMAIN local' : local'[i] = queued'[Len(up') + i]
    <3> SUFFICES ASSUME NEW i \in DOMAIN Tail(local)
                 PROVE  Tail(local)[i] = queued[Len(up) + 1 + i]
      BY <1>2, <1>11
    <3>1. local[i + 1] = queued[Len(up) + (i + 1)] /\ i \in Nat
      BY <1>3, <1>5
    <3>2. Len(up) + (i + 1) = Len(up) + 1 + i
      BY <3>1, <1>4
    <3> QED BY <3>1, <3>2, <1>5
  <2>3. Len(up') + Len(local') = Len(up) + Len(local)
    BY <1>2, <1>4, <1>5, <1>11
  <2>4. \A i \in DOMAIN queue' : queue'[i] = queued'[Len(up') + Len(local') + i]
    BY <2>3, <1>2, <1>3
  <2>5. Len(queued') = Len(up') + Len(local') + Len(queue')
    BY <2>3, <1>2, <1>3
  <2>6. queued' \in Seq(Lens) /\ local' \in Seq(Lens) /\ queue' \in Seq(Lens)
    BY <1>2, <1>3, <1>5
  <2> QED BY <2>1, <2>2, <2>4, <2>5, <2>6 DEF Sent
<1>14. ASSUME ~cut' PROVE Whole(up)' /\ InStep'
  <2>0. ~cut /\ ~(n < all)
    BY <1>8, <1>14
  <2>1. ~cut /\ n = all
    BY <2>0, <1>7, <1>8
  <2>2. Whole(up) /\ InStep
    BY <2>1, <1>1
  <2>3. Whole(up)'
    <3>1. f.bytes = Len(f.header) + f.len
      BY <2>1, <1>12
    <3> QED BY <3>1, <2>2, <1>11 DEF Whole
  <2>4. Len(read) \in Nat /\ DOMAIN read = 1..Len(read)
    BY <1>1, LenProperties DEF Counters
  <2>5. \A i \in DOMAIN read : i \in DOMAIN up
    BY <2>2, <2>4, <1>4 DEF InStep
  <2>6. spos' = Place(up', Len(read') + 1)
    <3>1. Len(read) + 1 \in 1..Len(up) + 1
      BY <2>2, <2>4, <1>4 DEF InStep
    <3> QED BY <3>1, <2>2, <1>2, <1>9 DEF InStep
  <2>7. Len(read') <= Len(up') /\ \A i \in DOMAIN read' : read'[i] = up'[i].len
    BY <2>2, <2>4, <2>5, <1>2, <1>4, <1>11 DEF InStep
  <2> QED BY <2>3, <2>6, <2>7 DEF InStep
<1>15. Handled'
  BY <1>1, <1>2 DEF Handled
<1>16. Counters'
  <2>1. spos' <= Bytes(up')
    BY <1>1, <1>2, <1>4, <1>8, <1>9 DEF Counters
  <2>2. cut' \in BOOLEAN
    BY <1>8
  <2> QED BY <2>1, <2>2, <1>1, <1>2 DEF Counters
<1>17. Frames(down, {Text, Close}, FALSE)' /\ Whole(down)' /\ phase' # "upgrade"
  BY <1>2 DEF FramingInv
<1> QED BY <1>9, <1>13, <1>14, <1>15, <1>16, <1>17 DEF FramingInv

\* recv stops somewhere in what the server has written.
LEMMA KeepsRecv == ASSUME FramingInv, Recv PROVE FramingInv'
<1>1. UNCHANGED <<phase, queue, local, up, down, pos, handled, spos, read, queued, cut>>
  BY DEF Recv, sendVars, peerVars
<1>2. phase # "upgrade"
  BY DEF Recv
<1>3. PICK e \in RecvEnds : got < ResponseLen + e /\ got' = ResponseLen + e
  BY DEF Recv
<1>4. e \in Nat /\ e <= Bytes(down)
  <2>0. PICK i \in DOMAIN down : e \in {down[i].at + c : c \in Cuts(down[i])}
    BY DEF RecvEnds
  <2>1. PICK c \in Cuts(down[i]) : e = down[i].at + c
    BY <2>0
  <2> DEFINE h == down[i].header
  <2>2. /\ down[i].at \in Nat /\ down[i].bytes \in Nat /\ Bytes(down) \in Nat
        /\ down[i].at + down[i].bytes <= Bytes(down)
        /\ down[i].len \in Nat /\ h \in Seq(Octet)
    <3>1. Frames(down, {Text, Close}, FALSE)
      BY DEF FramingInv
    <3> QED BY <3>1, BytesFacts DEF FrameSet
  <2>3. down[i].bytes = Len(h) + down[i].len
    BY DEF FramingInv, Whole
  <2>4. Len(h) \in Nat /\ Len(h) >= 2
    <3>1. PICK op \in {Text, Close} : h = Header(op, down[i].len, FALSE) /\ down[i].len \in Lens \cup {0}
      BY DEF FramingInv, Frames
    <3>2. down[i].len <= MaxLen
      BY <2>2, <3>1, FramingAssumption, SMT DEF MaxLen
    <3>3. Says(h, op, down[i].len, FALSE)
      BY <2>2, <3>1, <3>2, HeaderSays
    <3>4. Len(h) = HeaderLen(Seven(down[i].len))
      BY <3>3, <2>2, LenProperties DEF Says, HeaderLen
    <3> QED BY <3>4 DEF HeaderLen
  <2>5. c \in Nat /\ c <= down[i].bytes
    <3>1. c \in {1, 2, Len(h) - 1, Len(h), down[i].bytes - 1, down[i].bytes}
      BY <2>1 DEF Cuts
    <3> HIDE DEF h
    <3> QED BY <3>1, <2>2, <2>3, <2>4
  <2> QED BY <2>1, <2>2, <2>5
<1>5. Counters'
  <2>1. ResponseLen \in Nat
    BY FramingAssumption
  <2>2. Counters
    BY DEF FramingInv
  <2>3. Bytes(down) \in Nat
    BY BytesFacts DEF FramingInv
  <2>4. got' \in Nat /\ pos' <= got' /\ got' <= ResponseLen + Bytes(down')
    BY <2>1, <2>2, <2>3, <1>1, <1>3, <1>4 DEF Counters
  <2> QED BY <2>2, <2>4, <1>1 DEF Counters
<1>6. Frames(up, {Text}, TRUE)' /\ Frames(down, {Text, Close}, FALSE)' /\ Whole(down)'
  BY <1>1 DEF FramingInv
<1>7. Sent' /\ (~cut' => Whole(up)' /\ InStep') /\ Handled'
  BY <1>1 DEF FramingInv, Sent, InStep, Handled
<1> QED BY <1>1, <1>2, <1>5, <1>6, <1>7 DEF FramingInv

\* onPacket_ is handed the next frame, or the connection ends with it.
LEMMA KeepsHandlesFrame == ASSUME FramingInv, HandlesFrame PROVE FramingInv'
<1>1. /\ phase = "open" /\ Foremost # Incomplete /\ pos' = pos + Foremost.size
      /\ UNCHANGED <<queue, local, up, down, got, spos, read, queued, cut>>
  BY DEF HandlesFrame, sendVars, peerVars
<1>2. /\ Foremost.op = Close => phase' = "ended" /\ handled' = handled
      /\ Foremost.op # Close =>
            /\ phase' = "open"
            /\ handled' = IF Foremost.op <= 2 THEN Append(handled, Foremost.len) ELSE handled
  BY <1>1 DEF HandlesFrame
<1> DEFINE i == Len(handled) + 1
           n == got - pos
<1>3. /\ n \in Nat /\ Len(handled) \in Nat
      /\ i \notin DOMAIN down => Foremost = Incomplete
      /\ i \in DOMAIN down =>
            /\ pos = ResponseLen + down[i].at
            /\ down[i].bytes \in Nat /\ down[i].bytes >= 2
            /\ Foremost = IF n < down[i].bytes THEN Incomplete
                          ELSE [op |-> IF IsText(down[i]) THEN Text ELSE Close,
                                len |-> down[i].len, size |-> down[i].bytes]
  BY <1>1, ForemostFacts
<1> HIDE DEF n
<1>4. i \in DOMAIN down
  BY <1>1, <1>3
<1>5. ~(n < down[i].bytes)
  BY <1>1, <1>3, <1>4
<1>6. /\ Foremost.size = down[i].bytes /\ Foremost.len = down[i].len
      /\ Foremost.op = IF IsText(down[i]) THEN Text ELSE Close
  <2> HIDE DEF i
  <2> QED BY <1>3, <1>4, <1>5
<1>7. /\ Len(down) \in Nat /\ DOMAIN down = 1..Len(down)
      /\ down[i].at \in Nat /\ down[i].len \in Nat
      /\ Place(down, i + 1) = down[i].at + down[i].bytes
  <2>1. Frames(down, {Text, Close}, FALSE)
    BY DEF FramingInv
  <2> HIDE DEF i
  <2> QED BY <2>1, <1>4, BytesFacts DEF FrameSet
<1>8. Counters /\ Handled /\ ResponseLen \in Nat
  BY FramingAssumption DEF FramingInv
<1>9. pos' \in Nat /\ pos' <= got /\ pos' = ResponseLen + Place(down, i + 1)
  <2>1. n = got - pos /\ pos \in Nat /\ got \in Nat
    BY <1>8 DEF Counters, n
  <2>2. pos' = pos + down[i].bytes /\ down[i].bytes \in Nat /\ pos = ResponseLen + down[i].at
    BY <1>1, <1>3, <1>4, <1>6
  <2>3. Place(down, i + 1) = down[i].at + down[i].bytes /\ down[i].at \in Nat /\ ResponseLen \in Nat
    BY <1>7, <1>8
  <2> HIDE DEF i
  <2> QED BY <2>1, <2>2, <2>3, <1>5
<1>10. phase' \in {"open", "ended"}
  BY <1>2
<1>11. Counters'
  BY <1>1, <1>8, <1>9, <1>10 DEF Counters
<1>12. Handled'
  <2>1. CASE IsText(down[i])
    <3>1. phase' = "open" /\ handled' = Append(handled, down[i].len)
      BY <2>1, <1>2, <1>6 DEF Text, Close
    <3>2. /\ handled' \in Seq(Nat) /\ Len(handled') = i
          /\ DOMAIN handled' = DOMAIN handled \cup {i}
          /\ \A j \in DOMAIN handled : handled'[j] = handled[j]
          /\ handled'[i] = down[i].len
      <4>1. handled \in Seq(Nat) /\ down[i].len \in Nat
        BY <1>7, <1>8 DEF Handled
      <4> QED BY <4>1, <3>1, AppendFacts
    <3>3. Len(handled') <= Len(down)
      BY <3>2, <1>3, <1>4, <1>7
    <3>4. \A j \in DOMAIN handled' : IsText(down[j]) /\ handled'[j] = down[j].len
      <4> HIDE DEF i
      <4> QED BY <2>1, <3>2, <1>8 DEF Handled
    <3> HIDE DEF i
    <3> QED BY <3>2, <3>3, <3>4, <1>1, <1>8, <1>9 DEF Handled
  <2>2. CASE ~IsText(down[i])
    <3>1. phase' = "ended" /\ handled' = handled
      BY <2>2, <1>2, <1>6
    <3> QED BY <3>1, <1>1, <1>8 DEF Handled
  <2> QED BY <2>1, <2>2
<1>13. Frames(up, {Text}, TRUE)' /\ Frames(down, {Text, Close}, FALSE)' /\ Whole(down)'
  BY <1>1 DEF FramingInv
<1>14. Sent' /\ (~cut' => Whole(up)' /\ InStep')
  BY <1>1 DEF FramingInv, Sent, InStep
<1> QED BY <1>10, <1>11, <1>12, <1>13, <1>14 DEF FramingInv

\* The server writes a text, or a close behind all texts.
LEMMA KeepsServerSends == ASSUME FramingInv, ServerSends PROVE FramingInv'
<1>1. /\ read # <<>> /\ \A i \in DOMAIN down : IsText(down[i])
      /\ UNCHANGED <<phase, queue, local, up, got, pos, handled, spos, read, queued, cut>>
  BY DEF ServerSends, ServerAnswers, sendVars, peerVars
<1>2. PICK op \in {Text, Close}, len \in Lens \cup {0} :
         down' = Append(down, FrameAt(Bytes(down), op, len, FALSE))
  BY DEF ServerSends
<1> DEFINE h == Header(op, len, FALSE)
           n == Len(h) + len
           f == [at |-> Bytes(down), header |-> h, len |-> len, bytes |-> n]
<1>3. down' = Append(down, f)
  BY <1>2 DEF FrameAt
<1>4. /\ Frames(down, {Text, Close}, FALSE) /\ Whole(down) /\ Handled /\ Counters
  BY DEF FramingInv
<1>5. len \in Nat /\ len <= MaxLen
  BY FramingAssumption, SMT DEF MaxLen
<1>6. h \in Seq(Octet) /\ Len(h) \in Nat
  BY <1>5, HeaderBytes
<1>7. n \in Nat
  <2> HIDE DEF h
  <2> QED BY <1>5, <1>6
<1>8. /\ Frames(down', {Text, Close}, FALSE)
      /\ Bytes(down') = Bytes(down) + n
      /\ \A i \in 1..Len(down) + 1 : Place(down', i) = Place(down, i)
  <2> DEFINE ops == {Text, Close}
             masked == FALSE
             hdr == Header(op, len, masked)
  <2>1. /\ Frames(down, ops, masked) /\ ops \subseteq {Text, Close} /\ op \in ops
        /\ masked \in BOOLEAN /\ n <= Len(hdr) + len
        /\ f = [at |-> Bytes(down), header |-> hdr, len |-> len, bytes |-> n]
    <3>1. n = Len(hdr) + len
      OBVIOUS
    <3>2. n <= Len(hdr) + len
      <4> HIDE DEF hdr, n
      <4> QED BY <3>1, <1>7
    <3> QED BY <3>2, <1>4
  <2> HIDE DEF ops, masked, f, n
  <2>2. /\ Frames(Append(down, f), ops, masked)
        /\ Bytes(Append(down, f)) = Bytes(down) + n
        /\ \A i \in 1..Len(down) + 1 : Place(Append(down, f), i) = Place(down, i)
    BY <2>1, <1>7, AppendFrame
  <2> QED BY <2>2, <1>3 DEF ops, masked
<1>9. /\ Bytes(down) \in Nat /\ Len(down) \in Nat /\ DOMAIN down = 1..Len(down)
  BY <1>4, BytesFacts
<1>10. f \in FrameSet
  <2> HIDE DEF h, n
  <2> QED BY <1>5, <1>6, <1>7, <1>9 DEF FrameSet
<1>11. f.len = len /\ f.bytes = n /\ f.header = h
  OBVIOUS
<1> HIDE DEF f
<1>12. /\ Len(down') = Len(down) + 1 /\ DOMAIN down' = DOMAIN down \cup {Len(down) + 1}
       /\ \A i \in DOMAIN down : down'[i] = down[i]
       /\ down'[Len(down) + 1] = f
  <2>1. down \in Seq(FrameSet)
    BY <1>4 DEF Frames
  <2> QED BY <2>1, <1>3, <1>10, AppendFacts
<1>13. Whole(down)'
  <2> HIDE DEF h
  <2> QED BY <1>4, <1>11, <1>12 DEF Whole
<1>14. Handled'
  <2>1. /\ handled \in Seq(Nat) /\ Len(handled) \in Nat /\ DOMAIN handled = 1..Len(handled)
        /\ Len(handled) <= Len(down)
        /\ \A i \in DOMAIN handled : IsText(down[i]) /\ handled[i] = down[i].len
        /\ phase = "open" => pos = ResponseLen + Place(down, Len(handled) + 1)
    BY <1>4, LenProperties DEF Handled
  <2>2. Len(handled) + 1 \in 1..Len(down) + 1 /\ DOMAIN handled \subseteq DOMAIN down
    BY <2>1, <1>9
  <2>3. \A i \in DOMAIN down' : i < Len(down') => IsText(down'[i])
    BY <1>1, <1>9, <1>12
  <2>4. \A i \in DOMAIN handled' : IsText(down'[i]) /\ handled'[i] = down'[i].len
    BY <2>1, <2>2, <1>1, <1>12
  <2>5. Len(handled') <= Len(down') /\ handled' \in Seq(Nat)
    BY <2>1, <1>1, <1>9, <1>12
  <2>6. phase' = "open" => pos' = ResponseLen + Place(down', Len(handled') + 1)
    BY <2>1, <2>2, <1>1, <1>8
  <2> QED BY <2>3, <2>4, <2>5, <2>6 DEF Handled
<1>15. Counters'
  <2>1. got' <= ResponseLen + Bytes(down')
    <3>1. ResponseLen \in Nat /\ got <= ResponseLen + Bytes(down) /\ got \in Nat
      BY <1>4, FramingAssumption DEF Counters
    <3> HIDE DEF n
    <3> QED BY <3>1, <1>1, <1>7, <1>8, <1>9
  <2> QED BY <2>1, <1>1, <1>4 DEF Counters
<1>16. phase # "upgrade"
  BY <1>1 DEF FramingInv, Upgrading
<1>17. Frames(up, {Text}, TRUE)'
  BY <1>1 DEF FramingInv
<1>18. Sent' /\ (~cut' => Whole(up)' /\ InStep')
  BY <1>1 DEF FramingInv, Sent, InStep
<1> QED BY <1>1, <1>8, <1>13, <1>14, <1>15, <1>16, <1>17, <1>18 DEF FramingInv

\* The server reads on: a frame that came whole, or what it takes for one.
LEMMA KeepsServerReads == ASSUME FramingInv, ServerReads PROVE FramingInv'
<1> DEFINE avail == Bytes(up) - spos
           f == Parse(up, spos, avail)
<1>1. /\ f.op = Text /\ spos' = spos + f.size /\ read' = Append(read, f.len)
      /\ UNCHANGED <<phase, queue, local, up, down, got, pos, handled, queued, cut>>
  BY DEF ServerReads, sendVars, recvVars
<1>2. /\ Frames(up, {Text}, TRUE) /\ Counters /\ (~cut => Whole(up) /\ InStep)
  BY DEF FramingInv
<1>3. /\ Bytes(up) \in Nat /\ Len(up) \in Nat /\ DOMAIN up = 1..Len(up)
      /\ \A i \in DOMAIN up : up[i].at \in Nat /\ Place(up, i) = up[i].at
      /\ \A i \in DOMAIN up : Place(up, i + 1) = up[i].at + up[i].bytes
      /\ Place(up, 1) = 0 /\ Place(up, Len(up) + 1) = Bytes(up)
  BY <1>2, BytesFacts
<1>4. spos \in Nat /\ avail \in Nat /\ spos + avail <= Bytes(up)
  BY <1>2, <1>3 DEF Counters
<1>5. f # Incomplete
  BY <1>1 DEF Incomplete, Text
<1>6. f.len \in Nat /\ f.size \in Nat /\ f.size <= avail
  <2> HIDE DEF avail
  <2> QED BY <1>2, <1>4, <1>5, ParseTyped DEF f
<1>7. read \in Seq(Nat) /\ Len(read) \in Nat
  BY <1>2, LenProperties DEF Counters
<1>8. /\ read' \in Seq(Nat) /\ Len(read') = Len(read) + 1
      /\ DOMAIN read' = DOMAIN read \cup {Len(read) + 1}
      /\ \A i \in DOMAIN read : read'[i] = read[i]
      /\ read'[Len(read) + 1] = f.len
  <2> HIDE DEF f
  <2> QED BY <1>1, <1>6, <1>7, AppendFacts
<1>9. Counters'
  <2>1. spos' \in Nat /\ spos' <= Bytes(up')
    <3> HIDE DEF f
    <3> QED BY <1>1, <1>3, <1>4, <1>6
  <2> QED BY <2>1, <1>1, <1>2, <1>8 DEF Counters
<1>10. ASSUME ~cut PROVE InStep'
  <2> DEFINE i == Len(read) + 1
  <2>1. Whole(up) /\ Len(read) <= Len(up) /\ spos = Place(up, i)
        /\ \A j \in DOMAIN read : read[j] = up[j].len
    BY <1>2, <1>10 DEF InStep
  <2>2. i \in DOMAIN up
    <3>1. CASE Len(read) = Len(up)
      <4>1. avail < 2
        BY <3>1, <2>1, <1>3
      <4>2. f = Incomplete
        <5> HIDE DEF avail
        <5> QED BY <4>1 DEF Parse, f
      <4> QED BY <4>2, <1>5
    <3> QED BY <3>1, <2>1, <1>3, <1>7
  <2>3. up[i].bytes = Len(up[i].header) + up[i].len /\ spos = up[i].at
    BY <2>1, <2>2, <1>3 DEF Whole
  <2>4. /\ f = IF avail < up[i].bytes THEN Incomplete
               ELSE [op |-> IF IsText(up[i]) THEN Text ELSE Close,
                     len |-> up[i].len, size |-> up[i].bytes]
    <3> HIDE DEF i, avail
    <3>1. {Text} \subseteq {Text, Close}
      OBVIOUS
    <3> DEFINE ops == {Text}
    <3>2. Frames(up, ops, TRUE) /\ ops \subseteq {Text, Close}
      BY <3>1, <1>2
    <3> HIDE DEF ops
    <3> QED BY <3>2, <2>2, <2>3, <1>4, ParseFrame DEF f
  <2>5. f.len = up[i].len /\ f.size = up[i].bytes
    <3> HIDE DEF i, f, avail
    <3> QED BY <2>4, <1>5
  <2>6. spos' = Place(up, i + 1)
    <3> HIDE DEF i, f
    <3> QED BY <2>2, <2>3, <2>5, <1>1, <1>3
  <2>7. Len(read') <= Len(up) /\ Len(read') = i
    BY <2>2, <1>3, <1>8
  <2>8. \A j \in DOMAIN read' : read'[j] = up[j].len
    <3> HIDE DEF f
    <3> QED BY <2>1, <2>5, <1>8
  <2> HIDE DEF i
  <2> QED BY <2>6, <2>7, <2>8, <1>1 DEF InStep
<1>11. phase # "upgrade"
  <2> SUFFICES ASSUME phase = "upgrade" PROVE FALSE
    OBVIOUS
  <2>1. up = <<>>
    BY DEF FramingInv, Upgrading
  <2>2. avail < 2
    BY <2>1, <1>4 DEF Bytes
  <2>3. f = Incomplete
    <3> HIDE DEF avail
    <3> QED BY <2>2 DEF Parse, f
  <2> QED BY <2>3, <1>5
<1>12. Frames(up, {Text}, TRUE)' /\ Frames(down, {Text, Close}, FALSE)' /\ Whole(down)'
  BY <1>1 DEF FramingInv
<1>13. Sent' /\ Handled' /\ (~cut' => Whole(up)')
  BY <1>1 DEF FramingInv, Sent, Handled
<1> QED BY <1>1, <1>9, <1>10, <1>11, <1>12, <1>13 DEF FramingInv

\* Every step of the connection keeps the invariant.
LEMMA NextInv == FramingInv /\ [FramingNext]_vars => FramingInv'
<1> SUFFICES ASSUME FramingInv, [FramingNext]_vars PROVE FramingInv'
  OBVIOUS
<1>1. CASE UNCHANGED vars
  BY <1>1 DEF vars, sendVars, recvVars, peerVars, FramingInv, Sent, InStep, Upgrading, Handled,
              Counters
<1>2. CASE FramingNext
  BY <1>2, KeepsUpgradeRecv, KeepsEnd, KeepsQueue, KeepsSendFrame, KeepsRecv, KeepsHandlesFrame,
     KeepsServerSends, KeepsServerReads DEF FramingNext
<1> QED BY <1>1, <1>2

\* The invariant holds of every state of the connection.
LEMMA FramingInvariance == FramingSpec => []FramingInv
BY InitInv, NextInv, PTL DEF FramingSpec

\* Every variable has its type, nothing is parsed twice or before it is there,
\* and the server is never ahead of what got out, even behind a cut frame.
THEOREM FramingTypeCorrect == FramingSpec => []FramingTypeOK
<1>1. FramingInv => FramingTypeOK
  <2> SUFFICES ASSUME FramingInv PROVE FramingTypeOK
    OBVIOUS
  <2>1. /\ Frames(up, {Text}, TRUE) /\ Frames(down, {Text, Close}, FALSE)
        /\ Sent /\ Handled /\ Counters
    BY DEF FramingInv
  <2>2. \A f \in ToSet(up \o down) : f \in ToSet(up) \/ f \in ToSet(down)
    <3>1. up \in Seq(FrameSet) /\ down \in Seq(FrameSet)
      BY <2>1 DEF Frames
    <3>2. /\ up \o down \in Seq(FrameSet)
          /\ \A i \in 1..Len(up) + Len(down) :
                (up \o down)[i] = IF i <= Len(up) THEN up[i] ELSE down[i - Len(up)]
          /\ Len(up \o down) = Len(up) + Len(down)
      BY <3>1, ConcatProperties
    <3>3. /\ Len(up) \in Nat /\ Len(down) \in Nat
          /\ DOMAIN up = 1..Len(up) /\ DOMAIN down = 1..Len(down)
          /\ DOMAIN (up \o down) = 1..Len(up) + Len(down)
      BY <3>1, <3>2, LenProperties
    <3> SUFFICES ASSUME NEW i \in DOMAIN (up \o down)
                 PROVE  (up \o down)[i] \in ToSet(up) \/ (up \o down)[i] \in ToSet(down)
      BY DEF ToSet
    <3>4. CASE i <= Len(up)
      <4>1. i \in DOMAIN up /\ (up \o down)[i] = up[i]
        BY <3>2, <3>3, <3>4
      <4> QED BY <4>1 DEF ToSet
    <3>5. CASE ~(i <= Len(up))
      <4>1. i - Len(up) \in DOMAIN down /\ (up \o down)[i] = down[i - Len(up)]
        BY <3>2, <3>3, <3>5
      <4> QED BY <4>1 DEF ToSet
    <3> QED BY <3>4, <3>5
  <2>3. \A st, ops, masked : Frames(st, ops, masked) =>
           \A f \in ToSet(st) : f.bytes \in 0..(Len(f.header) + f.len) /\ f.len \in Lens \cup {0}
    <3> SUFFICES ASSUME NEW st, NEW ops, NEW masked, Frames(st, ops, masked), NEW i \in DOMAIN st
                 PROVE  /\ st[i].bytes \in 0..(Len(st[i].header) + st[i].len)
                        /\ st[i].len \in Lens \cup {0}
      BY DEF ToSet
    <3>1. /\ st[i].bytes <= Len(st[i].header) + st[i].len /\ st[i].len \in Lens \cup {0}
      BY DEF Frames
    <3>2. st[i].bytes \in Nat /\ st[i].len \in Nat /\ Len(st[i].header) \in Nat
      BY BytesFacts, LenProperties DEF FrameSet
    <3> QED BY <3>1, <3>2
  <2>4. 0 <= pos /\ pos <= got /\ got <= ResponseLen + Bytes(down) /\ 0 <= spos /\ spos <= Bytes(up)
    BY <2>1 DEF Counters
  <2> QED BY <2>1, <2>2, <2>3, <2>4 DEF FramingTypeOK, Sent, Handled, Counters
<1> QED BY <1>1, FramingInvariance, PTL

\* However the stream comes in pieces, ReceiveLoop hands over every packet
\* once, in order and with its length, and leaves none behind that is whole.
THEOREM PacketsAreWhole == FramingSpec => []PacketsComeWhole
<1>1. FramingInv => PacketsComeWhole
  <2> SUFFICES ASSUME FramingInv PROVE PacketsComeWhole
    OBVIOUS
  <2>1. Frames(down, {Text, Close}, FALSE) /\ Handled /\ Counters /\ ResponseLen \in Nat
    BY FramingAssumption DEF FramingInv
  <2>2. ASSUME phase = "open", Foremost = Incomplete,
               NEW k \in DOMAIN down, down[k].at + down[k].bytes <= got - ResponseLen,
               ~(k <= Len(handled))
        PROVE  FALSE
    <3> DEFINE i == Len(handled) + 1
               n == got - pos
    <3>1. /\ n \in Nat /\ Len(handled) \in Nat
          /\ i \in DOMAIN down =>
                /\ pos = ResponseLen + down[i].at
                /\ down[i].bytes \in Nat /\ down[i].bytes >= 2
                /\ Foremost = IF n < down[i].bytes THEN Incomplete
                              ELSE [op |-> IF IsText(down[i]) THEN Text ELSE Close,
                                    len |-> down[i].len, size |-> down[i].bytes]
      BY <2>2, ForemostFacts
    <3>2. /\ Len(down) \in Nat /\ DOMAIN down = 1..Len(down)
          /\ \A j \in DOMAIN down : down[j].at \in Nat /\ down[j].bytes \in Nat
      BY <2>1, BytesFacts
    <3>3. i \in DOMAIN down /\ i <= k
      BY <3>1, <3>2, <2>2
    <3>4. down[i].at + down[i].bytes <= got - ResponseLen
      <4>1. CASE i = k
        BY <4>1, <2>2
      <4>2. CASE i < k
        <5>1. down[i].at + down[i].bytes <= down[k].at
          <6> HIDE DEF i
          <6> QED BY <4>2, <3>3, <2>1 DEF Frames
        <5>2. got \in Nat
          BY <2>1 DEF Counters
        <5> HIDE DEF i
        <5> QED BY <5>1, <5>2, <3>2, <3>3, <2>1, <2>2
      <4> QED BY <4>1, <4>2, <3>2, <3>3
    <3>5. ~(n < down[i].bytes)
      <4>1. got \in Nat /\ n = got - pos
        BY <2>1 DEF Counters
      <4>2. down[i].at \in Nat /\ pos = ResponseLen + down[i].at /\ down[i].bytes \in Nat
        BY <3>1, <3>2, <3>3
      <4> HIDE DEF i, n
      <4> QED BY <4>1, <4>2, <3>4, <2>1
    <3>6. Foremost.size = down[i].bytes /\ Foremost.size = 0
      <4> HIDE DEF i, n
      <4> QED BY <3>1, <3>3, <3>5, <2>2 DEF Incomplete
    <3> HIDE DEF i, n
    <3> QED BY <3>1, <3>3, <3>6
  <2> QED BY <2>1, <2>2 DEF PacketsComeWhole, Handled
<1> QED BY <1>1, FramingInvariance, PTL

\* Until a send is cut short the server reads what was queued, in order, for
\* every length and so for every form of the header.
THEOREM QueueArrivesInOrder == FramingSpec => []QueueIsReadInOrder
<1>1. FramingInv => QueueIsReadInOrder
  <2> SUFFICES ASSUME FramingInv, ~cut PROVE IsPrefix(read, queued)
    BY DEF QueueIsReadInOrder
  <2>1. InStep /\ Sent /\ Counters /\ Frames(up, {Text}, TRUE)
    BY DEF FramingInv
  <2>2. /\ Len(read) <= Len(up) /\ \A i \in DOMAIN read : read[i] = up[i].len
        /\ Len(queued) = Len(up) + Len(local) + Len(queue)
        /\ \A i \in DOMAIN up : up[i].len = queued[i]
        /\ queued \in Seq(Lens) /\ read \in Seq(Nat)
    BY <2>1 DEF InStep, Sent, Counters
  <2>3. /\ Len(up) \in Nat /\ Len(local) \in Nat /\ Len(queue) \in Nat /\ Len(read) \in Nat
        /\ DOMAIN up = 1..Len(up) /\ DOMAIN read = 1..Len(read)
    BY <2>1, BytesFacts, LenProperties DEF Sent, Counters
  <2>4. Len(read) <= Len(queued) /\ \A i \in 1..Len(read) : read[i] = queued[i]
    <3>1. Len(read) <= Len(up) /\ Len(read) <= Len(queued)
      BY <2>2, <2>3
    <3>2. \A i \in 1..Len(read) : i \in DOMAIN up /\ i \in DOMAIN read
      BY <3>1, <2>3
    <3> QED BY <2>2, <3>1, <3>2
  <2>5. SubSeq(read, 1, Len(read)) = SubSeq(queued, 1, Len(read))
    BY <2>2, <2>3, <2>4
  <2> QED BY <2>4, <2>5 DEF IsPrefix
<1> QED BY <1>1, FramingInvariance, PTL
===============================================================================
