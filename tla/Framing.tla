------------------------------- MODULE Framing --------------------------------
(***************************************************************************)
(* One connection of WsClient (net/client.cpp) byte by byte: the upgrade,  *)
(* the frames it writes on a non-blocking socket, and ReceiveLoop, which   *)
(* cuts frames out of whatever pieces recv returns.  At the other end the  *)
(* server's ws library reads by the same rules and is external.            *)
(*                                                                         *)
(* Lengths and header bytes are the real ones; payload bytes are all "{".  *)
(* Between two offsets of Cuts ReceiveLoop decides nothing, so a recv that *)
(* ends there is left out.                                                 *)
(***************************************************************************)
EXTENDS Integers, Sequences, SequencesExt

CONSTANTS
    Lens,         \* payload lengths
    ResponseLen,  \* bytes of the answer to the upgrade
    MaxUp,        \* bound: packets queued
    MaxDown,      \* bound: frames of the server
    Blocks        \* whether the send buffer may be full

\* SendAll hands a frame, of up to 14 bytes more than its payload, to send as an
\* int.
MaxLen == 2147483647

ASSUME FramingAssumption ==
    /\ \A len \in Lens : len \in Nat /\ len + 14 <= MaxLen
    /\ ResponseLen \in Nat \ {0} /\ Blocks \in BOOLEAN

VARIABLES
    phase,    \* "upgrade", "open" (ReceiveLoop runs), "ended"
    queue,    \* sendQueue_: lengths of the packets
    local,    \* the part of it FlushSendQueue has taken
    up,       \* frames written, each with the bytes that got out
    down,     \* frames the server has written
    got,      \* bytes of them recv has returned
    pos,      \* how many of those are parsed: rx begins there
    handled,  \* packets given to onPacket_
    \* the server
    spos,     \* bytes it has read
    read,     \* packets it has read
    \* history
    queued,   \* packets queued in all
    cut       \* whether a send has stopped in the middle

sendVars == <<queue, local, up>>
recvVars == <<down, got, pos, handled>>
peerVars == <<spos, read>>
vars     == <<phase, sendVars, recvVars, peerVars, queued, cut>>

Text == 1
Close == 8

(***************************************************************************)
(* Writing: SendFrame.                                                     *)
(***************************************************************************)
\* Mutant: an off-by-one at the end of the 7-bit lengths.
LengthBytesOff(len, mask) ==
    IF len < 127 THEN <<mask + len>>
    ELSE IF len <= 65535 THEN <<mask + 126, len \div 256, len % 256>>
    ELSE <<mask + 127, 0, 0, 0, 0, len \div 16777216,
           (len \div 65536) % 256, (len \div 256) % 256, len % 256>>

\* 7 bits, 16 bits, or 64, behind the mask bit.
LengthBytes(len, mask) ==
    IF len < 126 THEN <<mask + len>>
    ELSE IF len <= 65535 THEN <<mask + 126, len \div 256, len % 256>>
    ELSE <<mask + 127, 0, 0, 0, 0, len \div 16777216,
           (len \div 65536) % 256, (len \div 256) % 256, len % 256>>

MaskBytes == <<17, 18, 19, 20>>

\* FIN and opcode, the length, and the mask if there is one.
Header(op, len, masked) ==
    IF masked THEN <<128 + op>> \o LengthBytes(len, 128) \o MaskBytes
    ELSE <<128 + op>> \o LengthBytes(len, 0)

(***************************************************************************)
(* A stream is a sequence of frames, each with the place of its first byte *)
(* and the number of bytes that are there.                                 *)
(***************************************************************************)
Bytes(st) == IF st = <<>> THEN 0 ELSE Last(st).at + Last(st).bytes

FrameAt(p, op, len, masked) ==
    LET h == Header(op, len, masked) IN
    [at |-> p, header |-> h, len |-> len, bytes |-> Len(h) + len]

IsText(f) == f.header[1] = 128 + Text

\* The byte after the first p: of a header, or of a payload.
ByteAt(st, p) ==
    LET f == CHOOSE f \in ToSet(st) : f.at <= p /\ p < f.at + f.bytes
    IN  IF p - f.at < Len(f.header) THEN f.header[p - f.at + 1] ELSE 123

Incomplete == [op |-> 0, len |-> 0, size |-> 0]

\* Mutant: the header is taken as soon as two bytes are there.
HeaderLenShort(l7) == 2

\* Bytes before the mask, for the 7 bits of the length.
HeaderLen(l7) == CASE l7 = 126 -> 4 [] l7 = 127 -> 10 [] OTHER -> 2

Arrived(len, rest) == len <= rest

\* The loop body of ReceiveLoop on avail bytes from p.  MaxLen stands for the
\* lengths beyond it, too.
Parse(st, p, avail) ==
    LET B(i)   == ByteAt(st, p + i)
        l7     == B(1) % 128
        ext    == HeaderLen(l7)
        len    == CASE l7 < 126 -> l7
                    [] l7 = 126 -> B(2) * 256 + B(3)
                    [] OTHER    -> IF (\E i \in 2..5 : B(i) # 0) \/ B(6) >= 128 THEN MaxLen
                                   ELSE ((B(6) * 256 + B(7)) * 256 + B(8)) * 256 + B(9)
        size   == ext + (IF B(1) >= 128 THEN 4 ELSE 0)
    IN  IF avail < 2 \/ avail < HeaderLen(l7) \/ avail < size THEN Incomplete
        ELSE IF ~Arrived(len, avail - size) THEN Incomplete
        ELSE [op |-> B(0) % 16, len |-> len, size |-> size + len]

-------------------------------------------------------------------------------
\* Every variable has its type; nothing is parsed twice or before it is there.
FramingTypeOK ==
    /\ phase \in {"upgrade", "open", "ended"}
    /\ queue \in Seq(Lens) /\ local \in Seq(Lens)
    /\ \A f \in ToSet(up \o down) : f.bytes \in 0..(Len(f.header) + f.len) /\ f.len \in Lens \cup {0}
    /\ 0 <= pos /\ pos <= got /\ got <= ResponseLen + Bytes(down)
    /\ 0 <= spos /\ spos <= Bytes(up)
    /\ handled \in Seq(Nat) /\ read \in Seq(Nat) /\ queued \in Seq(Lens)
    /\ cut \in BOOLEAN

FramingInit ==
    /\ phase = "upgrade"
    /\ queue = <<>> /\ local = <<>> /\ up = <<>>
    /\ down = <<>> /\ got = 0 /\ pos = 0 /\ handled = <<>>
    /\ spos = 0 /\ read = <<>>
    /\ queued = <<>>
    /\ cut = FALSE

(***************************************************************************)
(* The client.                                                             *)
(***************************************************************************)
\* Offsets in a frame a recv may stop at: in its header, behind it and at the
\* end.
Cuts(f) == {1, 2, Len(f.header) - 1, Len(f.header), f.bytes - 1, f.bytes}

\* Where the next recv may stop, in bytes of the frames.
RecvEnds ==
    UNION {{down[i].at + c : c \in Cuts(down[i])} : i \in DOMAIN down}

\* Handshake: recv until the blank line.  What comes behind it in the same
\* piece is dropped with resp.
UpgradeRecv ==
    /\ phase = "upgrade"
    /\ \E n \in (1..ResponseLen) \cup {ResponseLen + e : e \in RecvEnds} :
          /\ got < n
          /\ got' = n
          /\ pos' = n
          /\ phase' = IF n >= ResponseLen THEN "open" ELSE phase
    /\ UNCHANGED <<sendVars, down, handled, peerVars, queued, cut>>

\* A wrong or overlong answer, or the end of the stream.
UpgradeFails ==
    /\ phase = "upgrade"
    /\ phase' = "ended"
    /\ UNCHANGED <<sendVars, recvVars, peerVars, queued, cut>>

\* The frame at the start of rx.
Foremost == Parse(down, pos - ResponseLen, got - pos)

\* WsClient::Send, from any thread and at any time.
Send(len) ==
    /\ Len(queued) < MaxUp
    /\ queue' = Append(queue, len)
    /\ queued' = Append(queued, len)
    /\ UNCHANGED <<phase, local, up, recvVars, peerVars, cut>>

\* Mutant: one packet is taken, and the others go with the old queue.
TakesOne == local' = <<Head(queue)>>

TakesAll == local' = queue

\* FlushSendQueue takes all of the queue at the top of ReceiveLoop.
TakeQueue ==
    /\ phase = "open"
    /\ Foremost = Incomplete
    /\ local = <<>> /\ queue # <<>>
    /\ TakesAll
    /\ queue' = <<>>
    /\ UNCHANGED <<phase, up, recvVars, peerVars, queued, cut>>

\* SendFrame through SendAll: a full buffer stops it after some of the bytes
\* or before the first, and FlushSendQueue goes on with the next packet.
SendFrame ==
    /\ phase = "open"
    /\ local # <<>>
    /\ local' = Tail(local)
    /\ LET f == FrameAt(Bytes(up), Text, Head(local), TRUE) IN
       \E n \in IF Blocks THEN {0, Len(f.header), f.bytes} ELSE {f.bytes} :
          /\ up' = Append(up, [f EXCEPT !.bytes = n])
          /\ cut' = (cut \/ n < f.bytes)
    /\ UNCHANGED <<phase, queue, recvVars, peerVars, queued>>

Recv ==
    /\ phase = "open"
    /\ local = <<>>
    /\ Foremost = Incomplete
    /\ \E e \in RecvEnds :
          /\ got < ResponseLen + e
          /\ got' = ResponseLen + e
    /\ UNCHANGED <<phase, sendVars, down, pos, handled, peerVars, queued, cut>>

\* One pass of the parse loop: a packet to onPacket_, or the end.
HandlesFrame ==
    /\ phase = "open"
    /\ local = <<>>
    /\ Foremost # Incomplete
    /\ pos' = pos + Foremost.size
    /\ IF Foremost.op = Close
       THEN phase' = "ended" /\ UNCHANGED handled
       ELSE /\ handled' = IF Foremost.op <= 2 THEN Append(handled, Foremost.len) ELSE handled
            /\ UNCHANGED phase
    /\ UNCHANGED <<sendVars, down, got, peerVars, queued, cut>>

\* The socket is closed, the stream ends, or recv fails: rx is gone.
LoopEnds ==
    /\ phase = "open"
    /\ local = <<>>
    /\ Foremost = Incomplete
    /\ phase' = "ended"
    /\ UNCHANGED <<sendVars, recvVars, peerVars, queued, cut>>

(***************************************************************************)
(* The server.  It says nothing before it has read a HANDSHAKE.            *)
(***************************************************************************)
\* Mutant: a greeting of its own.
ServerGreets == Len(down) < MaxDown

ServerAnswers == Len(down) < MaxDown /\ read # <<>>

ServerSends ==
    /\ ServerAnswers
    /\ \A i \in DOMAIN down : IsText(down[i])
    /\ \/ \E len \in Lens : down' = Append(down, FrameAt(Bytes(down), Text, len, FALSE))
       \/ down' = Append(down, FrameAt(Bytes(down), Close, 0, FALSE))
    /\ UNCHANGED <<phase, sendVars, got, pos, handled, peerVars, queued, cut>>

\* A frame that is no text ends the connection at the library, and it reads
\* no more.
ServerReads ==
    LET f == Parse(up, spos, Bytes(up) - spos) IN
    /\ f.op = Text
    /\ spos' = spos + f.size
    /\ read' = Append(read, f.len)
    /\ UNCHANGED <<phase, sendVars, recvVars, queued, cut>>

FramingNext ==
    \/ UpgradeRecv \/ UpgradeFails
    \/ \E len \in Lens : Send(len)
    \/ TakeQueue \/ SendFrame \/ Recv \/ HandlesFrame \/ LoopEnds
    \/ ServerSends \/ ServerReads

\* The worker thread runs while the connection lasts, and the server reads.
FramingSpec ==
    /\ FramingInit
    /\ [][FramingNext]_vars
    /\ WF_vars(UpgradeRecv) /\ WF_vars(TakeQueue) /\ WF_vars(SendFrame)
    /\ WF_vars(HandlesFrame) /\ WF_vars(ServerReads)

-------------------------------------------------------------------------------
(***************************************************************************)
(* Properties.                                                             *)
(***************************************************************************)
\* However TCP cuts the stream, in a header, a length or between two frames,
\* onPacket_ gets every packet of the server once and in order, and a packet
\* whose last byte is there is not left in rx when ReceiveLoop goes back to
\* recv.
PacketsComeWhole ==
    /\ Len(handled) <= Len(down)
    /\ \A i \in DOMAIN handled : IsText(down[i]) /\ handled[i] = down[i].len
    /\ phase = "open" /\ Foremost = Incomplete =>
          \A i \in DOMAIN down :
              IsText(down[i]) /\ down[i].at + down[i].bytes <= got - ResponseLen =>
                  i <= Len(handled)

\* As long as no send is cut short, the server reads what Send queued, in
\* order and with its length, whatever form of header the length takes.
QueueIsReadInOrder == cut \/ IsPrefix(read, queued)

\* Without the condition: FlushSendQueue does not look at what SendFrame
\* returns, and half a frame on the wire swallows the next.
QueueIsReadAnyway == IsPrefix(read, queued)

\* What is queued before or during the connection is read by the server in
\* the end, unless the connection ends or a send is cut short.
QueueIsSent ==
    \A n \in 1..MaxUp : Len(queued) >= n ~> Len(read) >= n \/ phase = "ended" \/ cut

===============================================================================
