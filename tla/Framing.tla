------------------------------ MODULE Framing ------------------------------
(***************************************************************************)
(* How the receiver's bytes become frames and channels (proto_crsf.cpp):     *)
(* FrameParser, which is fed one byte at a time, and unpackChannels, one     *)
(* pass of its loop per step.  Beside each runs what it is held against: the *)
(* bytes since the parser last began to seek, with their remainder by the    *)
(* CRC's polynomial, and the payload itself.                                *)
(***************************************************************************)
EXTENDS Integers, Sequences

CONSTANTS
  Wire,         \* bytes the UART may deliver
  MaxLen,       \* kMaxLen: the largest length byte a frame may carry, 62
  Payloads      \* payloads of channel frames

Bytes == 0 .. 255

ASSUME FramingAssumption ==
  /\ Wire \subseteq Bytes /\ MaxLen \in 2 .. 255
  /\ Payloads \subseteq [1 .. 22 -> Bytes] /\ Payloads # {}

Sync     == 200      \* kSync
MinLen   == 2        \* kMinLen
Poly     == 213      \* 0xD5, the CRC's polynomial without its leading term

VARIABLES
  parser,       \* FrameParser: state, length, bytes gathered, their CRC, last result
  since,        \* history: the bytes since the parser last began to seek
  remainder,    \* history: what they leave from the third on, divided by the polynomial
  payload,      \* unpackChannels' argument
  taken,        \* bytes of it consumed
  unpacker      \* [acc, bits, out]

frameVars   == <<parser, since, remainder>>
channelVars == <<payload, taken, unpacker>>
-----------------------------------------------------------------------------
Bit(n, k) == (n \div 2^k) % 2

BitXor(a, b) ==
  LET At(k) == 2^k * ((Bit(a, k) + Bit(b, k)) % 2)
  IN  At(0) + At(1) + At(2) + At(3) + At(4) + At(5) + At(6) + At(7)

(* crc8: a byte is folded in and eight bits are shifted out.                 *)
ShiftOut(crc) == IF crc >= 128 THEN BitXor((2 * crc) % 256, Poly) ELSE 2 * crc

Twice(crc) == ShiftOut(ShiftOut(crc))

Crc8(crc, b) == Twice(Twice(Twice(Twice(BitXor(crc, b)))))

FreshParser == [st |-> "sync", len |-> 0, buf |-> <<>>, crc |-> 0, result |-> "none"]

Seek(p, result) == [p EXCEPT !.st = "sync", !.result = result]

(* Slip: the last byte gathered is left out of the CRC.                      *)
Gather_ShortCrc(p, b) ==
  [p EXCEPT !.buf = Append(@, b), !.result = "none",
            !.crc = IF Len(p.buf) < p.len - 2 THEN Crc8(@, b) ELSE @]

(* crc8 runs over buf_ when the last byte is there; here it is carried along. *)
Gather(p, b) == [p EXCEPT !.buf = Append(@, b), !.crc = Crc8(@, b), !.result = "none"]

(* FrameParser::feed.                                                        *)
FeedFrame(p, b) ==
  CASE p.st = "sync" -> [p EXCEPT !.st = IF b = Sync THEN "length" ELSE "sync", !.result = "none"]
    [] p.st = "length" /\ b \notin MinLen .. MaxLen -> Seek(p, "rejected")
    [] p.st = "length" /\ b \in MinLen .. MaxLen ->
         [FreshParser EXCEPT !.st = "payload", !.len = b]
    [] p.st = "payload" /\ Len(p.buf) < p.len - 1 -> Gather(p, b)
    [] OTHER -> Seek(p, IF p.crc = b THEN "frame" ELSE "rejected")

(* One bit of a long division: it is brought down, and the polynomial taken  *)
(* off where it goes in.                                                    *)
BringDown(r, bit) ==
  LET s == 2 * (r % 128) + bit IN IF r >= 128 THEN BitXor(s, Poly) ELSE s

DivideInto(r, b) ==
  LET Down(q, k) == BringDown(q, Bit(b, k))
  IN  Down(Down(Down(Down(Down(Down(Down(Down(r, 7), 6), 5), 4), 3), 2), 1), 0)

FrameInit == parser = FreshParser /\ since = <<>> /\ remainder = 0

ReceiveByte ==
  \E b \in Wire :
    /\ parser' = FeedFrame(parser, b)
    /\ since' = IF parser.st = "sync" THEN <<b>> ELSE Append(since, b)
    /\ remainder' = IF parser.st = "payload" THEN DivideInto(remainder, b) ELSE 0

(* RxDriver: a change of protocol or source starts with a fresh parser.      *)
DropFrame == parser' = FreshParser /\ since' = <<>> /\ remainder' = 0

FrameNext == ReceiveByte \/ DropFrame

FrameSpec == FrameInit /\ [][FrameNext]_frameVars
-----------------------------------------------------------------------------
FreshUnpacker == [acc |-> 0, bits |-> 0, out |-> <<>>]

ChannelInit == payload \in Payloads /\ taken = 0 /\ unpacker = FreshUnpacker

(* unpackChannels: 11-bit fields, least significant bit first.               *)
NextField(u) ==
  IF u.bits >= 11 /\ Len(u.out) < 16
  THEN [acc |-> u.acc \div 2048, bits |-> u.bits - 11, out |-> Append(u.out, u.acc % 2048)]
  ELSE u

(* Slip: the accumulator is sixteen bits wide.                               *)
Shifted_LosesHigh(u, b) == [u EXCEPT !.acc = (@ + b * 2^u.bits) % 65536, !.bits = @ + 8]

Shifted(u, b) == [u EXCEPT !.acc = @ + b * 2^u.bits, !.bits = @ + 8]

(* At most 10 + 8 bits are held, so that the inner loop runs once at most.   *)
TakeByte ==
  /\ taken < 22
  /\ taken' = taken + 1
  /\ unpacker' = NextField(Shifted(unpacker, payload[taken + 1]))
  /\ UNCHANGED payload

(* onFrame hands over the next frame's payload.                              *)
NextPayload == taken = 22 /\ payload' \in Payloads /\ taken' = 0 /\ unpacker' = FreshUnpacker

ChannelNext == TakeByte \/ NextPayload

ChannelSpec == ChannelInit /\ [][ChannelNext]_channelVars

(* ticksToUs, with the floor that C's truncating quotient needs help for.    *)
TicksToUs(ticks) ==
  LET n == 5 * (ticks - 992) + 4
  IN  1500 + (IF n >= 0 THEN n \div 8 ELSE -((-n + 7) \div 8))
-----------------------------------------------------------------------------
(* The bytes since the parser last began to seek are one whole frame: a sync *)
(* byte, a length in range, that many bytes, evenly divisible.              *)
WholeFrame ==
  /\ Len(since) >= 2
  /\ since[1] = Sync /\ since[2] \in MinLen .. MaxLen /\ Len(since) = since[2] + 2
  /\ remainder = 0

(* A frame is reported with the byte that completes one and with no other,   *)
(* its type and payload are what was sent, no more is ever gathered than the *)
(* buffer holds, and after an end, good or bad, the parser seeks again       *)
(* (FrameParser::feed, kMaxTypePayload).                                    *)
FramesAreWhole ==
  /\ parser.result = "frame" <=> WholeFrame
  /\ parser.result = "frame" => parser.buf = SubSeq(since, 3, Len(since) - 1)
  /\ Len(parser.buf) <= MaxLen - 1
  /\ parser.result # "none" => parser.st = "sync"

PayloadBit(j) == Bit(payload[(j \div 8) + 1], j % 8)

(* Channel k is bits 11k to 11k + 10 of the payload read as one number, all  *)
(* sixteen are there when the payload is used up, and the microseconds are   *)
(* 1500 + 5/8 (ticks - 992) to the nearest, ties up (unpackChannels,         *)
(* ticksToUs).                                                              *)
ChannelsAreSlices ==
  /\ taken = 22 => Len(unpacker.out) = 16
  /\ \A k \in 1 .. Len(unpacker.out) :
       LET ticks   == unpacker.out[k]
           eighths == 8 * TicksToUs(ticks) - (8 * 1500 + 5 * (ticks - 992))
       IN  /\ ticks \in 0 .. 2047 /\ eighths \in -3 .. 4
           /\ \A j \in 0 .. 10 : Bit(ticks, j) = PayloadBit(11 * (k - 1) + j)
=============================================================================
