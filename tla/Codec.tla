-------------------------------- MODULE Codec --------------------------------
(***************************************************************************)
(* The codecs as functions of byte sequences: the SEC1 header of           *)
(* net/Protocol.h, the WebSocket frames of net/WebSocketProto.h and the    *)
(* comparison of tokens of net/Auth.h.  WebSocketConn and ClientSession    *)
(* take a whole header as one step; what makes that right is stated and    *)
(* proved of the functions here (WebSocketConn_proofs).                    *)
(*                                                                         *)
(* A sequence that is shorter than what it announces is what a read has    *)
(* brought so far.  The C++ code counts from 0, this module from 1.        *)
(***************************************************************************)
EXTENDS Integers, Sequences

CONSTANTS
    MaxPayload, \* decodeFrame's maxPayload, 16 MiB
    Xor(_, _)   \* the ^ of two bytes

Octet == 0..255

ASSUME MaxPayloadAssumption == MaxPayload \in Nat /\ MaxPayload >= 125
ASSUME XorAssumption ==
    \A a, b \in Octet :
        /\ Xor(a, b) \in Octet /\ Xor(Xor(a, b), b) = a
        /\ Xor(a, b) = 0 <=> a = b

-----------------------------------------------------------------------------
(* Big-endian integers.  The arguments of get... start at the byte p[i].   *)
putU16(v) == <<(v \div 256) % 256, v % 256>>
putU32(v) == <<(v \div 16777216) % 256, (v \div 65536) % 256>> \o putU16(v)
getU16(p, i) == p[i] * 256 + p[i + 1]
getU32(p, i) == getU16(p, i) * 65536 + getU16(p, i + 2)

(* 0x53454331 *)
kMagic == 1397048113
kHeaderSize == 12

(* buildMessage(), without the payload that follows, and decodeHeader().   *)
buildHeader(h) ==
    putU32(kMagic) \o putU16(h.type) \o putU16(h.flags) \o putU32(h.length)

DecodesHeader(p) == Len(p) >= kHeaderSize /\ getU32(p, 1) = kMagic

decodeHeader(p) ==
    [type |-> getU16(p, 5), flags |-> getU16(p, 7), length |-> getU32(p, 9)]

-----------------------------------------------------------------------------
(* encodeFrame(): FIN is set, nothing is masked.  The length of 64 bits    *)
(* has four leading zeros for every length a terminal can reach.           *)
lengthField(n) ==
    CASE n < 126                -> <<n>>
      [] n >= 126 /\ n <= 65535 -> <<126>> \o putU16(n)
      [] n > 65535              -> <<127, 0, 0, 0, 0>> \o putU32(n)

encodeFrame(op, data) == <<128 + (op % 16)>> \o lengthField(Len(data)) \o data

(* What a client sends: the same with a mask (RFC 6455, in the browser).   *)
maskWith(data, mask) == [k \in 1..Len(data) |-> Xor(data[k], mask[((k - 1) % 4) + 1])]

clientFrame(op, data, mask) ==
    LET field == lengthField(Len(data))
    IN  <<128 + (op % 16), 128 + field[1]>> \o SubSeq(field, 2, Len(field))
            \o mask \o maskWith(data, mask)

(* decodeFrame(): the fields, as far as the bytes are there ...            *)
Fin(p)     == p[1] >= 128
Opcode(p)  == p[1] % 16
Control(p) == Opcode(p) >= 8
Masked(p)  == p[2] >= 128
Short(p)   == p[2] % 128

LenSize(p) ==
    CASE Short(p) = 126 -> 2 [] Short(p) = 127 -> 8 [] Short(p) \notin {126, 127} -> 0

PayloadLen(p) ==
    CASE Short(p) = 126            -> getU16(p, 3)
      [] Short(p) = 127            -> getU32(p, 3) * 65536 * 65536 + getU32(p, 7)
      [] Short(p) \notin {126, 127} -> Short(p)

MaskAt(p)    == 2 + LenSize(p)
PayloadAt(p) == MaskAt(p) + IF Masked(p) THEN 4 ELSE 0
Consumed(p)  == PayloadAt(p) + PayloadLen(p)

Payload(p) ==
    LET data == SubSeq(p, PayloadAt(p) + 1, Consumed(p))
    IN  IF Masked(p)
          THEN maskWith(data, SubSeq(p, MaskAt(p) + 1, MaskAt(p) + 4)) ELSE data

(* ... and the verdict.                                                    *)
HeaderIn(p) == Len(p) >= 2 /\ Len(p) >= MaskAt(p)

Refused(p, requireMasked) ==
    \/ PayloadLen(p) > MaxPayload
    \/ Control(p) /\ (~Fin(p) \/ PayloadLen(p) > 125)
    \/ requireMasked /\ ~Masked(p)

decodeFrame(p, requireMasked) ==
    CASE ~HeaderIn(p)                              -> "NeedMore"
      [] HeaderIn(p) /\ Refused(p, requireMasked)  -> "Error"
      [] HeaderIn(p) /\ ~Refused(p, requireMasked) ->
             IF Len(p) < Consumed(p) THEN "NeedMore" ELSE "Ok"

-----------------------------------------------------------------------------
(* constantTimeEqual(): every byte expected is compared with one of the    *)
(* bytes got, taken round and round, and the differences are collected.    *)
constantTimeEqual(expected, got) ==
    LET byte(i) == IF got = << >> THEN 0 ELSE got[((i - 1) % Len(got)) + 1]
    IN  /\ Len(expected) = Len(got)
        /\ \A i \in 1..Len(expected) : Xor(expected[i], byte(i)) = 0
=============================================================================
