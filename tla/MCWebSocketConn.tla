--------------------------- MODULE MCWebSocketConn ---------------------------
(* Small streams for TLC: requests with and without a key and one that     *)
(* never ends, frames of every kind; one payload and one burst are longer  *)
(* than the buffer the session reads into, and one record than recv()'s.   *)
EXTENDS WebSocketConn, Codec, SequencesExt

Header(k) == [i \in 1..k |-> [part |-> "header", op |-> "key", n |-> 0]]
Request(key) == Append(Header(1), [part |-> "blank", op |-> key, n |-> 0])

WsFrame(op, size) ==
    [i \in 1..(size + 1) |->
        [part |-> IF i = 1 THEN "head" ELSE "body", op |-> op,
         n |-> IF i = 1 THEN size ELSE i - 1]]

Frames(s) == Request("key") \o FlattenSeq(s)

MCInputs ==
    { Header(5), Request("nokey") \o WsFrame("data", 1),
      Frames(<<WsFrame("data", 2), WsFrame("data", 1), WsFrame("ping", 0)>>),
      Frames(<<WsFrame("data", 2), WsFrame("data", 2)>>),
      Frames(<<WsFrame("data", 4)>>),
      Frames(<<WsFrame("ping", 1), WsFrame("data", 1), WsFrame("unknown", 0),
               WsFrame("ping", 0)>>),
      Frames(<<WsFrame("data", 1), WsFrame("close", 0), WsFrame("data", 1)>>),
      Frames(<<WsFrame("pong", 0), WsFrame("data", 1), WsFrame("bad", 1)>>) }

(* Frames right behind the request: one message, and one that is longer    *)
(* than the buffer the session reads into.                                 *)
MCEarlyInputs ==
    { Frames(<<WsFrame("data", 1), WsFrame("ping", 0)>>),
      Frames(<<WsFrame("data", 4), WsFrame("close", 0)>>) }

MCNone == {}

-----------------------------------------------------------------------------
(* The codecs over small inputs.                                           *)
Bit(a, i) == (a \div 2^i) % 2
ByteXor(a, b) ==
    FoldSet(LAMBDA i, sum : sum + 2^i * ((Bit(a, i) + Bit(b, i)) % 2), 0, 0..7)

Firsts  == {1, 9, 129, 130, 137}          \* FIN or not, data or control
Seconds == {0, 1, 2, 126, 127, 128, 129, 253, 254}
Cuts    == UNION {[1..k -> {0, 1, 2}] : k \in 0..5}
Received == {<< >>} \cup {<<a>> : a \in Firsts}
              \cup {<<a, b>> \o s : a \in Firsts, b \in Seconds, s \in Cuts}

(* How a frame is cut does not matter: a verdict stays what it is.         *)
ASSUME CutsDoNotMatter ==
    \A p \in Received, c \in {0, 1, 2} :
        decodeFrame(p, TRUE) # "NeedMore" =>
            /\ decodeFrame(Append(p, c), TRUE) = decodeFrame(p, TRUE)
            /\ Consumed(Append(p, c)) = Consumed(p)

(* decodeFrame() undoes encodeFrame(), and masking, for lengths around     *)
(* each change of the length's format.                                     *)
Pattern(n) == [i \in 1..n |-> (7 * i) % 256]

ASSUME FramesComeBack ==
    \A n \in {0, 1, 125, 126, 127, 255, 256, 300}, op \in {1, 2} :
        /\ LET p == encodeFrame(op, Pattern(n)) \o <<1, 2, 3>>
            IN  /\ decodeFrame(p, FALSE) = "Ok" /\ decodeFrame(p, TRUE) = "Error"
                /\ Consumed(p) = Len(p) - 3
                /\ Opcode(p) = op /\ Fin(p) /\ Payload(p) = Pattern(n)
        /\ LET p == clientFrame(op, Pattern(n), <<1, 20, 255, 128>>)
            IN  /\ decodeFrame(p, TRUE) = "Ok" /\ Consumed(p) = Len(p)
                /\ Opcode(p) = op /\ Payload(p) = Pattern(n)

ASSUME HeadersComeBack ==
    \A t, f, l \in {0, 1, 255, 256, 4660, 65535} :
        LET h == [type |-> t, flags |-> f, length |-> l]
            p == buildHeader(h)
        IN  Len(p) = kHeaderSize /\ DecodesHeader(p) /\ decodeHeader(p) = h

ASSUME TokensCompare ==
    \A a, b \in UNION {[1..k -> {0, 1, 255}] : k \in 0..3} :
        constantTimeEqual(a, b) <=> a = b
=============================================================================
