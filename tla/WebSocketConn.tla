---------------------------- MODULE WebSocketConn ----------------------------
(***************************************************************************)
(* The WebSocket transport of one session (net/WebSocketConn.cpp over      *)
(* net/IByteStream.h or net/TlsConn.cpp): the HTTP upgrade, the de-framing *)
(* of what the peer sends, the answers to its control frames, and the      *)
(* poll() of ClientSession::run() that decides when recv() is called.      *)
(*                                                                         *)
(* A byte is the number of its place in what the peer sends, so that a     *)
(* lost, repeated or reordered one shows; what it is can be looked up in   *)
(* "wire".  A frame is one head byte, standing for its 2 to 14 header      *)
(* bytes, and its payload; masking and base64 are left out.                *)
(* Definitions named Mut... are variants with a plausible mistake that no  *)
(* specification uses.                                                     *)
(***************************************************************************)
EXTENDS Integers, Sequences, FiniteSets

CONSTANTS
    Inputs,      \* what a peer that waits for the 101 sends: sequences of Byte
    EarlyInputs, \* the same of one that sends frames right behind its request
    HsCap,       \* size of the buffer handshake() reads into, 2048
    ReadCap,     \* size of the buffer recv() reads into, 8192
    Cap,         \* size of the buffer the session passes to recv(), 8192
    MaxHeader,   \* the header flood limit, 16384
    MaxSegment,  \* bound: bytes that become readable in one step
    MaxPush      \* bound: SEC1 messages the session sends

(* Frames by what drainFrames() does with them.  "bad" is whatever         *)
(* decodeFrame refuses from the header alone: not masked, too long, or a   *)
(* fragmented or long control frame.                                       *)
Ops == {"data", "ping", "pong", "close", "bad", "unknown"}

(* "header" is a byte of the HTTP request, "blank" its last, which says    *)
(* in "op" if the request had a Sec-WebSocket-Key.  A "head" carries the   *)
(* payload's length in n, a "body" byte its place in the payload.          *)
Byte == [part : {"header", "blank", "head", "body"},
         op : Ops \cup {"key", "nokey"}, n : Nat]

(* Nothing but frames behind the request.                                  *)
Framed(w) ==
    \A p \in DOMAIN w :
        /\ w[p].part \in {"header", "blank"} =>
              \A q \in 1..(p - 1) : w[q].part = "header"
        /\ w[p].part = "blank" /\ p < Len(w) => w[p + 1].part = "head"
        /\ w[p].part = "head" =>
              /\ \A j \in 1..w[p].n :
                    p + j <= Len(w) =>
                        w[p + j] = [part |-> "body", op |-> w[p].op, n |-> j]
              /\ p + w[p].n < Len(w) => w[p + w[p].n + 1].part = "head"

ASSUME InputsAssumption ==
    \A w \in Inputs \cup EarlyInputs : w \in Seq(Byte) /\ Framed(w) /\ w # << >>
                      /\ w[1].part = "header"
ASSUME CapsAssumption ==
    /\ {HsCap, ReadCap, Cap, MaxSegment} \subseteq Nat \ {0}
    /\ MaxHeader \in Nat /\ MaxPush \in Nat

VARIABLES
    wire,      \* what the peer sends, all of it
    early,     \* the peer does not wait for the 101
    tls,       \* the byte stream is a TlsByteStream
    sentTo,    \* number of bytes sent so far
    eof,       \* the peer has closed its side
    sock,      \* readable bytes in the kernel: what poll() looks at
    recEnd,    \* recEnd[p]: the last byte of the TLS record p is in
    ssl,       \* bytes OpenSSL has decrypted and not handed out
    phase,     \* where the session thread is
    req,       \* handshake(): the local req
    rx,        \* WebSocketConn::rx_
    app,       \* WebSocketConn::app_
    closed,    \* WebSocketConn::closed_
    delivered, \* what recv() has returned so far
    out,       \* messages written to the peer
    lossy      \* history: some write has failed

peerVars == <<wire, early, tls, sentTo, eof, recEnd>>
connVars == <<rx, app, closed>>
outVars  == <<out, lossy>>
vars == <<peerVars, sock, ssl, phase, req, connVars, delivered, outVars>>

Bytes == 1..Len(wire)

TypeOK ==
    /\ wire \in Inputs \cup EarlyInputs
    /\ early \in BOOLEAN /\ tls \in BOOLEAN /\ eof \in BOOLEAN
    /\ closed \in BOOLEAN /\ lossy \in BOOLEAN
    /\ sentTo \in 0..Len(wire)
    /\ sock \in Seq(Bytes) /\ recEnd \in Seq(Bytes) /\ ssl \in Seq(Bytes)
    /\ req \in Seq(Bytes) /\ rx \in Seq(Bytes)
    /\ app \in Seq(Bytes) /\ delivered \in Seq(Bytes)
    /\ phase \in {"handshake", "reply", "poll", "drain", "serve", "over"}
    /\ out \in Seq([msg : {"101", "pong", "close", "sec1"}, at : Nat])

Init ==
    /\ \/ early = TRUE /\ wire \in EarlyInputs
       \/ early = FALSE /\ wire \in Inputs
    /\ tls \in BOOLEAN
    /\ sentTo = 0 /\ eof = FALSE
    /\ sock = << >> /\ recEnd = << >> /\ ssl = << >>
    /\ phase = "handshake" /\ req = << >>
    /\ rx = << >> /\ app = << >> /\ closed = FALSE
    /\ delivered = << >>
    /\ out = << >> /\ lossy = FALSE

-----------------------------------------------------------------------------
(* The first k elements of s, and the others.                              *)
Least(i, j) == IF i <= j THEN i ELSE j
First(s, k) == SubSeq(s, 1, Least(k, Len(s)))
Rest(s, k)  == SubSeq(s, Least(k, Len(s)) + 1, Len(s))

(* The peer and the network: the next bytes become readable.  Under TLS    *)
(* they are one record.                                                    *)
Upgraded == \E i \in DOMAIN out : out[i].msg = "101"

PeerSends ==
    \E k \in 1..MaxSegment :
        /\ ~eof /\ sentTo + k <= Len(wire)
        /\ early \/ Upgraded
             \/ \A p \in 1..(sentTo + k) : wire[p].part \in {"header", "blank"}
        /\ sock' = sock \o [i \in 1..k |-> sentTo + i]
        /\ recEnd' = IF tls THEN recEnd \o [i \in 1..k |-> sentTo + k] ELSE recEnd
        /\ sentTo' = sentTo + k
        /\ UNCHANGED <<wire, early, tls, eof, ssl, phase, req, connVars, delivered, outVars>>

PeerCloses ==
    /\ ~eof /\ eof' = TRUE
    /\ UNCHANGED <<wire, early, tls, sentTo, recEnd, sock, ssl, phase, req, connVars,
                   delivered, outVars>>

-----------------------------------------------------------------------------
(* IByteStream::read.  A raw socket gives what the kernel holds.  TLS      *)
(* first gives what is left of the current record, else decrypts the next  *)
(* one; what the caller's buffer cannot take stays inside OpenSSL, where   *)
(* poll() does not see it.                                                 *)
RecordEnd == IF tls THEN recEnd[Head(sock)] - Head(sock) + 1 ELSE Len(sock)

Readable == ssl # << >> \/ sock # << >>

Incoming == IF ssl # << >> THEN ssl ELSE SubSeq(sock, 1, RecordEnd)

Read(cap) == First(Incoming, cap)

Consume(cap) ==
    LET behind == IF ssl # << >> THEN sock ELSE SubSeq(sock, RecordEnd + 1, Len(sock))
    IN  IF tls
          THEN /\ ssl' = Rest(Incoming, cap)
               /\ sock' = behind
          ELSE /\ sock' = Rest(sock, cap)
               /\ UNCHANGED ssl

(* One write of a message.  A write that fails may leave a part of it; the *)
(* peer can do nothing with that, and out holds whole messages only.       *)
WriteOk(m) ==
    /\ out' = Append(out, m)
    /\ UNCHANGED lossy

WriteFails ==
    /\ lossy' = TRUE
    /\ UNCHANGED out

(* sendControl: drainFrames() does not look at its result.                 *)
Reply(msg, p) == WriteOk([msg |-> msg, at |-> p]) \/ WriteFails

-----------------------------------------------------------------------------
(* handshake(): blocking reads until the blank line.                       *)
BlankIn(s) == \E i \in DOMAIN s : wire[s[i]].part = "blank"

HandshakeRead ==
    /\ phase = "handshake" /\ ~BlankIn(req)
    /\ Len(req) <= MaxHeader
    /\ Readable
    /\ req' = req \o Read(HsCap) /\ Consume(HsCap)
    /\ UNCHANGED <<peerVars, phase, connVars, delivered, outVars>>

Over ==
    /\ phase' = "over"
    /\ UNCHANGED <<peerVars, sock, ssl, req, connVars, delivered, outVars>>

HeaderFlood ==
    /\ phase = "handshake" /\ ~BlankIn(req)
    /\ Len(req) > MaxHeader
    /\ Over

(* The peer closed, or nothing came for the 5 s of SO_RCVTIMEO; the TLS    *)
(* handshake may have failed before that.                                  *)
HandshakeFails ==
    /\ phase = "handshake" /\ ~BlankIn(req)
    /\ ~Readable
    /\ Over

NoKey ==
    /\ phase = "handshake"
    /\ \E i \in DOMAIN req : wire[req[i]].part = "blank" /\ wire[req[i]].op = "nokey"
    /\ Over

(* The bytes behind the blank line are frames already.                     *)
SplitRequest ==
    /\ phase = "handshake"
    /\ \E i \in DOMAIN req :
          /\ wire[req[i]].part = "blank" /\ wire[req[i]].op = "key"
          /\ rx' = SubSeq(req, i + 1, Len(req))
    /\ req' = << >>
    /\ phase' = "reply"
    /\ UNCHANGED <<peerVars, sock, ssl, app, closed, delivered, outVars>>

Send101 ==
    /\ phase = "reply"
    /\ \/ WriteOk([msg |-> "101", at |-> 0]) /\ phase' = "poll"
       \/ WriteFails /\ phase' = "over"
    /\ UNCHANGED <<peerVars, sock, ssl, req, connVars, delivered>>

-----------------------------------------------------------------------------
(* recv(), called when poll() reports POLLIN.  With bytes left in app_ it  *)
(* is a Serve, below.                                                      *)
Pollin == sock # << >> \/ eof

RecvClosed ==
    /\ phase = "poll" /\ Pollin /\ app = << >>
    /\ closed \/ ~Readable
    /\ Over

RecvRead ==
    /\ phase = "poll" /\ Pollin /\ app = << >> /\ ~closed
    /\ Readable
    /\ rx' = rx \o Read(ReadCap) /\ Consume(ReadCap)
    /\ phase' = "drain"
    /\ UNCHANGED <<peerVars, req, app, closed, delivered, outVars>>

(* drainFrames(): one iteration per step.                                  *)
Head1 == wire[Head(rx)]

Decodable == rx # << >> /\ (Head1.op = "bad" \/ Len(rx) > Head1.n)

DrainStops ==
    /\ phase = "drain" /\ ~Decodable
    /\ phase' = "serve"
    /\ UNCHANGED <<peerVars, sock, ssl, req, connVars, delivered, outVars>>

DrainBad ==
    /\ phase = "drain" /\ Decodable /\ Head1.op = "bad"
    /\ closed' = TRUE /\ phase' = "serve"
    /\ UNCHANGED <<peerVars, sock, ssl, req, rx, app, delivered, outVars>>

Frame(op) ==
    /\ phase = "drain" /\ Decodable /\ Head1.op = op
    /\ rx' = Rest(rx, 1 + Head1.n)
    /\ UNCHANGED <<peerVars, sock, ssl, req, delivered>>

(* Mutant: one message per recv(); what is behind it stays in rx_.         *)
MutDrainData ==
    /\ Frame("data")
    /\ app' = app \o SubSeq(rx, 2, 1 + Head1.n)
    /\ phase' = "serve"
    /\ UNCHANGED <<closed, outVars>>

DrainData ==
    /\ Frame("data")
    /\ app' = app \o SubSeq(rx, 2, 1 + Head1.n)
    /\ UNCHANGED <<phase, closed, outVars>>

(* Mutant: the answer is left out while there are bytes to serve.          *)
MutDrainPing ==
    /\ Frame("ping")
    /\ IF app = << >> THEN Reply("pong", Head(rx)) ELSE UNCHANGED outVars
    /\ UNCHANGED <<phase, app, closed>>

DrainPing ==
    /\ Frame("ping")
    /\ Reply("pong", Head(rx))
    /\ UNCHANGED <<phase, app, closed>>

DrainClose ==
    /\ Frame("close")
    /\ Reply("close", Head(rx))
    /\ closed' = TRUE /\ phase' = "serve"
    /\ UNCHANGED app

DrainOther ==
    /\ Frame("pong") \/ Frame("unknown")
    /\ UNCHANGED <<phase, app, closed, outVars>>

(* Mutant: what does not fit the caller's buffer is thrown away.           *)
MutServe ==
    /\ phase = "serve" \/ (phase = "poll" /\ Pollin)
    /\ app # << >>
    /\ delivered' = delivered \o First(app, Cap)
    /\ app' = << >>
    /\ phase' = "poll"
    /\ UNCHANGED <<peerVars, sock, ssl, req, rx, closed, outVars>>

(* As much of app_ as fits: the first thing recv() does, without a read,   *)
(* and the last thing after one.  With app_ empty it returns 0 or EAGAIN.  *)
Serve ==
    /\ phase = "serve" \/ (phase = "poll" /\ Pollin)
    /\ app # << >>
    /\ delivered' = delivered \o First(app, Cap)
    /\ app' = Rest(app, Cap)
    /\ phase' = "poll"
    /\ UNCHANGED <<peerVars, sock, ssl, req, rx, closed, outVars>>

ServeEnd ==
    /\ phase = "serve" /\ app = << >> /\ closed
    /\ Over

ServeNothing ==
    /\ phase = "serve" /\ app = << >> /\ ~closed
    /\ phase' = "poll"
    /\ UNCHANGED <<peerVars, sock, ssl, req, connVars, delivered, outVars>>

(* send(): one SEC1 message of the session, in one binary message.         *)
SessionSends ==
    /\ phase = "poll"
    /\ \E k \in 1..MaxPush :
          /\ \A i \in DOMAIN out : out[i].msg = "sec1" => out[i].at < k
          /\ WriteOk([msg |-> "sec1", at |-> k])
    /\ UNCHANGED <<peerVars, sock, ssl, phase, req, connVars, delivered>>

(* The session leaves its loop: stop_, the authentication deadline, a bad  *)
(* message or a failed send.                                               *)
SessionEnds == phase = "poll" /\ Over

-----------------------------------------------------------------------------
Drain == DrainStops \/ DrainBad \/ DrainData \/ DrainPing \/ DrainClose \/ DrainOther

(* What the session thread does by itself, whatever the peer does.         *)
Terminal ==
    \/ HandshakeRead \/ HeaderFlood \/ NoKey \/ SplitRequest \/ Send101
    \/ RecvClosed \/ RecvRead \/ Drain
    \/ Serve \/ ServeEnd \/ ServeNothing

Next ==
    \/ PeerSends \/ PeerCloses
    \/ Terminal
    \/ HandshakeFails \/ SessionSends \/ SessionEnds

Spec == Init /\ [][Next]_vars

(* The session thread runs; the peer owes nothing.                         *)
FairSpec == Spec /\ WF_vars(Terminal)

-----------------------------------------------------------------------------
(* Bytes taken from the byte stream, and those of them de-framed.          *)
Taken   == sentTo - Len(sock) - Len(ssl)
Decoded == Taken - Len(rx)
Staged  == delivered \o app

IsData(p) == wire[p].part = "body" /\ wire[p].op = "data"
IsHead(p, ops) == wire[p].part = "head" /\ wire[p].op \in ops

(* The session reads "a clean SEC1 byte stream": what recv() has returned  *)
(* and still holds is every payload byte of the data frames taken from the *)
(* socket, each once and in order, with nothing of a control frame in      *)
(* between, nothing behind a close or a refused frame and nothing before   *)
(* the upgrade.                                                            *)
CleanStream ==
    /\ Staged # << >> => Upgraded
    /\ Upgraded =>
          /\ \A i, j \in DOMAIN Staged : i < j => Staged[i] < Staged[j]
          /\ {Staged[i] : i \in DOMAIN Staged} = {p \in 1..Decoded : IsData(p)}
          /\ \A i \in DOMAIN Staged :
                \A p \in 1..Staged[i] : ~IsHead(p, {"close", "bad"})

(* Every ping is answered by a pong and a close by a close, once and in    *)
(* the order they came (unless a write failed), and the 101 goes before    *)
(* everything else.                                                        *)
Answers == {i \in DOMAIN out : out[i].msg \in {"pong", "close"}}

ControlAnswered ==
    /\ \A i \in DOMAIN out : out[i].msg = "101" <=> i = 1
    /\ \A i, j \in Answers : i < j => out[i].at < out[j].at
    /\ \A i \in Answers :
          /\ out[i].at \in 1..Decoded
          /\ IsHead(out[i].at, IF out[i].msg = "pong" THEN {"ping"} ELSE {"close"})
    /\ Upgraded /\ ~lossy =>
          \A p \in 1..Decoded :
              IsHead(p, {"ping", "close"}) => \E i \in Answers : out[i].at = p

(* A data frame that has arrived whole, with no close before it, is handed *)
(* to the session, or the session ends: bytes never wait in the transport  *)
(* for later bytes.                                                        *)
Places == UNION {DOMAIN w : w \in Inputs \cup EarlyInputs}

Arrived(p) ==
    /\ p \in Bytes /\ IsData(p)
    /\ sentTo >= p + wire[p - wire[p].n].n - wire[p].n
    /\ \A q \in 1..p : ~IsHead(q, {"close", "bad"})

Got(p) == \E i \in DOMAIN delivered : delivered[i] = p

ArrivedIsServed == \A p \in Places : Arrived(p) ~> Got(p) \/ phase = "over"

(* What the transport relies on: no TLS record so far is longer than the   *)
(* buffer recv() reads into, and the payload on its way to the session     *)
(* never exceeds the buffer that the session passes.                       *)
RecordsFit == \A p \in DOMAIN recEnd : recEnd[p] - p < ReadCap

BurstFits == Cardinality({p \in 1..sentTo : IsData(p) /\ ~Got(p)}) <= Cap

(* The same of a peer that waits for the 101 before it sends a frame and   *)
(* whose messages are short, as TlsConn.cpp:113 expects of every client.   *)
(* Beyond that it fails: the rest of a longer record stays in OpenSSL and  *)
(* the rest of a longer burst in app_, and poll() sees neither.            *)
WaitingPeerIsServed ==
    [](RecordsFit /\ BurstFits) =>
        \A p \in Places : Arrived(p) /\ ~early ~> Got(p) \/ phase = "over"
=============================================================================
