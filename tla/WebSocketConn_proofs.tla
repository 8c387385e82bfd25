------------------------ MODULE WebSocketConn_proofs ------------------------
(***************************************************************************)
(* The WebSocket transport hands the session a clean byte stream, for      *)
(* every stream of frames and every size of the buffers.                   *)
(*                                                                         *)
(* The argument: the bytes in the kernel, in OpenSSL and in rx_ are        *)
(* consecutive places of the stream (PipeInv), rx_ starts at the head of a *)
(* frame (FrameInv), and what recv() has returned and still holds is the   *)
(* payload of the data frames before that place (DataInv).                 *)
(* The second part is about the codecs, as functions of bytes.             *)
(***************************************************************************)
EXTENDS WebSocketConn, Codec, SequenceTheorems, TLAPS

(* s is the run of places that follows place b.                            *)
Run(s, b) == \A i \in 1..Len(s) : s[i] = b + i
Inc(s)    == \A i, j \in 1..Len(s) : i < j => s[i] < s[j]
Elems(s)  == {s[i] : i \in 1..Len(s)}

-----------------------------------------------------------------------------
(* First and Rest split a sequence.                                        *)
LEMMA FirstRest ==
    ASSUME NEW S, NEW s \in Seq(S), NEW k \in Nat
    PROVE  /\ First(s, k) \in Seq(S) /\ Rest(s, k) \in Seq(S)
           /\ Least(k, Len(s)) \in 0..Len(s)
           /\ Len(First(s, k)) = Least(k, Len(s))
           /\ Len(Rest(s, k)) = Len(s) - Least(k, Len(s))
           /\ \A i \in 1..Len(First(s, k)) : First(s, k)[i] = s[i]
           /\ \A i \in 1..Len(Rest(s, k)) : Rest(s, k)[i] = s[Least(k, Len(s)) + i]
           /\ First(s, k) \o Rest(s, k) = s
  <1> DEFINE m == Least(k, Len(s))
  <1>1. Len(s) \in Nat /\ m \in 0..Len(s)
    BY DEF Least
  <1>2. \A i \in 1..Len(s) : s[i] \in S
    BY ElementOfSeq
  <1>3. /\ SubSeq(s, 1, m) \in Seq(S)
        /\ Len(SubSeq(s, 1, m)) = m
        /\ \A i \in 1..m : SubSeq(s, 1, m)[i] = s[i]
    <2>1. \A i \in 1..m : s[i] \in S
      BY <1>1, <1>2
    <2> QED
      BY <1>1, <2>1, SubSeqProperties
  <1>4. /\ SubSeq(s, m + 1, Len(s)) \in Seq(S)
        /\ Len(SubSeq(s, m + 1, Len(s))) = Len(s) - m
        /\ \A i \in 1..(Len(s) - m) : SubSeq(s, m + 1, Len(s))[i] = s[m + i]
    <2>1. \A i \in (m + 1)..Len(s) : s[i] \in S
      BY <1>1, <1>2
    <2> HIDE DEF m
    <2>2. m + 1 \in Int /\ Len(s) \in Int
      BY <1>1
    <2>3. /\ SubSeq(s, m + 1, Len(s)) \in Seq(S)
          /\ Len(SubSeq(s, m + 1, Len(s))) =
                IF m + 1 <= Len(s) THEN Len(s) - (m + 1) + 1 ELSE 0
          /\ \A i \in 1..(Len(s) - (m + 1) + 1) :
                SubSeq(s, m + 1, Len(s))[i] = s[m + 1 + i - 1]
      BY <2>1, <2>2, SubSeqProperties
    <2>4. \A i \in 1..(Len(s) - m) : m + 1 + i - 1 = m + i
      BY <1>1
    <2>5. /\ (m + 1)..Len(s) \subseteq 1..Len(s)
          /\ Len(s) - (m + 1) + 1 = Len(s) - m
          /\ Len(SubSeq(s, m + 1, Len(s))) = Len(s) - m
      BY <1>1, <2>3
    <2>6. \A i \in 1..(Len(s) - m) : SubSeq(s, m + 1, Len(s))[i] = s[m + i]
      BY <2>3, <2>4, <2>5
    <2> QED
      BY ONLY <2>3, <2>5, <2>6
  <1>5. SubSeq(s, 1, m) \o SubSeq(s, m + 1, Len(s)) = s
    <2>1. SubSeq(s, 1, m) \o SubSeq(s, m + 1, Len(s)) = SubSeq(s, 1, Len(s))
      <3>1. /\ s \in Seq(S) /\ 1 \in 1 .. Len(s) + 1
            /\ m \in 1 - 1 .. Len(s) /\ Len(s) \in m .. Len(s)
        BY <1>1
      <3> HIDE DEF m
      <3> QED
        BY ONLY <3>1, ConcatAdjacentSubSeq
    <2> QED
      BY <2>1, SubSeqFull
  <1> QED
    BY <1>1, <1>3, <1>4, <1>5 DEF First, Rest

(* The parts of a run are runs, and so are two that follow each other.     *)
LEMMA RunParts ==
    ASSUME NEW S, NEW s \in Seq(S), NEW k \in Nat, NEW b \in Nat, Run(s, b)
    PROVE  /\ Run(First(s, k), b)
           /\ Run(Rest(s, k), b + Least(k, Len(s)))
  <1> DEFINE m == Least(k, Len(s))
  <1>1. /\ m \in 0..Len(s) /\ Len(s) \in Nat
        /\ Len(First(s, k)) = m
        /\ Len(Rest(s, k)) = Len(s) - m
        /\ \A i \in 1..m : First(s, k)[i] = s[i]
        /\ \A i \in 1..(Len(s) - m) : Rest(s, k)[i] = s[m + i]
    BY FirstRest, LenProperties
  <1> HIDE DEF m
  <1>2. \A i \in 1..(Len(s) - m) : m + i \in 1..Len(s) /\ b + (m + i) = (b + m) + i
    BY <1>1
  <1>3. \A i \in 1..Len(s) : s[i] = b + i
    BY DEF Run
  <1>4. Run(Rest(s, k), b + m)
    BY <1>1, <1>2, <1>3 DEF Run
  <1>5. Run(First(s, k), b)
    BY <1>1, <1>3 DEF Run
  <1> QED
    BY <1>4, <1>5 DEF m

(* Two runs, one where the other ends.                                     *)
LEMMA RunConcat ==
    ASSUME NEW S, NEW s \in Seq(S), NEW t \in Seq(S), NEW b \in Nat,
           Run(s, b), Run(t, b + Len(s))
    PROVE  Run(s \o t, b)
  BY ConcatProperties, LenProperties DEF Run

(* A run of places is a sequence of places.                                *)
LEMMA NewRun ==
    ASSUME NEW S, NEW k \in Nat, NEW f \in [1..k -> S]
    PROVE  f \in Seq(S) /\ Len(f) = k
  <1>1. f \in Seq(S)
    BY SeqDef
  <1>2. Len(f) \in Nat /\ DOMAIN f = 1..Len(f) /\ DOMAIN f = 1..k
    BY <1>1, LenProperties
  <1>3. k <= Len(f) /\ Len(f) <= k
    <2>1. k > 0 => k \in 1..Len(f)
      BY <1>2
    <2>2. Len(f) > 0 => Len(f) \in 1..k
      BY <1>2
    <2> QED
      BY <1>2, <2>1, <2>2
  <1> QED
    BY <1>1, <1>2, <1>3

(* Ends of records stay ahead when a record is appended.                   *)
LEMMA RecordAppended ==
    ASSUME NEW S, NEW s \in Seq(S), NEW t \in Seq(S),
           \A p \in 1..Len(s) : s[p] \in p..Len(s),
           \A i \in 1..Len(t) : t[i] = Len(s) + Len(t)
    PROVE  \A p \in 1..(Len(s) + Len(t)) : (s \o t)[p] \in p..(Len(s) + Len(t))
  <1>1. /\ Len(s) \in Nat /\ Len(t) \in Nat
        /\ \A i \in 1..(Len(s) + Len(t)) :
              (s \o t)[i] = IF i <= Len(s) THEN s[i] ELSE t[i - Len(s)]
    BY ConcatProperties, LenProperties
  <1> TAKE p \in 1..(Len(s) + Len(t))
  <1>2. CASE p <= Len(s)
    <2>1. p \in 1..Len(s) /\ (s \o t)[p] = s[p]
      BY <1>1, <1>2
    <2>2. s[p] \in p..Len(s)
      BY <2>1
    <2> QED
      BY <1>1, <2>1, <2>2
  <1>3. CASE p > Len(s)
    <2>1. p - Len(s) \in 1..Len(t) /\ (s \o t)[p] = t[p - Len(s)]
      BY <1>1, <1>3
    <2> QED
      BY <1>1, <2>1
  <1> QED
    BY <1>1, <1>2, <1>3

(* Concatenation keeps an ascending order and joins the elements.          *)
LEMMA ConcatElems ==
    ASSUME NEW S, NEW s \in Seq(S), NEW t \in Seq(S)
    PROVE  Elems(s \o t) = Elems(s) \cup Elems(t)
  <1>1. /\ Len(s) \in Nat /\ Len(t) \in Nat
        /\ Len(s \o t) = Len(s) + Len(t)
        /\ \A i \in 1..(Len(s) + Len(t)) :
              (s \o t)[i] = IF i <= Len(s) THEN s[i] ELSE t[i - Len(s)]
    BY ConcatProperties, LenProperties
  <1>2. ASSUME NEW i \in 1..Len(s)  PROVE  s[i] \in Elems(s \o t)
    <2>1. i \in 1..(Len(s) + Len(t)) /\ (s \o t)[i] = s[i]
      BY <1>1
    <2> QED
      BY <1>1, <2>1 DEF Elems
  <1>3. ASSUME NEW i \in 1..Len(t)  PROVE  t[i] \in Elems(s \o t)
    <2>1. Len(s) + i \in 1..(Len(s) + Len(t)) /\ (s \o t)[Len(s) + i] = t[i]
      BY <1>1
    <2> QED
      BY <1>1, <2>1 DEF Elems
  <1>4. ASSUME NEW i \in 1..(Len(s) + Len(t))
        PROVE  (s \o t)[i] \in Elems(s) \cup Elems(t)
    <2>1. CASE i <= Len(s)
      BY <1>1, <2>1 DEF Elems
    <2>2. CASE i > Len(s)
      <3>1. i - Len(s) \in 1..Len(t) /\ (s \o t)[i] = t[i - Len(s)]
        BY <1>1, <2>2
      <3> QED
        BY <3>1 DEF Elems
    <2> QED
      BY <1>1, <2>1, <2>2
  <1> QED
    BY <1>1, <1>2, <1>3, <1>4 DEF Elems

(* Two increasing sequences, one behind the other.                         *)
LEMMA ConcatInc ==
    ASSUME NEW S \in SUBSET Nat, NEW s \in Seq(S), NEW t \in Seq(S),
           Inc(s), Inc(t),
           \A i \in 1..Len(s), j \in 1..Len(t) : s[i] < t[j]
    PROVE  Inc(s \o t)
  <1>1. /\ Len(s) \in Nat /\ Len(t) \in Nat
        /\ Len(s \o t) = Len(s) + Len(t)
        /\ \A i \in 1..(Len(s) + Len(t)) :
              (s \o t)[i] = IF i <= Len(s) THEN s[i] ELSE t[i - Len(s)]
    BY ConcatProperties, LenProperties
  <1> SUFFICES ASSUME NEW i \in 1..(Len(s) + Len(t)), NEW j \in 1..(Len(s) + Len(t)),
                      i < j
               PROVE  (s \o t)[i] < (s \o t)[j]
    BY <1>1 DEF Inc
  <1>2. CASE j <= Len(s)
    BY <1>1, <1>2 DEF Inc
  <1>3. CASE i <= Len(s) /\ j > Len(s)
    <2>1. j - Len(s) \in 1..Len(t) /\ i \in 1..Len(s)
      BY <1>1, <1>3
    <2>2. (s \o t)[i] = s[i] /\ (s \o t)[j] = t[j - Len(s)]
      BY <1>1, <1>3
    <2> QED
      BY <2>1, <2>2
  <1>4. CASE i > Len(s)
    <2>1. i - Len(s) \in 1..Len(t) /\ j - Len(s) \in 1..Len(t) /\ i - Len(s) < j - Len(s)
      BY <1>1, <1>4
    <2>2. (s \o t)[i] = t[i - Len(s)] /\ (s \o t)[j] = t[j - Len(s)]
      BY <1>1, <1>4
    <2> QED
      BY <2>1, <2>2 DEF Inc
  <1> QED
    BY <1>1, <1>2, <1>3, <1>4

-----------------------------------------------------------------------------
(* Where the bytes are that are sent and not yet de-framed.                *)
PipeInv ==
    /\ Len(sock) + Len(ssl) <= sentTo
    /\ Run(sock, sentTo - Len(sock))
    /\ Run(ssl, Taken)
    /\ ~tls => ssl = << >>
    /\ tls => /\ Len(recEnd) = sentTo
              /\ \A p \in 1..sentTo : recEnd[p] \in p..sentTo
    /\ phase = "handshake" => Len(req) = Taken /\ Run(req, 0)

(* The session thread is past the request.                                 *)
Opened == phase \in {"reply", "poll", "drain", "serve"}

FrameInv ==
    /\ Len(rx) <= Taken /\ Run(rx, Decoded)
    /\ phase = "handshake" => rx = << >>
    /\ phase \in {"handshake", "reply"} =>
          /\ app = << >> /\ delivered = << >> /\ ~closed /\ out = << >>
    /\ phase \in {"poll", "drain", "serve"} => Upgraded
    /\ Staged # << >> => Upgraded
    /\ phase = "drain" => ~closed
    /\ Opened /\ Decoded < Len(wire) => wire[Decoded + 1].part = "head"
    /\ Opened /\ ~closed => \A p \in 1..Decoded : ~IsHead(p, {"close", "bad"})

DataInv ==
    Opened \/ Upgraded =>
        /\ Inc(Staged)
        /\ Elems(Staged) = {p \in 1..Decoded : IsData(p)}
        /\ \A i \in 1..Len(Staged) :
              \A p \in 1..Staged[i] : ~IsHead(p, {"close", "bad"})

IInv == TypeOK /\ PipeInv /\ FrameInv /\ DataInv

(* What the assumptions say of the stream of a state.                      *)
LEMMA WireFacts ==
    ASSUME TypeOK
    PROVE  /\ wire \in Seq(Byte) /\ Framed(wire)
           /\ Len(wire) \in Nat /\ Len(wire) > 0 /\ DOMAIN wire = Bytes
           /\ wire[1].part = "header"
           /\ \A p \in Bytes : wire[p] \in Byte /\ wire[p].n \in Nat
  <1>1. wire \in Seq(Byte) /\ Framed(wire) /\ wire # << >> /\ wire[1].part = "header"
    BY InputsAssumption DEF TypeOK
  <1>2. Len(wire) \in Nat /\ DOMAIN wire = 1..Len(wire) /\ Len(wire) # 0
    BY <1>1, LenProperties, EmptySeq
  <1>3. \A p \in 1..Len(wire) : wire[p] \in Byte
    BY <1>1, ElementOfSeq
  <1> QED
    BY <1>1, <1>2, <1>3 DEF Byte, Bytes

-----------------------------------------------------------------------------
(* A read returns the next bytes of the stream and keeps the order of the  *)
(* others, whatever the size of the buffer.                                *)
LEMMA IncomingFacts ==
    ASSUME TypeOK, PipeInv, Readable
    PROVE  /\ Incoming \in Seq(Bytes) /\ Len(Incoming) \in 1..(sentTo - Taken)
           /\ Run(Incoming, Taken)
           /\ ssl = << >> => RecordEnd \in 1..Len(sock) /\ Len(Incoming) = RecordEnd
           /\ Taken \in Nat
  <1>1. /\ sock \in Seq(Bytes) /\ ssl \in Seq(Bytes) /\ recEnd \in Seq(Bytes)
        /\ Len(sock) \in Nat /\ Len(ssl) \in Nat /\ sentTo \in Nat
    BY LenProperties DEF TypeOK, Bytes
  <1>2. Taken \in Nat /\ sentTo - Taken = Len(sock) + Len(ssl)
    BY <1>1 DEF PipeInv, Taken
  <1>3. CASE ssl # << >>
    <2>1. Incoming = ssl /\ Len(ssl) # 0
      BY <1>1, <1>3, EmptySeq DEF Incoming
    <2> QED
      BY <1>1, <1>2, <1>3, <2>1 DEF PipeInv
  <1>4. CASE ssl = << >>
    <2>1. sock # << >> /\ Len(sock) > 0 /\ Len(ssl) = 0
      BY <1>1, <1>4, EmptySeq DEF Readable
    <2>2. Head(sock) = sock[1] /\ sock[1] = sentTo - Len(sock) + 1
      BY <1>1, <2>1 DEF PipeInv, Run
    <2>3. RecordEnd \in 1..Len(sock)
      <3>1. CASE tls
        <4>1. Head(sock) \in 1..sentTo
          BY <1>1, <2>1, <2>2 DEF PipeInv
        <4>2. recEnd[Head(sock)] \in Head(sock)..sentTo
          BY <3>1, <4>1 DEF PipeInv
        <4> QED
          BY <1>1, <2>1, <2>2, <3>1, <4>1, <4>2 DEF RecordEnd
      <3>2. CASE ~tls
        BY <1>1, <2>1, <3>2 DEF RecordEnd
      <3> QED
        BY <3>1, <3>2
    <2>4. Incoming = SubSeq(sock, 1, RecordEnd)
      BY <1>4 DEF Incoming
    <2>5. \A i \in 1..Len(sock) : sock[i] \in Bytes
      BY <1>1, ElementOfSeq
    <2> HIDE DEF RecordEnd
    <2>6. /\ SubSeq(sock, 1, RecordEnd) \in Seq(Bytes)
          /\ Len(SubSeq(sock, 1, RecordEnd)) = RecordEnd
          /\ \A i \in 1..RecordEnd : SubSeq(sock, 1, RecordEnd)[i] = sock[i]
      <3>1. RecordEnd \in Int /\ \A i \in 1..RecordEnd : sock[i] \in Bytes
        BY <1>1, <2>3, <2>5
      <3>2. /\ SubSeq(sock, 1, RecordEnd) \in Seq(Bytes)
            /\ Len(SubSeq(sock, 1, RecordEnd)) = IF 1 <= RecordEnd THEN RecordEnd - 1 + 1 ELSE 0
            /\ \A i \in 1..(RecordEnd - 1 + 1) :
                  SubSeq(sock, 1, RecordEnd)[i] = sock[1 + i - 1]
        BY <3>1, SubSeqProperties
      <3> QED
        BY <1>1, <2>3, <3>1, <3>2
    <2>7. Run(Incoming, Taken)
      BY <1>1, <2>1, <2>3, <2>4, <2>6 DEF PipeInv, Run, Taken
    <2> QED
      BY <1>1, <1>2, <1>4, <2>1, <2>3, <2>4, <2>6, <2>7
  <1> QED
    BY <1>3, <1>4

(* What a read gives is the next run of places.                            *)
LEMMA ReadFacts ==
    ASSUME TypeOK, PipeInv, Readable,
           NEW cap \in Nat \ {0}, Consume(cap),
           UNCHANGED <<wire, tls, sentTo, recEnd>>
    PROVE  /\ Read(cap) \in Seq(Bytes) /\ Len(Read(cap)) \in Nat
           /\ Run(Read(cap), Taken)
           /\ Taken \in Nat /\ Taken' = Taken + Len(Read(cap))
           /\ sock' \in Seq(Bytes) /\ ssl' \in Seq(Bytes)
           /\ Len(sock') + Len(ssl') <= sentTo
           /\ Run(sock', sentTo - Len(sock'))
           /\ Run(ssl', Taken')
           /\ ~tls => ssl' = << >>
  <1> DEFINE m == Least(cap, Len(Incoming))
  <1>1. /\ sock \in Seq(Bytes) /\ ssl \in Seq(Bytes)
        /\ Len(sock) \in Nat /\ Len(ssl) \in Nat /\ sentTo \in Nat
    BY LenProperties DEF TypeOK, Bytes
  <1>2. /\ Incoming \in Seq(Bytes) /\ Len(Incoming) \in 1..(sentTo - Taken)
        /\ Run(Incoming, Taken)
        /\ ssl = << >> => RecordEnd \in 1..Len(sock) /\ Len(Incoming) = RecordEnd
        /\ Taken \in Nat
    BY IncomingFacts
  <1>3. /\ Read(cap) \in Seq(Bytes) /\ Len(Read(cap)) = m
        /\ m \in 0..Len(Incoming)
        /\ Rest(Incoming, cap) \in Seq(Bytes)
        /\ Len(Rest(Incoming, cap)) = Len(Incoming) - m
    BY <1>2, FirstRest DEF Read
  <1>4. Run(Read(cap), Taken) /\ Run(Rest(Incoming, cap), Taken + m)
    BY <1>2, RunParts DEF Read
  <1>u. sentTo' = sentTo /\ tls' = tls
    OBVIOUS
  <1>t. /\ Taken = sentTo - Len(sock) - Len(ssl)
        /\ Taken' = sentTo - Len(sock') - Len(ssl')
    BY <1>u DEF Taken
  <1> HIDE DEF m
  <1>5. CASE tls /\ ssl # << >>
    <2>1. Incoming = ssl
      BY <1>5 DEF Incoming
    <2>2. ssl' = Rest(Incoming, cap) /\ sock' = sock
      BY <1>5 DEF Consume
    <2>3. Taken' = Taken + m
      <3>1. Len(ssl') = Len(ssl) - m /\ m \in 0..Len(ssl) /\ Len(sock') = Len(sock)
        BY <1>3, <2>1, <2>2
      <3> QED
        BY <1>1, <1>t, <3>1
    <2>4. Len(sock') + Len(ssl') <= sentTo
      <3>1. Len(ssl') = Len(ssl) - m /\ m \in 0..Len(ssl) /\ Len(sock') = Len(sock)
        BY <1>3, <2>1, <2>2
      <3>2. Len(sock) + Len(ssl) <= sentTo
        BY DEF PipeInv
      <3> QED
        BY <1>1, <3>1, <3>2
    <2>5. Run(sock', sentTo - Len(sock'))
      BY <2>2 DEF PipeInv
    <2>6. Run(ssl', Taken') /\ sock' \in Seq(Bytes) /\ ssl' \in Seq(Bytes)
      BY <1>1, <1>3, <1>4, <2>2, <2>3
    <2> QED
      BY <1>1, <1>2, <1>3, <1>4, <1>5, <2>3, <2>4, <2>5, <2>6
  <1>6. CASE tls /\ ssl = << >>
    <2> DEFINE behind == SubSeq(sock, RecordEnd + 1, Len(sock))
    <2>1. ssl' = Rest(Incoming, cap) /\ sock' = behind
      BY <1>6 DEF Consume
    <2>0. RecordEnd \in 1..Len(sock) /\ Len(Incoming) = RecordEnd
      BY <1>2, <1>6
    <2> HIDE DEF RecordEnd
    <2>2. /\ behind \in Seq(Bytes) /\ Len(behind) = Len(sock) - RecordEnd
          /\ \A i \in 1..Len(behind) : behind[i] = sock[RecordEnd + i]
      <3>1. /\ RecordEnd + 1 \in Int /\ Len(sock) \in Int
            /\ \A i \in (RecordEnd + 1)..Len(sock) : sock[i] \in Bytes
        BY <1>1, <2>0, ElementOfSeq
      <3>2. /\ behind \in Seq(Bytes)
            /\ Len(behind) = IF RecordEnd + 1 <= Len(sock)
                               THEN Len(sock) - (RecordEnd + 1) + 1 ELSE 0
            /\ \A i \in 1..(Len(sock) - (RecordEnd + 1) + 1) :
                  behind[i] = sock[RecordEnd + 1 + i - 1]
        BY <3>1, SubSeqProperties
      <3> HIDE DEF behind
      <3>3. Len(behind) = Len(sock) - RecordEnd
        BY <1>1, <2>0, <3>2
      <3>4. \A i \in 1..Len(behind) : RecordEnd + 1 + i - 1 = RecordEnd + i
        BY <1>1, <2>0, <3>3
      <3> QED
        BY <1>1, <2>0, <3>2, <3>3, <3>4
    <2> HIDE DEF behind
    <2>3. Len(ssl) = 0
      BY <1>6
    <2>4. Taken' = Taken + m
      <3>1. /\ Len(ssl') = RecordEnd - m /\ m \in 0..RecordEnd
            /\ Len(sock') = Len(sock) - RecordEnd
        BY <1>3, <2>0, <2>1, <2>2
      <3> QED
        BY <1>1, <1>t, <2>0, <2>3, <3>1
    <2>5. Run(sock', sentTo - Len(sock'))
      BY <1>1, <2>0, <2>1, <2>2 DEF PipeInv, Run
    <2>6. Len(sock') + Len(ssl') <= sentTo
      <3>1. /\ Len(ssl') = RecordEnd - m /\ m \in 0..RecordEnd
            /\ Len(sock') = Len(sock) - RecordEnd
        BY <1>3, <2>0, <2>1, <2>2
      <3>2. Len(sock) + Len(ssl) <= sentTo
        BY DEF PipeInv
      <3> QED
        BY <1>1, <2>0, <2>3, <3>1, <3>2
    <2>7. Run(ssl', Taken') /\ sock' \in Seq(Bytes) /\ ssl' \in Seq(Bytes)
      BY <1>1, <1>3, <1>4, <2>1, <2>2, <2>4
    <2> QED
      BY <1>2, <1>3, <1>4, <1>6, <2>4, <2>5, <2>6, <2>7
  <1>7. CASE ~tls
    <2>1. ssl = << >> /\ ssl' = << >> /\ Len(ssl) = 0 /\ sock' = Rest(sock, cap)
      BY <1>7 DEF PipeInv, Consume
    <2>2. RecordEnd = Len(sock) /\ Incoming = sock
      <3>1. RecordEnd = Len(sock)
        BY <1>7 DEF RecordEnd
      <3> QED
        BY <1>1, <2>1, <3>1, SubSeqFull DEF Incoming
    <2>3. Len(sock') = Len(sock) - m /\ Taken' = Taken + m
      <3>1. Len(sock') = Len(sock) - m
        BY <1>3, <2>1, <2>2
      <3> QED
        BY <1>1, <1>3, <1>t, <2>1, <3>1
    <2>4. Run(sock', sentTo - Len(sock'))
      BY <1>1, <1>3, <1>4, <1>t, <2>1, <2>2, <2>3
    <2>5. Len(sock') + Len(ssl') <= sentTo
      BY <1>1, <1>3, <2>1, <2>3 DEF PipeInv
    <2>6. Run(ssl', Taken') /\ ssl' \in Seq(Bytes)
      BY <2>1 DEF Run
    <2> QED
      BY <1>1, <1>2, <1>3, <1>4, <2>1, <2>2, <2>3, <2>4, <2>5, <2>6
  <1> QED
    BY <1>5, <1>6, <1>7

-----------------------------------------------------------------------------
(* A message appended to out does not undo the upgrade.                    *)
LEMMA UpgradedStays ==
    ASSUME TypeOK, NEW m \in [msg : {"101", "pong", "close", "sec1"}, at : Nat],
           out' \in {out, Append(out, m)}
    PROVE  /\ Upgraded => Upgraded'
           /\ out' \in Seq([msg : {"101", "pong", "close", "sec1"}, at : Nat])
           /\ ~Upgraded /\ m.msg # "101" => ~Upgraded'
           /\ out' = Append(out, m) /\ m.msg = "101" => Upgraded'
  <1> DEFINE M == [msg : {"101", "pong", "close", "sec1"}, at : Nat]
  <1>1. out \in Seq(M) /\ Len(out) \in Nat /\ DOMAIN out = 1..Len(out)
    BY LenProperties DEF TypeOK
  <1>2. /\ Append(out, m) \in Seq(M) /\ Len(Append(out, m)) = Len(out) + 1
        /\ \A i \in 1..Len(out) : Append(out, m)[i] = out[i]
        /\ Append(out, m)[Len(out) + 1] = m
        /\ DOMAIN Append(out, m) = 1..(Len(out) + 1)
    BY <1>1, AppendProperties
  <1>3. CASE out' = out
    <2>1. Append(out, m) # out
      <3> DEFINE l == Len(Append(out, m))
      <3>0. l = Len(out) + 1 /\ Len(out) \in Nat
        BY <1>1, <1>2
      <3> HIDE DEF l
      <3>2. l # Len(out)
        BY <3>0
      <3>1. Len(Append(out, m)) # Len(out)
        BY <3>2 DEF l
      <3> QED
        BY <3>1, Zenon
    <2>2. Upgraded' = Upgraded
      BY <1>3 DEF Upgraded
    <2> QED
      BY <1>1, <1>3, <2>1, <2>2
  <1>4. CASE out' = Append(out, m)
    BY <1>1, <1>2, <1>4 DEF Upgraded
  <1> QED
    BY <1>3, <1>4

(* The places of the pipe when nothing moves in it.                        *)
LEMMA PipeKept ==
    ASSUME PipeInv, UNCHANGED <<tls, sentTo, recEnd, sock, ssl>>,
           phase' = "handshake" => phase = "handshake" /\ req' = req
    PROVE  PipeInv' /\ Taken' = Taken
  BY DEF PipeInv, Taken, Run

(* A step that decodes and stages nothing keeps the data.                  *)
LEMMA DataKept ==
    ASSUME DataInv, wire' = wire, Decoded' = Decoded, Staged' = Staged,
           Opened' \/ Upgraded' => Opened \/ Upgraded
    PROVE  DataInv'
  BY DEF DataInv, Inc, Elems, IsData, IsHead

(* The frame at the front of rx_.                                          *)
LEMMA HeadFacts ==
    ASSUME IInv, phase = "drain", Decodable
    PROVE  /\ Decoded \in Nat /\ Decoded + 1 \in Bytes
           /\ Head(rx) = Decoded + 1
           /\ Head1 = wire[Decoded + 1] /\ Head1.part = "head"
           /\ Head1.n \in Nat /\ Len(rx) \in Nat \ {0}
  <1>1. /\ rx \in Seq(Bytes) /\ Len(rx) \in Nat \ {0} /\ Head(rx) = rx[1]
        /\ rx[1] \in Bytes
    BY EmptySeq, LenProperties, ElementOfSeq DEF IInv, TypeOK, Decodable
  <1>2. /\ sock \in Seq(Bytes) /\ ssl \in Seq(Bytes)
        /\ Len(sock) \in Nat /\ Len(ssl) \in Nat /\ sentTo \in Nat
    BY LenProperties DEF IInv, TypeOK
  <1>3. Decoded \in Nat
    BY <1>1, <1>2 DEF IInv, PipeInv, FrameInv, Taken, Decoded
  <1>4. rx[1] = Decoded + 1
    BY <1>1, <1>3 DEF IInv, FrameInv, Run
  <1>5. Decoded < Len(wire) /\ Len(wire) \in Nat
    BY <1>1, <1>3, <1>4, WireFacts DEF Bytes, IInv
  <1>6. wire[Decoded + 1].part = "head"
    BY <1>5 DEF IInv, FrameInv, Opened
  <1> QED
    BY <1>1, <1>3, <1>4, <1>6, WireFacts DEF Head1, IInv

(* De-framing one whole frame moves to the head of the next one.           *)
LEMMA FrameFacts ==
    ASSUME IInv, NEW op \in Ops \ {"bad"}, Frame(op)
    PROVE  /\ Head1.n \in Nat /\ Head1.n + 1 <= Len(rx)
           /\ rx' \in Seq(Bytes) /\ Len(rx') = Len(rx) - (Head1.n + 1)
           /\ Taken' = Taken /\ Taken \in Nat
           /\ Decoded' = Decoded + Head1.n + 1
           /\ Decoded \in Nat /\ Decoded' <= Len(wire)
           /\ Run(rx', Decoded')
           /\ wire[Decoded + 1].part = "head" /\ wire[Decoded + 1].op = op
           /\ \A j \in 1..Head1.n :
                 wire[Decoded + 1 + j] = [part |-> "body", op |-> op, n |-> j]
           /\ Decoded' < Len(wire) => wire[Decoded' + 1].part = "head"
  <1> DEFINE n == Head1.n
  <1>1. /\ Decoded \in Nat /\ Decoded + 1 \in Bytes
        /\ Head(rx) = Decoded + 1
        /\ Head1 = wire[Decoded + 1] /\ Head1.part = "head"
        /\ n \in Nat /\ Len(rx) \in Nat \ {0}
    BY HeadFacts DEF Frame
  <1>2. Head1.op = op /\ rx # << >> /\ Len(rx) > n
    BY DEF Frame, Decodable
  <1>3. rx \in Seq(Bytes) /\ Run(rx, Decoded)
    BY DEF IInv, TypeOK, FrameInv
  <1>4. Least(n + 1, Len(rx)) = n + 1 /\ rx' = Rest(rx, n + 1)
    BY <1>1, <1>2 DEF Least, Frame
  <1>5. /\ rx' \in Seq(Bytes) /\ Len(rx') = Len(rx) - (n + 1)
        /\ Run(rx', Decoded + (n + 1))
    <2> HIDE DEF n
    <2>1. n + 1 \in Nat
      BY <1>1
    <2>2. /\ Rest(rx, n + 1) \in Seq(Bytes)
          /\ Len(Rest(rx, n + 1)) = Len(rx) - Least(n + 1, Len(rx))
      BY <1>3, <2>1, FirstRest
    <2>3. Run(Rest(rx, n + 1), Decoded + Least(n + 1, Len(rx)))
      BY <1>1, <1>3, <2>1, RunParts
    <2> QED
      BY <1>4, <2>2, <2>3
  <1>6. /\ Len(sock) \in Nat /\ Len(ssl) \in Nat /\ sentTo \in Nat
        /\ Taken' = Taken
    BY LenProperties DEF IInv, TypeOK, Frame, peerVars, Taken
  <1>7. Taken \in Nat /\ Decoded' = Decoded + (n + 1)
    <2>1. Decoded = Taken - Len(rx) /\ Decoded' = Taken' - Len(rx')
      BY DEF Decoded
    <2>2. Taken \in Nat
      BY <1>6 DEF IInv, PipeInv, Taken
    <2>3. n \in Nat /\ Len(rx) \in Nat
      BY <1>1
    <2>4. Len(rx') = Len(rx) - (n + 1) /\ Taken' = Taken
      BY <1>5, <1>6
    <2> HIDE DEF n
    <2>5. Taken' - Len(rx') = Taken - Len(rx) + (n + 1)
      BY ONLY <2>2, <2>3, <2>4
    <2> QED
      BY ONLY <2>1, <2>2, <2>5
  <1>8. Decoded + n + 1 \in Bytes /\ Len(wire) \in Nat
    <2>1. rx[n + 1] \in Bytes /\ rx[n + 1] = Decoded + (n + 1)
      BY <1>1, <1>2, <1>3, ElementOfSeq DEF Run
    <2> QED
      BY <1>1, <2>1, WireFacts DEF IInv
  <1>9. /\ \A j \in 1..n :
              Decoded + 1 + j <= Len(wire) =>
                wire[Decoded + 1 + j] = [part |-> "body", op |-> op, n |-> j]
        /\ Decoded + 1 + n < Len(wire) => wire[Decoded + 1 + n + 1].part = "head"
    <2>1. Framed(wire) /\ DOMAIN wire = Bytes
      BY WireFacts DEF IInv
    <2>2. /\ \A j \in 1..wire[Decoded + 1].n :
                Decoded + 1 + j <= Len(wire) =>
                  wire[Decoded + 1 + j] =
                    [part |-> "body", op |-> wire[Decoded + 1].op, n |-> j]
          /\ Decoded + 1 + wire[Decoded + 1].n < Len(wire) =>
                wire[Decoded + 1 + wire[Decoded + 1].n + 1].part = "head"
      BY <1>1, <2>1 DEF Framed
    <2> QED
      BY <1>1, <1>2, <2>2
  <1>10. \A j \in 1..n :
            wire[Decoded + 1 + j] = [part |-> "body", op |-> op, n |-> j]
    <2> HIDE DEF n
    <2>1. \A j \in 1..n : Decoded + 1 + j <= Len(wire)
      BY <1>1, <1>8 DEF Bytes
    <2> QED
      BY <1>9, <2>1 DEF n
  <1>11. Decoded' < Len(wire) => wire[Decoded' + 1].part = "head"
    <2> HIDE DEF n
    <2>1. Decoded' = Decoded + 1 + n
      BY <1>1, <1>7
    <2> QED
      BY <1>9, <2>1 DEF n
  <1>12. Decoded' <= Len(wire) /\ n + 1 <= Len(rx) /\ Decoded' = Decoded + n + 1
    <2> HIDE DEF n
    <2> QED
      BY <1>1, <1>2, <1>7, <1>8 DEF Bytes, n
  <1> QED
    BY <1>1, <1>2, <1>5, <1>6, <1>7, <1>10, <1>11, <1>12

-----------------------------------------------------------------------------
(* The inductive invariant holds at first ...                              *)
LEMMA InitIInv == Init => IInv
  <1> SUFFICES ASSUME Init PROVE IInv
    OBVIOUS
  <1>1. TypeOK
    <2>1. Len(wire) \in Nat
      BY InputsAssumption, LenProperties DEF Init
    <2>2. /\ << >> \in Seq(Bytes)
          /\ << >> \in Seq([msg : {"101", "pong", "close", "sec1"}, at : Nat])
      BY EmptySeq
    <2>3. /\ wire \in Inputs \cup EarlyInputs
          /\ early \in BOOLEAN /\ tls \in BOOLEAN /\ eof \in BOOLEAN
          /\ closed \in BOOLEAN /\ lossy \in BOOLEAN
          /\ sentTo = 0 /\ phase = "handshake"
      BY DEF Init
    <2>4. /\ sock = << >> /\ recEnd = << >> /\ ssl = << >> /\ req = << >>
          /\ rx = << >> /\ app = << >> /\ delivered = << >> /\ out = << >>
      BY DEF Init
    <2> QED
      BY <2>1, <2>2, <2>3, <2>4 DEF TypeOK
  <1>2. Taken = 0 /\ Decoded = 0 /\ ~Upgraded
    <2>1. Len(<< >>) = 0
      OBVIOUS
    <2>a. sentTo = 0 /\ Len(sock) = 0 /\ Len(ssl) = 0 /\ Len(rx) = 0
      BY <2>1 DEF Init
    <2>2. Taken = 0
      BY <2>a DEF Taken
    <2>3. Decoded = 0
      BY <2>a, <2>2 DEF Decoded
    <2> QED
      BY <2>2, <2>3 DEF Init, Upgraded
  <1>3. Staged = << >>
    BY DEF Init, Staged
  <1>4. PipeInv
    BY <1>2 DEF Init, PipeInv, Run
  <1>5. FrameInv
    BY <1>2, <1>3 DEF Init, FrameInv, Run, Opened
  <1>6. DataInv
    BY <1>2 DEF Init, DataInv, Opened
  <1> QED
    BY <1>1, <1>4, <1>5, <1>6 DEF IInv

(* The peer sends: only the pipe changes.                                  *)
LEMMA PeerSendsStep == IInv /\ PeerSends => IInv' /\ Decoded' = Decoded
  <1> SUFFICES ASSUME IInv, NEW k \in 1..MaxSegment,
                      ~eof, sentTo + k <= Len(wire),
                      sock' = sock \o [i \in 1..k |-> sentTo + i],
                      recEnd' = IF tls THEN recEnd \o [i \in 1..k |-> sentTo + k]
                                       ELSE recEnd,
                      sentTo' = sentTo + k,
                      UNCHANGED <<wire, early, tls, eof, ssl, phase, req, connVars,
                                  delivered, outVars>>
               PROVE  IInv' /\ Decoded' = Decoded
    BY DEF PeerSends
  <1> DEFINE new == [i \in 1..k |-> sentTo + i]
             fin == [i \in 1..k |-> sentTo + k]
  <1>1. /\ sentTo \in Nat /\ k \in Nat /\ k > 0 /\ Len(wire) \in Nat
        /\ sock \in Seq(Bytes) /\ recEnd \in Seq(Bytes) /\ ssl \in Seq(Bytes)
        /\ Len(sock) \in Nat /\ Len(recEnd) \in Nat /\ Len(ssl) \in Nat
    BY CapsAssumption, LenProperties, WireFacts DEF IInv, TypeOK
  <1>2. /\ new \in Seq(Bytes) /\ Len(new) = k /\ \A i \in 1..k : new[i] = sentTo + i
        /\ fin \in Seq(Bytes) /\ Len(fin) = k /\ \A i \in 1..k : fin[i] = sentTo + k
    <2>1. \A i \in 1..k : sentTo + i \in Bytes /\ sentTo + k \in Bytes
      BY <1>1 DEF Bytes
    <2>2. new \in [1..k -> Bytes] /\ fin \in [1..k -> Bytes]
      BY <2>1
    <2>4. /\ \A i \in 1..k : new[i] = sentTo + i
          /\ \A i \in 1..k : fin[i] = sentTo + k
      OBVIOUS
    <2>3. new \in Seq(Bytes) /\ Len(new) = k /\ fin \in Seq(Bytes) /\ Len(fin) = k
      <3> HIDE DEF new, fin
      <3> QED
        BY <1>1, <2>2, NewRun
    <2> HIDE DEF new, fin
    <2> QED
      BY <2>3, <2>4
  <1> HIDE DEF new, fin
  <1>n. sock' = sock \o new /\ (tls => recEnd' = recEnd \o fin)
    BY DEF new, fin
  <1>3. sock' \in Seq(Bytes) /\ Len(sock') = Len(sock) + k
    <2>1. sock \in Seq(Bytes) /\ new \in Seq(Bytes) /\ Len(new) = k
      BY <1>1, <1>2
    <2>2. sock \o new \in Seq(Bytes) /\ Len(sock \o new) = Len(sock) + Len(new)
      BY ONLY <2>1, ConcatProperties
    <2> QED
      BY ONLY <1>n, <2>1, <2>2
  <1>4. tls => recEnd' \in Seq(Bytes) /\ Len(recEnd') = Len(recEnd) + k
    BY <1>1, <1>2, <1>n, ConcatProperties
  <1>5. TypeOK'
    <2>1. recEnd' \in Seq(Bytes)
      BY <1>1, <1>4
    <2>2. Bytes' = Bytes
      BY DEF Bytes
    <2>3. sentTo' \in 0..Len(wire)'
      BY <1>1
    <2> QED
      BY <1>3, <2>1, <2>2, <2>3 DEF IInv, TypeOK, connVars, outVars
  <1>6. Taken' = Taken
    BY <1>1, <1>3 DEF Taken
  <1>7. PipeInv'
    <2>1. Run(sock', sentTo' - Len(sock'))
      <3>1. Run(sock, sentTo - Len(sock)) /\ sentTo - Len(sock) \in Nat
        BY <1>1 DEF IInv, PipeInv
      <3>2. Run(new, sentTo - Len(sock) + Len(sock))
        BY <1>1, <1>2 DEF Run
      <3>3. Run(sock \o new, sentTo - Len(sock))
        BY <1>1, <1>2, <3>1, <3>2, RunConcat
      <3>4. sentTo' - Len(sock') = sentTo - Len(sock)
        BY <1>1, <1>3
      <3> QED
        BY <1>n, <3>3, <3>4
    <2>2. tls' => /\ Len(recEnd') = sentTo'
                  /\ \A p \in 1..sentTo' : recEnd'[p] \in p..sentTo'
      <3> SUFFICES ASSUME tls
                   PROVE  /\ Len(recEnd') = sentTo'
                          /\ \A p \in 1..sentTo' : recEnd'[p] \in p..sentTo'
        OBVIOUS
      <3>1. Len(recEnd) = sentTo /\ \A p \in 1..sentTo : recEnd[p] \in p..sentTo
        BY DEF IInv, PipeInv
      <3>2. \A p \in 1..(Len(recEnd) + Len(fin)) :
               (recEnd \o fin)[p] \in p..(Len(recEnd) + Len(fin))
        BY <1>1, <1>2, <3>1, RecordAppended
      <3>3. Len(recEnd) + Len(fin) = sentTo'
        BY <1>2, <3>1
      <3> QED
        BY <1>4, <1>2, <1>n, <3>1, <3>2, <3>3
    <2>3. Len(sock') + Len(ssl') <= sentTo'
      BY <1>1, <1>3 DEF IInv, PipeInv
    <2> QED
      BY <1>6, <2>1, <2>2, <2>3 DEF IInv, PipeInv, Run
  <1>8. Decoded' = Decoded /\ Staged' = Staged /\ Upgraded' = Upgraded
    BY <1>6 DEF Decoded, Staged, Upgraded, connVars, outVars
  <1>9. FrameInv'
    BY <1>6, <1>8 DEF IInv, FrameInv, Run, Opened, IsHead, connVars, outVars
  <1>10. DataInv'
    BY <1>8, DataKept DEF IInv, Opened
  <1> QED
    BY <1>5, <1>7, <1>8, <1>9, <1>10 DEF IInv

(* Reads of the handshake fill req; nothing is de-framed yet.              *)
LEMMA HandshakeReadStep == IInv /\ HandshakeRead => IInv'
  <1> SUFFICES ASSUME IInv, HandshakeRead PROVE IInv'
    OBVIOUS
  <1>1. /\ phase = "handshake" /\ phase' = "handshake"
        /\ Readable /\ Consume(HsCap)
        /\ req' = req \o Read(HsCap)
        /\ UNCHANGED <<wire, early, tls, sentTo, eof, recEnd, rx, app, closed,
                       delivered, out, lossy>>
    BY DEF HandshakeRead, peerVars, connVars, outVars
  <1>2. TypeOK /\ PipeInv /\ FrameInv /\ DataInv /\ HsCap \in Nat \ {0}
    BY CapsAssumption DEF IInv
  <1>3. /\ Read(HsCap) \in Seq(Bytes) /\ Len(Read(HsCap)) \in Nat
        /\ Run(Read(HsCap), Taken)
        /\ Taken \in Nat /\ Taken' = Taken + Len(Read(HsCap))
        /\ sock' \in Seq(Bytes) /\ ssl' \in Seq(Bytes)
        /\ Len(sock') + Len(ssl') <= sentTo
        /\ Run(sock', sentTo - Len(sock'))
        /\ Run(ssl', Taken')
        /\ ~tls => ssl' = << >>
    BY <1>1, <1>2, ReadFacts
  <1>4. req \in Seq(Bytes) /\ Len(req) = Taken /\ Run(req, 0)
    BY <1>1, <1>2 DEF TypeOK, PipeInv
  <1>5. req' \in Seq(Bytes) /\ Len(req') = Taken' /\ Run(req', 0)
    <2>1. /\ req \o Read(HsCap) \in Seq(Bytes)
          /\ Len(req \o Read(HsCap)) = Len(req) + Len(Read(HsCap))
      BY <1>3, <1>4, ConcatProperties
    <2>2. Run(Read(HsCap), 0 + Len(req))
      BY <1>3, <1>4
    <2>3. Run(req \o Read(HsCap), 0)
      BY <1>3, <1>4, <2>2, RunConcat
    <2> QED
      BY <1>1, <1>3, <1>4, <2>1, <2>3
  <1>6. TypeOK'
    BY <1>1, <1>2, <1>3, <1>5 DEF TypeOK, Bytes
  <1>7. PipeInv'
    BY <1>1, <1>2, <1>3, <1>5 DEF PipeInv
  <1>8. /\ rx' = << >> /\ app' = << >> /\ delivered' = << >> /\ out' = << >>
        /\ ~closed' /\ Staged' = Staged /\ ~Upgraded'
    BY <1>1, <1>2 DEF FrameInv, Staged, Upgraded
  <1>9. FrameInv'
    <2>1. Len(rx') <= Taken' /\ Run(rx', Decoded')
      BY <1>3, <1>8 DEF Run
    <2>2. Staged' = << >>
      BY <1>8 DEF Staged
    <2> QED
      BY <1>1, <1>8, <2>1, <2>2 DEF FrameInv, Opened
  <1>10. DataInv'
    BY <1>1, <1>8 DEF DataInv, Opened
  <1> QED
    BY <1>6, <1>7, <1>9, <1>10 DEF IInv

(* The session ends: everything else stays.                                *)
LEMMA OverStep == IInv /\ Over => IInv' /\ Decoded' = Decoded
  <1> SUFFICES ASSUME IInv, Over PROVE IInv' /\ Decoded' = Decoded
    OBVIOUS
  <1>1. /\ phase' = "over"
        /\ UNCHANGED <<wire, early, tls, sentTo, eof, recEnd, sock, ssl, req, rx, app,
                       closed, delivered, out, lossy>>
    BY DEF Over, peerVars, connVars, outVars
  <1>2. TypeOK /\ PipeInv /\ FrameInv /\ DataInv
    BY DEF IInv
  <1>3. TypeOK'
    BY <1>1, <1>2 DEF TypeOK, Bytes
  <1>4. PipeInv' /\ Taken' = Taken
    BY <1>1, <1>2, PipeKept
  <1>5. Decoded' = Decoded /\ Staged' = Staged /\ Upgraded' = Upgraded
    BY <1>1, <1>4 DEF Decoded, Staged, Upgraded
  <1>6. FrameInv'
    BY <1>1, <1>2, <1>4, <1>5 DEF FrameInv, Run, Opened
  <1>7. DataInv'
    BY <1>1, <1>2, <1>5, DataKept DEF Opened
  <1> QED
    BY <1>3, <1>4, <1>5, <1>6, <1>7 DEF IInv

(* The rest of the request becomes rx_; it starts at a frame's head.       *)
LEMMA SplitRequestStep ==
    IInv /\ SplitRequest => IInv' /\ \A p \in 1..Decoded' : wire[p].part # "head"
  <1> SUFFICES ASSUME IInv, SplitRequest
               PROVE  IInv' /\ \A p \in 1..Decoded' : wire[p].part # "head"
    OBVIOUS
  <1>1. PICK i \in DOMAIN req :
           /\ wire[req[i]].part = "blank"
           /\ rx' = SubSeq(req, i + 1, Len(req))
    BY DEF SplitRequest
  <1>2. /\ phase = "handshake" /\ phase' = "reply" /\ req' = << >>
        /\ UNCHANGED <<wire, early, tls, sentTo, eof, recEnd, sock, ssl, app, closed,
                       delivered, out, lossy>>
    BY DEF SplitRequest, peerVars, outVars
  <1>3. TypeOK /\ PipeInv /\ FrameInv /\ DataInv
    BY DEF IInv
  <1>4. /\ req \in Seq(Bytes) /\ Len(req) = Taken /\ Taken \in Nat
        /\ i \in 1..Taken /\ \A j \in 1..Taken : req[j] = j /\ req[j] \in Bytes
    <2>1. req \in Seq(Bytes) /\ Len(req) = Taken /\ Run(req, 0)
      BY <1>2, <1>3 DEF TypeOK, PipeInv
    <2>2. Len(req) \in Nat /\ DOMAIN req = 1..Len(req)
      BY <2>1, LenProperties
    <2>3. \A j \in 1..Len(req) : req[j] \in Bytes
      BY <2>1, ElementOfSeq
    <2>4. \A j \in 1..Len(req) : req[j] = j
      BY <2>1, <2>2 DEF Run
    <2> QED
      BY <1>1, <2>1, <2>2, <2>3, <2>4
  <1>5. /\ rx' \in Seq(Bytes) /\ Len(rx') = Taken - i
        /\ \A j \in 1..Len(rx') : rx'[j] = i + j
    <2>1. i + 1 \in Int /\ Taken \in Int /\ \A j \in (i + 1)..Taken : req[j] \in Bytes
      BY <1>4
    <2>2. /\ SubSeq(req, i + 1, Taken) \in Seq(Bytes)
          /\ Len(SubSeq(req, i + 1, Taken)) =
                IF i + 1 <= Taken THEN Taken - (i + 1) + 1 ELSE 0
          /\ \A j \in 1..(Taken - (i + 1) + 1) :
                SubSeq(req, i + 1, Taken)[j] = req[i + 1 + j - 1]
      BY <2>1, SubSeqProperties
    <2>3. rx' = SubSeq(req, i + 1, Taken)
      BY <1>1, <1>4
    <2>4. Len(rx') = Taken - i
      BY <1>4, <2>2, <2>3
    <2>5. \A j \in 1..(Taken - i) : req[i + 1 + j - 1] = i + j
      BY <1>4
    <2>6. Taken - (i + 1) + 1 = Taken - i
      BY <1>4
    <2> QED
      BY <2>2, <2>3, <2>4, <2>5, <2>6
  <1>6. PipeInv' /\ Taken' = Taken
    BY <1>2, <1>3, PipeKept
  <1>7. Decoded' = i
    BY <1>4, <1>5, <1>6 DEF Decoded
  <1>8. TypeOK'
    BY <1>2, <1>3, <1>5, EmptySeq DEF TypeOK, Bytes
  <1>9. /\ wire[i].part = "blank" /\ i \in Bytes
        /\ \A q \in 1..(i - 1) : wire[q].part = "header"
        /\ i < Len(wire) => wire[i + 1].part = "head"
    <2>1. wire[i].part = "blank" /\ i \in Bytes
      BY <1>1, <1>4
    <2> QED
      BY <1>3, <2>1, WireFacts DEF Framed
  <1>10. \A p \in 1..i : wire[p].part # "head" /\ wire[p].part # "body"
    <2>1. \A p \in 1..i : p = i \/ p \in 1..(i - 1)
      BY <1>4
    <2> QED
      BY <1>9, <2>1
  <1>11. /\ app' = << >> /\ delivered' = << >> /\ out' = << >> /\ ~closed'
         /\ Staged' = << >>
    BY <1>2, <1>3 DEF FrameInv, Staged
  <1>12. FrameInv'
    <2>1. Len(rx') <= Taken' /\ Run(rx', Decoded')
      BY <1>4, <1>5, <1>6, <1>7 DEF Run
    <2>2. Decoded' < Len(wire') => wire'[Decoded' + 1].part = "head"
      BY <1>2, <1>7, <1>9
    <2>3. \A p \in 1..Decoded' : ~IsHead(p, {"close", "bad"})'
      BY <1>2, <1>7, <1>10 DEF IsHead
    <2> QED
      BY <1>2, <1>11, <2>1, <2>2, <2>3 DEF FrameInv, Opened
  <1>13. DataInv'
    <2>1. \A p \in 1..Decoded' : ~IsData(p)'
      BY <1>2, <1>7, <1>10 DEF IsData
    <2>2. Len(Staged') = 0
      BY <1>11
    <2> QED
      BY <2>1, <2>2 DEF DataInv, Inc, Elems
  <1> QED
    BY <1>6, <1>7, <1>8, <1>10, <1>12, <1>13 DEF IInv

(* A read of recv() appends to rx_ and de-frames nothing.                  *)
LEMMA RecvReadStep == IInv /\ RecvRead => IInv' /\ Decoded' = Decoded
  <1> SUFFICES ASSUME IInv, RecvRead PROVE IInv' /\ Decoded' = Decoded
    OBVIOUS
  <1>1. /\ phase = "poll" /\ phase' = "drain" /\ ~closed
        /\ Readable /\ Consume(ReadCap)
        /\ rx' = rx \o Read(ReadCap)
        /\ UNCHANGED <<wire, early, tls, sentTo, eof, recEnd, req, app, closed,
                       delivered, out, lossy>>
    BY DEF RecvRead, peerVars, outVars
  <1>2. TypeOK /\ PipeInv /\ FrameInv /\ DataInv /\ ReadCap \in Nat \ {0}
    BY CapsAssumption DEF IInv
  <1>3. /\ Read(ReadCap) \in Seq(Bytes) /\ Len(Read(ReadCap)) \in Nat
        /\ Run(Read(ReadCap), Taken)
        /\ Taken \in Nat /\ Taken' = Taken + Len(Read(ReadCap))
        /\ sock' \in Seq(Bytes) /\ ssl' \in Seq(Bytes)
        /\ Len(sock') + Len(ssl') <= sentTo
        /\ Run(sock', sentTo - Len(sock'))
        /\ Run(ssl', Taken')
        /\ ~tls => ssl' = << >>
    BY <1>1, <1>2, ReadFacts
  <1>4. /\ rx \in Seq(Bytes) /\ Len(rx) \in Nat /\ Len(rx) <= Taken
        /\ Run(rx, Decoded) /\ Decoded = Taken - Len(rx)
    BY <1>2, LenProperties DEF TypeOK, FrameInv, Decoded
  <1>5. /\ rx' \in Seq(Bytes) /\ Len(rx') = Len(rx) + Len(Read(ReadCap))
        /\ Run(rx', Decoded)
    <2>1. /\ rx \o Read(ReadCap) \in Seq(Bytes)
          /\ Len(rx \o Read(ReadCap)) = Len(rx) + Len(Read(ReadCap))
      BY <1>3, <1>4, ConcatProperties
    <2>2. Run(Read(ReadCap), Decoded + Len(rx)) /\ Decoded \in Nat
      BY <1>3, <1>4
    <2>3. Run(rx \o Read(ReadCap), Decoded)
      BY <1>3, <1>4, <2>2, RunConcat
    <2> QED
      BY <1>1, <2>1, <2>3
  <1>6. Decoded' = Decoded
    BY <1>3, <1>4, <1>5 DEF Decoded
  <1>7. TypeOK'
    BY <1>1, <1>2, <1>3, <1>5 DEF TypeOK, Bytes
  <1>8. PipeInv'
    BY <1>1, <1>2, <1>3 DEF PipeInv
  <1>9. Staged' = Staged /\ Upgraded' = Upgraded
    BY <1>1 DEF Staged, Upgraded
  <1>10. FrameInv'
    <2>1. Len(rx') <= Taken' /\ Run(rx', Decoded')
      BY <1>3, <1>4, <1>5, <1>6
    <2> QED
      BY <1>1, <1>2, <1>6, <1>9, <2>1 DEF FrameInv, Opened, IsHead
  <1>11. DataInv'
    BY <1>1, <1>2, <1>6, <1>9, DataKept DEF Opened
  <1> QED
    BY <1>6, <1>7, <1>8, <1>10, <1>11 DEF IInv

(* Steps that at most write a message and go on.                           *)
LEMMA QuietStep ==
    ASSUME IInv, UNCHANGED <<wire, early, tls, sentTo, eof, recEnd, sock, ssl, req, rx,
                             app, closed, delivered>>,
           NEW m \in [msg : {"101", "pong", "close", "sec1"}, at : Nat],
           out' \in {out, Append(out, m)}, lossy' \in BOOLEAN,
           \/ phase \in {"poll", "drain", "serve"} /\ phase' \in {"poll", "serve"}
           \/ phase' = phase /\ out' = out
           \/ phase = "reply" /\ m.msg = "101" /\ out' = Append(out, m) /\ phase' = "poll"
    PROVE  IInv'
  <1>2. TypeOK /\ PipeInv /\ FrameInv /\ DataInv
    BY DEF IInv
  <1>3. /\ Upgraded => Upgraded'
        /\ out' \in Seq([msg : {"101", "pong", "close", "sec1"}, at : Nat])
        /\ out' = Append(out, m) /\ m.msg = "101" => Upgraded'
    BY <1>2, UpgradedStays
  <1>4. phase' \in {"handshake", "reply", "poll", "drain", "serve", "over"}
    BY <1>2 DEF TypeOK
  <1>5. TypeOK'
    BY <1>2, <1>3, <1>4 DEF TypeOK, Bytes
  <1>6. PipeInv' /\ Taken' = Taken
    BY <1>2, PipeKept
  <1>7. Decoded' = Decoded /\ Staged' = Staged
    BY <1>6 DEF Decoded, Staged
  <1>8. out' = out => Upgraded' = Upgraded
    BY DEF Upgraded
  <1>9. FrameInv'
    <2>1. Len(rx') <= Taken' /\ Run(rx', Decoded')
      BY <1>2, <1>6, <1>7 DEF FrameInv, Run
    <2>2. phase' \in {"poll", "drain", "serve"} => Upgraded'
      BY <1>2, <1>3, <1>8 DEF FrameInv
    <2>3. Opened' => Opened
      BY DEF Opened
    <2> QED
      BY <1>2, <1>3, <1>6, <1>7, <2>1, <2>2, <2>3 DEF FrameInv, IsHead
  <1>10. DataInv'
    <2>1. Opened' \/ Upgraded' => Opened \/ Upgraded
      BY <1>2, <1>8 DEF Opened, FrameInv
    <2> QED
      BY <1>2, <1>7, <2>1, DataKept
  <1> QED
    BY <1>5, <1>6, <1>9, <1>10 DEF IInv

(* A refused frame stays in rx_ and closes the stream.                     *)
LEMMA DrainBadStep == IInv /\ DrainBad => IInv'
  <1> SUFFICES ASSUME IInv, DrainBad PROVE IInv'
    OBVIOUS
  <1>1. /\ phase = "drain" /\ phase' = "serve" /\ closed'
        /\ closed' \in BOOLEAN
        /\ UNCHANGED <<wire, early, tls, sentTo, eof, recEnd, sock, ssl, req, rx, app,
                       delivered, out, lossy>>
    BY DEF DrainBad, peerVars, outVars
  <1>2. TypeOK /\ PipeInv /\ FrameInv /\ DataInv
    BY DEF IInv
  <1>3. TypeOK'
    BY <1>1, <1>2 DEF TypeOK, Bytes
  <1>4. PipeInv' /\ Taken' = Taken
    BY <1>1, <1>2, PipeKept
  <1>5. Decoded' = Decoded /\ Staged' = Staged /\ Upgraded' = Upgraded
    BY <1>1, <1>4 DEF Decoded, Staged, Upgraded
  <1>6. FrameInv'
    BY <1>1, <1>2, <1>4, <1>5 DEF FrameInv, Run, Opened
  <1>7. DataInv'
    BY <1>1, <1>2, <1>5, DataKept DEF Opened
  <1> QED
    BY <1>3, <1>4, <1>6, <1>7 DEF IInv

(* What is common to every whole frame: the pipe, and rx_ at the next      *)
(* head.  A close ends the stream with it.                                 *)
LEMMA FrameKeeps ==
    ASSUME IInv, NEW op \in Ops \ {"bad"}, Frame(op),
           phase' \in {"drain", "serve"},
           closed' \in BOOLEAN, (closed' <=> op = "close"),
           closed' => phase' = "serve",
           Upgraded' = Upgraded
    PROVE  PipeInv' /\ FrameInv'
  <1>1. /\ phase = "drain"
        /\ UNCHANGED <<wire, early, tls, sentTo, eof, recEnd, sock, ssl, req, delivered>>
    BY DEF Frame, peerVars
  <1>2. TypeOK /\ PipeInv /\ FrameInv /\ DataInv /\ Upgraded /\ ~closed
    BY <1>1 DEF IInv, FrameInv
  <1>3. /\ Head1.n \in Nat /\ Head1.n + 1 <= Len(rx)
        /\ Len(rx') = Len(rx) - (Head1.n + 1)
        /\ Taken' = Taken /\ Taken \in Nat
        /\ Decoded' = Decoded + Head1.n + 1 /\ Decoded \in Nat
        /\ Run(rx', Decoded')
        /\ wire[Decoded + 1].part = "head" /\ wire[Decoded + 1].op = op
        /\ \A j \in 1..Head1.n :
              wire[Decoded + 1 + j] = [part |-> "body", op |-> op, n |-> j]
        /\ Decoded' < Len(wire) => wire[Decoded' + 1].part = "head"
    BY FrameFacts
  <1>4. PipeInv'
    BY <1>1, <1>2, PipeKept
  <1>5. ~closed' => \A p \in 1..Decoded' : ~IsHead(p, {"close", "bad"})'
    <2> SUFFICES ASSUME op # "close", NEW p \in 1..Decoded'
                 PROVE  ~(wire[p].part = "head" /\ wire[p].op \in {"close", "bad"})
      BY <1>1 DEF IsHead
    <2>1. CASE p \in 1..Decoded
      BY <1>1, <1>2, <2>1 DEF FrameInv, Opened, IsHead
    <2>2. CASE p = Decoded + 1
      BY <1>3, <2>2
    <2>3. CASE p \in (Decoded + 2)..(Decoded + 1 + Head1.n)
      <3>1. PICK j \in 1..Head1.n : p = Decoded + 1 + j
        <4>1. p - (Decoded + 1) \in 1..Head1.n /\ p = Decoded + 1 + (p - (Decoded + 1))
          BY <1>3, <2>3
        <4> QED
          BY <4>1
      <3>a. wire[Decoded + 1 + j] = [part |-> "body", op |-> op, n |-> j]
        BY <1>3
      <3>2. wire[p].part = "body"
        BY <3>1, <3>a
      <3> QED
        BY <3>2
    <2> QED
      BY <1>3, <2>1, <2>2, <2>3
  <1>6. Len(rx') <= Taken'
    <2>1. Len(rx) \in Nat /\ Len(rx) <= Taken
      BY <1>2, LenProperties DEF TypeOK, FrameInv
    <2> QED
      BY <1>3, <2>1
  <1>7. FrameInv'
    BY <1>1, <1>2, <1>3, <1>5, <1>6 DEF FrameInv, Opened
  <1> QED
    BY <1>4, <1>7

(* A frame that carries no data leaves the staged bytes as they are.       *)
LEMMA ControlKeepsData ==
    ASSUME IInv, NEW op \in Ops \ {"bad", "data"}, Frame(op), app' = app
    PROVE  DataInv'
  <1>1. /\ phase = "drain"
        /\ UNCHANGED <<wire, delivered>>
    BY DEF Frame, peerVars
  <1>2. DataInv /\ Opened
    BY <1>1 DEF IInv, Opened
  <1>3. /\ Head1.n \in Nat /\ Decoded \in Nat
        /\ Decoded' = Decoded + Head1.n + 1
        /\ wire[Decoded + 1].part = "head"
        /\ \A j \in 1..Head1.n :
              wire[Decoded + 1 + j] = [part |-> "body", op |-> op, n |-> j]
    BY FrameFacts
  <1>4. \A p \in (Decoded + 1)..Decoded' : ~IsData(p)
    <2> TAKE p \in (Decoded + 1)..Decoded'
    <2>1. CASE p = Decoded + 1
      BY <1>3, <2>1 DEF IsData
    <2>2. CASE p > Decoded + 1
      <3>1. PICK j \in 1..Head1.n : p = Decoded + 1 + j
        <4>1. p - (Decoded + 1) \in 1..Head1.n /\ p = Decoded + 1 + (p - (Decoded + 1))
          BY <1>3, <2>2
        <4> QED
          BY <4>1
      <3>a. wire[Decoded + 1 + j] = [part |-> "body", op |-> op, n |-> j]
        BY <1>3
      <3>2. wire[p].part = "body"
        BY <3>1, <3>a
      <3>3. wire[p].op = op
        BY <3>1, <3>a
      <3> QED
        BY <3>3 DEF IsData
    <2> QED
      BY <1>3, <2>1, <2>2
  <1>5. {p \in 1..Decoded : IsData(p)} = {p \in 1..Decoded' : IsData(p)}
    BY <1>3, <1>4
  <1>6. Staged' = Staged
    BY <1>1 DEF Staged
  <1> QED
    BY <1>1, <1>2, <1>5, <1>6 DEF DataInv, Inc, Elems, IsData, IsHead

(* A data frame: its payload is staged behind what was staged before.      *)
LEMMA DrainDataStep == IInv /\ DrainData => IInv'
  <1> SUFFICES ASSUME IInv, DrainData PROVE IInv'
    OBVIOUS
  <1> DEFINE n == Head1.n
             new == SubSeq(rx, 2, 1 + n)
  <1>1. /\ phase = "drain" /\ Frame("data") /\ "data" \in Ops \ {"bad"}
        /\ app' = app \o new
        /\ UNCHANGED <<wire, early, tls, sentTo, eof, recEnd, sock, ssl, req, delivered,
                       phase, closed, out, lossy>>
    BY DEF DrainData, Frame, peerVars, outVars, Ops
  <1>2. TypeOK /\ PipeInv /\ FrameInv /\ DataInv /\ Opened /\ Upgraded /\ ~closed
    BY <1>1 DEF IInv, FrameInv, Opened
  <1>3. /\ n \in Nat /\ n + 1 <= Len(rx)
        /\ rx' \in Seq(Bytes)
        /\ Decoded' = Decoded + n + 1 /\ Decoded \in Nat
        /\ wire[Decoded + 1].part = "head" /\ wire[Decoded + 1].op = "data"
        /\ \A j \in 1..n :
              wire[Decoded + 1 + j] = [part |-> "body", op |-> "data", n |-> j]
    BY <1>1, FrameFacts
  <1>4. /\ rx \in Seq(Bytes) /\ Run(rx, Decoded) /\ Len(rx) \in Nat
        /\ \A i \in 1..Len(rx) : rx[i] \in Bytes
        /\ app \in Seq(Bytes) /\ delivered \in Seq(Bytes)
    BY <1>2, LenProperties, ElementOfSeq DEF TypeOK, FrameInv
  <1> HIDE DEF n
  <1>5. /\ new \in Seq(Bytes) /\ Len(new) = n
        /\ \A i \in 1..n : new[i] = Decoded + 1 + i
    <2>1. 2 \in Int /\ 1 + n \in Int /\ \A i \in 2..(1 + n) : rx[i] \in Bytes
      BY <1>3, <1>4
    <2>2. /\ SubSeq(rx, 2, 1 + n) \in Seq(Bytes)
          /\ Len(SubSeq(rx, 2, 1 + n)) = IF 2 <= 1 + n THEN 1 + n - 2 + 1 ELSE 0
          /\ \A i \in 1..(1 + n - 2 + 1) : SubSeq(rx, 2, 1 + n)[i] = rx[2 + i - 1]
      <3> DEFINE k == 1 + n
      <3>1. k \in Int /\ 2 \in Int /\ \A i \in 2..k : rx[i] \in Bytes
        BY <2>1
      <3> HIDE DEF k
      <3>2. /\ SubSeq(rx, 2, k) \in Seq(Bytes)
            /\ Len(SubSeq(rx, 2, k)) = IF 2 <= k THEN k - 2 + 1 ELSE 0
            /\ \A i \in 1..(k - 2 + 1) : SubSeq(rx, 2, k)[i] = rx[2 + i - 1]
        BY <3>1, SubSeqProperties
      <3>3. k = 1 + n
        BY DEF k
      <3>4. 1 + n - 2 + 1 = k - 2 + 1
        BY <1>3, <3>1, <3>3
      <3> QED
        BY <3>2, <3>3, <3>4, Zenon
    <2>3. \A i \in 1..n : rx[2 + i - 1] = Decoded + 1 + i
      <3> TAKE i \in 1..n
      <3>1. 2 + i - 1 \in 1..Len(rx) /\ Decoded + (2 + i - 1) = Decoded + 1 + i
        BY <1>3, <1>4
      <3> QED
        BY <1>4, <3>1 DEF Run
    <2>4. 1 + n - 2 + 1 = n /\ n \in Nat /\ (2 > 1 + n => n = 0)
      BY <1>3
    <2>5. new \in Seq(Bytes) /\ \A i \in 1..n : new[i] = rx[2 + i - 1]
      BY <2>2, <2>4, Zenon
    <2>6. Len(new) = IF 2 <= 1 + n THEN n ELSE 0
      BY <2>2, <2>4, Zenon
    <2>7. Len(new) = n
      <3> HIDE DEF new
      <3> QED
        BY <2>4, <2>6
    <2>8. \A i \in 1..n : new[i] = Decoded + 1 + i
      <3> HIDE DEF new
      <3> TAKE i \in 1..n
      <3>1. new[i] = rx[2 + i - 1] /\ rx[2 + i - 1] = Decoded + 1 + i
        BY <2>3, <2>5, Zenon
      <3> QED
        BY <3>1, Zenon
    <2> QED
      BY <2>5, <2>7, <2>8, Zenon
  <1> HIDE DEF new
  <1>6. TypeOK'
    <2>1. app \o new \in Seq(Bytes)
      BY <1>4, <1>5, ConcatProperties
    <2> QED
      BY <1>1, <1>2, <1>3, <2>1 DEF TypeOK, Bytes
  <1>7. PipeInv' /\ FrameInv'
    <2>1. Upgraded' = Upgraded
      BY <1>1 DEF Upgraded
    <2>2. /\ phase' \in {"drain", "serve"} /\ closed' \in BOOLEAN
          /\ closed' <=> "data" = "close"
          /\ closed' => phase' = "serve"
      BY <1>1, <1>2 DEF TypeOK
    <2> QED
      BY <1>1, <2>1, <2>2, FrameKeeps
  <1>8. Staged' = Staged \o new /\ Staged \in Seq(Bytes) /\ Bytes \in SUBSET Nat
    <2>1. (delivered \o app) \o new = delivered \o (app \o new)
      <3>1. delivered \in Seq(Bytes) /\ app \in Seq(Bytes) /\ new \in Seq(Bytes)
        BY <1>4, <1>5
      <3> QED BY ONLY <3>1, ConcatAssociative
    <2>2. delivered \o app \in Seq(Bytes)
      BY <1>4, ConcatProperties
    <2> QED
      BY <1>1, <2>1, <2>2 DEF Staged, Bytes
  <1>9. /\ Inc(Staged)
        /\ Elems(Staged) = {p \in 1..Decoded : IsData(p)}
        /\ \A p \in 1..Decoded : ~IsHead(p, {"close", "bad"})
    BY <1>2 DEF DataInv, FrameInv
  <1>10. \A i \in 1..Len(Staged) : Staged[i] \in 1..Decoded
    BY <1>9 DEF Elems
  <1>11. Elems(new) = {p \in (Decoded + 1)..Decoded' : IsData(p)}
    <2>1. ASSUME NEW i \in 1..n
          PROVE  new[i] \in (Decoded + 1)..Decoded' /\ IsData(new[i])
      <3>1. new[i] = Decoded + 1 + i
        BY <1>5
      <3>2. wire[Decoded + 1 + i] = [part |-> "body", op |-> "data", n |-> i]
        BY <1>3
      <3>3. wire[new[i]].part = "body" /\ wire[new[i]].op = "data"
        BY <3>1, <3>2
      <3>4. new[i] \in (Decoded + 1)..Decoded'
        BY <1>3, <3>1
      <3> QED
        BY <3>3, <3>4 DEF IsData
    <2>2. ASSUME NEW p \in (Decoded + 1)..Decoded', IsData(p)
          PROVE  \E i \in 1..n : p = new[i]
      <3>1. p # Decoded + 1
        BY <1>3, <2>2 DEF IsData
      <3>2. p - (Decoded + 1) \in 1..n /\ p = Decoded + 1 + (p - (Decoded + 1))
        BY <1>3, <3>1
      <3> QED
        BY <1>5, <3>2
    <2> QED
      BY <1>5, <2>1, <2>2 DEF Elems
  <1>12. Inc(Staged')
    <2>1. Inc(new)
      BY <1>3, <1>5 DEF Inc
    <2>2. \A i \in 1..Len(Staged), j \in 1..Len(new) : Staged[i] < new[j]
      BY <1>3, <1>5, <1>10
    <2> QED
      BY <1>5, <1>8, <1>9, <2>1, <2>2, ConcatInc
  <1>13. Elems(Staged') = {p \in 1..Decoded' : IsData(p)}
    <2>1. Elems(Staged') = Elems(Staged) \cup Elems(new)
      BY <1>5, <1>8, ConcatElems
    <2>2. \A p : p \in 1..Decoded' <=> p \in 1..Decoded \/ p \in (Decoded + 1)..Decoded'
      BY <1>3
    <2> QED
      BY <1>9, <1>11, <2>1, <2>2
  <1>14. \A p \in 1..Decoded' : ~IsHead(p, {"close", "bad"})
    BY <1>1, <1>2, <1>7 DEF FrameInv, Opened, IsHead
  <1>15. \A i \in 1..Len(Staged') :
            \A p \in 1..Staged'[i] : ~IsHead(p, {"close", "bad"})
    <2>1. \A i \in 1..Len(Staged') : Staged'[i] \in 1..Decoded'
      BY <1>13 DEF Elems
    <2>2. Decoded' \in Nat
      BY <1>3
    <2> QED
      BY <1>14, <2>1, <2>2
  <1>16. DataInv'
    BY <1>1, <1>12, <1>13, <1>15 DEF DataInv, IsData, IsHead
  <1> QED
    BY <1>6, <1>7, <1>16 DEF IInv

(* Control and unknown frames.                                             *)
LEMMA DrainControlStep ==
    IInv /\ (DrainPing \/ DrainClose \/ DrainOther) => IInv'
  <1> SUFFICES ASSUME IInv, NEW op \in Ops \ {"bad", "data"}, Frame(op), app' = app,
                      NEW m \in [msg : {"pong", "close"}, at : Nat],
                      out' \in {out, Append(out, m)}, lossy' \in BOOLEAN,
                      phase' \in {"drain", "serve"}, closed' \in BOOLEAN,
                      closed' <=> op = "close",
                      closed' => phase' = "serve"
               PROVE  IInv'
    <2> SUFFICES ASSUME IInv, DrainPing \/ DrainClose \/ DrainOther PROVE IInv'
      OBVIOUS
    <2>1. /\ phase = "drain" /\ ~closed /\ closed \in BOOLEAN /\ lossy \in BOOLEAN
      BY DEF DrainPing, DrainClose, DrainOther, Frame, IInv, FrameInv, TypeOK
    <2>2. /\ {"ping", "close", "pong", "unknown"} \subseteq Ops \ {"bad", "data"}
      BY DEF Ops
    <2>3. Decodable => Head(rx) \in Nat
      BY <2>1, HeadFacts
    <2>4. CASE DrainPing
      <3>1. /\ Frame("ping") /\ app' = app /\ phase' = phase /\ closed' = closed
            /\ Reply("pong", Head(rx)) /\ Decodable
        BY <2>4 DEF DrainPing, Frame
      <3>2. [msg |-> "pong", at |-> Head(rx)] \in [msg : {"pong", "close"}, at : Nat]
        BY <2>3, <3>1
      <3>3. /\ out' \in {out, Append(out, [msg |-> "pong", at |-> Head(rx)])}
            /\ lossy' \in BOOLEAN
        BY <2>1, <3>1 DEF Reply, WriteOk, WriteFails
      <3> QED
        BY <2>1, <2>2, <3>1, <3>2, <3>3
    <2>5. CASE DrainClose
      <3>1. /\ Frame("close") /\ app' = app /\ phase' = "serve" /\ closed' = TRUE
            /\ Reply("close", Head(rx)) /\ Decodable
        BY <2>5 DEF DrainClose, Frame
      <3>2. [msg |-> "close", at |-> Head(rx)] \in [msg : {"pong", "close"}, at : Nat]
        BY <2>3, <3>1
      <3>3. /\ out' \in {out, Append(out, [msg |-> "close", at |-> Head(rx)])}
            /\ lossy' \in BOOLEAN
        BY <2>1, <3>1 DEF Reply, WriteOk, WriteFails
      <3> QED
        BY <2>1, <2>2, <3>1, <3>2, <3>3
    <2>6. CASE DrainOther
      <3>1. /\ Frame("pong") \/ Frame("unknown")
            /\ app' = app /\ phase' = phase /\ closed' = closed /\ out' = out
            /\ lossy' = lossy
        BY <2>6 DEF DrainOther, outVars
      <3>2. [msg |-> "pong", at |-> 0] \in [msg : {"pong", "close"}, at : Nat]
        OBVIOUS
      <3> QED
        BY <2>1, <2>2, <3>1, <3>2
    <2> QED
      BY <2>4, <2>5, <2>6
  <1>1. /\ phase = "drain"
        /\ UNCHANGED <<wire, early, tls, sentTo, eof, recEnd, sock, ssl, req, delivered>>
    BY DEF Frame, peerVars
  <1>2. TypeOK /\ FrameInv /\ Upgraded
    BY <1>1 DEF IInv, FrameInv
  <1>3. m \in [msg : {"101", "pong", "close", "sec1"}, at : Nat]
    OBVIOUS
  <1>4. /\ Upgraded' = Upgraded
        /\ out' \in Seq([msg : {"101", "pong", "close", "sec1"}, at : Nat])
    <2>1. /\ Upgraded'
          /\ out' \in Seq([msg : {"101", "pong", "close", "sec1"}, at : Nat])
      BY <1>2, <1>3, UpgradedStays
    <2>2. Upgraded \in BOOLEAN /\ Upgraded' \in BOOLEAN
      BY DEF Upgraded
    <2> QED
      BY <1>2, <2>1, <2>2
  <1>5. op \in Ops \ {"bad"}
    OBVIOUS
  <1>6. PipeInv' /\ FrameInv'
    BY <1>4, <1>5, FrameKeeps
  <1>7. rx' \in Seq(Bytes)
    BY <1>5, FrameFacts
  <1>8. TypeOK'
    BY <1>1, <1>2, <1>4, <1>7 DEF TypeOK, Bytes
  <1>9. DataInv'
    BY ControlKeepsData
  <1> QED
    BY <1>6, <1>8, <1>9 DEF IInv

(* Bytes move from app_ to the session in order.                           *)
LEMMA ServeStep == IInv /\ Serve => IInv' /\ Decoded' = Decoded
  <1> SUFFICES ASSUME IInv, Serve PROVE IInv' /\ Decoded' = Decoded
    OBVIOUS
  <1>1. /\ phase \in {"serve", "poll"} /\ phase' = "poll"
        /\ delivered' = delivered \o First(app, Cap) /\ app' = Rest(app, Cap)
        /\ UNCHANGED <<wire, early, tls, sentTo, eof, recEnd, sock, ssl, req, rx, closed,
                       out, lossy>>
    BY DEF Serve, peerVars, outVars
  <1>2. TypeOK /\ PipeInv /\ FrameInv /\ DataInv /\ Cap \in Nat
    BY CapsAssumption DEF IInv
  <1>3. /\ app \in Seq(Bytes) /\ delivered \in Seq(Bytes)
        /\ First(app, Cap) \in Seq(Bytes) /\ Rest(app, Cap) \in Seq(Bytes)
        /\ First(app, Cap) \o Rest(app, Cap) = app
    BY <1>2, FirstRest DEF TypeOK
  <1>4. Staged' = Staged
    <2>1. (delivered \o First(app, Cap)) \o Rest(app, Cap)
             = delivered \o (First(app, Cap) \o Rest(app, Cap))
      <3> DEFINE f == First(app, Cap)
                 r == Rest(app, Cap)
      <3>1. delivered \in Seq(Bytes) /\ f \in Seq(Bytes) /\ r \in Seq(Bytes)
        BY <1>3
      <3> HIDE DEF f, r
      <3>2. (delivered \o f) \o r = delivered \o (f \o r)
        BY <3>1, ConcatAssociative
      <3> QED
        BY <3>2 DEF f, r
    <2> QED
      BY <1>1, <1>3, <2>1 DEF Staged
  <1>5. TypeOK'
    <2>1. delivered \o First(app, Cap) \in Seq(Bytes)
      BY <1>3, ConcatProperties
    <2> QED
      BY <1>1, <1>2, <1>3, <2>1 DEF TypeOK, Bytes
  <1>6. PipeInv' /\ Taken' = Taken
    BY <1>1, <1>2, PipeKept
  <1>7. Decoded' = Decoded /\ Upgraded' = Upgraded
    BY <1>1, <1>6 DEF Decoded, Upgraded
  <1>8. FrameInv'
    BY <1>1, <1>2, <1>4, <1>6, <1>7 DEF FrameInv, Run, Opened, IsHead
  <1>9. DataInv'
    BY <1>1, <1>2, <1>4, <1>7, DataKept DEF Opened
  <1> QED
    BY <1>5, <1>6, <1>7, <1>8, <1>9 DEF IInv

-----------------------------------------------------------------------------
(* ... and every step keeps it.                                            *)
LEMMA NextIInv == IInv /\ [Next]_vars => IInv'
  <1> SUFFICES ASSUME IInv, [Next]_vars PROVE IInv'
    OBVIOUS
  <1>m. [msg |-> "101", at |-> 0] \in [msg : {"101", "pong", "close", "sec1"}, at : Nat]
    OBVIOUS
  <1>t. TypeOK /\ lossy \in BOOLEAN
    BY DEF IInv, TypeOK
  <1>1. CASE PeerSends
    BY <1>1, PeerSendsStep
  <1>2. CASE PeerCloses
    <2>1. /\ eof' \in BOOLEAN
          /\ UNCHANGED <<wire, early, tls, sentTo, recEnd, sock, ssl, phase, req, rx, app,
                         closed, delivered, out, lossy>>
      BY <1>2 DEF PeerCloses, connVars, outVars
    <2>2. TypeOK'
      BY <2>1 DEF IInv, TypeOK, Bytes
    <2>3. PipeInv' /\ Taken' = Taken
      BY <2>1, PipeKept DEF IInv
    <2>4. Decoded' = Decoded /\ Staged' = Staged /\ Upgraded' = Upgraded
      BY <2>1, <2>3 DEF Decoded, Staged, Upgraded
    <2>5. FrameInv'
      BY <2>1, <2>3, <2>4 DEF IInv, FrameInv, Run, Opened, IsHead
    <2>6. DataInv'
      BY <2>1, <2>4, DataKept DEF IInv, Opened
    <2> QED
      BY <2>2, <2>3, <2>5, <2>6 DEF IInv
  <1>3. CASE HandshakeRead
    BY <1>3, HandshakeReadStep
  <1>4. CASE HeaderFlood \/ HandshakeFails \/ NoKey \/ RecvClosed \/ ServeEnd \/ SessionEnds
    BY <1>4, OverStep DEF HeaderFlood, HandshakeFails, NoKey, RecvClosed, ServeEnd,
                          SessionEnds
  <1>5. CASE SplitRequest
    BY <1>5, SplitRequestStep
  <1>6. CASE Send101
    <2>1. CASE phase' = "poll"
      <3>1. /\ phase = "reply"
            /\ out' = Append(out, [msg |-> "101", at |-> 0]) /\ lossy' = lossy
            /\ UNCHANGED <<wire, early, tls, sentTo, eof, recEnd, sock, ssl, req, rx, app,
                           closed, delivered>>
        BY <1>6, <2>1 DEF Send101, WriteOk, peerVars, connVars
      <3> QED
        BY <1>m, <1>t, <2>1, <3>1, QuietStep
    <2>2. CASE phase' = "over"
      <3>1. /\ phase = "reply" /\ out' = out /\ lossy' \in BOOLEAN
            /\ UNCHANGED <<wire, early, tls, sentTo, eof, recEnd, sock, ssl, req, rx, app,
                           closed, delivered>>
        BY <1>6, <2>2 DEF Send101, WriteFails, peerVars, connVars
      <3>2. TypeOK'
        BY <1>t, <2>2, <3>1 DEF TypeOK, Bytes
      <3>3. PipeInv' /\ Taken' = Taken
        BY <2>2, <3>1, PipeKept DEF IInv
      <3>4. Decoded' = Decoded /\ Staged' = Staged /\ Upgraded' = Upgraded
        BY <3>1, <3>3 DEF Decoded, Staged, Upgraded
      <3>5. FrameInv'
        BY <2>2, <3>1, <3>3, <3>4 DEF IInv, FrameInv, Run, Opened
      <3>6. DataInv'
        BY <2>2, <3>1, <3>4, DataKept DEF IInv, Opened
      <3> QED
        BY <3>2, <3>3, <3>5, <3>6 DEF IInv
    <2> QED
      BY <1>6, <2>1, <2>2 DEF Send101
  <1>7. CASE RecvRead
    BY <1>7, RecvReadStep
  <1>8. CASE DrainStops \/ ServeNothing
    <2>1. /\ phase \in {"drain", "serve"} /\ phase' \in {"poll", "serve"}
          /\ out' = out /\ lossy' = lossy
          /\ UNCHANGED <<wire, early, tls, sentTo, eof, recEnd, sock, ssl, req, rx, app,
                         closed, delivered>>
      BY <1>8 DEF DrainStops, ServeNothing, peerVars, connVars, outVars
    <2> QED
      BY <1>m, <1>t, <2>1, QuietStep
  <1>9. CASE DrainBad
    BY <1>9, DrainBadStep
  <1>10. CASE DrainData
    BY <1>10, DrainDataStep
  <1>11. CASE DrainPing \/ DrainClose \/ DrainOther
    BY <1>11, DrainControlStep
  <1>12. CASE Serve
    BY <1>12, ServeStep
  <1>13. CASE SessionSends
    <2>1. PICK k \in 1..MaxPush : WriteOk([msg |-> "sec1", at |-> k])
      BY <1>13 DEF SessionSends
    <2>2. /\ phase = "poll" /\ phase' = phase
          /\ UNCHANGED <<wire, early, tls, sentTo, eof, recEnd, sock, ssl, req, rx, app,
                         closed, delivered>>
      BY <1>13 DEF SessionSends, peerVars, connVars
    <2>3. /\ [msg |-> "sec1", at |-> k] \in [msg : {"101", "pong", "close", "sec1"}, at : Nat]
          /\ out' = Append(out, [msg |-> "sec1", at |-> k]) /\ lossy' = lossy
      BY <2>1, CapsAssumption DEF WriteOk
    <2> QED
      BY <1>t, <2>2, <2>3, QuietStep
  <1>14. CASE UNCHANGED vars
    <2>1. /\ out' = out /\ lossy' = lossy /\ phase' = phase
          /\ UNCHANGED <<wire, early, tls, sentTo, eof, recEnd, sock, ssl, req, rx, app,
                         closed, delivered>>
      BY <1>14 DEF vars, peerVars, connVars, outVars
    <2> QED
      BY <1>m, <1>t, <2>1, QuietStep
  <1> QED
    BY <1>1, <1>2, <1>3, <1>4, <1>5, <1>6, <1>7, <1>8, <1>9, <1>10, <1>11, <1>12, <1>13,
       <1>14 DEF Next, Terminal, Drain

(* The inductive invariant of the transport.                               *)
THEOREM Invariant == Spec => []IInv
  BY InitIInv, NextIInv, PTL DEF Spec

(* Every buffer holds bytes of the stream, in every reachable state of     *)
(* WebSocketConn.                                                          *)
THEOREM TransportTypes == Spec => []TypeOK
  <1>1. IInv => TypeOK
    BY DEF IInv
  <1> QED
    BY <1>1, Invariant, PTL

(* recv() gives the session a clean byte stream: the payload of the data   *)
(* frames, whole, once and in order, for any segmentation of the stream,   *)
(* any TLS records and any sizes of the buffers.                           *)
THEOREM StreamIsClean == Spec => []CleanStream
  <1>1. IInv => CleanStream
    <2> SUFFICES ASSUME IInv PROVE CleanStream
      OBVIOUS
    <2>1. Staged \in Seq(Bytes) /\ DOMAIN Staged = 1..Len(Staged)
      BY ConcatProperties, LenProperties DEF IInv, TypeOK, Staged
    <2> QED
      BY <2>1 DEF IInv, FrameInv, DataInv, CleanStream, Inc, Elems
  <1> QED
    BY <1>1, Invariant, PTL

-----------------------------------------------------------------------------
(* Answers to control frames.  Between the request and the 101 no head of  *)
(* a frame has been de-framed.                                             *)
CtrlInv ==
    /\ ControlAnswered
    /\ phase = "reply" => \A p \in 1..Decoded : wire[p].part # "head"

Messages == [msg : {"101", "pong", "close", "sec1"}, at : Nat]

(* De-framed bytes are counted from 0.                                     *)
LEMMA DecodedNat == IInv => Decoded \in Nat
  <1> SUFFICES ASSUME IInv PROVE Decoded \in Nat
    OBVIOUS
  <1>1. /\ Len(sock) \in Nat /\ Len(ssl) \in Nat /\ Len(rx) \in Nat /\ sentTo \in Nat
    BY LenProperties DEF IInv, TypeOK
  <1>2. Len(sock) + Len(ssl) <= sentTo /\ Len(rx) <= Taken
    BY DEF IInv, PipeInv, FrameInv
  <1> QED
    BY <1>1, <1>2 DEF Taken, Decoded

(* Nothing is written, and what is de-framed needs no answer.              *)
LEMMA AnswersKept ==
    ASSUME ControlAnswered, UNCHANGED <<wire, out>>, ~lossy' => ~lossy,
           Decoded \in Nat, Decoded' \in Nat, Decoded <= Decoded',
           ~lossy' /\ Upgraded =>
               \A p \in (Decoded + 1)..Decoded' : ~IsHead(p, {"ping", "close"})
    PROVE  ControlAnswered'
  <1>1. \A p, ops : IsHead(p, ops)' <=> IsHead(p, ops)
    BY DEF IsHead
  <1>2. Answers' = Answers /\ (Upgraded' <=> Upgraded)
    BY DEF Answers, Upgraded
  <1>3. \A p \in 1..Decoded' : p \in 1..Decoded \/ p \in (Decoded + 1)..Decoded'
    OBVIOUS
  <1>4. \A i \in Answers : out[i].at \in 1..Decoded'
    BY DEF ControlAnswered
  <1>5. Upgraded /\ ~lossy' => \A p \in 1..Decoded' :
           IsHead(p, {"ping", "close"}) => \E i \in Answers : out[i].at = p
    BY <1>3 DEF ControlAnswered
  <1>6. \A i \in Answers :
           IsHead(out[i].at, IF out[i].msg = "pong" THEN {"ping"} ELSE {"close"})
    BY DEF ControlAnswered
  <1>7. /\ \A i \in DOMAIN out : out[i].msg = "101" <=> i = 1
        /\ \A i, j \in Answers : i < j => out[i].at < out[j].at
    BY DEF ControlAnswered
  <1> QED
    BY <1>2, <1>4, <1>5, <1>6, <1>7 DEF ControlAnswered, IsHead

(* One more message: it answers the one frame that was de-framed, or no    *)
(* frame was.                                                              *)
LEMMA AnswersGrow ==
    ASSUME ControlAnswered, out \in Seq(Messages), NEW m \in Messages,
           out' = Append(out, m), wire' = wire, lossy' = lossy,
           Decoded \in Nat, Decoded' \in Nat, Decoded <= Decoded',
           m.msg = "101" <=> Len(out) = 0,
           m.msg \in {"pong", "close"} =>
               /\ m.at \in (Decoded + 1)..Decoded'
               /\ IsHead(m.at, IF m.msg = "pong" THEN {"ping"} ELSE {"close"}),
           \A p \in (Decoded + 1)..Decoded' :
               IsHead(p, {"ping", "close"}) => m.at = p /\ m.msg \in {"pong", "close"},
           ~Upgraded => \A p \in 1..Decoded : ~IsHead(p, {"ping", "close"})
    PROVE  ControlAnswered'
  <1> DEFINE l == Len(out) + 1
  <1>1. /\ Len(out) \in Nat /\ DOMAIN out = 1..Len(out)
        /\ DOMAIN out' = 1..l /\ l \in DOMAIN out'
        /\ \A i \in 1..Len(out) : out'[i] = out[i]
        /\ out'[l] = m
    <2>1. Len(out) \in Nat /\ DOMAIN out = 1..Len(out)
      BY LenProperties
    <2>2. /\ Len(out') = l /\ out' \in Seq(Messages)
          /\ \A i \in 1..Len(out) : out'[i] = out[i]
          /\ out'[l] = m
      BY AppendProperties
    <2>3. DOMAIN out' = 1..l
      BY <2>2, LenProperties
    <2> QED
      BY <2>1, <2>2, <2>3
  <1>2. Answers \subseteq 1..Len(out) /\ Answers' \subseteq Answers \cup {l}
        /\ Answers \subseteq Answers'
        /\ (m.msg \in {"pong", "close"} <=> l \in Answers')
    BY <1>1 DEF Answers
  <1>3. \A i \in Answers : /\ out'[i] = out[i] /\ i < l /\ out[i].at \in 1..Decoded
                           /\ i \in Nat
    BY <1>1, <1>2 DEF ControlAnswered
  <1>4. l \in Answers' => m.at \in (Decoded + 1)..Decoded'
    BY <1>2
  <1>n. /\ \A k \in 1..Decoded : k \in 1..Decoded'
        /\ \A k \in 1..Decoded, h \in (Decoded + 1)..Decoded' : k < h
        /\ \A k \in (Decoded + 1)..Decoded' : k \in 1..Decoded'
        /\ \A k \in 1..Decoded' : k \in 1..Decoded \/ k \in (Decoded + 1)..Decoded'
    OBVIOUS
  <1>a. \A i \in Answers :
           IsHead(out[i].at, IF out[i].msg = "pong" THEN {"ping"} ELSE {"close"})
    BY DEF ControlAnswered
  <1>b. ~lossy => \A p \in 1..Decoded : IsHead(p, {"ping", "close"}) =>
           \E i \in Answers : out[i].at = p
    BY DEF ControlAnswered
  <1>c. \A i \in Answers' : i \in 1..l /\ i \in Nat /\ l \in Nat
    BY <1>1 DEF Answers
  <1> HIDE DEF l
  <1>5. \A i \in DOMAIN out' : out'[i].msg = "101" <=> i = 1
    <2>1. ASSUME NEW i \in 1..Len(out)
          PROVE  out'[i].msg = "101" <=> i = 1
      BY <1>1, <2>1 DEF ControlAnswered
    <2>2. l = 1 <=> Len(out) = 0
      BY <1>1 DEF l
    <2>3. \A i \in DOMAIN out' : i \in 1..Len(out) \/ i = l
      BY <1>1 DEF l
    <2> QED
      BY <1>1, <2>1, <2>2, <2>3
  <1>6. ASSUME NEW i \in Answers', NEW j \in Answers', i < j
        PROVE  out'[i].at < out'[j].at
    <2>1. CASE i \in Answers /\ j \in Answers
      BY <1>3, <1>6, <2>1 DEF ControlAnswered
    <2>2. CASE i \in Answers /\ j = l
      <3>1. out'[i].at \in 1..Decoded /\ out'[j].at \in (Decoded + 1)..Decoded'
        BY <1>1, <1>3, <1>4, <2>2
      <3> QED
        BY <1>n, <3>1
    <2>3. ~(i = l)
      <3>1. j <= l /\ l \in Nat /\ j \in Nat
        BY <1>c
      <3> QED
        BY <1>6, <3>1
    <2> QED
      BY <1>2, <2>1, <2>2, <2>3
  <1>7. ASSUME NEW i \in Answers'
        PROVE  /\ out'[i].at \in 1..Decoded'
               /\ IsHead(out'[i].at, IF out'[i].msg = "pong" THEN {"ping"} ELSE {"close"})
    <2>1. CASE i \in Answers
      <3>1. IsHead(out[i].at, IF out[i].msg = "pong" THEN {"ping"} ELSE {"close"})
        BY <1>a, <2>1
      <3>2. out'[i] = out[i] /\ out[i].at \in 1..Decoded'
        BY <1>n, <1>3, <2>1
      <3> QED
        BY <3>1, <3>2
    <2>2. CASE i = l
      BY <1>n, <1>1, <1>2, <1>4, <2>2
    <2> QED
      BY <1>2, <2>1, <2>2
  <1>8. ASSUME ~lossy, NEW p \in 1..Decoded', IsHead(p, {"ping", "close"})
        PROVE  \E i \in Answers' : out'[i].at = p
    <2>1. CASE p \in 1..Decoded
      <3>1. PICK i \in Answers : out[i].at = p
        BY <1>b, <1>8, <2>1
      <3> QED
        BY <1>2, <1>3, <3>1
    <2>2. CASE p \in (Decoded + 1)..Decoded'
      BY <1>1, <1>2, <1>8, <2>2
    <2> QED
      BY <1>n, <2>1, <2>2
  <1> QED
    BY <1>5, <1>6, <1>7, <1>8 DEF ControlAnswered, IsHead

(* Steps that neither write nor de-frame.                                  *)
LEMMA CtrlIdle ==
    ASSUME IInv, IInv', CtrlInv, UNCHANGED <<wire, out>>, ~lossy' => ~lossy,
           Decoded' = Decoded, phase' = "reply" => phase = "reply"
    PROVE  CtrlInv'
  <1>1. Decoded \in Nat /\ Decoded' \in Nat
    BY DecodedNat
  <1>2. Decoded <= Decoded' /\ \A p \in (Decoded + 1)..Decoded' : ~IsHead(p, {"ping", "close"})
    BY <1>1
  <1>3. ControlAnswered
    BY DEF CtrlInv
  <1>4. ControlAnswered'
    BY <1>1, <1>2, <1>3, AnswersKept
  <1> QED
    BY <1>4 DEF CtrlInv

(* De-framing a frame passes exactly one head, its own.                    *)
LEMMA OneHead ==
    ASSUME IInv, NEW op \in Ops \ {"bad"}, Frame(op)
    PROVE  /\ Decoded \in Nat /\ Decoded' \in Nat /\ Decoded + 1 <= Decoded'
           /\ wire' = wire /\ phase = "drain" /\ Upgraded
           /\ Head(rx) = Decoded + 1
           /\ IsHead(Decoded + 1, {op})
           /\ \A p \in (Decoded + 1)..Decoded' :
                 p = Decoded + 1 \/ wire[p].part = "body"
           /\ wire[Decoded + 1].op = op
  <1>1. /\ Head1.n \in Nat /\ Decoded \in Nat
        /\ Decoded' = Decoded + Head1.n + 1
        /\ wire[Decoded + 1].part = "head" /\ wire[Decoded + 1].op = op
        /\ \A j \in 1..Head1.n :
              wire[Decoded + 1 + j] = [part |-> "body", op |-> op, n |-> j]
    BY FrameFacts
  <1>2. phase = "drain" /\ wire' = wire /\ Decodable
    BY DEF Frame, peerVars
  <1>3. Head(rx) = Decoded + 1 /\ Upgraded
    BY <1>2, HeadFacts DEF IInv, FrameInv
  <1>4. ASSUME NEW p \in (Decoded + 1)..Decoded', p # Decoded + 1
        PROVE  wire[p].part = "body"
    <2>1. p - (Decoded + 1) \in 1..Head1.n /\ p = Decoded + 1 + (p - (Decoded + 1))
      BY <1>1, <1>4
    <2>2. PICK j \in 1..Head1.n : p = Decoded + 1 + j
      BY <2>1
    <2>3. wire[Decoded + 1 + j] = [part |-> "body", op |-> op, n |-> j]
      BY <1>1
    <2> QED
      BY <2>2, <2>3
  <1>5. Decoded' \in Nat /\ Decoded + 1 <= Decoded'
    BY <1>1
  <1>6. IsHead(Decoded + 1, {op})
    BY <1>1 DEF IsHead
  <1> QED
    BY <1>1, <1>2, <1>3, <1>4, <1>5, <1>6

(* A ping or a close: its answer is written, or a write has failed.        *)
LEMMA CtrlReply ==
    ASSUME IInv, CtrlInv, NEW op \in {"ping", "close"}, Frame(op),
           phase' # "reply",
           Reply(IF op = "ping" THEN "pong" ELSE "close", Head(rx))
    PROVE  CtrlInv'
  <1> DEFINE m == [msg |-> IF op = "ping" THEN "pong" ELSE "close", at |-> Head(rx)]
  <1>1. op \in Ops \ {"bad"}
    BY DEF Ops
  <1>2. /\ Decoded \in Nat /\ Decoded' \in Nat /\ Decoded + 1 <= Decoded'
        /\ wire' = wire /\ phase = "drain" /\ Upgraded
        /\ Head(rx) = Decoded + 1
        /\ IsHead(Decoded + 1, {op})
        /\ \A p \in (Decoded + 1)..Decoded' : p = Decoded + 1 \/ wire[p].part = "body"
    BY <1>1, OneHead
  <1>3. ControlAnswered /\ out \in Seq(Messages) /\ Len(out) \in Nat /\ Len(out) # 0
    <2>1. out \in Seq(Messages)
      BY DEF IInv, TypeOK, Messages
    <2>2. Len(out) \in Nat /\ DOMAIN out = 1..Len(out)
      BY <2>1, LenProperties
    <2>3. DOMAIN out # {}
      BY <1>2 DEF Upgraded
    <2> QED
      BY <2>1, <2>2, <2>3 DEF CtrlInv
  <1>4. CASE WriteFails
    <2>1. lossy' /\ out' = out
      BY <1>4 DEF WriteFails
    <2>2. Decoded <= Decoded'
      BY <1>2
    <2>3. ControlAnswered'
      BY <1>2, <1>3, <2>1, <2>2, AnswersKept
    <2> QED
      BY <2>3 DEF CtrlInv
  <1>5. CASE WriteOk(m)
    <2>1. out' = Append(out, m) /\ lossy' = lossy
      BY <1>5 DEF WriteOk
    <2>2. m \in Messages /\ m.msg \in {"pong", "close"} /\ m.msg # "101"
          /\ m.at = Decoded + 1
      BY <1>2 DEF Messages
    <2>3. IsHead(m.at, IF m.msg = "pong" THEN {"ping"} ELSE {"close"})
      BY <1>2 DEF IsHead
    <2> HIDE DEF m
    <2>4. m.at \in (Decoded + 1)..Decoded' /\ Decoded <= Decoded'
      BY <1>2, <2>2
    <2>5. \A p \in (Decoded + 1)..Decoded' : IsHead(p, {"ping", "close"}) => m.at = p
      BY <1>2, <2>2 DEF IsHead
    <2>6. ControlAnswered'
      BY <1>2, <1>3, <2>1, <2>2, <2>3, <2>4, <2>5, AnswersGrow
    <2> QED
      BY <2>6 DEF CtrlInv
  <1> QED
    BY <1>4, <1>5 DEF Reply

(* Frames without an answer.                                               *)
LEMMA CtrlPass ==
    ASSUME IInv, CtrlInv, NEW op \in {"data", "pong", "unknown"}, Frame(op),
           phase' # "reply", UNCHANGED outVars
    PROVE  CtrlInv'
  <1>1. op \in Ops \ {"bad"}
    BY DEF Ops
  <1>2. /\ Decoded \in Nat /\ Decoded' \in Nat /\ Decoded + 1 <= Decoded'
        /\ wire' = wire /\ wire[Decoded + 1].op = op
        /\ \A p \in (Decoded + 1)..Decoded' : p = Decoded + 1 \/ wire[p].part = "body"
    BY <1>1, OneHead
  <1>3. \A p \in (Decoded + 1)..Decoded' : ~IsHead(p, {"ping", "close"})
    BY <1>2 DEF IsHead
  <1>4. ControlAnswered /\ Decoded <= Decoded' /\ out' = out /\ (~lossy' => ~lossy)
    BY <1>2 DEF CtrlInv, outVars
  <1>5. ControlAnswered'
    BY <1>2, <1>3, <1>4, AnswersKept
  <1> QED
    BY <1>5 DEF CtrlInv

(* Nothing is written before the upgrade.                                  *)
LEMMA CtrlBefore ==
    ASSUME IInv', phase' \in {"handshake", "reply"},
           phase' = "reply" => \A p \in 1..Decoded' : wire'[p].part # "head"
    PROVE  CtrlInv'
  <1>1. out' = << >>
    BY DEF IInv, FrameInv
  <1>2. DOMAIN out' = {}
    BY <1>1, EmptySeq, LenProperties
  <1>3. ~Upgraded' /\ Answers' = {}
    BY <1>2 DEF Upgraded, Answers
  <1>4. ControlAnswered'
    BY <1>2, <1>3 DEF ControlAnswered
  <1> QED
    BY <1>4 DEF CtrlInv

(* Every step keeps pings, closes and their answers together.              *)
LEMMA CtrlStep ==
    ASSUME IInv, IInv', CtrlInv, [Next]_vars
    PROVE  CtrlInv'
  <1>1. ASSUME UNCHANGED <<sentTo, sock, ssl, rx>>
        PROVE  Decoded' = Decoded
    BY <1>1 DEF Decoded, Taken
  <1>2. ASSUME Decoded' = Decoded, UNCHANGED <<wire, out, lossy>>,
               phase' = phase \/ phase' # "reply"
        PROVE  CtrlInv'
    BY <1>2, CtrlIdle
  <1>3. CASE PeerSends
    <2>1. Decoded' = Decoded
      BY <1>3, PeerSendsStep
    <2>2. UNCHANGED <<wire, out, lossy, phase>>
      BY <1>3 DEF PeerSends, outVars
    <2> QED
      BY <1>2, <2>1, <2>2
  <1>4. CASE PeerCloses \/ DrainStops \/ DrainBad \/ ServeNothing \/ UNCHANGED vars
    <2>1. /\ UNCHANGED <<sentTo, sock, ssl, rx, wire, out, lossy>>
          /\ phase' = phase \/ phase' # "reply"
      BY <1>4 DEF PeerCloses, DrainStops, DrainBad, ServeNothing, vars, peerVars,
                  connVars, outVars
    <2> QED
      BY <1>1, <1>2, <2>1
  <1>5. CASE HandshakeRead
    <2>1. phase' = "handshake"
      BY <1>5 DEF HandshakeRead
    <2> QED
      BY <2>1, CtrlBefore
  <1>6. CASE HeaderFlood \/ HandshakeFails \/ NoKey \/ RecvClosed \/ ServeEnd \/ SessionEnds
    <2>1. Over
      BY <1>6 DEF HeaderFlood, HandshakeFails, NoKey, RecvClosed, ServeEnd, SessionEnds
    <2>2. Decoded' = Decoded
      BY <2>1, OverStep
    <2>3. UNCHANGED <<wire, out, lossy>> /\ phase' # "reply"
      BY <2>1 DEF Over, peerVars, outVars
    <2> QED
      BY <1>2, <2>2, <2>3
  <1>7. CASE SplitRequest
    <2>1. \A p \in 1..Decoded' : wire[p].part # "head"
      BY <1>7, SplitRequestStep
    <2>2. phase' = "reply" /\ wire' = wire
      BY <1>7 DEF SplitRequest, peerVars
    <2> QED
      BY <2>1, <2>2, CtrlBefore
  <1>8. CASE Send101
    <2>1. /\ phase = "reply" /\ phase' # "reply"
          /\ UNCHANGED <<sentTo, sock, ssl, rx, wire>>
      BY <1>8 DEF Send101, peerVars, connVars
    <2>2. Decoded' = Decoded
      BY <1>1, <2>1
    <2>3. CASE WriteFails
      <3>1. out' = out /\ (~lossy' => ~lossy)
        BY <2>3 DEF WriteFails
      <3> QED
        BY <2>1, <2>2, <3>1, CtrlIdle
    <2>4. CASE WriteOk([msg |-> "101", at |-> 0])
      <3> DEFINE m == [msg |-> "101", at |-> 0]
      <3>1. m \in Messages /\ m.msg = "101"
        BY DEF Messages
      <3>2. out' = Append(out, m) /\ lossy' = lossy
        BY <2>4 DEF WriteOk
      <3> HIDE DEF m
      <3>3. out = << >>
        BY <2>1 DEF IInv, FrameInv
      <3>4. Len(out) = 0 /\ out \in Seq(Messages)
        BY <3>3, EmptySeq
      <3>5. Decoded \in Nat /\ Decoded' \in Nat /\ Decoded <= Decoded'
        BY <2>2, DecodedNat
      <3>6. /\ \A p \in 1..Decoded : ~IsHead(p, {"ping", "close"})
            /\ ControlAnswered
        BY <2>1 DEF CtrlInv, IsHead
      <3>7. \A p \in (Decoded + 1)..Decoded' : ~IsHead(p, {"ping", "close"})
        BY <2>2, <3>5
      <3>8. ControlAnswered'
        BY <2>1, <3>1, <3>2, <3>4, <3>5, <3>6, <3>7, AnswersGrow
      <3> QED
        BY <2>1, <3>8 DEF CtrlInv
    <2> QED
      BY <1>8, <2>3, <2>4 DEF Send101
  <1>9. CASE RecvRead
    <2>1. Decoded' = Decoded
      BY <1>9, RecvReadStep
    <2>2. UNCHANGED <<wire, out, lossy>> /\ phase' # "reply"
      BY <1>9 DEF RecvRead, peerVars, outVars
    <2> QED
      BY <1>2, <2>1, <2>2
  <1>10. CASE DrainData \/ DrainOther
    <2>1. PICK op \in {"data", "pong", "unknown"} : Frame(op)
      BY <1>10 DEF DrainData, DrainOther
    <2>2. UNCHANGED <<phase, outVars>> /\ phase = "drain"
      BY <1>10, <2>1 DEF DrainData, DrainOther, Frame
    <2> QED
      BY <2>1, <2>2, CtrlPass
  <1>11. CASE DrainPing
    <2>1. Frame("ping") /\ Reply("pong", Head(rx)) /\ phase' # "reply"
      BY <1>11 DEF DrainPing, Frame
    <2> QED
      BY <2>1, CtrlReply
  <1>12. CASE DrainClose
    <2>1. Frame("close") /\ Reply("close", Head(rx)) /\ phase' # "reply"
      BY <1>12 DEF DrainClose, Frame
    <2> QED
      BY <2>1, CtrlReply
  <1>13. CASE Serve
    <2>1. Decoded' = Decoded
      BY <1>13, ServeStep
    <2>2. UNCHANGED <<wire, out, lossy>> /\ phase' # "reply"
      BY <1>13 DEF Serve, peerVars, outVars
    <2> QED
      BY <1>2, <2>1, <2>2
  <1>14. CASE SessionSends
    <2>1. /\ phase = "poll" /\ phase' = phase
          /\ UNCHANGED <<sentTo, sock, ssl, rx, wire>>
      BY <1>14 DEF SessionSends, peerVars, connVars
    <2>2. PICK k \in 1..MaxPush : WriteOk([msg |-> "sec1", at |-> k])
      BY <1>14 DEF SessionSends
    <2> DEFINE m == [msg |-> "sec1", at |-> k]
    <2>3. m \in Messages /\ m.msg = "sec1"
      BY CapsAssumption DEF Messages
    <2>4. out' = Append(out, m) /\ lossy' = lossy
      BY <2>2 DEF WriteOk
    <2> HIDE DEF m
    <2>5. Upgraded /\ ControlAnswered /\ out \in Seq(Messages)
      BY <2>1 DEF IInv, FrameInv, CtrlInv, TypeOK, Messages
    <2>6. Len(out) # 0
      <3>1. DOMAIN out = 1..Len(out)
        BY <2>5, LenProperties
      <3> QED
        BY <2>5, <3>1 DEF Upgraded
    <2>7. Decoded' = Decoded /\ Decoded \in Nat /\ Decoded' \in Nat /\ Decoded <= Decoded'
      BY <1>1, <2>1, DecodedNat
    <2>8. \A p \in (Decoded + 1)..Decoded' : ~IsHead(p, {"ping", "close"})
      BY <2>7
    <2>9. ControlAnswered'
      BY <2>1, <2>3, <2>4, <2>5, <2>6, <2>7, <2>8, AnswersGrow
    <2> QED
      BY <2>1, <2>9 DEF CtrlInv
  <1> QED
    BY <1>3, <1>4, <1>5, <1>6, <1>7, <1>8, <1>9, <1>10, <1>11, <1>12, <1>13, <1>14
    DEF Next, Terminal, Drain

(* Every ping gets its pong and every close its close, once and in their   *)
(* order, behind the 101, unless a write has failed: for every stream of   *)
(* frames, cut anywhere.                                                   *)
THEOREM ControlIsAnswered == Spec => []ControlAnswered
  <1>1. Init => CtrlInv
    <2> SUFFICES ASSUME Init PROVE CtrlInv
      OBVIOUS
    <2>1. out = << >> /\ phase = "handshake"
      BY DEF Init
    <2>2. DOMAIN out = {}
      BY <2>1, EmptySeq, LenProperties
    <2>3. ~Upgraded /\ Answers = {}
      BY <2>2 DEF Upgraded, Answers
    <2> QED
      BY <2>1, <2>2, <2>3 DEF CtrlInv, ControlAnswered
  <1>2. IInv /\ IInv' /\ CtrlInv /\ [Next]_vars => CtrlInv'
    BY CtrlStep
  <1>3. CtrlInv => ControlAnswered
    BY DEF CtrlInv
  <1> QED
    BY <1>1, <1>2, <1>3, Invariant, PTL DEF Spec

-----------------------------------------------------------------------------
(* What is safety in WaitingPeerIsServed: while the session sleeps in      *)
(* poll(), nothing that a waiting peer has sent is left behind.            *)

Sleeps == phase = "poll" /\ sock = << >>

(* A data byte that has come, and the rest of its frame too, is with the   *)
(* session or in app_: it waits neither in rx_ for later bytes, nor in     *)
(* OpenSSL, where poll() does not see it.                                  *)
NothingWaits ==
    ~early /\ RecordsFit /\ Sleeps =>
        \A p \in 1..sentTo :
            Arrived(p) => Got(p) \/ \E i \in DOMAIN app : app[i] = p

(* closed_ has a cause among the frames looked at.                         *)
ClosedInv ==
    closed => \E q \in 1..(Decoded + 1) : q \in Bytes /\ IsHead(q, {"close", "bad"})

(* Of a peer that waits: it has sent no frame before the 101, so none is   *)
(* behind the request; and drainFrames() leaves no whole frame in rx_.     *)
WaitInv ==
    ~early =>
        /\ ~Upgraded => \A p \in 1..sentTo : wire[p].part \in {"header", "blank"}
        /\ phase = "reply" => rx = << >> /\ ssl = << >>
        /\ phase \in {"poll", "serve"} /\ ~closed => ~Decodable
        /\ RecordsFit /\ phase \in {"poll", "drain", "serve"} => ssl = << >>

ServedInv == ClosedInv /\ WaitInv

(* Steps that move no byte towards the session and de-frame nothing.       *)
LEMMA ServedKept ==
    ASSUME ServedInv, Upgraded => Upgraded',
           UNCHANGED <<wire, early, tls, sentTo, recEnd, sock, ssl, rx, closed>>,
           \/ phase' \in {phase, "over"}
           \/ phase \in {"poll", "serve"} /\ phase' \in {"poll", "serve"}
           \/ phase = "reply" /\ phase' = "poll"
           \/ phase = "drain" /\ phase' = "serve" /\ ~Decodable
    PROVE  ServedInv'
<1>1. Decoded' = Decoded /\ (Decodable' <=> Decodable) /\ Bytes' = Bytes
      /\ (RecordsFit' <=> RecordsFit)
  BY DEF Decoded, Taken, Decodable, Head1, Bytes, RecordsFit
<1>2. ClosedInv'
  BY <1>1 DEF ServedInv, ClosedInv, IsHead
<1>3. rx = << >> => ~Decodable
  BY DEF Decodable
<1>4. ASSUME ~early
      PROVE  /\ ~Upgraded => \A p \in 1..sentTo :
                                wire[p].part \in {"header", "blank"}
             /\ phase = "reply" => rx = << >> /\ ssl = << >>
             /\ phase \in {"poll", "serve"} /\ ~closed => ~Decodable
             /\ RecordsFit /\ phase \in {"poll", "drain", "serve"} => ssl = << >>
  BY <1>4 DEF ServedInv, WaitInv
<1>5. WaitInv'
  BY <1>1, <1>3, <1>4 DEF WaitInv
<1> QED BY <1>2, <1>5 DEF ServedInv

(* The peer's bytes are one record, and frames only behind the 101.        *)
LEMMA ServedSent == IInv /\ IInv' /\ ServedInv /\ PeerSends => ServedInv'
<1> SUFFICES ASSUME IInv, IInv', ServedInv, PeerSends PROVE ServedInv'
  OBVIOUS
<1>1. PICK k \in 1..MaxSegment :
         /\ early \/ Upgraded
              \/ \A p \in 1..(sentTo + k) : wire[p].part \in {"header", "blank"}
         /\ recEnd' = IF tls THEN recEnd \o [i \in 1..k |-> sentTo + k] ELSE recEnd
         /\ sentTo' = sentTo + k
  BY DEF PeerSends
<1>2. UNCHANGED <<wire, early, tls, ssl, phase, rx, closed, out>>
  BY DEF PeerSends, connVars, outVars
<1>3. sentTo \in Nat /\ k \in Nat \ {0} /\ MaxSegment \in Nat
  BY CapsAssumption DEF IInv, TypeOK
<1>4. /\ Decoded' = Decoded /\ (Decodable' <=> Decodable) /\ Bytes' = Bytes
      /\ (Upgraded' <=> Upgraded)
  BY <1>2, PeerSendsStep
  DEF Decodable, Head1, Bytes, Upgraded
<1>5. RecordsFit' => RecordsFit
  <2>1. CASE ~tls
    BY <1>1, <2>1 DEF RecordsFit
  <2>2. CASE tls
    <3> DEFINE fin == [i \in 1..k |-> sentTo + k]
    <3>1. recEnd \in Seq(Bytes)
      BY DEF IInv, TypeOK
    <3>2. fin \in Seq(Bytes)
      <4>1. sentTo + k \in Bytes
        BY <1>1, <1>2, <1>3 DEF IInv, TypeOK, Bytes
      <4>2. fin \in [1..k -> Bytes]
        BY <4>1
      <4> HIDE DEF fin
      <4> QED BY <1>3, <4>2, NewRun
    <3>3. recEnd' = recEnd \o fin
      BY <1>1, <2>2
    <3> HIDE DEF fin
    <3>4. \A p \in DOMAIN recEnd : p \in DOMAIN recEnd' /\ recEnd'[p] = recEnd[p]
      BY <3>1, <3>2, <3>3, ConcatProperties, LenProperties
    <3> QED BY <3>4 DEF RecordsFit
  <2> QED BY <2>1, <2>2
<1>6. ClosedInv'
  BY <1>2, <1>4 DEF ServedInv, ClosedInv, IsHead
<1>7. ASSUME ~early
      PROVE  /\ ~Upgraded => \A p \in 1..sentTo' :
                                wire[p].part \in {"header", "blank"}
             /\ phase = "reply" => rx = << >> /\ ssl = << >>
             /\ phase \in {"poll", "serve"} /\ ~closed => ~Decodable
             /\ RecordsFit /\ phase \in {"poll", "drain", "serve"} => ssl = << >>
  BY <1>1, <1>7 DEF ServedInv, WaitInv
<1>8. WaitInv'
  BY <1>2, <1>4, <1>5, <1>7 DEF WaitInv
<1> QED BY <1>6, <1>8 DEF ServedInv

(* A read of the handshake: no answer yet, and nothing is closed.          *)
LEMMA ServedHandshake == IInv /\ ServedInv /\ HandshakeRead => ServedInv'
<1> SUFFICES ASSUME IInv, ServedInv, HandshakeRead PROVE ServedInv'
  OBVIOUS
<1>1. /\ phase = "handshake" /\ phase' = "handshake" /\ ~closed'
      /\ UNCHANGED <<wire, early, tls, sentTo, recEnd, out>>
  BY DEF HandshakeRead, peerVars, connVars, outVars, IInv, FrameInv
<1>2. ClosedInv'
  BY <1>1 DEF ServedInv, ClosedInv
<1>3. WaitInv'
  BY <1>1 DEF ServedInv, WaitInv, Upgraded
<1> QED BY <1>2, <1>3 DEF ServedInv

(* Behind the request of a peer that waits nothing has been sent.          *)
LEMMA ServedSplit == IInv /\ ServedInv /\ SplitRequest => ServedInv'
<1> SUFFICES ASSUME IInv, ServedInv, SplitRequest PROVE ServedInv'
  OBVIOUS
<1>1. PICK i \in DOMAIN req :
         /\ wire[req[i]].part = "blank"
         /\ rx' = SubSeq(req, i + 1, Len(req))
  BY DEF SplitRequest
<1>2. /\ phase = "handshake" /\ phase' = "reply" /\ ~closed'
      /\ UNCHANGED <<wire, early, tls, sentTo, recEnd, sock, ssl, out>>
  BY DEF SplitRequest, peerVars, outVars, IInv, FrameInv
<1>3. ClosedInv'
  BY <1>2 DEF ServedInv, ClosedInv
<1>4. ASSUME ~early PROVE rx' = << >> /\ ssl = << >>
  <2>1. /\ req \in Seq(Bytes) /\ Len(req) = Taken /\ Run(req, 0)
        /\ sock \in Seq(Bytes) /\ ssl \in Seq(Bytes) /\ sentTo \in 0..Len(wire)
        /\ Len(sock) + Len(ssl) <= sentTo
    BY <1>2 DEF IInv, TypeOK, PipeInv
  <2>2. /\ Len(req) \in Nat /\ Len(sock) \in Nat /\ Len(ssl) \in Nat
        /\ DOMAIN req = 1..Len(req) /\ Len(wire) \in Nat
    BY <2>1, LenProperties, WireFacts DEF IInv
  <2>3. i \in 1..Taken /\ req[i] = i /\ Taken = sentTo - Len(sock) - Len(ssl)
    BY <2>1, <2>2 DEF Run, Taken
  <2>4. i \in Bytes /\ wire[i].part = "blank"
    BY <1>1, <2>1, <2>2, <2>3 DEF Bytes
  <2>5. i < Len(wire) => wire[i + 1].part = "head"
    BY <2>4, WireFacts DEF IInv, Framed
  <2>6. ~Upgraded
    BY <1>2, EmptySeq, LenProperties DEF IInv, FrameInv, Upgraded
  <2>7. \A p \in 1..sentTo : wire[p].part \in {"header", "blank"}
    BY <1>4, <2>6 DEF ServedInv, WaitInv
  <2>8. ~(i < sentTo)
    <3> SUFFICES ASSUME i < sentTo PROVE FALSE
      OBVIOUS
    <3>1. i + 1 \in 1..sentTo /\ i < Len(wire)
      BY <2>1, <2>2, <2>3
    <3> QED BY <2>5, <2>7, <3>1
  <2>9. Len(ssl) = 0 /\ Taken = i
    BY <2>1, <2>2, <2>3, <2>8
  <2>10. rx' = << >>
    BY <1>1, <2>1, <2>2, <2>3, <2>9
  <2> QED BY <2>1, <2>9, <2>10, EmptySeq
<1>5. WaitInv'
  BY <1>2, <1>4 DEF ServedInv, WaitInv, Upgraded
<1> QED BY <1>3, <1>5 DEF ServedInv

(* A record that fits is read whole, so OpenSSL keeps nothing of it.       *)
LEMMA ServedRead == IInv /\ IInv' /\ ServedInv /\ RecvRead => ServedInv'
<1> SUFFICES ASSUME IInv, IInv', ServedInv, RecvRead PROVE ServedInv'
  OBVIOUS
<1>1. /\ phase = "poll" /\ phase' = "drain" /\ ~closed'
      /\ Readable /\ Consume(ReadCap)
      /\ UNCHANGED <<wire, early, tls, sentTo, recEnd, out>>
  BY DEF RecvRead, peerVars, connVars, outVars
<1>2. ClosedInv'
  BY <1>1 DEF ServedInv, ClosedInv
<1>3. ASSUME ~early, RecordsFit PROVE ssl' = << >>
  <2>1. CASE ~tls
    BY <1>1, <2>1 DEF IInv, PipeInv
  <2>2. CASE tls
    <3>1. ssl = << >>
      BY <1>1, <1>3 DEF ServedInv, WaitInv
    <3>2. ReadCap \in Nat \ {0}
      BY CapsAssumption
    <3>3. /\ Incoming \in Seq(Bytes) /\ Len(Incoming) = RecordEnd
          /\ RecordEnd \in 1..Len(sock)
      BY <1>1, <3>1, IncomingFacts DEF IInv
    <3>4. /\ sock \in Seq(Bytes) /\ Len(sock) \in Nat /\ Len(sock) > 0
          /\ Len(sock) <= sentTo /\ sentTo \in Nat /\ sock # << >>
      <4>1. sock \in Seq(Bytes) /\ ssl \in Seq(Bytes) /\ sentTo \in Nat
        BY DEF IInv, TypeOK
      <4>2. Len(sock) \in Nat /\ Len(ssl) \in Nat
        BY <4>1, LenProperties
      <4>3. Len(sock) + Len(ssl) <= sentTo
        BY DEF IInv, PipeInv
      <4>4. sock # << >>
        BY <1>1, <3>1 DEF Readable
      <4> QED BY <3>3, <4>1, <4>2, <4>3, <4>4
    <3>5. Head(sock) = sentTo - Len(sock) + 1
      <4>1. Head(sock) = sock[1]
        BY <3>4
      <4>2. Run(sock, sentTo - Len(sock))
        BY DEF IInv, PipeInv
      <4>3. sock[1] = sentTo - Len(sock) + 1
        BY <3>4, <4>2 DEF Run
      <4> QED BY <4>1, <4>3
    <3>6. Head(sock) \in 1..sentTo
      BY <3>4, <3>5
    <3>7. recEnd[Head(sock)] - Head(sock) < ReadCap
      <4>1. Head(sock) \in DOMAIN recEnd
        BY <2>2, <3>6, LenProperties DEF IInv, TypeOK, PipeInv
      <4> QED BY <1>3, <4>1 DEF RecordsFit
    <3>8. recEnd[Head(sock)] \in Nat
      <4>1. recEnd[Head(sock)] \in Head(sock)..sentTo
        BY <2>2, <3>6 DEF IInv, PipeInv
      <4> QED BY <3>4, <3>6, <4>1
    <3>9. RecordEnd = recEnd[Head(sock)] - Head(sock) + 1
      BY <2>2 DEF RecordEnd
    <3>10. RecordEnd <= ReadCap
      BY <3>2, <3>6, <3>7, <3>8, <3>9
    <3>11. /\ ssl' = Rest(Incoming, ReadCap)
           /\ Rest(Incoming, ReadCap) \in Seq(Bytes)
           /\ Len(Rest(Incoming, ReadCap)) =
                 Len(Incoming) - Least(ReadCap, Len(Incoming))
      BY <1>1, <2>2, <3>2, <3>3, FirstRest DEF Consume
    <3>12. Least(ReadCap, Len(Incoming)) = Len(Incoming)
      BY <3>2, <3>3, <3>4, <3>10 DEF Least
    <3>13. Len(Rest(Incoming, ReadCap)) = 0
      BY <3>3, <3>4, <3>11, <3>12
    <3> QED BY <3>11, <3>13, EmptySeq
  <2> QED BY <2>1, <2>2
<1>4. RecordsFit' <=> RecordsFit
  BY <1>1 DEF RecordsFit
<1>5. WaitInv'
  <2>1. ~early => (~Upgraded => \A p \in 1..sentTo :
                                   wire[p].part \in {"header", "blank"})
    BY DEF ServedInv, WaitInv
  <2> QED BY <1>1, <1>3, <1>4, <2>1 DEF WaitInv, Upgraded
<1> QED BY <1>2, <1>5 DEF ServedInv

(* drainFrames() takes one frame, or refuses it.                           *)
LEMMA ServedDrain ==
    ASSUME IInv, IInv', ServedInv, Drain
    PROVE  ServedInv'
<1>1. /\ phase = "drain" /\ ~closed
      /\ UNCHANGED <<wire, early, tls, sentTo, recEnd, sock, ssl>>
  BY DEF Drain, DrainStops, DrainBad, DrainData, DrainPing, DrainClose,
     DrainOther, Frame, peerVars, IInv, FrameInv
<1>2. Upgraded /\ Upgraded'
  <2>1. Upgraded
    BY <1>1 DEF IInv, FrameInv
  <2>2. phase' \in {"drain", "serve"}
    BY <1>1 DEF Drain, DrainStops, DrainBad, DrainData, DrainPing, DrainClose,
       DrainOther
  <2> QED BY <2>1, <2>2 DEF IInv, FrameInv
<1>3. RecordsFit' <=> RecordsFit
  BY <1>1 DEF RecordsFit
<1>5. ~early /\ RecordsFit => ssl = << >>
  BY <1>1 DEF ServedInv, WaitInv
<1>6. CASE DrainStops
  <2>1. UNCHANGED <<rx, closed>> /\ phase' = "serve" /\ ~Decodable
    BY <1>6 DEF DrainStops, connVars
  <2> QED BY <1>1, <1>2, <2>1, ServedKept
<1>7. CASE DrainData \/ DrainPing \/ DrainOther
  <2>1. closed' = closed /\ phase' = "drain"
    BY <1>1, <1>7 DEF DrainData, DrainPing, DrainOther
  <2>2. ClosedInv' /\ WaitInv'
    BY <1>1, <1>2, <1>3, <1>5, <2>1 DEF ServedInv, ClosedInv, WaitInv
  <2> QED BY <2>2 DEF ServedInv
<1>8. CASE DrainBad \/ DrainClose
  <2>1. /\ closed' /\ phase' = "serve" /\ Decodable
        /\ Head1.op \in {"bad", "close"}
    BY <1>8 DEF DrainBad, DrainClose, Frame
  <2>2. /\ Decoded \in Nat /\ Decoded + 1 \in Bytes
        /\ wire[Decoded + 1].part = "head"
        /\ wire[Decoded + 1].op \in {"close", "bad"}
    BY <1>1, <2>1, HeadFacts
  <2>3. Decoded' \in Nat /\ Decoded' >= Decoded
    <3>1. CASE DrainBad
      <4>1. UNCHANGED rx
        BY <3>1 DEF DrainBad
      <4>2. Decoded' = Decoded
        BY <1>1, <4>1 DEF Decoded, Taken
      <4> QED BY <2>2, <4>2
    <3>2. CASE DrainClose
      <4>1. Frame("close")
        BY <3>2 DEF DrainClose
      <4>2. Head1.n \in Nat /\ Decoded' = Decoded + Head1.n + 1
        BY <4>1, FrameFacts DEF Ops
      <4> QED BY <2>2, <4>2
    <3> QED BY <1>8, <3>1, <3>2
  <2>4. ClosedInv'
    <3>1. Decoded + 1 \in 1..(Decoded' + 1)
      <4>1. \A a, b \in Nat : b >= a => a + 1 \in 1..(b + 1)
        OBVIOUS
      <4>2. Decoded \in Nat /\ Decoded' \in Nat /\ Decoded' >= Decoded
        BY <2>2, <2>3
      <4> QED BY ONLY <4>1, <4>2
    <3>2. (Decoded + 1 \in Bytes' /\ IsHead(Decoded + 1, {"close", "bad"}))
          /\ Bytes' = Bytes
      BY <1>1, <2>2 DEF Bytes, IsHead
    <3>3. \E q \in 1..(Decoded' + 1) :
             /\ q \in Bytes'
             /\ wire'[q].part = "head" /\ wire'[q].op \in {"close", "bad"}
      BY <1>1, <2>2, <3>1, <3>2
    <3> QED BY <3>3 DEF ClosedInv, IsHead
  <2>5. WaitInv'
    BY <1>1, <1>2, <1>3, <1>5, <2>1 DEF WaitInv
  <2> QED BY <2>4, <2>5 DEF ServedInv
<1> QED BY <1>6, <1>7, <1>8 DEF Drain

(* Nothing is left behind by any step.                                     *)
LEMMA ServedStep == IInv /\ IInv' /\ ServedInv /\ [Next]_vars => ServedInv'
<1> SUFFICES ASSUME IInv, IInv', ServedInv, [Next]_vars PROVE ServedInv'
  OBVIOUS
<1> USE DEF peerVars, connVars, outVars
<1>1. CASE PeerSends
  BY <1>1, ServedSent
<1>2. CASE HandshakeRead
  BY <1>2, ServedHandshake
<1>3. CASE SplitRequest
  BY <1>3, ServedSplit
<1>4. CASE RecvRead
  BY <1>4, ServedRead
<1>5. CASE Drain
  BY <1>5, ServedDrain
<1>6. CASE \/ HeaderFlood \/ HandshakeFails \/ NoKey \/ RecvClosed
           \/ ServeEnd \/ SessionEnds
  <2>1. Over
    BY <1>6 DEF HeaderFlood, HandshakeFails, NoKey, RecvClosed, ServeEnd,
       SessionEnds
  <2>2. /\ phase' = "over"
        /\ UNCHANGED <<wire, early, tls, sentTo, recEnd, sock, ssl, rx, closed,
                       out>>
    BY <2>1 DEF Over
  <2>3. Upgraded => Upgraded'
    BY <2>2 DEF Upgraded
  <2> QED BY <2>2, <2>3, ServedKept
<1>7. CASE Send101
  <2>1. /\ UNCHANGED <<wire, early, tls, sentTo, recEnd, sock, ssl, rx, closed>>
        /\ phase = "reply" /\ phase' \in {"poll", "over"}
    BY <1>7 DEF Send101
  <2>2. ~Upgraded
    BY <2>1, EmptySeq, LenProperties DEF IInv, FrameInv, Upgraded
  <2> QED BY <2>1, <2>2, ServedKept
<1>8. CASE PeerCloses \/ Serve \/ ServeNothing \/ UNCHANGED vars
  <2>1. /\ UNCHANGED <<wire, early, tls, sentTo, recEnd, sock, ssl, rx, closed,
                       out>>
        /\ \/ phase' = phase
           \/ phase \in {"poll", "serve"} /\ phase' \in {"poll", "serve"}
    BY <1>8 DEF PeerCloses, Serve, ServeNothing, vars
  <2>2. Upgraded => Upgraded'
    BY <2>1 DEF Upgraded
  <2> QED BY <2>1, <2>2, ServedKept
<1>9. CASE SessionSends
  <2>1. /\ UNCHANGED <<wire, early, tls, sentTo, recEnd, sock, ssl, rx, closed>>
        /\ phase' = phase /\ phase = "poll"
    BY <1>9 DEF SessionSends
  <2>2. Upgraded'
    BY <2>1 DEF IInv, FrameInv
  <2> QED BY <2>1, <2>2, ServedKept
<1> QED
  BY <1>1, <1>2, <1>3, <1>4, <1>5, <1>6, <1>7, <1>8, <1>9
  DEF Next, Terminal

(* A place that has come whole is de-framed when nothing is left to read.  *)
LEMMA ArrivedIsDecoded ==
    ASSUME IInv, ServedInv, ~early, RecordsFit, Sleeps,
           NEW p \in 1..sentTo, Arrived(p)
    PROVE  p \in 1..Decoded
<1>1. /\ Decoded \in Nat /\ p \in Nat \ {0} /\ sentTo \in 0..Len(wire)
      /\ Len(wire) \in Nat /\ p \in Bytes
  BY DecodedNat, WireFacts DEF IInv, TypeOK, Bytes
<1>2. ssl = << >> /\ sock = << >>
  BY DEF ServedInv, WaitInv, Sleeps
<1>3. rx \in Seq(Bytes) /\ Len(rx) \in Nat /\ sentTo = Decoded + Len(rx)
  <2>1. rx \in Seq(Bytes) /\ Len(sock) = 0 /\ Len(ssl) = 0
    BY <1>2 DEF IInv, TypeOK
  <2>2. Len(rx) \in Nat
    BY <2>1, LenProperties
  <2> QED BY <1>1, <2>1, <2>2 DEF Decoded, Taken
<1> DEFINE h == p - wire[p].n
<1>4. /\ wire[p].part = "body"
      /\ sentTo >= p + wire[h].n - wire[p].n
      /\ \A q \in 1..p : ~IsHead(q, {"close", "bad"})
  BY DEF Arrived, IsData
<1> SUFFICES ASSUME p > Decoded PROVE FALSE
  BY <1>1
<1>5. ~closed
  <2> SUFFICES ASSUME closed PROVE FALSE
    OBVIOUS
  <2>1. PICK q \in 1..(Decoded + 1) : q \in Bytes /\ IsHead(q, {"close", "bad"})
    BY DEF ServedInv, ClosedInv
  <2>2. q \in 1..p
    BY <1>1, <2>1
  <2> QED BY <1>4, <2>1, <2>2
<1>6. ~Decodable
  BY <1>5 DEF ServedInv, WaitInv, Sleeps
<1> DEFINE g == Decoded + 1
<1>7. g \in Bytes /\ wire[g].part = "head" /\ wire[g].n \in Nat
  <2>1. Decoded < Len(wire) /\ g \in Bytes
    BY <1>1 DEF Bytes
  <2> QED BY <2>1, WireFacts DEF IInv, FrameInv, Opened, Sleeps
<1>8. rx # << >> /\ Head(rx) = g
  <2>1. Len(rx) > 0
    BY <1>1, <1>3
  <2>2. rx # << >> /\ Head(rx) = rx[1]
    BY <1>3, <2>1
  <2>3. rx[1] = Decoded + 1
    BY <1>3, <2>1 DEF IInv, FrameInv, Run
  <2> QED BY <2>2, <2>3
<1>9. sentTo - Decoded <= wire[g].n
  <2>1. Head1 = wire[g]
    BY <1>8 DEF Head1
  <2>2. ~(Len(rx) > wire[g].n)
    BY <1>6, <1>8, <2>1 DEF Decodable
  <2> HIDE DEF g
  <2> QED BY <1>1, <1>3, <1>7, <2>2
<1>10. p - g \in 1..wire[g].n
  <2>1. p # g
    BY <1>4, <1>7
  <2> QED BY <1>1, <1>7, <1>9, <2>1
<1>11. wire[p].n = p - g
  <2>1. g + (p - g) = p /\ p <= Len(wire)
    BY <1>1
  <2>2. \A j \in 1..wire[g].n :
           g + j <= Len(wire) =>
               wire[g + j] = [part |-> "body", op |-> wire[g].op, n |-> j]
    BY <1>7, WireFacts DEF IInv, Framed
  <2>3. wire[p] = [part |-> "body", op |-> wire[g].op, n |-> p - g]
    BY <1>10, <2>1, <2>2
  <2> QED BY <2>3
<1>12. sentTo >= p + wire[g].n - (p - g)
  <2>1. h = g
    BY <1>1, <1>11
  <2> QED BY <1>4, <1>11, <2>1
<1>13. sentTo >= Decoded + 1 + wire[g].n
  BY <1>1, <1>7, <1>12
<1> HIDE DEF g
<1> QED BY <1>1, <1>7, <1>9, <1>13

(* A peer that waits for the 101 and whose records so far have fitted the  *)
(* buffer (RecordsFit, the first half of the property's premise) never     *)
(* waits for an answer that the terminal could give: recv()'s read takes   *)
(* all that OpenSSL holds, drainFrames() takes every whole frame           *)
(* (WebSocketConn.cpp:107, :113), and what app_ keeps is only what the     *)
(* session's buffer could not take.  For every stream, segmentation and    *)
(* size of the buffers.                                                    *)
THEOREM NothingIsLeftWaiting == Spec => []NothingWaits
<1>1. Init => ServedInv
  <2> SUFFICES ASSUME Init PROVE ServedInv
    OBVIOUS
  <2>1. phase = "handshake" /\ ~closed /\ sentTo = 0
    BY DEF Init
  <2> QED BY <2>1 DEF ServedInv, ClosedInv, WaitInv
<1>2. Spec => []ServedInv
  BY <1>1, ServedStep, Invariant, PTL DEF Spec
<1>3. IInv /\ ServedInv => NothingWaits
  <2> SUFFICES ASSUME IInv, ServedInv, ~early, RecordsFit, Sleeps,
                      NEW p \in 1..sentTo, Arrived(p)
               PROVE  Got(p) \/ \E i \in DOMAIN app : app[i] = p
    BY DEF NothingWaits
  <2>1. p \in 1..Decoded /\ IsData(p)
    BY ArrivedIsDecoded DEF Arrived
  <2>2. p \in Elems(Staged)
    BY <2>1 DEF IInv, DataInv, Opened, Sleeps
  <2>3. /\ Elems(Staged) = Elems(delivered) \cup Elems(app)
        /\ DOMAIN delivered = 1..Len(delivered) /\ DOMAIN app = 1..Len(app)
    BY ConcatElems, LenProperties DEF IInv, TypeOK, Staged
  <2> QED BY <2>2, <2>3 DEF Elems, Got
<1> QED BY <1>2, <1>3, Invariant, PTL

-----------------------------------------------------------------------------
(***************************************************************************)
(* The codecs below the transport: what WebSocketConn and ClientSession    *)
(* take for granted of them.  Nothing depends on how the bytes are cut,    *)
(* what is announced is what is taken, and decoding undoes encoding.       *)
(***************************************************************************)
(* The largest numbers of 16 and of 32 bits.                               *)
Max16 == 65535
Max32 == 4294967295

(* Bytes and the numbers made of them.                                     *)
LEMMA OctetIsSmall ==
    ASSUME NEW a \in Octet
    PROVE  a \in Nat /\ a <= 255
BY SMT DEF Octet

(* And back.                                                               *)
LEMMA SmallIsOctet ==
    ASSUME NEW a \in Nat, a <= 255
    PROVE  a \in Octet
BY SMT DEF Octet

(* Two bytes make a number of 16 bits.                                     *)
LEMMA TwoBytes ==
    ASSUME NEW p, NEW i, p[i] \in Octet, p[i + 1] \in Octet
    PROVE  getU16(p, i) \in Nat /\ getU16(p, i) <= Max16
<1>1. /\ p[i] \in Nat /\ p[i] <= 255
      /\ p[i + 1] \in Nat /\ p[i + 1] <= 255
  BY OctetIsSmall
<1> QED BY <1>1, SMT DEF getU16, Max16

(* Four bytes make a number.                                               *)
LEMMA FourBytes ==
    ASSUME NEW p \in Seq(Octet), NEW i \in Nat, i >= 1, i + 3 <= Len(p)
    PROVE  getU32(p, i) \in Nat
<1>1. p[i] \in Octet /\ p[i + 1] \in Octet
  BY SMT
<1>2. p[i + 2] \in Octet /\ p[i + 2 + 1] \in Octet
  BY SMT
<1>3. getU16(p, i) \in Nat /\ getU16(p, i + 2) \in Nat
  BY <1>1, <1>2, TwoBytes
<1> QED BY <1>3, SMT DEF getU32

(* A number of 16 bits and its two bytes.                                  *)
LEMMA HighAndLow ==
    ASSUME NEW v \in Nat, v <= Max16
    PROVE  ((v \div 256) % 256) * 256 + (v % 256) = v
<1> DEFINE q == v \div 256
           r == v % 256
<1>1. q \in 0..255 /\ q % 256 = q
  BY SMT DEF Max16
<1>2. v = 256 * q + r /\ r \in Nat
  BY SMT
<1> HIDE DEF q, r
<1>3. q * 256 + r = v
  BY <1>1, <1>2, SMT
<1> QED BY <1>1, <1>3 DEF q, r

(* Two byte sequences, one behind the other.                               *)
LEMMA Joined ==
    ASSUME NEW s \in Seq(Octet), NEW t \in Seq(Octet)
    PROVE  /\ s \o t \in Seq(Octet) /\ Len(s \o t) = Len(s) + Len(t)
           /\ \A i \in 1..Len(s) : (s \o t)[i] = s[i]
           /\ \A i \in 1..Len(t) : (s \o t)[Len(s) + i] = t[i]
<1>1. s \o t \in Seq(Octet) /\ Len(s \o t) = Len(s) + Len(t)
  BY SMT
<1>2. \A i \in 1..Len(s) : (s \o t)[i] = s[i]
  BY SMT
<1>3. \A i \in 1..Len(t) : (s \o t)[Len(s) + i] = t[i]
  BY SMT
<1> QED BY <1>1, <1>2, <1>3

(* The elements of a byte sequence are bytes.                              *)
LEMMA Elements ==
    ASSUME NEW s \in Seq(Octet)
    PROVE  \A i \in 1..Len(s) : s[i] \in Octet
OBVIOUS

(* Sequences are joined in any order.                                      *)
LEMMA Associative ==
    ASSUME NEW s \in Seq(Octet), NEW t \in Seq(Octet), NEW u \in Seq(Octet)
    PROVE  s \o t \o u = s \o (t \o u)
OBVIOUS

(* Three sequences may be joined in either order.                          *)
Associates(s, t, u) == s \o t \o u = s \o (t \o u)

(* Those of bytes may.                                                     *)
LEMMA OctetsAssociate == \A s, t, u \in Seq(Octet) : Associates(s, t, u)
BY Associative DEF Associates

(* All but the first byte.                                                 *)
LEMMA AllButFirst ==
    ASSUME NEW f \in Seq(Octet), Len(f) >= 1
    PROVE  LET t == SubSeq(f, 2, Len(f))
           IN  /\ t \in Seq(Octet) /\ Len(t) = Len(f) - 1
               /\ \A i \in 1..Len(t) : t[i] = f[i + 1]
<1>1. SubSeq(f, 2, Len(f)) \in Seq(Octet)
  BY SMT
<1>2. Len(SubSeq(f, 2, Len(f))) = Len(f) - 1
  <2> DEFINE n == Len(f)
  <2>1. n \in Nat /\ n >= 1
    OBVIOUS
  <2>2. Len(SubSeq(f, 2, n)) = IF 2 <= n THEN n - 1 ELSE 0
    BY SMT
  <2> HIDE DEF n
  <2>3. (IF 2 <= n THEN n - 1 ELSE 0) = n - 1
    BY <2>1
  <2> QED BY <2>2, <2>3, Zenon DEF n
<1>3. \A i \in 1..Len(f) - 1 : SubSeq(f, 2, Len(f))[i] = f[i + 1]
  BY SMT
<1> QED BY <1>1, <1>2, <1>3, Zenon

(* Sequences with the same elements are the same.                          *)
LEMMA SameElements ==
    ASSUME NEW s \in Seq(Octet), NEW t \in Seq(Octet), Len(s) = Len(t),
           \A i \in 1..Len(t) : s[i] = t[i]
    PROVE  s = t
OBVIOUS

(* What is put are bytes.                                                  *)
LEMMA PutTypes ==
    ASSUME NEW v \in Nat
    PROVE  /\ putU16(v) \in Seq(Octet) /\ Len(putU16(v)) = 2
           /\ putU32(v) \in Seq(Octet) /\ Len(putU32(v)) = 4
<1>1. (v \div 256) % 256 \in Octet /\ v % 256 \in Octet
  BY SMT DEF Octet
<1>2. (v \div 16777216) % 256 \in Octet /\ (v \div 65536) % 256 \in Octet
  BY SMT DEF Octet
<1>3. putU16(v) \in Seq(Octet) /\ Len(putU16(v)) = 2
  BY <1>1, SMT DEF putU16
<1> DEFINE high == <<(v \div 16777216) % 256, (v \div 65536) % 256>>
<1>4. high \in Seq(Octet) /\ Len(high) = 2
  BY <1>2, SMT
<1>5. putU32(v) = high \o putU16(v)
  BY DEF putU32
<1> HIDE DEF high
<1>6. putU32(v) \in Seq(Octet) /\ Len(putU32(v)) = 4
  <2>1. /\ high \o putU16(v) \in Seq(Octet)
        /\ Len(high \o putU16(v)) = Len(high) + Len(putU16(v))
    BY <1>3, <1>4, Joined, Zenon
  <2>2. Len(high) + Len(putU16(v)) = 4
    BY <1>3, <1>4
  <2> QED BY <1>5, <2>1, <2>2, Zenon
<1> QED BY <1>3, <1>6

(* putU16() and getU16() undo each other.                                  *)
LEMMA U16ComesBack ==
    ASSUME NEW v \in Nat, v <= Max16, NEW p, NEW i \in Nat,
           p[i] = putU16(v)[1], p[i + 1] = putU16(v)[2]
    PROVE  getU16(p, i) = v
<1>1. p[i] = (v \div 256) % 256 /\ p[i + 1] = v % 256
  BY DEF putU16
<1>2. ((v \div 256) % 256) * 256 + (v % 256) = v
  BY HighAndLow
<1>3. getU16(p, i) = p[i] * 256 + p[i + 1]
  BY DEF getU16
<1> QED BY <1>1, <1>2, <1>3

(* The halves of 32 bits.                                                  *)
LEMMA Halves ==
    ASSUME NEW v \in Nat, v <= Max32
    PROVE  /\ v \div 65536 \in Nat /\ v \div 65536 <= Max16
           /\ v % 65536 \in Nat /\ v % 65536 <= Max16
           /\ v = 65536 * (v \div 65536) + (v % 65536)
           /\ putU32(v)[1] = putU16(v \div 65536)[1]
           /\ putU32(v)[2] = putU16(v \div 65536)[2]
           /\ putU32(v)[3] = putU16(v % 65536)[1]
           /\ putU32(v)[4] = putU16(v % 65536)[2]
<1>1. v \div 65536 \in Nat /\ v \div 65536 <= Max16
  BY SMT DEF Max16, Max32
<1>2. v % 65536 \in Nat /\ v % 65536 <= Max16
  BY SMT DEF Max16
<1>3. v = 65536 * (v \div 65536) + (v % 65536)
  BY SMT
<1>4. /\ v % 256 = (v % 65536) % 256
      /\ (v \div 256) % 256 = ((v % 65536) \div 256) % 256
  BY SMT
<1>5. (v \div 16777216) % 256 = ((v \div 65536) \div 256) % 256
  <2>1. v \div 16777216 = (v \div 65536) \div 256
    BY SMT
  <2> QED BY <2>1
<1>6. /\ putU32(v)[1] = (v \div 16777216) % 256 /\ putU32(v)[2] = (v \div 65536) % 256
      /\ putU32(v)[3] = (v \div 256) % 256 /\ putU32(v)[4] = v % 256
  BY SMT DEF putU32, putU16
<1>7. \A h \in Nat : putU16(h)[1] = (h \div 256) % 256 /\ putU16(h)[2] = h % 256
  BY DEF putU16
<1>8. /\ putU16(v \div 65536)[1] = ((v \div 65536) \div 256) % 256
      /\ putU16(v \div 65536)[2] = (v \div 65536) % 256
  BY <1>1, <1>7, SMT
<1>9. /\ putU16(v % 65536)[1] = ((v % 65536) \div 256) % 256
      /\ putU16(v % 65536)[2] = (v % 65536) % 256
  BY <1>2, <1>7, SMT
<1>10. /\ putU32(v)[1] = putU16(v \div 65536)[1]
       /\ putU32(v)[2] = putU16(v \div 65536)[2]
  BY ONLY <1>5, <1>6, <1>8, SMT
<1>11. /\ putU32(v)[3] = putU16(v % 65536)[1]
       /\ putU32(v)[4] = putU16(v % 65536)[2]
  BY ONLY <1>4, <1>6, <1>9, SMT
<1> QED BY ONLY <1>1, <1>2, <1>3, <1>10, <1>11

(* putU32() and getU32() undo each other.                                  *)
LEMMA U32ComesBack ==
    ASSUME NEW v \in Nat, v <= Max32, NEW p, NEW i \in Nat,
           p[i] = putU32(v)[1], p[i + 1] = putU32(v)[2],
           p[i + 2] = putU32(v)[3], p[i + 3] = putU32(v)[4]
    PROVE  getU32(p, i) = v
<1> DEFINE hi == v \div 65536
           lo == v % 65536
<1>1. /\ hi \in Nat /\ hi <= Max16 /\ lo \in Nat /\ lo <= Max16
      /\ v = 65536 * hi + lo
      /\ p[i] = putU16(hi)[1] /\ p[i + 1] = putU16(hi)[2]
      /\ p[i + 2] = putU16(lo)[1] /\ p[i + 3] = putU16(lo)[2]
  BY Halves
<1> HIDE DEF hi, lo
<1>2. getU16(p, i) = hi
  BY <1>1, U16ComesBack
<1>3. i + 2 \in Nat /\ i + 2 + 1 = i + 3
  BY SMT
<1>4. getU16(p, i + 2) = lo
  BY <1>1, <1>3, U16ComesBack
<1>5. getU32(p, i) = hi * 65536 + lo
  BY <1>2, <1>4 DEF getU32
<1> QED BY <1>1, <1>5, SMT
-----------------------------------------------------------------------------
(* The fields of a received sequence.                                      *)
LEMMA FieldTypes ==
    ASSUME NEW p \in Seq(Octet), Len(p) >= 2
    PROVE  /\ Short(p) \in Nat /\ Short(p) <= 127 /\ Opcode(p) \in 0..15
           /\ LenSize(p) \in {0, 2, 8}
           /\ MaskAt(p) \in 2..10
           /\ PayloadAt(p) \in {MaskAt(p), MaskAt(p) + 4}
<1>1. p[1] \in Octet /\ p[2] \in Octet
  BY SMT
<1>2. \A a \in Nat : a % 128 \in Nat /\ a % 128 <= 127 /\ a % 16 \in 0..15
  BY SMT
<1>3. p[1] \in Nat /\ p[2] \in Nat
  BY <1>1, OctetIsSmall
<1>4. Short(p) \in Nat /\ Short(p) <= 127 /\ Opcode(p) \in 0..15
  BY <1>2, <1>3 DEF Short, Opcode
<1>5. LenSize(p) \in {0, 2, 8}
  BY DEF LenSize
<1>6. MaskAt(p) \in 2..10
  BY <1>5, SMT DEF MaskAt
<1>7. PayloadAt(p) \in {MaskAt(p), MaskAt(p) + 4}
  BY <1>6, SMT DEF PayloadAt
<1> QED BY <1>4, <1>5, <1>6, <1>7

(* The announced length is a number as soon as its field is there.         *)
LEMMA LengthType ==
    ASSUME NEW p \in Seq(Octet), HeaderIn(p)
    PROVE  PayloadLen(p) \in Nat
<1>1. Len(p) \in Nat /\ Len(p) >= 2 /\ Len(p) >= MaskAt(p)
  BY DEF HeaderIn
<1>2. Short(p) \in Nat
  BY <1>1, FieldTypes
<1>3. CASE Short(p) = 126
  <2>1. MaskAt(p) = 4
    BY <1>3 DEF MaskAt, LenSize
  <2>2. p[3] \in Octet /\ p[4] \in Octet /\ 4 = 3 + 1
    BY <1>1, <2>1, SMT
  <2>3. getU16(p, 3) \in Nat
    BY <2>2, TwoBytes
  <2> QED BY <1>3, <2>3 DEF PayloadLen
<1>4. CASE Short(p) = 127
  <2>1. MaskAt(p) = 10
    BY <1>4 DEF MaskAt, LenSize
  <2>2. 3 + 3 <= Len(p) /\ 7 + 3 <= Len(p)
    BY <1>1, <2>1, SMT
  <2>3. getU32(p, 3) \in Nat /\ getU32(p, 7) \in Nat
    BY <2>2, FourBytes
  <2>4. PayloadLen(p) = getU32(p, 3) * 65536 * 65536 + getU32(p, 7)
    BY <1>4 DEF PayloadLen
  <2> QED BY <2>3, <2>4, SMT
<1>5. CASE Short(p) \notin {126, 127}
  <2>1. PayloadLen(p) = Short(p)
    BY <1>5 DEF PayloadLen
  <2> QED BY <1>2, <2>1, Zenon
<1> QED BY <1>3, <1>4, <1>5

-----------------------------------------------------------------------------
(* decodeFrame() never takes more than there is, nor nothing at all: the   *)
(* loop of drainFrames() ends, and what it erases from rx_ is there.       *)
THEOREM TakesWhatIsThere ==
    ASSUME NEW p \in Seq(Octet), NEW r \in BOOLEAN, decodeFrame(p, r) = "Ok"
    PROVE  /\ Consumed(p) \in 2..Len(p)
           /\ PayloadLen(p) \in 0..MaxPayload
<1>1. HeaderIn(p) /\ ~Refused(p, r) /\ ~(Len(p) < Consumed(p))
  BY DEF decodeFrame
<1>2. PayloadLen(p) \in Nat /\ ~(PayloadLen(p) > MaxPayload)
  BY <1>1, LengthType DEF Refused
<1>3. Len(p) \in Nat /\ Len(p) >= 2 /\ MaskAt(p) \in 2..10
  BY <1>1, FieldTypes DEF HeaderIn
<1>4. PayloadAt(p) \in Nat /\ PayloadAt(p) >= 2
  BY <1>3, FieldTypes
<1>5. Consumed(p) \in Nat /\ Consumed(p) >= 2
  BY <1>2, <1>4, SMT DEF Consumed
<1> QED BY <1>1, <1>2, <1>3, <1>5, MaxPayloadAssumption

(* A verdict comes: rx_ never holds more than one whole frame of the       *)
(* largest size without one, so an endless frame cannot fill the memory.   *)
THEOREM VerdictComes ==
    ASSUME NEW p \in Seq(Octet), NEW r \in BOOLEAN, Len(p) >= 14 + MaxPayload
    PROVE  decodeFrame(p, r) \in {"Ok", "Error"}
<1>1. Len(p) \in Nat /\ Len(p) >= 14
  BY MaxPayloadAssumption
<1>2. MaskAt(p) \in 2..10 /\ PayloadAt(p) \in {MaskAt(p), MaskAt(p) + 4}
  BY <1>1, FieldTypes
<1>3. HeaderIn(p)
  BY <1>1, <1>2 DEF HeaderIn
<1>4. CASE Refused(p, r)
  BY <1>3, <1>4 DEF decodeFrame
<1>5. CASE ~Refused(p, r)
  <2>1. PayloadLen(p) \in Nat /\ ~(PayloadLen(p) > MaxPayload)
    BY <1>3, <1>5, LengthType DEF Refused
  <2>2. PayloadAt(p) \in Nat /\ PayloadAt(p) <= 14
    BY <1>2
  <2>3. ~(Len(p) < Consumed(p))
    BY <1>1, <2>1, <2>2, MaxPayloadAssumption DEF Consumed
  <2> QED BY <1>3, <1>5, <2>3 DEF decodeFrame
<1> QED BY <1>4, <1>5

-----------------------------------------------------------------------------
(* The same bytes are the same number.                                     *)
LEMMA SameU32 ==
    ASSUME NEW p, NEW q, NEW i, q[i] = p[i], q[i + 1] = p[i + 1],
           q[i + 2] = p[i + 2], q[i + 2 + 1] = p[i + 2 + 1]
    PROVE  getU32(q, i) = getU32(p, i)
<1>1. getU16(q, i) = getU16(p, i)
  BY DEF getU16
<1>2. getU16(q, i + 2) = getU16(p, i + 2)
  BY DEF getU16
<1> QED BY <1>1, <1>2 DEF getU32

(* What a sequence says about its first frame stays when bytes follow.     *)
LEMMA FieldsStay ==
    ASSUME NEW p \in Seq(Octet), NEW q \in Seq(Octet), Len(p) <= Len(q),
           \A i \in 1..Len(p) : q[i] = p[i],
           HeaderIn(p)
    PROVE  /\ HeaderIn(q)
           /\ Short(q) = Short(p) /\ Opcode(q) = Opcode(p)
           /\ (Fin(q) <=> Fin(p)) /\ (Masked(q) <=> Masked(p))
           /\ MaskAt(q) = MaskAt(p) /\ PayloadAt(q) = PayloadAt(p)
           /\ PayloadLen(q) = PayloadLen(p)
<1>1. /\ Len(p) \in Nat /\ Len(q) \in Nat
      /\ Len(p) >= 2 /\ Len(p) >= MaskAt(p) /\ MaskAt(p) \in 2..10
  BY FieldTypes DEF HeaderIn
<1>2. q[1] = p[1] /\ q[2] = p[2]
  BY <1>1
<1>3. Short(q) = Short(p) /\ Opcode(q) = Opcode(p)
  BY <1>2 DEF Short, Opcode
<1>4. (Fin(q) <=> Fin(p)) /\ (Masked(q) <=> Masked(p))
  BY <1>2 DEF Fin, Masked
<1>5. MaskAt(q) = MaskAt(p)
  BY <1>3 DEF MaskAt, LenSize
<1>6. PayloadAt(q) = PayloadAt(p)
  BY <1>4, <1>5, Zenon DEF PayloadAt
<1>7. HeaderIn(q)
  BY <1>1, <1>5 DEF HeaderIn
<1>8. CASE Short(p) = 126
  <2>1. MaskAt(p) = 4
    BY <1>8 DEF MaskAt, LenSize
  <2>2. q[3] = p[3] /\ q[3 + 1] = p[3 + 1]
    BY <1>1, <2>1
  <2>3. getU16(q, 3) = getU16(p, 3)
    BY <2>2 DEF getU16
  <2>4. PayloadLen(p) = getU16(p, 3) /\ PayloadLen(q) = getU16(q, 3)
    BY <1>3, <1>8 DEF PayloadLen
  <2> QED BY <1>3, <1>4, <1>5, <1>6, <1>7, <2>3, <2>4
<1>9. CASE Short(p) = 127
  <2>1. MaskAt(p) = 10
    BY <1>9 DEF MaskAt, LenSize
  <2>2. \A i \in 1..10 : q[i] = p[i]
    BY <1>1, <2>1
  <2>3. getU32(q, 3) = getU32(p, 3) /\ getU32(q, 7) = getU32(p, 7)
    <3>1. q[3] = p[3] /\ q[3 + 1] = p[3 + 1] /\ q[3 + 2] = p[3 + 2]
          /\ q[3 + 2 + 1] = p[3 + 2 + 1]
      BY <2>2
    <3>2. q[7] = p[7] /\ q[7 + 1] = p[7 + 1] /\ q[7 + 2] = p[7 + 2]
          /\ q[7 + 2 + 1] = p[7 + 2 + 1]
      BY <2>2
    <3>3. getU32(q, 3) = getU32(p, 3)
      BY <3>1, SameU32
    <3>4. getU32(q, 7) = getU32(p, 7)
      BY <3>2, SameU32
    <3> QED BY <3>3, <3>4
  <2>4. /\ PayloadLen(p) = getU32(p, 3) * 65536 * 65536 + getU32(p, 7)
        /\ PayloadLen(q) = getU32(q, 3) * 65536 * 65536 + getU32(q, 7)
    BY <1>3, <1>9 DEF PayloadLen
  <2> QED BY <1>3, <1>4, <1>5, <1>6, <1>7, <2>3, <2>4
<1>10. CASE Short(p) \notin {126, 127}
  <2>1. PayloadLen(p) = Short(p) /\ PayloadLen(q) = Short(q)
    BY <1>3, <1>10 DEF PayloadLen
  <2> QED BY <1>3, <1>4, <1>5, <1>6, <1>7, <2>1
<1> QED BY <1>8, <1>9, <1>10

(* A part that both sequences have.                                        *)
LEMMA PartStays ==
    ASSUME NEW p \in Seq(Octet), NEW q \in Seq(Octet), Len(p) <= Len(q),
           \A i \in 1..Len(p) : q[i] = p[i],
           NEW a \in Nat, NEW b \in Nat, a >= 1, b <= Len(p)
    PROVE  SubSeq(q, a, b) = SubSeq(p, a, b)
<1>1. SubSeq(p, a, b) \in Seq(Octet) /\ SubSeq(q, a, b) \in Seq(Octet)
  BY SMT
<1>2. Len(SubSeq(p, a, b)) = Len(SubSeq(q, a, b))
  BY SMT
<1>3. \A i \in 1..Len(SubSeq(p, a, b)) : SubSeq(q, a, b)[i] = SubSeq(p, a, b)[i]
  BY SMT
<1> QED BY <1>1, <1>2, <1>3

(* How the network cuts a frame does not matter: a verdict on the bytes so *)
(* far is the verdict on all of them, and the frame taken is the same one. *)
THEOREM CutsDoNotMatter ==
    ASSUME NEW p \in Seq(Octet), NEW q \in Seq(Octet), Len(p) <= Len(q),
           \A i \in 1..Len(p) : q[i] = p[i],
           NEW r \in BOOLEAN, decodeFrame(p, r) # "NeedMore"
    PROVE  /\ decodeFrame(q, r) = decodeFrame(p, r)
           /\ Opcode(q) = Opcode(p) /\ (Fin(q) <=> Fin(p))
           /\ Consumed(q) = Consumed(p)
           /\ decodeFrame(p, r) = "Ok" => Payload(q) = Payload(p)
<1>1. HeaderIn(p)
  BY DEF decodeFrame
<1>2. /\ HeaderIn(q)
      /\ Opcode(q) = Opcode(p)
      /\ (Fin(q) <=> Fin(p)) /\ (Masked(q) <=> Masked(p))
      /\ MaskAt(q) = MaskAt(p) /\ PayloadAt(q) = PayloadAt(p)
      /\ PayloadLen(q) = PayloadLen(p)
  BY <1>1, FieldsStay
<1>3. Consumed(q) = Consumed(p)
  BY <1>2 DEF Consumed
<1>4. Refused(q, r) <=> Refused(p, r)
  BY <1>2 DEF Refused, Control
<1>5. CASE Refused(p, r)
  <2>1. decodeFrame(p, r) = "Error" /\ decodeFrame(q, r) = "Error"
    BY <1>1, <1>2, <1>4, <1>5 DEF decodeFrame
  <2> QED BY <1>2, <1>3, <2>1
<1>6. CASE ~Refused(p, r)
  <2>1. decodeFrame(p, r) = "Ok"
    BY <1>1, <1>6 DEF decodeFrame
  <2>2. /\ Consumed(p) \in 2..Len(p) /\ Len(p) \in Nat /\ Len(q) \in Nat
        /\ PayloadLen(p) \in Nat
    BY <2>1, TakesWhatIsThere, LengthType, <1>1
  <2>3. decodeFrame(q, r) = "Ok"
    BY <1>2, <1>3, <1>4, <1>6, <2>2 DEF decodeFrame
  <2>4. /\ MaskAt(p) \in 2..10 /\ PayloadAt(p) \in {MaskAt(p), MaskAt(p) + 4}
        /\ (Masked(p) => PayloadAt(p) = MaskAt(p) + 4)
    BY <1>1, FieldTypes DEF HeaderIn, PayloadAt
  <2>5. SubSeq(q, PayloadAt(q) + 1, Consumed(q)) = SubSeq(p, PayloadAt(p) + 1, Consumed(p))
    <3>1. PayloadAt(p) + 1 \in Nat /\ PayloadAt(p) + 1 >= 1
      BY <2>4
    <3>2. Consumed(p) \in Nat /\ Consumed(p) <= Len(p)
      BY <2>2
    <3>3. \A i \in Nat : i >= 1 => SubSeq(q, i, Consumed(p)) = SubSeq(p, i, Consumed(p))
      BY <3>2, PartStays
    <3>4. SubSeq(q, PayloadAt(p) + 1, Consumed(p)) = SubSeq(p, PayloadAt(p) + 1, Consumed(p))
      BY <3>1, <3>3, Zenon
    <3> QED BY <1>2, <1>3, <3>4, Zenon
  <2>6. Masked(p) =>
            SubSeq(q, MaskAt(q) + 1, MaskAt(q) + 4) = SubSeq(p, MaskAt(p) + 1, MaskAt(p) + 4)
    <3>1. ASSUME Masked(p) PROVE MaskAt(p) + 4 <= Consumed(p)
      <4>1. PayloadAt(p) = MaskAt(p) + 4 /\ PayloadAt(p) \in Nat
        BY <2>4, <3>1
      <4>2. Consumed(p) = PayloadAt(p) + PayloadLen(p)
        BY DEF Consumed
      <4> QED BY <2>2, <4>1, <4>2
    <3>2. ASSUME Masked(p) PROVE MaskAt(p) + 4 <= Len(p)
      <4>1. MaskAt(p) + 4 <= Consumed(p)
        BY <3>1, <3>2
      <4> QED BY <4>1, <2>2, <2>4
    <3>3. MaskAt(p) + 1 \in Nat /\ MaskAt(p) + 1 >= 1 /\ MaskAt(p) + 4 \in Nat
      BY <2>4
    <3>4. ASSUME Masked(p)
          PROVE  SubSeq(q, MaskAt(p) + 1, MaskAt(p) + 4) = SubSeq(p, MaskAt(p) + 1, MaskAt(p) + 4)
      <4>1. MaskAt(p) + 4 <= Len(p)
        BY <3>2, <3>4
      <4> QED BY <4>1, <3>3, PartStays
    <3> QED BY <1>2, <3>4
  <2>7. Payload(q) = Payload(p)
    BY <1>2, <2>5, <2>6, Zenon DEF Payload
  <2> QED BY <1>2, <1>3, <2>1, <2>3, <2>7
<1> QED BY <1>5, <1>6

-----------------------------------------------------------------------------
(* p begins with the bytes of a, b, c and d.                               *)
HeaderOf(p, a, b, c, d) ==
    /\ Len(p) >= 12
    /\ p[1] = a[1] /\ p[2] = a[2] /\ p[3] = a[3] /\ p[4] = a[4]
    /\ p[5] = b[1] /\ p[6] = b[2] /\ p[7] = c[1] /\ p[8] = c[2]
    /\ p[9] = d[1] /\ p[10] = d[2] /\ p[11] = d[3] /\ p[12] = d[4]

(* A header lies at the front of what begins with its four parts.          *)
LEMMA HeaderPlaces ==
    ASSUME NEW a \in Seq(Octet), NEW b \in Seq(Octet), NEW c \in Seq(Octet),
           NEW d \in Seq(Octet), NEW rest \in Seq(Octet),
           Len(a) = 4, Len(b) = 2, Len(c) = 2, Len(d) = 4
    PROVE  HeaderOf(a \o b \o c \o d \o rest, a, b, c, d)
<1> DEFINE ab == a \o b
           abc == ab \o c
           abcd == abc \o d
           all == abcd \o rest
<1>1. /\ ab \in Seq(Octet) /\ Len(ab) = Len(a) + Len(b)
      /\ \A i \in 1..Len(a) : ab[i] = a[i]
      /\ \A i \in 1..Len(b) : ab[Len(a) + i] = b[i]
  BY Joined
<1> HIDE DEF ab
<1>2. /\ abc \in Seq(Octet) /\ Len(abc) = Len(ab) + Len(c)
      /\ \A i \in 1..Len(ab) : abc[i] = ab[i]
      /\ \A i \in 1..Len(c) : abc[Len(ab) + i] = c[i]
  BY <1>1, Joined
<1> HIDE DEF abc
<1>3. /\ abcd \in Seq(Octet) /\ Len(abcd) = Len(abc) + Len(d)
      /\ \A i \in 1..Len(abc) : abcd[i] = abc[i]
      /\ \A i \in 1..Len(d) : abcd[Len(abc) + i] = d[i]
  BY <1>2, Joined
<1> HIDE DEF abcd
<1>4. /\ Len(all) = Len(abcd) + Len(rest)
      /\ \A i \in 1..Len(abcd) : all[i] = abcd[i]
  BY <1>3, Joined
<1> HIDE DEF all
<1>5. Len(ab) = 6 /\ Len(abc) = 8 /\ Len(abcd) = 12 /\ Len(rest) \in Nat
  BY <1>1, <1>2, <1>3
<1>6. /\ \A i \in 1..4 : ab[i] = a[i]
      /\ \A i \in 1..2 : ab[4 + i] = b[i]
  BY <1>1
<1>7. /\ \A i \in 1..6 : abc[i] = ab[i]
      /\ \A i \in 1..2 : abc[6 + i] = c[i]
  BY <1>2, <1>5
<1>8. \A i \in 1..8 : all[i] = abc[i]
  <2>1. \A i \in 1..8 : abcd[i] = abc[i]
    BY <1>3, <1>5
  <2>2. \A i \in 1..12 : all[i] = abcd[i]
    BY <1>4, <1>5
  <2>3. \A i \in 1..8 : i \in 1..12
    OBVIOUS
  <2> QED BY <2>1, <2>2, <2>3, Zenon
<1>9. \A i \in 1..4 : all[i] = a[i]
  <2>1. \A i \in 1..4 : i \in 1..6 /\ i \in 1..8
    OBVIOUS
  <2> QED BY <2>1, <1>6, <1>7, <1>8, Zenon
<1>10. \A i \in 1..2 : all[4 + i] = b[i]
  <2>1. \A i \in 1..2 : 4 + i \in 1..6 /\ 4 + i \in 1..8
    OBVIOUS
  <2>2. \A i \in 1..2 : all[4 + i] = abc[4 + i]
    BY <2>1, <1>8
  <2>3. \A i \in 1..2 : abc[4 + i] = ab[4 + i]
    BY <2>1, <1>7
  <2> QED BY <1>6, <2>2, <2>3
<1>11. \A i \in 1..2 : all[6 + i] = c[i]
  <2>1. \A i \in 1..2 : 6 + i \in 1..8
    OBVIOUS
  <2>2. \A i \in 1..2 : all[6 + i] = abc[6 + i]
    BY <2>1, <1>8
  <2> QED BY <1>7, <2>2
<1>12. \A i \in 1..4 : all[8 + i] = d[i]
  <2>1. \A i \in 1..4 : 8 + i \in 1..12
    OBVIOUS
  <2> QED BY <2>1, <1>3, <1>4, <1>5
<1>13. /\ 4 + 1 = 5 /\ 4 + 2 = 6 /\ 6 + 1 = 7 /\ 6 + 2 = 8
       /\ 8 + 1 = 9 /\ 8 + 2 = 10 /\ 8 + 3 = 11 /\ 8 + 4 = 12
  OBVIOUS
<1>14. /\ all[1] = a[1] /\ all[2] = a[2] /\ all[3] = a[3] /\ all[4] = a[4]
       /\ all[5] = b[1] /\ all[6] = b[2] /\ all[7] = c[1] /\ all[8] = c[2]
       /\ all[9] = d[1] /\ all[10] = d[2] /\ all[11] = d[3] /\ all[12] = d[4]
  BY <1>9, <1>10, <1>11, <1>12, <1>13
<1>15. Len(all) >= 12
  BY <1>4, <1>5
<1>16. HeaderOf(all, a, b, c, d)
  BY <1>14, <1>15, Zenon DEF HeaderOf
<1> QED BY <1>16 DEF all, abcd, abc, ab

(* The numbers read off these places.                                      *)
LEMMA HeaderNumbers ==
    ASSUME NEW p,
           NEW magic \in Nat, magic <= Max32, NEW type \in Nat, type <= Max16,
           NEW flags \in Nat, flags <= Max16, NEW length \in Nat, length <= Max32,
           HeaderOf(p, putU32(magic), putU16(type), putU16(flags), putU32(length))
    PROVE  /\ getU32(p, 1) = magic /\ getU16(p, 5) = type
           /\ getU16(p, 7) = flags /\ getU32(p, 9) = length
<1>1. /\ 1 + 1 = 2 /\ 1 + 2 = 3 /\ 1 + 3 = 4 /\ 5 + 1 = 6 /\ 7 + 1 = 8
      /\ 9 + 1 = 10 /\ 9 + 2 = 11 /\ 9 + 3 = 12
      /\ 1 \in Nat /\ 5 \in Nat /\ 7 \in Nat /\ 9 \in Nat
  OBVIOUS
<1>2. getU32(p, 1) = magic
  BY <1>1, U32ComesBack DEF HeaderOf
<1>3. getU16(p, 5) = type
  BY <1>1, U16ComesBack DEF HeaderOf
<1>4. getU16(p, 7) = flags
  BY <1>1, U16ComesBack DEF HeaderOf
<1>5. getU32(p, 9) = length
  BY <1>1, U32ComesBack DEF HeaderOf
<1> QED BY <1>2, <1>3, <1>4, <1>5

(* decodeHeader() gives back what buildMessage() was given, whatever       *)
(* follows: terminal and clients agree on type, flags and length.          *)
THEOREM HeaderComesBack ==
    ASSUME NEW type \in Nat, type <= Max16, NEW flags \in Nat, flags <= Max16,
           NEW length \in Nat, length <= Max32,
           NEW rest \in Seq(Octet)
    PROVE  LET h == [type |-> type, flags |-> flags, length |-> length]
               p == buildHeader(h) \o rest
           IN  DecodesHeader(p) /\ decodeHeader(p) = h
<1> DEFINE m == kMagic
           h == [type |-> type, flags |-> flags, length |-> length]
           p == buildHeader(h) \o rest
<1>1. m \in Nat /\ m <= Max32
  BY DEF kMagic, Max32
<1>2. p = putU32(m) \o putU16(type) \o putU16(flags) \o putU32(length) \o rest
  BY DEF buildHeader
<1> HIDE DEF m, h, p
<1>3. /\ putU32(m) \in Seq(Octet) /\ Len(putU32(m)) = 4
      /\ putU16(type) \in Seq(Octet) /\ Len(putU16(type)) = 2
      /\ putU16(flags) \in Seq(Octet) /\ Len(putU16(flags)) = 2
      /\ putU32(length) \in Seq(Octet) /\ Len(putU32(length)) = 4
  BY <1>1, PutTypes
<1>4. HeaderOf(p, putU32(m), putU16(type), putU16(flags), putU32(length))
  BY <1>2, <1>3, HeaderPlaces, Zenon
<1>5. /\ getU32(p, 1) = m /\ getU16(p, 5) = type
      /\ getU16(p, 7) = flags /\ getU32(p, 9) = length
  BY <1>1, <1>4, HeaderNumbers
<1>6. DecodesHeader(p)
  BY <1>4, <1>5 DEF DecodesHeader, kHeaderSize, m, HeaderOf
<1>7. decodeHeader(p) = h
  BY <1>5 DEF decodeHeader, h
<1> QED BY <1>6, <1>7 DEF p, h

-----------------------------------------------------------------------------
(* The three forms of a length.                                            *)
LEMMA LengthField ==
    ASSUME NEW n \in Nat, n <= Max32
    PROVE  LET f == lengthField(n)
           IN  /\ f \in Seq(Octet)
               /\ \/ n < 126 /\ Len(f) = 1 /\ f[1] = n
                  \/ /\ n <= Max16 /\ Len(f) = 3 /\ f[1] = 126
                     /\ f[2] = putU16(n)[1] /\ f[3] = putU16(n)[2]
                  \/ /\ Len(f) = 9 /\ f[1] = 127
                     /\ f[2] = 0 /\ f[3] = 0 /\ f[4] = 0 /\ f[5] = 0
                     /\ f[6] = putU32(n)[1] /\ f[7] = putU32(n)[2]
                     /\ f[8] = putU32(n)[3] /\ f[9] = putU32(n)[4]
<1> DEFINE f == lengthField(n)
<1>1. CASE n < 126
  <2>1. f = <<n>>
    BY <1>1 DEF lengthField
  <2>2. n \in Octet
    BY <1>1, SmallIsOctet
  <2>3. f \in Seq(Octet) /\ Len(f) = 1 /\ f[1] = n
    BY <2>1, <2>2
  <2> QED BY <1>1, <2>3, Zenon
<1>2. CASE n >= 126 /\ n <= Max16
  <2> DEFINE t == putU16(n)
             o == <<126>>
  <2>1. f = o \o t
    BY <1>2 DEF lengthField, Max16
  <2> HIDE DEF f
  <2>2. o \in Seq(Octet) /\ Len(o) = 1 /\ o[1] = 126
    <3>1. 126 \in Octet
      BY SmallIsOctet
    <3> QED BY <3>1
  <2>3. t \in Seq(Octet) /\ Len(t) = 2
    BY PutTypes
  <2> HIDE DEF t, o
  <2>4. /\ f \in Seq(Octet) /\ Len(f) = Len(o) + Len(t)
        /\ \A i \in 1..Len(o) : f[i] = o[i]
        /\ \A i \in 1..Len(t) : f[Len(o) + i] = t[i]
    <3>1. o \in Seq(Octet) /\ t \in Seq(Octet)
      BY <2>2, <2>3
    <3>2. /\ o \o t \in Seq(Octet) /\ Len(o \o t) = Len(o) + Len(t)
          /\ \A i \in 1..Len(o) : (o \o t)[i] = o[i]
          /\ \A i \in 1..Len(t) : (o \o t)[Len(o) + i] = t[i]
      BY <3>1, Joined
    <3> QED BY <2>1, <3>2, Zenon
  <2>5. Len(f) = 3 /\ f[1] = 126 /\ f[1 + 1] = t[1] /\ f[1 + 2] = t[2]
    BY <2>2, <2>3, <2>4
  <2>6. 1 + 1 = 2 /\ 1 + 2 = 3
    OBVIOUS
  <2> QED BY <1>2, <2>4, <2>5, <2>6, Zenon DEF t, f
<1>3. CASE n > 65535
  <2> DEFINE t == putU32(n)
             o == <<127, 0, 0, 0, 0>>
  <2>1. f = o \o t
    BY <1>3 DEF lengthField
  <2> HIDE DEF f
  <2>2. /\ o \in Seq(Octet) /\ Len(o) = 5
        /\ o[1] = 127 /\ o[2] = 0 /\ o[3] = 0 /\ o[4] = 0 /\ o[5] = 0
    <3>1. 127 \in Octet /\ 0 \in Octet
      BY SmallIsOctet
    <3> QED BY <3>1
  <2>3. t \in Seq(Octet) /\ Len(t) = 4
    BY PutTypes
  <2> HIDE DEF t, o
  <2>4. /\ f \in Seq(Octet) /\ Len(f) = Len(o) + Len(t)
        /\ \A i \in 1..Len(o) : f[i] = o[i]
        /\ \A i \in 1..Len(t) : f[Len(o) + i] = t[i]
    <3>1. o \in Seq(Octet) /\ t \in Seq(Octet)
      BY <2>2, <2>3
    <3>2. /\ o \o t \in Seq(Octet) /\ Len(o \o t) = Len(o) + Len(t)
          /\ \A i \in 1..Len(o) : (o \o t)[i] = o[i]
          /\ \A i \in 1..Len(t) : (o \o t)[Len(o) + i] = t[i]
      BY <3>1, Joined
    <3> QED BY <2>1, <3>2, Zenon
  <2>5. Len(f) = 9 /\ f[1] = 127 /\ f[2] = 0 /\ f[3] = 0 /\ f[4] = 0 /\ f[5] = 0
    BY <2>2, <2>3, <2>4
  <2>6. f[5 + 1] = t[1] /\ f[5 + 2] = t[2] /\ f[5 + 3] = t[3] /\ f[5 + 4] = t[4]
    BY <2>2, <2>3, <2>4
  <2>7. 5 + 1 = 6 /\ 5 + 2 = 7 /\ 5 + 3 = 8 /\ 5 + 4 = 9
    OBVIOUS
  <2>8. f[6] = t[1] /\ f[7] = t[2] /\ f[8] = t[3] /\ f[9] = t[4]
    BY <2>6, <2>7
  <2> QED BY <2>4, <2>5, <2>8, Zenon DEF t, f
<1>4. n < 126 \/ (n >= 126 /\ n <= Max16) \/ n > 65535
  BY DEF Max16
<1> QED BY <1>1, <1>2, <1>3, <1>4

(* p begins with the two bytes of a frame and its length field f, masked   *)
(* or not.                                                                 *)
FrameOf(p, op, f, bit) ==
    /\ p \in Seq(Octet) /\ Len(p) >= 1 + Len(f)
    /\ p[1] = 128 + op /\ p[2] = bit + f[1]
    /\ \A i \in 2..Len(f) : p[i + 1] = f[i]

(* The fields of such a sequence.                                          *)
LEMMA FrameFields ==
    ASSUME NEW op \in Nat, op <= 15, NEW n \in Nat, n <= Max32,
           NEW bit \in {0, 128}, NEW p, FrameOf(p, op, lengthField(n), bit)
    PROVE  /\ HeaderIn(p) /\ Opcode(p) = op /\ Fin(p)
           /\ Masked(p) <=> bit = 128
           /\ MaskAt(p) = 1 + Len(lengthField(n))
           /\ PayloadLen(p) = n
<1> DEFINE f == lengthField(n)
<1>1. /\ f \in Seq(Octet)
      /\ \/ n < 126 /\ Len(f) = 1 /\ f[1] = n
         \/ /\ n <= Max16 /\ Len(f) = 3 /\ f[1] = 126
            /\ f[2] = putU16(n)[1] /\ f[3] = putU16(n)[2]
         \/ /\ Len(f) = 9 /\ f[1] = 127
            /\ f[2] = 0 /\ f[3] = 0 /\ f[4] = 0 /\ f[5] = 0
            /\ f[6] = putU32(n)[1] /\ f[7] = putU32(n)[2]
            /\ f[8] = putU32(n)[3] /\ f[9] = putU32(n)[4]
  BY LengthField, Zenon
<1> HIDE DEF f
<1>2. FrameOf(p, op, f, bit)
  BY DEF f
<1>3. p \in Seq(Octet) /\ p[1] = 128 + op /\ p[2] = bit + f[1] /\ Len(p) >= 1 + Len(f)
  BY <1>2 DEF FrameOf
<1>4. Opcode(p) = op /\ Fin(p)
  <2> DEFINE v == 128 + op
  <2>1. v % 16 = op /\ v >= 128
    BY SMT
  <2>2. p[1] = v
    BY <1>3, Zenon
  <2> HIDE DEF v
  <2> QED BY <2>1, <2>2, Zenon DEF Opcode, Fin
<1>5. f[1] \in Nat /\ f[1] <= 127
  <2>1. (f[1] = n /\ n < 126) \/ f[1] = 126 \/ f[1] = 127
    BY <1>1, Zenon
  <2> QED BY <2>1
<1>6. Short(p) = f[1] /\ (Masked(p) <=> bit = 128)
  <2>1. \A a \in Nat : a <= 127 => /\ (0 + a) % 128 = a /\ (128 + a) % 128 = a
                                   /\ ~(0 + a >= 128) /\ 128 + a >= 128
    BY SMT
  <2> DEFINE u == 0 + f[1]
             v == 128 + f[1]
  <2>2. u % 128 = f[1] /\ ~(u >= 128) /\ v % 128 = f[1] /\ v >= 128
    BY <1>5, <2>1
  <2>3. CASE bit = 0
    <3>1. p[2] = u /\ ~(bit = 128)
      BY <1>3, <2>3
    <3> HIDE DEF u
    <3> QED BY <2>2, <3>1, Zenon DEF Short, Masked
  <2>4. CASE bit = 128
    <3>1. p[2] = v
      BY <1>3, <2>4, Zenon
    <3> HIDE DEF v
    <3> QED BY <2>2, <2>4, <3>1, Zenon DEF Short, Masked
  <2> QED BY <2>3, <2>4
<1>7. CASE n < 126 /\ Len(f) = 1 /\ f[1] = n
  <2>1. Short(p) = n /\ Short(p) \notin {126, 127}
    BY <1>6, <1>7
  <2>2. LenSize(p) = 0 /\ PayloadLen(p) = n
    BY <2>1 DEF LenSize, PayloadLen
  <2>3. MaskAt(p) = 2 /\ Len(p) >= 2
    BY <1>3, <1>7, <2>2 DEF MaskAt
  <2>4. HeaderIn(p)
    BY <2>3 DEF HeaderIn
  <2> QED BY <1>4, <1>6, <1>7, <2>2, <2>3, <2>4 DEF f
<1>8. CASE /\ n <= Max16 /\ Len(f) = 3 /\ f[1] = 126
           /\ f[2] = putU16(n)[1] /\ f[3] = putU16(n)[2]
  <2>1. Short(p) = 126
    BY <1>6, <1>8
  <2>2. p[3] = putU16(n)[1] /\ p[3 + 1] = putU16(n)[2]
    BY <1>2, <1>8 DEF FrameOf
  <2>3. getU16(p, 3) = n
    BY <1>8, <2>2, U16ComesBack
  <2>4. LenSize(p) = 2 /\ PayloadLen(p) = n
    BY <2>1, <2>3 DEF LenSize, PayloadLen
  <2>5. MaskAt(p) = 4 /\ Len(p) >= 4
    BY <1>3, <1>8, <2>4 DEF MaskAt
  <2>6. HeaderIn(p)
    BY <2>5 DEF HeaderIn
  <2> QED BY <1>4, <1>6, <1>8, <2>4, <2>5, <2>6 DEF f
<1>9. CASE /\ Len(f) = 9 /\ f[1] = 127
           /\ f[2] = 0 /\ f[3] = 0 /\ f[4] = 0 /\ f[5] = 0
           /\ f[6] = putU32(n)[1] /\ f[7] = putU32(n)[2]
           /\ f[8] = putU32(n)[3] /\ f[9] = putU32(n)[4]
  <2>1. Short(p) = 127
    BY <1>6, <1>9
  <2>2. \A i \in 2..9 : p[i + 1] = f[i]
    BY <1>2, <1>9 DEF FrameOf
  <2>3. p[3] = 0 /\ p[4] = 0 /\ p[5] = 0 /\ p[6] = 0
    BY <1>9, <2>2
  <2>4. /\ p[7] = putU32(n)[1] /\ p[7 + 1] = putU32(n)[2]
        /\ p[7 + 2] = putU32(n)[3] /\ p[7 + 3] = putU32(n)[4]
    BY <1>9, <2>2
  <2>5. getU32(p, 7) = n
    BY <2>4, U32ComesBack
  <2>6. getU32(p, 3) = 0
    BY <2>3 DEF getU32, getU16
  <2>7. PayloadLen(p) = 0 * 65536 * 65536 + n
    BY <2>1, <2>5, <2>6 DEF PayloadLen
  <2>8. LenSize(p) = 8 /\ PayloadLen(p) = n
    BY <2>1, <2>7 DEF LenSize
  <2>9. MaskAt(p) = 10 /\ Len(p) >= 10
    BY <1>3, <1>9, <2>8 DEF MaskAt
  <2>10. HeaderIn(p)
    BY <2>9 DEF HeaderIn
  <2> QED BY <1>4, <1>6, <1>9, <2>8, <2>9, <2>10 DEF f
<1> QED BY <1>1, <1>7, <1>8, <1>9

(* A frame that is there as a whole and not refused is taken.              *)
LEMMA FrameTaken ==
    ASSUME NEW op \in Nat, op <= 15, NEW n \in Nat, n <= Max32, n <= MaxPayload,
           op >= 8 => n <= 125, NEW bit \in {0, 128},
           NEW r \in BOOLEAN, r => bit = 128,
           NEW p, FrameOf(p, op, lengthField(n), bit),
           NEW at \in Nat,
           at = 1 + Len(lengthField(n)) + (IF bit = 128 THEN 4 ELSE 0),
           Len(p) >= at + n
    PROVE  /\ decodeFrame(p, r) = "Ok" /\ Opcode(p) = op /\ Fin(p)
           /\ PayloadAt(p) = at /\ Consumed(p) = at + n
           /\ Masked(p) <=> bit = 128
<1>1. /\ HeaderIn(p) /\ Opcode(p) = op /\ Fin(p)
      /\ Masked(p) <=> bit = 128
      /\ MaskAt(p) = 1 + Len(lengthField(n))
      /\ PayloadLen(p) = n
  BY FrameFields
<1>2. PayloadAt(p) = at
  BY <1>1, Zenon DEF PayloadAt
<1>3. Consumed(p) = at + n
  BY <1>1, <1>2 DEF Consumed
<1>4. p \in Seq(Octet) /\ Len(p) \in Nat
  BY DEF FrameOf
<1>5. ~(Len(p) < Consumed(p))
  BY <1>3, <1>4
<1>6. ~(PayloadLen(p) > MaxPayload)
  BY <1>1, MaxPayloadAssumption
<1>7. Control(p) => Fin(p) /\ ~(PayloadLen(p) > 125)
  BY <1>1 DEF Control
<1>8. ~Refused(p, r)
  BY <1>1, <1>6, <1>7, Zenon DEF Refused
<1>9. decodeFrame(p, r) = "Ok"
  BY <1>1, <1>5, <1>8 DEF decodeFrame
<1> QED BY <1>1, <1>2, <1>3, <1>9

(* What follows the head of a frame does not change it.                    *)
LEMMA HeadStays ==
    ASSUME NEW op, NEW f \in Seq(Octet), NEW bit, NEW h, FrameOf(h, op, f, bit),
           Len(f) >= 1, NEW x \in Seq(Octet)
    PROVE  FrameOf(h \o x, op, f, bit)
<1>1. /\ h \in Seq(Octet) /\ Len(h) >= 1 + Len(f)
      /\ h[1] = 128 + op /\ h[2] = bit + f[1]
      /\ \A i \in 2..Len(f) : h[i + 1] = f[i]
  BY DEF FrameOf
<1> DEFINE p == h \o x
<1>2. /\ p \in Seq(Octet) /\ Len(p) = Len(h) + Len(x)
      /\ \A i \in 1..Len(h) : p[i] = h[i]
  BY <1>1, Joined
<1> HIDE DEF p
<1>3. Len(h) \in Nat /\ Len(x) \in Nat /\ Len(f) \in Nat
  BY <1>1
<1>4. p[1] = h[1] /\ p[2] = h[2] /\ Len(p) >= 1 + Len(f)
  BY <1>1, <1>2, <1>3
<1>5. \A i \in 2..Len(f) : i + 1 \in 1..Len(h)
  BY <1>1, <1>3
<1>6. \A i \in 2..Len(f) : p[i + 1] = f[i]
  BY <1>1, <1>2, <1>5, Zenon
<1>7. FrameOf(p, op, f, bit)
  BY <1>1, <1>2, <1>4, <1>6, Zenon DEF FrameOf
<1> QED BY <1>7 DEF p

(* The part between two others.                                            *)
LEMMA Middle ==
    ASSUME NEW s \in Seq(Octet), NEW t \in Seq(Octet), NEW u \in Seq(Octet)
    PROVE  SubSeq(s \o t \o u, Len(s) + 1, Len(s) + Len(t)) = t
<1> DEFINE st == s \o t
           all == st \o u
           part == SubSeq(all, Len(s) + 1, Len(s) + Len(t))
<1>1. /\ st \in Seq(Octet) /\ Len(st) = Len(s) + Len(t)
      /\ \A i \in 1..Len(t) : st[Len(s) + i] = t[i]
  BY Joined
<1> HIDE DEF st
<1>2. /\ all \in Seq(Octet) /\ Len(all) = Len(st) + Len(u)
      /\ \A i \in 1..Len(st) : all[i] = st[i]
  BY <1>1, Joined
<1> HIDE DEF all
<1>3. Len(s) \in Nat /\ Len(t) \in Nat /\ Len(u) \in Nat
  OBVIOUS
<1>4. part \in Seq(Octet) /\ Len(part) = Len(t)
  BY <1>1, <1>2, <1>3
<1>5. \A i \in 1..Len(t) : part[i] = all[Len(s) + i]
  BY <1>1, <1>2, <1>3
<1>6. \A i \in 1..Len(t) : Len(s) + i \in 1..Len(st)
  BY <1>1, <1>3
<1> HIDE DEF part
<1>7. \A i \in 1..Len(t) : part[i] = t[i]
  BY <1>1, <1>2, <1>5, <1>6, Zenon
<1>8. part = t
  BY <1>4, <1>7, SameElements
<1> QED BY <1>8 DEF part, all, st

(* decodeFrame() gives back what encodeFrame() was given and takes exactly *)
(* its bytes, whatever follows (the claim of tools/test_ws_codec.cpp for   *)
(* one message, for every opcode and every payload).                       *)
THEOREM FrameComesBack ==
    ASSUME NEW op \in Nat, op <= 15, NEW data \in Seq(Octet), NEW rest \in Seq(Octet),
           Len(data) <= Max32, Len(data) <= MaxPayload, op >= 8 => Len(data) <= 125
    PROVE  LET p == encodeFrame(op, data) \o rest
           IN  /\ decodeFrame(p, FALSE) = "Ok"
               /\ Consumed(p) = Len(encodeFrame(op, data))
               /\ Opcode(p) = op /\ Fin(p)
               /\ Payload(p) = data
<1> DEFINE n == Len(data)
           f == lengthField(n)
           h == <<128 + (op % 16)>> \o f
           frame == encodeFrame(op, data)
           p == frame \o rest
<1>1. n \in Nat /\ n <= Max32 /\ n <= MaxPayload /\ (op >= 8 => n <= 125)
  OBVIOUS
<1>2. frame = h \o data
  BY DEF encodeFrame
<1> HIDE DEF n, frame
<1>3. f \in Seq(Octet) /\ Len(f) \in Nat /\ Len(f) >= 1
  BY <1>1, LengthField
<1> HIDE DEF f
<1>4. h \in Seq(Octet) /\ Len(h) = 1 + Len(f) /\ FrameOf(h, op, f, 0)
  <2> DEFINE o == <<128 + (op % 16)>>
  <2>1. op % 16 = op /\ 128 + op \in Octet
    <3>1. op % 16 = op
      BY SMT
    <3> QED BY <3>1, SmallIsOctet
  <2>2. o \in Seq(Octet) /\ Len(o) = 1 /\ o[1] = 128 + op
    BY <2>1
  <2>3. h = o \o f
    OBVIOUS
  <2> HIDE DEF o, h
  <2>4. /\ h \in Seq(Octet) /\ Len(h) = Len(o) + Len(f)
        /\ \A i \in 1..Len(o) : h[i] = o[i]
        /\ \A i \in 1..Len(f) : h[Len(o) + i] = f[i]
    BY <2>2, <2>3, <1>3, Joined
  <2>5. Len(h) = 1 + Len(f) /\ h[1] = 128 + op
    BY <2>2, <2>4
  <2>6. \A i \in 1..Len(f) : h[i + 1] = f[i]
    BY <2>2, <2>4, <1>3
  <2>7. h[2] = 0 + f[1]
    <3>1. f[1] \in Octet
      BY <1>3, Elements
    <3>2. f[1] = 0 + f[1]
      BY <3>1, OctetIsSmall
    <3>3. h[1 + 1] = f[1] /\ 1 + 1 = 2
      BY <2>6, <1>3
    <3> QED BY <3>2, <3>3
  <2>8. \A i \in 2..Len(f) : h[i + 1] = f[i]
    BY <2>6, <1>3
  <2>9. Len(h) >= 1 + Len(f)
    BY <2>5, <1>3
  <2> QED BY <2>4, <2>5, <2>7, <2>8, <2>9, Zenon DEF FrameOf
<1> HIDE DEF h
<1>5. p = h \o (data \o rest) /\ p = h \o data \o rest
  BY <1>2, <1>4
<1> HIDE DEF p
<1>6. FrameOf(p, op, f, 0)
  BY <1>3, <1>4, <1>5, HeadStays
<1>7. Len(frame) = Len(h) + n /\ Len(p) = Len(h) + n + Len(rest) /\ Len(rest) \in Nat
  <2>1. /\ h \o data \in Seq(Octet) /\ Len(h \o data) = Len(h) + n
    BY <1>4, Joined DEF n
  <2>2. Len(h \o data \o rest) = Len(h \o data) + Len(rest)
    BY <2>1, Joined
  <2> QED BY <1>2, <1>5, <2>1, <2>2
<1>8. /\ decodeFrame(p, FALSE) = "Ok" /\ Opcode(p) = op /\ Fin(p)
      /\ PayloadAt(p) = Len(h) /\ Consumed(p) = Len(h) + n
      /\ ~Masked(p)
  <2> DEFINE at == Len(h)
             r == FALSE
             bit == 0
  <2>1. /\ at \in Nat /\ at = 1 + Len(f) + (IF bit = 128 THEN 4 ELSE 0)
        /\ Len(p) >= at + n
    BY <1>1, <1>3, <1>4, <1>7
  <2>2. r \in BOOLEAN /\ bit \in {0, 128} /\ (r => bit = 128) /\ ~(bit = 128)
    OBVIOUS
  <2>3. FrameOf(p, op, lengthField(n), bit) /\ f = lengthField(n)
    BY <1>6 DEF f
  <2> HIDE DEF at, r, bit
  <2>4. /\ decodeFrame(p, r) = "Ok" /\ Opcode(p) = op /\ Fin(p)
        /\ PayloadAt(p) = at /\ Consumed(p) = at + n
        /\ (Masked(p) <=> bit = 128)
    BY <1>1, <2>1, <2>2, <2>3, FrameTaken
  <2> QED BY <2>2, <2>4 DEF at, r
<1>9. Payload(p) = SubSeq(p, Len(h) + 1, Len(h) + Len(data))
  BY <1>8 DEF Payload, n
<1>10. Payload(p) = data
  BY <1>4, <1>5, <1>9, Middle
<1> QED BY <1>7, <1>8, <1>10 DEF p, frame, n

-----------------------------------------------------------------------------
(* Masking twice gives the data back.                                      *)
LEMMA MaskTwice ==
    ASSUME NEW data \in Seq(Octet), NEW mask \in Seq(Octet), Len(mask) = 4
    PROVE  /\ maskWith(data, mask) \in Seq(Octet)
           /\ Len(maskWith(data, mask)) = Len(data)
           /\ maskWith(maskWith(data, mask), mask) = data
<1> DEFINE at(k) == ((k - 1) % 4) + 1
           m == maskWith(data, mask)
<1>1. Len(data) \in Nat
  OBVIOUS
<1>2. \A k \in 1..Len(data) : at(k) \in 1..4
  BY <1>1, SMT
<1>3. \A k \in 1..Len(data) : data[k] \in Octet /\ mask[at(k)] \in Octet
  <2>1. \A j \in 1..4 : mask[j] \in Octet
    <3>1. \A j \in 1..Len(mask) : mask[j] \in Octet
      BY Elements, Zenon
    <3> HIDE DEF at, m
    <3> QED BY <3>1
  <2>2. \A k \in 1..Len(data) : data[k] \in Octet
    BY Elements, Zenon
  <2> HIDE DEF at
  <2> QED BY <1>2, <2>1, <2>2, Zenon
<1>4. m = [k \in 1..Len(data) |-> Xor(data[k], mask[at(k)])]
  BY DEF maskWith
<1> HIDE DEF at
<1>5. \A k \in 1..Len(data) : /\ Xor(data[k], mask[at(k)]) \in Octet
                              /\ Xor(Xor(data[k], mask[at(k)]), mask[at(k)]) = data[k]
  BY <1>3, XorAssumption, Zenon
<1>6. m \in Seq(Octet) /\ Len(m) = Len(data)
  <2> DEFINE b(k) == Xor(data[k], mask[at(k)])
  <2>1. \A k \in 1..Len(data) : b(k) \in Octet
    BY <1>5
  <2>2. m = [k \in 1..Len(data) |-> b(k)]
    BY <1>4
  <2> HIDE DEF b, m
  <2> QED BY <1>1, <2>1, <2>2, SMT
<1>7. maskWith(m, mask) = [k \in 1..Len(m) |-> Xor(m[k], mask[at(k)])]
  BY Zenon DEF maskWith, at
<1>8. \A k \in 1..Len(data) : Xor(m[k], mask[at(k)]) = data[k]
  BY <1>4, <1>5, Zenon
<1> HIDE DEF m
<1>9. maskWith(m, mask) = [k \in 1..Len(data) |-> data[k]]
  BY <1>6, <1>7, <1>8, Zenon
<1>10. maskWith(m, mask) = data
  BY <1>9, SMT
<1> QED BY <1>6, <1>10 DEF m

(* The head of a masked frame.                                             *)
LEMMA MaskedHead ==
    ASSUME NEW op \in Nat, op <= 15, NEW f \in Seq(Octet), Len(f) >= 1, f[1] <= 127
    PROVE  LET h == <<128 + (op % 16), 128 + f[1]>> \o SubSeq(f, 2, Len(f))
           IN  Len(h) = 1 + Len(f) /\ FrameOf(h, op, f, 128)
<1> DEFINE o == <<128 + (op % 16), 128 + f[1]>>
           t == SubSeq(f, 2, Len(f))
           h == o \o t
<1>1. Len(f) \in Nat /\ f[1] \in Octet
  OBVIOUS
<1>2. f[1] \in Nat /\ op % 16 = op
  <2>1. op % 16 = op
    BY SMT
  <2> QED BY <1>1, <2>1, OctetIsSmall
<1>3. 128 + op \in Octet /\ 128 + f[1] \in Octet
  <2>1. 128 + op \in Nat /\ 128 + op <= 255 /\ 128 + f[1] \in Nat /\ 128 + f[1] <= 255
    BY <1>2
  <2> QED BY <2>1, SmallIsOctet
<1>4. o \in Seq(Octet) /\ Len(o) = 2 /\ o[1] = 128 + op /\ o[2] = 128 + f[1]
  BY <1>2, <1>3
<1>5. t \in Seq(Octet) /\ Len(t) = Len(f) - 1
  BY AllButFirst, Zenon
<1>6. \A i \in 1..Len(t) : t[i] = f[i + 1]
  BY AllButFirst, Zenon
<1> HIDE DEF o, t
<1>7. /\ h \in Seq(Octet) /\ Len(h) = Len(o) + Len(t)
      /\ \A i \in 1..Len(o) : h[i] = o[i]
      /\ \A i \in 1..Len(t) : h[Len(o) + i] = t[i]
  BY <1>4, <1>5, Joined
<1> HIDE DEF h
<1>8. Len(h) = 1 + Len(f) /\ Len(h) >= 1 + Len(f)
  BY <1>1, <1>4, <1>5, <1>7
<1>9. h[1] = 128 + op /\ h[2] = 128 + f[1]
  BY <1>4, <1>7
<1>10. ASSUME NEW i \in 2..Len(f)
       PROVE  h[i + 1] = f[i]
  <2>1. i - 1 \in 1..Len(t) /\ Len(o) + (i - 1) = i + 1 /\ (i - 1) + 1 = i
    BY <1>1, <1>4, <1>5
  <2>2. h[Len(o) + (i - 1)] = t[i - 1] /\ t[i - 1] = f[(i - 1) + 1]
    BY <1>6, <1>7, <2>1, Zenon
  <2> QED BY <2>1, <2>2, Zenon
<1>11. FrameOf(h, op, f, 128)
  BY <1>7, <1>8, <1>9, <1>10, Zenon DEF FrameOf
<1> QED BY <1>8, <1>11 DEF h, o, t

(* The terminal takes what a browser sends, masked as it must be, and      *)
(* unmasks it to what was sent, for every opcode, payload and mask.        *)
THEOREM ClientFrameComesBack ==
    ASSUME NEW op \in Nat, op <= 15, NEW data \in Seq(Octet), NEW rest \in Seq(Octet),
           NEW mask \in Seq(Octet), Len(mask) = 4,
           Len(data) <= Max32, Len(data) <= MaxPayload, op >= 8 => Len(data) <= 125
    PROVE  LET p == clientFrame(op, data, mask) \o rest
           IN  /\ decodeFrame(p, TRUE) = "Ok"
               /\ Consumed(p) = Len(clientFrame(op, data, mask))
               /\ Opcode(p) = op /\ Fin(p)
               /\ Payload(p) = data
<1> DEFINE n == Len(data)
           f == lengthField(n)
           h == <<128 + (op % 16), 128 + f[1]>> \o SubSeq(f, 2, Len(f))
           m == maskWith(data, mask)
           frame == clientFrame(op, data, mask)
           p == frame \o rest
<1>1. n \in Nat /\ n <= Max32 /\ n <= MaxPayload /\ (op >= 8 => n <= 125)
  OBVIOUS
<1>2. frame = h \o mask \o m /\ p = frame \o rest
  BY DEF clientFrame
<1> HIDE DEF p
<1>3. m \in Seq(Octet) /\ Len(m) = n /\ maskWith(m, mask) = data
  BY MaskTwice
<1> HIDE DEF n, m, frame
<1>4. f \in Seq(Octet) /\ Len(f) \in Nat /\ Len(f) >= 1 /\ f[1] <= 127
  BY <1>1, LengthField
<1> HIDE DEF f
<1>5. Len(h) = 1 + Len(f) /\ FrameOf(h, op, f, 128)
  BY <1>4, MaskedHead
<1>6. h \in Seq(Octet)
  BY <1>5 DEF FrameOf
<1> HIDE DEF h
<1>7. /\ mask \o (m \o rest) \in Seq(Octet)
      /\ Len(mask \o (m \o rest)) = 4 + n + Len(rest)
  <2>1. m \o rest \in Seq(Octet) /\ Len(m \o rest) = n + Len(rest)
    BY <1>3, Joined
  <2>2. /\ mask \o (m \o rest) \in Seq(Octet)
        /\ Len(mask \o (m \o rest)) = Len(mask) + Len(m \o rest)
    BY <2>1, Joined
  <2> QED BY <1>1, <2>1, <2>2
<1>8. /\ h \o mask \in Seq(Octet) /\ Len(h \o mask) = Len(h) + 4
      /\ h \o mask \o m \in Seq(Octet) /\ Len(h \o mask \o m) = Len(h) + 4 + n
  <2>1. h \o mask \in Seq(Octet) /\ Len(h \o mask) = Len(h) + 4
    <3>1. h \o mask \in Seq(Octet) /\ Len(h \o mask) = Len(h) + Len(mask)
      BY <1>6, Joined
    <3> QED BY <3>1, Zenon
  <2>2. h \o mask \o m \in Seq(Octet) /\ Len(h \o mask \o m) = Len(h \o mask) + n
    BY <1>3, <2>1, Joined
  <2> QED BY <2>1, <2>2
<1>9. /\ p = h \o (mask \o (m \o rest))
      /\ p = h \o mask \o (m \o rest)
      /\ p = (h \o mask) \o m \o rest
  <2>1. (h \o mask) \o m \o rest = (h \o mask) \o (m \o rest)
    <3> DEFINE s == h \o mask
    <3>1. s \in Seq(Octet)
      BY <1>8
    <3> HIDE DEF s
    <3>2. Associates(s, m, rest)
      BY <1>3, <3>1, OctetsAssociate
    <3> QED BY <3>2 DEF s, Associates
  <2>2. m \o rest \in Seq(Octet)
    BY <1>3, Joined
  <2>3. h \o mask \o (m \o rest) = h \o (mask \o (m \o rest))
    <3>1. mask \in Seq(Octet) /\ h \in Seq(Octet)
      BY <1>6
    <3>2. Associates(h, mask, m \o rest)
      BY <2>2, <3>1, OctetsAssociate
    <3> QED BY <3>2 DEF Associates
  <2> QED BY <1>2, <2>1, <2>3, Zenon
<1>10. Len(p) = Len(h) + (4 + n + Len(rest)) /\ Len(rest) \in Nat /\ Len(h) \in Nat
  <2> DEFINE x == mask \o (m \o rest)
  <2>1. x \in Seq(Octet) /\ Len(x) = 4 + n + Len(rest) /\ p = h \o x
    BY <1>7, <1>9, Zenon
  <2> HIDE DEF x
  <2>2. Len(h \o x) = Len(h) + Len(x)
    BY <1>6, <2>1, Joined
  <2>3. Len(rest) \in Nat /\ Len(h) \in Nat
    BY <1>6
  <2> QED BY <2>1, <2>2, <2>3, Zenon
<1>11. FrameOf(p, op, f, 128)
  BY <1>4, <1>5, <1>7, <1>9, HeadStays
<1>12. /\ decodeFrame(p, TRUE) = "Ok" /\ Opcode(p) = op /\ Fin(p)
       /\ PayloadAt(p) = Len(h) + 4 /\ Consumed(p) = Len(h) + 4 + n
       /\ Masked(p)
  <2> DEFINE at == Len(h) + 4
             r == TRUE
             bit == 128
  <2>1. /\ at \in Nat /\ at = 1 + Len(f) + (IF bit = 128 THEN 4 ELSE 0)
        /\ Len(p) >= at + n
    BY <1>1, <1>4, <1>5, <1>10
  <2>2. r \in BOOLEAN /\ bit \in {0, 128} /\ (r => bit = 128) /\ bit = 128
    OBVIOUS
  <2>3. FrameOf(p, op, lengthField(n), bit) /\ f = lengthField(n)
    BY <1>11 DEF f
  <2> HIDE DEF at, r, bit
  <2>4. /\ decodeFrame(p, r) = "Ok" /\ Opcode(p) = op /\ Fin(p)
        /\ PayloadAt(p) = at /\ Consumed(p) = at + n
        /\ (Masked(p) <=> bit = 128)
    <3>1. op >= 8 => n <= 125
      BY <1>1
    <3>2. FrameOf(p, op, lengthField(n), bit)
      BY <2>3
    <3>3. at = 1 + Len(lengthField(n)) + (IF bit = 128 THEN 4 ELSE 0)
      BY <2>1, <2>3, Zenon
    <3> QED BY <1>1, <2>1, <2>2, <3>1, <3>2, <3>3, FrameTaken
  <2> QED BY <2>2, <2>4 DEF at, r
<1>13. MaskAt(p) = Len(h)
  <2>1. HeaderIn(p) /\ p \in Seq(Octet)
    BY <1>11, <1>12 DEF decodeFrame, FrameOf
  <2>2. MaskAt(p) \in 2..10 /\ PayloadAt(p) = MaskAt(p) + 4
    BY <1>12, <2>1, FieldTypes DEF HeaderIn, PayloadAt
  <2>3. \A a, b \in Nat : a + 4 = b + 4 => a = b
    OBVIOUS
  <2>4. MaskAt(p) \in Nat
    BY <2>2
  <2> QED BY <1>10, <1>12, <2>2, <2>3, <2>4, Zenon
<1>14. SubSeq(p, Len(h) + 1, Len(h) + 4) = mask
  <2>1. m \o rest \in Seq(Octet)
    BY <1>3, Joined
  <2>2. SubSeq(h \o mask \o (m \o rest), Len(h) + 1, Len(h) + Len(mask)) = mask
    BY <1>6, <2>1, Middle
  <2> QED BY <1>9, <2>2, Zenon
<1>15. SubSeq(p, Len(h) + 4 + 1, Len(h) + 4 + n) = m
  <2> DEFINE s == h \o mask
  <2>1. s \in Seq(Octet) /\ Len(s) = Len(h) + 4 /\ p = s \o m \o rest
    BY <1>8, <1>9, Zenon
  <2> HIDE DEF s
  <2>2. SubSeq(s \o m \o rest, Len(s) + 1, Len(s) + Len(m)) = m
    BY <1>3, <2>1, Middle
  <2> QED BY <1>3, <2>1, <2>2, Zenon
<1>16. Payload(p) = maskWith(m, mask)
  BY <1>12, <1>13, <1>14, <1>15, Zenon DEF Payload
<1>17. Consumed(p) = Len(frame)
  BY <1>2, <1>8, <1>12
<1> QED BY <1>3, <1>12, <1>16, <1>17 DEF p, frame

-----------------------------------------------------------------------------
(* The token check of Auth.h accepts the token and nothing else: going     *)
(* round the bytes that were sent never lets a part stand for the whole.   *)
THEOREM TokensCompare ==
    ASSUME NEW e \in Seq(Octet), NEW g \in Seq(Octet)
    PROVE  constantTimeEqual(e, g) <=> e = g
<1> DEFINE byte(i) == IF g = << >> THEN 0 ELSE g[((i - 1) % Len(g)) + 1]
<1>1. constantTimeEqual(e, g) <=>
          Len(e) = Len(g) /\ \A i \in 1..Len(e) : Xor(e[i], byte(i)) = 0
  BY DEF constantTimeEqual
<1>2. Len(e) \in Nat /\ Len(g) \in Nat
  OBVIOUS
<1>3. \A i \in 1..Len(g) : byte(i) = g[i]
  <2>1. \A n, i \in Nat : i >= 1 /\ i <= n => (i - 1) % n = i - 1
    BY SMT
  <2>2. \A i \in 1..Len(g) : ((i - 1) % Len(g)) + 1 = i /\ g # << >>
    BY <1>2, <2>1
  <2> QED BY <2>2
<1> HIDE DEF byte
<1>4. \A i \in 1..Len(e) : e[i] \in Octet
  OBVIOUS
<1>5. \A i \in 1..Len(g) : g[i] \in Octet
  OBVIOUS
<1>6. ASSUME Len(e) = Len(g)
      PROVE  \A i \in 1..Len(e) : Xor(e[i], byte(i)) = 0 <=> e[i] = g[i]
  <2>1. 1..Len(e) = 1..Len(g)
    BY <1>6
  <2>2. \A i \in 1..Len(e) : /\ e[i] \in Octet /\ g[i] \in Octet
                             /\ byte(i) = g[i]
    BY <1>3, <1>4, <1>5, <2>1, Zenon
  <2>3. \A a, b \in Octet : Xor(a, b) = 0 <=> a = b
    BY XorAssumption, Zenon
  <2> QED BY <2>2, <2>3, Zenon
<1>7. e = g <=> Len(e) = Len(g) /\ \A i \in 1..Len(e) : e[i] = g[i]
  OBVIOUS
<1> QED BY <1>1, <1>6, <1>7, Zenon
=============================================================================
