--------------------------- MODULE Clients_proofs ---------------------------
(***************************************************************************)
(* What is proved of Clients for every set of names and every sequence of  *)
(* versions: the types, that HELLO comes first, that a file offered for    *)
(* saving is one version, whole, and that every file asked for is          *)
(* answered, in order.                                                     *)
(*                                                                         *)
(* The third rests on one picture of the connection: the messages the      *)
(* client has still to handle, those on their way and those that sendFile  *)
(* has still to send are one stream, in which the chunks of a transfer     *)
(* follow each other and none is missing at either end but those that the  *)
(* client has; and what it has of a file is exactly what its next message  *)
(* continues.  The fourth adds the names: those that the stream answers    *)
(* and then those that the requests on their way ask for are what is left  *)
(* of the files asked for behind those answered.                           *)
(***************************************************************************)
EXTENDS Clients, FiniteSetTheorems, SequenceTheorems, WellFoundedInduction,
        TLAPS

-----------------------------------------------------------------------------
(* The stream.                                                             *)

(* Messages as the session makes them, and as a failed write may leave     *)
(* them.                                                                   *)
Sent == {m \in Message : m.type = "data" => m.version \in 0..Len(Chunks)}

Cont(m) == m.type = "data" /\ m.idx > 0
Unfinished(m) == m.type = "data" /\ m.idx + 1 < m.total
Following(m) == [m EXCEPT !.idx = m.idx + 1]

Sound(m) ==
    /\ m.type # "junk"
    /\ m.type = "data" =>
          \/ m.total = 0 /\ m.idx = 0
          \/ /\ m.version \in Versions
             /\ m.total = Chunks[m.version]
             /\ m.idx < m.total

Stream(P) ==
    \A i \in 1..Len(P) :
        /\ Sound(P[i])
        /\ Unfinished(P[i]) => i < Len(P) /\ P[i + 1] = Following(P[i])
        /\ Cont(P[i]) /\ i > 1 => Unfinished(P[i - 1])

(* A sequence that begins no transfer in its middle.                       *)
Starts(P) == P = << >> \/ ~Cont(P[1])

-----------------------------------------------------------------------------
(* Sequences.                                                              *)

(* A concatenation's length and elements.                                  *)
LEMMA Joined ==
    ASSUME NEW S, NEW s \in Seq(S), NEW t \in Seq(S)
    PROVE  /\ s \o t \in Seq(S)
           /\ Len(s \o t) = Len(s) + Len(t)
           /\ \A i \in 1..Len(s) : (s \o t)[i] = s[i]
           /\ \A i \in (Len(s) + 1)..(Len(s) + Len(t)) :
                 (s \o t)[i] = t[i - Len(s)]
  BY SMT

(* Sequences with the same elements are the same.                          *)
LEMMA SameElements ==
    ASSUME NEW S, NEW s \in Seq(S), NEW t \in Seq(S), Len(s) = Len(t),
           \A i \in 1..Len(s) : s[i] = t[i]
    PROVE  s = t
  BY SMT

(* Concatenation is associative.                                           *)
LEMMA Associative ==
    ASSUME NEW S, NEW s \in Seq(S), NEW t \in Seq(S), NEW u \in Seq(S)
    PROVE  (s \o t) \o u = s \o (t \o u)
<1>1. /\ (s \o t) \o u \in Seq(S) /\ s \o (t \o u) \in Seq(S)
      /\ Len((s \o t) \o u) = Len(s \o (t \o u))
  BY SMT
<1>2. \A i \in 1..Len((s \o t) \o u) : ((s \o t) \o u)[i] = (s \o (t \o u))[i]
  BY SMT
<1> QED BY <1>1, <1>2, SameElements

(* Three sequences may be joined in either order.                          *)
Associates(s, t, u) == (s \o t) \o u = s \o (t \o u)

(* Those of messages may.                                                  *)
LEMMA SentAssociative == \A s, t, u \in Seq(Sent) : Associates(s, t, u)
BY Associative DEF Associates

(* Those of names may.                                                     *)
LEMMA NamesAssociative == \A s, t, u \in Seq(Names) : Associates(s, t, u)
BY Associative DEF Associates

(* The first message of a sequence and the rest.                           *)
LEMMA Behead ==
    ASSUME NEW S, NEW s \in Seq(S), s # << >>
    PROVE  /\ Head(s) = s[1] /\ s[1] \in S /\ Tail(s) \in Seq(S)
           /\ Len(s) >= 1 /\ Len(Tail(s)) = Len(s) - 1
           /\ \A i \in 1..Len(Tail(s)) : Tail(s)[i] = s[i + 1]
  BY SMT

(* Moving the front of the second sequence to the end of the first.        *)
LEMMA Moved ==
    ASSUME NEW S, NEW s \in Seq(S), NEW t \in Seq(S), t # << >>
    PROVE  Append(s, Head(t)) \o Tail(t) = s \o t
<1>1. /\ Append(s, Head(t)) \o Tail(t) \in Seq(S) /\ s \o t \in Seq(S)
      /\ Len(Append(s, Head(t)) \o Tail(t)) = Len(s \o t)
  BY SMT
<1>2. \A i \in 1..Len(s \o t) :
         (Append(s, Head(t)) \o Tail(t))[i] = (s \o t)[i]
  BY SMT
<1> QED BY <1>1, <1>2, SameElements

(* The front of a concatenation goes with its first part.                  *)
LEMMA TailOfJoined ==
    ASSUME NEW S, NEW s \in Seq(S), NEW t \in Seq(S), s # << >>
    PROVE  /\ Tail(s \o t) = Tail(s) \o t
           /\ s \o t # << >> /\ (s \o t)[1] = s[1]
<1>1. /\ Tail(s \o t) \in Seq(S) /\ Tail(s) \o t \in Seq(S)
      /\ Len(Tail(s \o t)) = Len(Tail(s) \o t)
  BY SMT
<1>2. \A i \in 1..Len(Tail(s \o t)) : Tail(s \o t)[i] = (Tail(s) \o t)[i]
  BY SMT
<1>3. s \o t # << >> /\ (s \o t)[1] = s[1]
  BY SMT
<1> QED BY <1>1, <1>2, <1>3, SameElements

(* Cutting a sequence and joining it again.                                *)
LEMMA CutAndJoined ==
    ASSUME NEW S, NEW s \in Seq(S), NEW k \in 0..Len(s)
    PROVE  /\ SubSeq(s, 1, k) \in Seq(S) /\ SubSeq(s, k + 1, Len(s)) \in Seq(S)
           /\ SubSeq(s, 1, k) \o SubSeq(s, k + 1, Len(s)) = s
<1>1. /\ SubSeq(s, 1, k) \in Seq(S) /\ SubSeq(s, k + 1, Len(s)) \in Seq(S)
      /\ Len(SubSeq(s, 1, k)) = k /\ Len(SubSeq(s, k + 1, Len(s))) = Len(s) - k
  BY SMT
<1>2. /\ \A i \in 1..k : SubSeq(s, 1, k)[i] = s[i]
      /\ \A i \in 1..(Len(s) - k) : SubSeq(s, k + 1, Len(s))[i] = s[k + i]
  BY SMT
<1> DEFINE a == SubSeq(s, 1, k)
           b == SubSeq(s, k + 1, Len(s))
<1>3. /\ a \o b \in Seq(S) /\ Len(a \o b) = Len(s)
      /\ \A i \in 1..k : (a \o b)[i] = a[i]
      /\ \A i \in (k + 1)..Len(s) : (a \o b)[i] = b[i - k]
  <2> HIDE DEF a, b
  <2>1. a \in Seq(S) /\ b \in Seq(S) /\ Len(a) = k /\ Len(b) = Len(s) - k
    BY <1>1 DEF a, b
  <2> QED BY <2>1, Joined, SMT
<1>4. \A i \in 1..Len(s) : (a \o b)[i] = s[i]
  <2>1. \A i \in 1..k : a[i] = s[i]
    BY <1>2
  <2>2. \A i \in 1..(Len(s) - k) : b[i] = s[k + i]
    BY <1>2
  <2> HIDE DEF a, b
  <2>3. ASSUME NEW i \in 1..Len(s) PROVE (a \o b)[i] = s[i]
    <3>1. CASE i <= k
      BY <3>1, <1>3, <2>1, SMT
    <3>2. CASE i > k
      <4>1. i - k \in 1..(Len(s) - k) /\ i \in (k + 1)..Len(s) /\ k + (i - k) = i
        BY <3>2, SMT
      <4> QED BY <4>1, <1>3, <2>2
    <3>3. i <= k \/ i > k
      BY SMT
    <3> QED BY <3>1, <3>2, <3>3
  <2> QED BY <2>3
<1>5. a \o b = s
  <2> HIDE DEF a, b
  <2> QED BY <1>3, <1>4, SameElements
<1> QED BY <1>1, <1>5

-----------------------------------------------------------------------------
(* Streams.                                                                *)

(* A data message of the protocol has the fields of one.                   *)
LEMMA DataFields ==
    ASSUME NEW m \in Sent, m.type = "data"
    PROVE  /\ m \in Data /\ m.name \in Names
           /\ m.idx \in Nat /\ m.total \in Nat /\ m.version \in 0..Len(Chunks)
           /\ m = [type |-> "data", name |-> m.name, idx |-> m.idx,
                   total |-> m.total, version |-> m.version]
<1>1. m \in Message /\ m.version \in 0..Len(Chunks)
  BY DEF Sent
<1>2. m \notin Listing /\ m \notin Deleted /\ m \notin Plain
  BY SMT DEF Listing, Deleted, Plain
<1>3. m \in Data
  BY <1>1, <1>2 DEF Message
<1>4. /\ m.name \in Names /\ m.idx \in Nat /\ m.total \in Nat
      /\ m = [type |-> "data", name |-> m.name, idx |-> m.idx,
              total |-> m.total, version |-> m.version]
  BY <1>3, SMT DEF Data
<1> QED BY <1>1, <1>3, <1>4

(* Nothing is a stream, and so is one message that is not of a transfer.   *)
LEMMA EmptyStream == Stream(<< >>)
  BY SMT DEF Stream

(* A message that is no part of a transfer is a stream by itself.           *)
LEMMA OneMessage ==
    ASSUME NEW m \in Sent, m.type # "data", m.type # "junk"
    PROVE  Stream(<<m>>) /\ Starts(<<m>>) /\ <<m>> \in Seq(Sent)
<1>1. <<m>> \in Seq(Sent) /\ Len(<<m>>) = 1 /\ <<m>>[1] = m
  BY SMT
<1>2. Sound(m) /\ ~Unfinished(m) /\ ~Cont(m)
  BY DEF Sound, Unfinished, Cont
<1> HIDE DEF Sound, Unfinished, Cont
<1>3. Stream(<<m>>)
  <2> SUFFICES ASSUME NEW i \in 1..1
               PROVE  /\ Sound(<<m>>[i])
                      /\ Unfinished(<<m>>[i]) => FALSE
                      /\ Cont(<<m>>[i]) /\ i > 1 => FALSE
    BY <1>1 DEF Stream
  <2>1. i = 1
    BY SMT
  <2> QED BY <2>1, <1>1, <1>2
<1> QED BY <1>1, <1>2, <1>3 DEF Starts

(* A stream goes on with what begins no transfer in its middle.            *)
LEMMA StreamsJoin ==
    ASSUME NEW s \in Seq(Sent), NEW t \in Seq(Sent),
           Stream(s), Stream(t), Starts(t)
    PROVE  Stream(s \o t)
<1> HIDE DEF Sound, Unfinished, Cont, Following
<1> DEFINE u == s \o t
           m == Len(s)
           n == Len(t)
<1>1. /\ m \in Nat /\ n \in Nat /\ Len(u) = m + n
      /\ \A i \in 1..m : u[i] = s[i]
      /\ \A i \in (m + 1)..(m + n) : u[i] = t[i - m]
  BY Joined, SMT
<1>2. \A i \in 1..m :
         /\ Sound(s[i])
         /\ Unfinished(s[i]) => i < m /\ s[i + 1] = Following(s[i])
         /\ Cont(s[i]) /\ i > 1 => Unfinished(s[i - 1])
  BY DEF Stream
<1>3. \A i \in 1..n :
         /\ Sound(t[i])
         /\ Unfinished(t[i]) => i < n /\ t[i + 1] = Following(t[i])
         /\ Cont(t[i]) /\ i > 1 => Unfinished(t[i - 1])
  BY DEF Stream
<1>4. n > 0 => ~Cont(t[1])
  BY SMT DEF Starts
<1> HIDE DEF u, m, n
<1>5. ASSUME NEW i \in 1..(m + n), i <= m
      PROVE  /\ Sound(u[i])
             /\ Unfinished(u[i]) => i < m + n /\ u[i + 1] = Following(u[i])
             /\ Cont(u[i]) /\ i > 1 => Unfinished(u[i - 1])
  <2>1. i \in 1..m /\ u[i] = s[i] /\ Sound(u[i])
    BY <1>1, <1>2, <1>5, SMT
  <2>2. ASSUME Unfinished(u[i])
        PROVE  i < m + n /\ u[i + 1] = Following(u[i])
    <3>1. i < m /\ s[i + 1] = Following(s[i])
      BY <2>1, <2>2, <1>2
    <3>2. i + 1 \in 1..m /\ i < m + n
      BY <3>1, <1>1, SMT
    <3> QED BY <3>1, <3>2, <2>1, <1>1
  <2>3. ASSUME Cont(u[i]), i > 1 PROVE Unfinished(u[i - 1])
    <3>1. Unfinished(s[i - 1])
      BY <2>1, <2>3, <1>2
    <3>2. i - 1 \in 1..m
      BY <2>1, <2>3, <1>1, SMT
    <3> QED BY <3>1, <3>2, <1>1
  <2> QED BY <2>1, <2>2, <2>3
<1>6. ASSUME NEW i \in 1..(m + n), i > m
      PROVE  /\ Sound(u[i])
             /\ Unfinished(u[i]) => i < m + n /\ u[i + 1] = Following(u[i])
             /\ Cont(u[i]) /\ i > 1 => Unfinished(u[i - 1])
  <2>1. i - m \in 1..n /\ i \in (m + 1)..(m + n)
    BY <1>1, <1>6, SMT
  <2>2. u[i] = t[i - m] /\ Sound(u[i])
    BY <2>1, <1>1, <1>3
  <2>3. ASSUME Unfinished(u[i])
        PROVE  i < m + n /\ u[i + 1] = Following(u[i])
    <3>1. i - m < n /\ t[(i - m) + 1] = Following(t[i - m])
      BY <2>1, <2>2, <2>3, <1>3
    <3>2. /\ i + 1 \in (m + 1)..(m + n) /\ i < m + n
          /\ (i + 1) - m = (i - m) + 1
      BY <3>1, <2>1, <1>1, SMT
    <3> QED BY <3>1, <3>2, <2>2, <1>1
  <2>4. ASSUME Cont(u[i]), i > 1 PROVE Unfinished(u[i - 1])
    <3>1. i - m # 1
      <4>1. ASSUME i - m = 1 PROVE FALSE
        <5>1. u[i] = t[1] /\ n > 0
          BY <4>1, <2>1, <2>2, <1>1, SMT
        <5> QED BY <5>1, <2>4, <1>4
      <4> QED BY <4>1
    <3>2. /\ i - m > 1 /\ i - 1 \in (m + 1)..(m + n)
          /\ (i - 1) - m = (i - m) - 1
      BY <3>1, <2>1, <1>1, SMT
    <3>3. Unfinished(t[(i - m) - 1])
      BY <3>2, <2>1, <2>2, <2>4, <1>3
    <3> QED BY <3>2, <3>3, <1>1
  <2> QED BY <2>2, <2>3, <2>4
<1>7. \A i \in 1..(m + n) :
         /\ Sound(u[i])
         /\ Unfinished(u[i]) => i < m + n /\ u[i + 1] = Following(u[i])
         /\ Cont(u[i]) /\ i > 1 => Unfinished(u[i - 1])
  <2> SUFFICES ASSUME NEW i \in 1..(m + n)
               PROVE  /\ Sound(u[i])
                      /\ Unfinished(u[i]) => i < m + n /\ u[i + 1] = Following(u[i])
                      /\ Cont(u[i]) /\ i > 1 => Unfinished(u[i - 1])
    OBVIOUS
  <2>1. i <= m \/ i > m
    BY <1>1, SMT
  <2> QED BY <2>1, <1>5, <1>6
<1> QED BY <1>7, <1>1 DEF Stream, u, m, n

(* Without its first message a stream is one; it then begins in the middle *)
(* of a transfer only if that message was of the transfer.                 *)
LEMMA StreamGoesOn ==
    ASSUME NEW s \in Seq(Sent), Stream(s), s # << >>
    PROVE  /\ Stream(Tail(s)) /\ Sound(s[1])
           /\ IF Unfinished(s[1])
              THEN Tail(s) # << >> /\ Tail(s)[1] = Following(s[1])
              ELSE Starts(Tail(s))
<1> HIDE DEF Sound, Unfinished, Cont, Following
<1> DEFINE t == Tail(s)
           n == Len(s)
<1>1. /\ n \in Nat /\ n >= 1 /\ Len(t) = n - 1 /\ t \in Seq(Sent)
      /\ \A i \in 1..(n - 1) : t[i] = s[i + 1]
  BY Behead, SMT
<1>2. \A i \in 1..n :
         /\ Sound(s[i])
         /\ Unfinished(s[i]) => i < n /\ s[i + 1] = Following(s[i])
         /\ Cont(s[i]) /\ i > 1 => Unfinished(s[i - 1])
  BY DEF Stream
<1> HIDE DEF t, n
<1>3. t = << >> <=> n = 1
  BY <1>1, SMT
<1>4. ASSUME NEW i \in 1..(n - 1)
      PROVE  /\ Sound(t[i])
             /\ Unfinished(t[i]) => i < n - 1 /\ t[i + 1] = Following(t[i])
             /\ Cont(t[i]) /\ i > 1 => Unfinished(t[i - 1])
  <2>1. /\ i + 1 \in 1..n /\ i + 1 > 1 /\ (i + 1) - 1 = i
        /\ i > 1 => i - 1 \in 1..(n - 1) /\ (i - 1) + 1 = i
        /\ i + 1 < n => i < n - 1 /\ i + 1 \in 1..(n - 1)
    BY <1>1, SMT
  <2>2. t[i] = s[i + 1] /\ Sound(t[i])
    BY <2>1, <1>1, <1>2
  <2>3. ASSUME Unfinished(t[i])
        PROVE  i < n - 1 /\ t[i + 1] = Following(t[i])
    <3>1. i + 1 < n /\ s[(i + 1) + 1] = Following(s[i + 1])
      BY <2>1, <2>2, <2>3, <1>2
    <3> QED BY <3>1, <2>1, <2>2, <1>1
  <2>4. ASSUME Cont(t[i]), i > 1 PROVE Unfinished(t[i - 1])
    <3>1. Unfinished(s[i])
      BY <2>1, <2>2, <2>4, <1>2
    <3> QED BY <3>1, <2>1, <2>4, <1>1
  <2> QED BY <2>2, <2>3, <2>4
<1>5. Stream(t)
  BY <1>4, <1>1 DEF Stream
<1>6. 1 \in 1..n /\ Sound(s[1])
  BY <1>1, <1>2, SMT
<1>7. ASSUME Unfinished(s[1]) PROVE t # << >> /\ t[1] = Following(s[1])
  <2>1. 1 < n /\ s[1 + 1] = Following(s[1])
    BY <1>6, <1>7, <1>2
  <2>2. n # 1 /\ 1 \in 1..(n - 1)
    BY <2>1, <1>1, SMT
  <2> QED BY <2>1, <2>2, <1>1, <1>3
<1>8. ASSUME ~Unfinished(s[1]) PROVE Starts(t)
  <2>1. CASE n = 1
    BY <2>1, <1>3 DEF Starts
  <2>2. CASE n # 1
    <3>1. 2 \in 1..n /\ 2 > 1 /\ 2 - 1 = 1 /\ 1 \in 1..(n - 1) /\ 1 + 1 = 2
      BY <2>2, <1>1, SMT
    <3>2. ~Cont(s[2]) /\ t[1] = s[2]
      BY <3>1, <1>1, <1>2, <1>8
    <3> QED BY <3>2 DEF Starts
  <2> QED BY <2>1, <2>2
<1> QED BY <1>5, <1>6, <1>7, <1>8 DEF t

(* What sendFile() sends of a file is a stream of its own.                 *)
LEMMA FileIsStream ==
    ASSUME NEW n \in Names, store \in [Names -> 0..Len(Chunks)]
    PROVE  /\ FileData(n) \in Seq(Sent \cap Data)
           /\ Stream(FileData(n)) /\ Starts(FileData(n))
<1> DEFINE v == store[n]
           total == IF v = 0 THEN 0 ELSE Chunks[v]
           chunk(i) == [type |-> "data", name |-> n, idx |-> i,
                        total |-> total, version |-> v]
<1>1. /\ v \in 0..Len(Chunks) /\ total \in Nat /\ Len(Chunks) \in Nat
      /\ v # 0 => v \in Versions
  BY ChunksAssumption, SMT DEF Versions
<1>2. FileData(n) = IF total = 0 THEN <<chunk(0)>>
                                 ELSE [i \in 1..total |-> chunk(i - 1)]
  BY DEF FileData
<1> HIDE DEF v
<1>3. total # 0 => v # 0 /\ total = Chunks[v]
  OBVIOUS
<1> HIDE DEF total
<1>4. ASSUME NEW i \in Nat
      PROVE  /\ chunk(i) \in Sent \cap Data
             /\ Cont(chunk(i)) <=> i > 0
             /\ Unfinished(chunk(i)) <=> i + 1 < total
             /\ Following(chunk(i)) = chunk(i + 1)
             /\ (i < total \/ (total = 0 /\ i = 0)) => Sound(chunk(i))
  <2>1. chunk(i) \in Data
    BY <1>1, SMT DEF Data
  <2>2. chunk(i) \in Sent
    BY <2>1, <1>1 DEF Sent, Message
  <2>3. Sound(chunk(i)) <=> \/ total = 0 /\ i = 0
                            \/ v \in Versions /\ total = Chunks[v] /\ i < total
    BY SMT DEF Sound
  <2>4. i < total => total # 0
    BY <1>1, SMT
  <2>5. Following(chunk(i)) = chunk(i + 1)
    BY SMT DEF Following
  <2>6. (Cont(chunk(i)) <=> i > 0) /\ (Unfinished(chunk(i)) <=> i + 1 < total)
    BY SMT DEF Cont, Unfinished
  <2> QED BY <2>1, <2>2, <2>3, <2>4, <2>5, <2>6, <1>1, <1>3
<1> HIDE DEF chunk
<1>5. CASE total = 0
  <2>1. /\ FileData(n) = <<chunk(0)>> /\ chunk(0) \in Sent \cap Data
        /\ ~Cont(chunk(0)) /\ ~Unfinished(chunk(0)) /\ Sound(chunk(0))
    BY <1>2, <1>4, <1>5, SMT
  <2>2. /\ Len(<<chunk(0)>>) = 1 /\ <<chunk(0)>>[1] = chunk(0)
        /\ <<chunk(0)>> \in Seq(Sent \cap Data)
    BY <2>1, SMT
  <2>3. Stream(<<chunk(0)>>)
    <3> SUFFICES ASSUME NEW i \in 1..1
                 PROVE  /\ Sound(<<chunk(0)>>[i])
                        /\ Unfinished(<<chunk(0)>>[i]) => FALSE
                        /\ Cont(<<chunk(0)>>[i]) /\ i > 1 => FALSE
      BY <2>2 DEF Stream
    <3>1. i = 1
      BY SMT
    <3> HIDE DEF Sound, Unfinished, Cont
    <3> QED BY <3>1, <2>1, <2>2
  <2> QED BY <2>1, <2>2, <2>3 DEF Starts
<1>6. CASE total # 0
  <2> DEFINE f == [i \in 1..total |-> chunk(i - 1)]
  <2>1. FileData(n) = f
    BY <1>2, <1>6
  <2>2. ASSUME NEW i \in 1..total
        PROVE  /\ i - 1 \in Nat /\ i \in Nat /\ f[i] = chunk(i - 1)
               /\ f[i] \in Sent \cap Data
    <3>1. i - 1 \in Nat /\ i \in Nat
      BY <1>1, SMT
    <3>2. f[i] = chunk(i - 1)
      OBVIOUS
    <3> HIDE DEF f
    <3> QED BY <3>1, <3>2, <1>4
  <2>3. f \in Seq(Sent \cap Data) /\ Len(f) = total
    BY <2>2, <1>1, SMT
  <2> HIDE DEF f, Sound, Unfinished, Cont, Following
  <2>4. ASSUME NEW i \in 1..total
        PROVE  /\ Sound(f[i])
               /\ Unfinished(f[i]) => i < total /\ f[i + 1] = Following(f[i])
               /\ Cont(f[i]) /\ i > 1 => Unfinished(f[i - 1])
    <3>1. i - 1 \in Nat /\ i - 1 < total /\ (i - 1) + 1 = i
      BY <1>1, SMT
    <3>2. Sound(f[i])
      BY <3>1, <2>2, <1>4
    <3>3. ASSUME Unfinished(f[i])
          PROVE  i < total /\ f[i + 1] = Following(f[i])
      <4>1. i < total
        BY <3>1, <3>3, <2>2, <1>4
      <4>2. i + 1 \in 1..total /\ (i + 1) - 1 = i
        BY <4>1, <1>1, SMT
      <4>3. f[i + 1] = chunk(i)
        BY <4>2, <2>2
      <4> QED BY <4>1, <4>3, <3>1, <2>2, <1>4
    <3>4. ASSUME i > 1 PROVE Unfinished(f[i - 1])
      <4>1. i - 1 \in 1..total /\ (i - 1) - 1 \in Nat /\ ((i - 1) - 1) + 1 < total
        BY <3>4, <1>1, SMT
      <4> QED BY <4>1, <2>2, <1>4
    <3> QED BY <3>2, <3>3, <3>4
  <2>5. Stream(f)
    BY <2>3, <2>4 DEF Stream
  <2>6. Starts(f)
    <3>1. 1 \in 1..total /\ 1 - 1 = 0 /\ ~(0 > 0) /\ 0 \in Nat
      BY <1>1, <1>6, SMT
    <3>2. ~Cont(f[1])
      BY <3>1, <2>2, <1>4
    <3> QED BY <3>2 DEF Starts
  <2> QED BY <2>1, <2>3, <2>5, <2>6
<1> QED BY <1>5, <1>6

-----------------------------------------------------------------------------
(* The terminal's side of the connection.                                  *)

(* Requests as the clients make them.                                      *)
Ask == {r \in Request : r.type \in {"get", "delete"} => r.name \in Names}

(* The types of the connection, with what the clients and the session rely *)
(* on; and a part of a message is left only by a write that failed.        *)
PeerGood ==
    /\ store \in [Names -> 0..Len(Chunks)] /\ made \in 0..Len(Chunks)
    /\ auth \in {"no", "yes", "over"}
    /\ inbox \in Seq(Ask)
    /\ sending \in Seq(Sent \cap Data)
    /\ outbox \in Seq(Sent)
    /\ cut \in Seq(Sent \cap Data) /\ Len(cut) <= 1
    /\ lossy \in BOOLEAN /\ (lossy \/ cut = << >>)
    /\ asked \in Seq(Names) /\ clicks \in Nat

Wire == outbox \o sending

(* What a step of the session adds to the wire.                            *)
Grows ==
    \E X \in Seq(Sent) : /\ Wire' = Wire \o X
                         /\ Stream(X) /\ Starts(X)

(* The type of a sequence is the type of its elements.                     *)
LEMMA SeqSubset ==
    ASSUME NEW S, NEW T, S \subseteq T, NEW s \in Seq(S)
    PROVE  s \in Seq(T)
  BY SMT

(* Well-formed messages that are sent have the type of messages.            *)
LEMMA GoodIsTyped ==
    ASSUME PeerGood PROVE PeerTypeOK
<1>1. Ask \subseteq Request /\ Sent \subseteq Message /\ Sent \cap Data \subseteq Data
  BY DEF Ask, Sent
<1>2. /\ inbox \in Seq(Request) /\ outbox \in Seq(Message)
      /\ sending \in Seq(Data) /\ cut \in Seq(Data)
  BY <1>1, SeqSubset DEF PeerGood
<1> QED BY <1>2 DEF PeerGood, PeerTypeOK

(* The wire's type, and that of a message on it.                           *)
LEMMA WireTyped ==
    ASSUME PeerGood
    PROVE  /\ sending \in Seq(Sent) /\ cut \in Seq(Sent) /\ Wire \in Seq(Sent)
           /\ sending = << >> => Wire = outbox
<1>1. sending \in Seq(Sent) /\ cut \in Seq(Sent) /\ outbox \in Seq(Sent)
  BY SeqSubset DEF PeerGood
<1>2. outbox \o sending \in Seq(Sent)
  BY <1>1, Joined
<1>3. sending = << >> => outbox \o sending = outbox
  BY <1>1, SMT
<1> QED BY <1>1, <1>2, <1>3 DEF Wire

(* The messages other than chunks.                                         *)
LEMMA PlainSent ==
    /\ \A t \in {"hello", "video", "junk"} : [type |-> t] \in Sent
    /\ \A N \in SUBSET Names : [type |-> "list", names |-> N] \in Sent
    /\ \A n \in Names, b \in BOOLEAN : [type |-> "deleted", name |-> n, ok |-> b] \in Sent
<1>1. \A t \in {"hello", "video", "junk"} : [type |-> t] \in Sent
  BY SMT DEF Sent, Message, Plain
<1>2. \A N \in SUBSET Names : [type |-> "list", names |-> N] \in Sent
  BY SMT DEF Sent, Message, Listing
<1>3. \A n \in Names, b \in BOOLEAN : [type |-> "deleted", name |-> n, ok |-> b] \in Sent
  BY SMT DEF Sent, Message, Deleted
<1> QED BY <1>1, <1>2, <1>3

(* A write that succeeds.                                                  *)
LEMMA ReplyKeeps ==
    ASSUME PeerGood, NEW m \in Sent, Reply(m)
    PROVE  /\ outbox' \in Seq(Sent) /\ cut' = << >> /\ lossy' = lossy
           /\ cut = << >> => outbox' = Append(outbox, m)
<1>1. /\ outbox \in Seq(Sent) /\ cut \in Seq(Sent)
      /\ outbox' = IF cut = << >> THEN Append(outbox, m)
                                  ELSE outbox \o cut \o <<Junk>>
      /\ cut' = << >> /\ lossy' = lossy
  BY WireTyped DEF PeerGood, Reply
<1>2. Junk \in Sent /\ <<Junk>> \in Seq(Sent)
  BY PlainSent, SMT DEF Junk
<1>3. Append(outbox, m) \in Seq(Sent)
  BY <1>1, SMT
<1>4. outbox \o cut \o <<Junk>> \in Seq(Sent)
  <2> HIDE DEF Junk
  <2>1. outbox \o cut \in Seq(Sent)
    BY <1>1, Joined
  <2> QED BY <2>1, <1>2, Joined
<1> QED BY <1>1, <1>3, <1>4

(* The wire grows by a message that is not of a transfer.                  *)
LEMMA ReplyGrows ==
    ASSUME PeerGood, NEW m \in Sent, m.type # "data", m.type # "junk", Reply(m),
           sending = << >>, sending' = << >>
    PROVE  lossy' \/ Grows
<1>1. CASE lossy
  BY <1>1, ReplyKeeps
<1>2. CASE ~lossy
  <2>1. outbox' = Append(outbox, m) /\ outbox \in Seq(Sent)
    BY <1>2, ReplyKeeps DEF PeerGood
  <2>2. <<m>> \in Seq(Sent) /\ Stream(<<m>>) /\ Starts(<<m>>)
    BY OneMessage
  <2>3. Wire' = outbox' \o << >> /\ Wire = outbox
    BY WireTyped DEF Wire
  <2>4. Append(outbox, m) \o << >> = outbox \o <<m>>
    BY <2>1, SMT
  <2>5. Wire' = Wire \o <<m>>
    BY <2>1, <2>3, <2>4
  <2> QED BY <2>2, <2>5 DEF Grows
<1> QED BY <1>1, <1>2 DEF PeerGood

(* A wire that stays as it is.                                             *)
LEMMA SameWire ==
    ASSUME PeerGood, outbox' = outbox, sending' = sending
    PROVE  Grows
<1>1. Wire \in Seq(Sent)
  BY WireTyped
<1>2. Wire' = Wire
  BY DEF Wire
<1>3. Wire \o << >> = Wire /\ << >> \in Seq(Sent)
  BY <1>1, SMT
<1> QED BY <1>2, <1>3, EmptyStream DEF Grows, Starts

(* An answer, written or not.                                              *)
LEMMA AnswerKeeps ==
    ASSUME PeerGood, NEW m \in Sent, m.type # "data", m.type # "junk", Answer(m),
           sending = << >>, sending' = << >>
    PROVE  /\ outbox' \in Seq(Sent)
           /\ cut' \in Seq(Sent \cap Data) /\ Len(cut') <= 1
           /\ lossy' \in BOOLEAN /\ (lossy' \/ cut' = << >>)
           /\ lossy' \/ Grows
<1>1. CASE Reply(m)
  <2>1. outbox' \in Seq(Sent) /\ cut' = << >> /\ lossy' = lossy
    BY <1>1, ReplyKeeps
  <2>2. << >> \in Seq(Sent \cap Data) /\ Len(<< >>) <= 1
    BY SMT
  <2> QED BY <1>1, <2>1, <2>2, ReplyGrows DEF PeerGood
<1>2. CASE Unsent
  BY <1>2 DEF Unsent, PeerGood
<1> QED BY <1>1, <1>2 DEF Answer

(* The request at the head of the inbox.                                   *)
LEMMA TakeKeeps ==
    ASSUME PeerGood, NEW t, Take(t)
    PROVE  /\ inbox' \in Seq(Ask) /\ Head(inbox) \in Ask
           /\ Head(inbox).type = t
           /\ sending = << >>
           /\ auth' \in {"no", "yes", "over"} /\ asked' \in Seq(Names)
           /\ clicks' \in Nat
<1>1. inbox \in Seq(Ask) /\ inbox # << >>
  BY DEF PeerGood, Take
<1>2. Tail(inbox) \in Seq(Ask) /\ Head(inbox) \in Ask
  BY <1>1, Behead
<1> QED BY <1>2 DEF Take, PeerGood

(* FileManager saves a version that there is.                              *)
LEMMA SaveKeeps ==
    ASSUME PeerGood, NEW n \in Names, Save(n)
    PROVE  store' \in [Names -> 0..Len(Chunks)] /\ made' \in 0..Len(Chunks)
<1>1. Len(Chunks) \in Nat
  BY ChunksAssumption, SMT
<1>2. made + 1 \in 0..Len(Chunks)
  BY <1>1, SMT DEF PeerGood, Save
<1> QED BY <1>2 DEF PeerGood, Save

(* No step of the session forgets that a write has failed.                 *)
LEMMA PeerKeeps ==
    ASSUME PeerGood, PeerNext
    PROVE  PeerGood' /\ (lossy' \/ Grows) /\ (lossy => lossy')
<1> DEFINE Files == store' \in [Names -> 0..Len(Chunks)] /\ made' \in 0..Len(Chunks)
           Ends == /\ auth' \in {"no", "yes", "over"} /\ inbox' \in Seq(Ask)
                   /\ asked' \in Seq(Names) /\ clicks' \in Nat
           Out == /\ outbox' \in Seq(Sent)
                  /\ cut' \in Seq(Sent \cap Data) /\ Len(cut') <= 1
                  /\ lossy' \in BOOLEAN /\ (lossy' \/ cut' = << >>)
           Transfer == sending' \in Seq(Sent \cap Data)
           Goal == Files /\ Ends /\ Out /\ Transfer /\ (lossy' \/ Grows)
<1>a. Files /\ Ends /\ Out /\ Transfer => PeerGood'
  BY DEF PeerGood
<1>b. UNCHANGED <<store, made>> => Files
  BY DEF PeerGood
<1>c. UNCHANGED <<outbox, cut, lossy>> => Out
  BY DEF PeerGood
<1>d. UNCHANGED sending => Transfer
  BY DEF PeerGood
<1>e. ASSUME NEW t, Take(t)
      PROVE  Ends /\ Head(inbox) \in Ask /\ Head(inbox).type = t /\ sending = << >>
  BY <1>e, TakeKeeps
<1>f. ASSUME NEW m \in Sent, m.type # "data", m.type # "junk", Answer(m),
             sending = << >>, sending' = << >>
      PROVE  Out /\ (lossy' \/ Grows) /\ (lossy => lossy')
  <2>1. Out /\ (lossy' \/ Grows)
    BY <1>f, AnswerKeeps
  <2>2. lossy => lossy'
    BY <1>f DEF Answer, Reply, Unsent
  <2> QED BY <2>1, <2>2
<1>g. UNCHANGED <<outbox, sending>> => Grows
  BY SameWire
<1>h. Listed \in SUBSET Names
  BY DEF Listed
<1> HIDE DEF Files, Ends, Out, Transfer
<1>1. ASSUME Greet PROVE Goal /\ (lossy => lossy')
  <2>1. inbox \in Seq(Ask) /\ inbox # << >>
    BY <1>1 DEF Greet, PeerGood
  <2>2. Tail(inbox) \in Seq(Ask)
    BY <2>1, Behead
  <2>3. Ends
    BY <1>1, <2>2 DEF Greet, PeerGood, Ends
  <2> QED BY <1>1, <2>3, <1>b, <1>c, <1>d, <1>g DEF Greet
<1>2. ASSUME ServeList PROVE Goal /\ (lossy => lossy')
  <2>1. /\ Take("list") /\ Answer([type |-> "list", names |-> Listed])
        /\ UNCHANGED <<store, made, sending>>
    BY <1>2 DEF ServeList
  <2>2. Ends /\ sending = << >>
    BY <2>1, <1>e
  <2>3. [type |-> "list", names |-> Listed] \in Sent
    BY <1>h, PlainSent
  <2>4. Out /\ (lossy' \/ Grows) /\ (lossy => lossy')
    BY <2>1, <2>2, <2>3, <1>f
  <2> QED BY <2>1, <2>2, <2>4, <1>b, <1>d
<1>3. ASSUME ServeGet PROVE Goal /\ (lossy => lossy')
  <2> DEFINE n == Head(inbox).name
  <2>1. /\ Take("get") /\ sending' = FileData(n)
        /\ UNCHANGED <<store, made, outbox, cut, lossy>>
    BY <1>3 DEF ServeGet
  <2>2. Ends /\ sending = << >> /\ n \in Names
    BY <2>1, <1>e DEF Ask
  <2> HIDE DEF n
  <2>3. /\ FileData(n) \in Seq(Sent \cap Data)
        /\ Stream(FileData(n)) /\ Starts(FileData(n))
    BY <2>2, FileIsStream DEF PeerGood
  <2>4. Transfer
    BY <2>1, <2>3 DEF Transfer
  <2>5. Wire' = Wire \o FileData(n)
    BY <2>1, <2>2, WireTyped DEF Wire
  <2>6. FileData(n) \in Seq(Sent)
    BY <2>3, SeqSubset
  <2>7. Grows
    BY <2>3, <2>5, <2>6 DEF Grows
  <2> QED BY <2>1, <2>2, <2>4, <2>7, <1>b, <1>c
<1>4. ASSUME SendChunk PROVE Goal /\ (lossy => lossy')
  <2>1. /\ sending # << >> /\ Reply(Head(sending)) /\ sending' = Tail(sending)
        /\ UNCHANGED <<store, made, auth, inbox, asked, clicks>>
    BY <1>4 DEF SendChunk
  <2>2. sending \in Seq(Sent \cap Data)
    BY DEF PeerGood
  <2>3. Head(sending) \in Sent \cap Data /\ Tail(sending) \in Seq(Sent \cap Data)
    BY <2>1, <2>2, Behead
  <2>4. /\ outbox' \in Seq(Sent) /\ cut' = << >> /\ lossy' = lossy
        /\ cut = << >> => outbox' = Append(outbox, Head(sending))
    BY <2>1, <2>3, ReplyKeeps
  <2>5. << >> \in Seq(Sent \cap Data) /\ Len(<< >>) <= 1
    BY SMT
  <2>6. Out /\ Transfer
    BY <2>1, <2>3, <2>4, <2>5 DEF Out, Transfer, PeerGood
  <2>7. ASSUME ~lossy PROVE Grows
    <3>1. outbox' = Append(outbox, Head(sending)) /\ outbox \in Seq(Sent)
      BY <2>4, <2>7 DEF PeerGood
    <3>2. Append(outbox, Head(sending)) \o Tail(sending) = outbox \o sending
      BY <3>1, <2>1, WireTyped, Moved
    <3>3. Wire' = Wire
      BY <3>1, <3>2, <2>1 DEF Wire
    <3>4. Wire \in Seq(Sent)
      BY WireTyped
    <3>5. Wire \o << >> = Wire /\ << >> \in Seq(Sent)
      BY <3>4, SMT
    <3> QED BY <3>3, <3>5, EmptyStream DEF Grows, Starts
  <2>8. Ends
    BY <2>1 DEF Ends, PeerGood
  <2> QED BY <2>1, <2>4, <2>6, <2>7, <2>8, <1>b DEF PeerGood
<1>5. ASSUME TransferFails PROVE Goal /\ (lossy => lossy')
  <2> DEFINE part == [Head(sending) EXCEPT !.version = 0]
  <2>1. /\ sending # << >> /\ lossy' = TRUE /\ sending' = << >>
        /\ cut' \in IF cut = << >> THEN {<< >>, <<part>>} ELSE {cut}
        /\ UNCHANGED <<store, made, auth, inbox, outbox, asked, clicks>>
    BY <1>5 DEF TransferFails
  <2>2. Head(sending) \in Sent \cap Data
    BY <2>1, Behead DEF PeerGood
  <2>3. part \in Data /\ part.version = 0
    BY <2>2, SMT DEF Data
  <2>4. 0 \in 0..Len(Chunks)
    BY ChunksAssumption, SMT
  <2> HIDE DEF part
  <2>5. part \in Sent
    BY <2>3, <2>4 DEF Sent, Message
  <2>6. /\ <<part>> \in Seq(Sent \cap Data) /\ Len(<<part>>) <= 1
        /\ << >> \in Seq(Sent \cap Data) /\ Len(<< >>) <= 1
    BY <2>3, <2>5, SMT
  <2>7. Out
    BY <2>1, <2>6 DEF Out, PeerGood
  <2>8. Ends /\ Transfer
    BY <2>1, <2>6 DEF Ends, Transfer, PeerGood
  <2> QED BY <2>1, <2>7, <2>8, <1>b
<1>6. ASSUME ServeDelete PROVE Goal /\ (lossy => lossy')
  <2> DEFINE n == Head(inbox).name
             m == [type |-> "deleted", name |-> n, ok |-> store[n] > 0]
  <2>1. /\ Take("delete") /\ Answer(m) /\ store' = [store EXCEPT ![n] = 0]
        /\ UNCHANGED <<made, sending>>
    BY <1>6 DEF ServeDelete
  <2>2. Ends /\ sending = << >> /\ n \in Names
    BY <2>1, <1>e DEF Ask
  <2>3. (store[n] > 0) \in BOOLEAN
    OBVIOUS
  <2>4. m \in Sent /\ m.type = "deleted"
    <3>1. n \in Names
      BY <2>2
    <3> HIDE DEF n
    <3>2. \A b \in BOOLEAN : [type |-> "deleted", name |-> n, ok |-> b] \in Sent
      BY <3>1, PlainSent
    <3>3. m \in Sent
      BY <2>3, <3>2, Zenon
    <3> QED BY <3>3
  <2> HIDE DEF m
  <2>5. Out /\ (lossy' \/ Grows) /\ (lossy => lossy')
    BY <2>1, <2>2, <2>4, <1>f
  <2>6. 0 \in 0..Len(Chunks)
    BY ChunksAssumption, SMT
  <2>7. Files
    BY <2>1, <2>6 DEF Files, PeerGood
  <2> QED BY <2>1, <2>2, <2>5, <2>7, <1>d
<1>7. ASSUME ServeSnapshot PROVE Goal /\ (lossy => lossy')
  <2> DEFINE N == {n \in Names : store'[n] > 0}
             m == [type |-> "list", names |-> N]
  <2>1. /\ Take("snapshot") /\ Answer(m)
        /\ (\E n \in Names : Save(n)) \/ UNCHANGED <<store, made>>
        /\ UNCHANGED sending
    BY <1>7 DEF ServeSnapshot
  <2>2. Ends /\ sending = << >>
    BY <2>1, <1>e
  <2>3. m \in Sent /\ m.type = "list"
    <3>1. N \in SUBSET Names
      OBVIOUS
    <3> HIDE DEF N
    <3> QED BY <3>1, PlainSent
  <2> HIDE DEF m
  <2>4. Out /\ (lossy' \/ Grows) /\ (lossy => lossy')
    BY <2>1, <2>2, <2>3, <1>f
  <2>5. Files
    BY <2>1, <1>b, SaveKeeps DEF Files
  <2> QED BY <2>1, <2>2, <2>4, <2>5, <1>d
<1>8. ASSUME ServeCommand PROVE Goal /\ (lossy => lossy')
  <2>1. /\ Take("command") \/ Take("hello")
        /\ UNCHANGED <<store, made, sending, outbox, cut, lossy>>
    BY <1>8 DEF ServeCommand
  <2>2. Ends
    BY <2>1, <1>e
  <2> QED BY <2>1, <2>2, <1>b, <1>c, <1>d, <1>g
<1>9. ASSUME SendVideo PROVE Goal /\ (lossy => lossy')
  <2>1. /\ sending = << >> /\ Reply([type |-> "video"])
        /\ UNCHANGED <<store, made, auth, inbox, sending, asked, clicks>>
    BY <1>9 DEF SendVideo
  <2>2. [type |-> "video"] \in Sent
    BY PlainSent
  <2>3. Out /\ (lossy' \/ Grows) /\ (lossy => lossy')
    BY <2>1, <2>2, <1>f DEF Answer
  <2>4. Ends
    BY <2>1 DEF Ends, PeerGood
  <2> QED BY <2>1, <2>3, <2>4, <1>b, <1>d
<1>10. ASSUME OthersChange PROVE Goal /\ (lossy => lossy')
  <2>1. /\ \E n \in Names :
              \/ Save(n)
              \/ store' = [store EXCEPT ![n] = 0] /\ UNCHANGED made
        /\ UNCHANGED <<auth, inbox, sending, outbox, cut, lossy, asked, clicks>>
    BY <1>10 DEF OthersChange
  <2>2. 0 \in 0..Len(Chunks)
    BY ChunksAssumption, SMT
  <2>3. Files
    BY <2>1, <2>2, SaveKeeps DEF Files, PeerGood
  <2>4. Ends
    BY <2>1 DEF Ends, PeerGood
  <2> QED BY <2>1, <2>3, <2>4, <1>c, <1>d, <1>g
<1> QED BY <1>1, <1>2, <1>3, <1>4, <1>5, <1>6, <1>7, <1>8, <1>9, <1>10, <1>a
        DEF PeerNext

(* What the session does has the same meaning in both clients' modules.    *)
LEMMA SamePeer ==
    /\ Pc!PeerNext <=> PeerNext
    /\ Mobile!PeerNext <=> PeerNext
<1>1. Pc!PeerNext <=> PeerNext
  BY Zenon
     DEF PeerNext, Greet, ServeList, ServeGet, SendChunk, TransferFails,
         ServeDelete, ServeSnapshot, ServeCommand, SendVideo, OthersChange,
         Take, Answer, Reply, Unsent, FileData, Save, Listed, Junk,
         Pc!PeerNext, Pc!Greet, Pc!ServeList, Pc!ServeGet, Pc!SendChunk,
         Pc!TransferFails, Pc!ServeDelete, Pc!ServeSnapshot, Pc!ServeCommand,
         Pc!SendVideo, Pc!OthersChange, Pc!Take, Pc!Answer, Pc!Reply,
         Pc!Unsent, Pc!FileData, Pc!Save, Pc!Listed, Pc!Junk
<1>2. Mobile!PeerNext <=> PeerNext
  BY Zenon
     DEF PeerNext, Greet, ServeList, ServeGet, SendChunk, TransferFails,
         ServeDelete, ServeSnapshot, ServeCommand, SendVideo, OthersChange,
         Take, Answer, Reply, Unsent, FileData, Save, Listed, Junk,
         Mobile!PeerNext, Mobile!Greet, Mobile!ServeList, Mobile!ServeGet,
         Mobile!SendChunk, Mobile!TransferFails, Mobile!ServeDelete,
         Mobile!ServeSnapshot, Mobile!ServeCommand, Mobile!SendVideo,
         Mobile!OthersChange, Mobile!Take, Mobile!Answer, Mobile!Reply,
         Mobile!Unsent, Mobile!FileData, Mobile!Save, Mobile!Listed,
         Mobile!Junk
<1> QED BY <1>1, <1>2

-----------------------------------------------------------------------------
(* What a client must have of the transfer that its next message continues. *)

Pending(P, n) == P # << >> /\ Cont(P[1]) /\ P[1].name = n

(* Nothing is to be sent where no transfer is under way.                    *)
LEMMA NothingPending ==
    ASSUME NEW P, Starts(P), NEW n PROVE ~Pending(P, n)
  BY DEF Starts, Pending

(* What arrives behind does not change what is pending in front.           *)
LEMMA PendingStays ==
    ASSUME NEW P \in Seq(Sent), NEW X \in Seq(Sent), Starts(X), NEW n
    PROVE  /\ Pending(P \o X, n) <=> Pending(P, n)
           /\ P # << >> => (P \o X)[1] = P[1]
<1>1. CASE P = << >>
  <2>1. P \o X = X
    BY <1>1, SMT
  <2> QED BY <1>1, <2>1, NothingPending DEF Pending
<1>2. CASE P # << >>
  <2>1. P \o X # << >> /\ (P \o X)[1] = P[1]
    BY <1>2, TailOfJoined
  <2> QED BY <1>2, <2>1 DEF Pending
<1> QED BY <1>1, <1>2

(* The message in front is not of a transfer, or ends one.                 *)
LEMMA NonePendingNext ==
    ASSUME NEW P \in Seq(Sent), Stream(P), P # << >>, ~Unfinished(P[1]), NEW n
    PROVE  ~Pending(Tail(P), n)
  BY StreamGoesOn, NothingPending

-----------------------------------------------------------------------------
(* PcClient.                                                               *)

PcPartial(m) ==
    [total |-> m.total, received |-> m.idx,
     bytes |-> [i \in 1..m.idx |-> <<m.version, i - 1>>]]

PcExpected(P) ==
    [n \in Names |-> IF Pending(P, n) THEN PcPartial(P[1]) ELSE Pc!NoDownload]

Download == [total : Nat, received : Nat, bytes : Seq(Pc!Part)]

(* An entry of downloads_.                                                 *)
PcEntry(d) ==
    /\ d \in Download
    /\ IF d.total = 0 THEN d = Pc!NoDownload
                      ELSE d.received = Len(d.bytes) /\ d.received < d.total

PcGood ==
    /\ sock \in {"off", "connecting", "tcp", "up", "closing"}
    /\ tls \in BOOLEAN /\ pin \in {"none", "right", "wrong"}
    /\ rx \in Seq(Sent) /\ off \in 0..Len(rx)
    /\ loop \in {"idle", "busy", "dialog"}
    /\ loop = "idle" => off = 0
    /\ loop = "dialog" => off < Len(rx)
    /\ downloads \in [Names -> Download]
    /\ \A n \in Names : PcEntry(downloads[n])
    /\ connected \in BOOLEAN /\ list \subseteq Names /\ video \in BOOLEAN
    /\ first \in {"none", "hello"}
    /\ answered \in Seq(Names)
    /\ saved \in Seq(Pc!Part)

Handled == IF loop = "dialog" THEN off + 1 ELSE off
PcOpen == SubSeq(rx, Handled + 1, Len(rx))
PcPipe == PcOpen \o Wire

PcWhole ==
    /\ Stream(PcPipe)
    /\ downloads = PcExpected(PcPipe)
    /\ saved # << >> => Whole(saved)

(* A well-formed PC client has its types.                                   *)
LEMMA PcGoodIsTyped ==
    ASSUME PeerGood, PcGood PROVE Pc!TypeOK /\ Pc!HelloFirst
<1>1. Pc!PeerTypeOK <=> PeerTypeOK
  BY Zenon DEF PeerTypeOK, Request, Data, Message, Listing, Deleted, Plain,
               Pc!PeerTypeOK, Pc!Request, Pc!Data, Pc!Message, Pc!Listing,
               Pc!Deleted, Pc!Plain
<1>2. Pc!PeerTypeOK
  BY <1>1, GoodIsTyped
<1>3. Pc!Message = Message
  BY Zenon DEF Message, Data, Listing, Deleted, Plain,
               Pc!Message, Pc!Data, Pc!Listing, Pc!Deleted, Pc!Plain
<1>4. rx \in Seq(Pc!Message)
  <2>1. Sent \subseteq Message
    BY DEF Sent
  <2> QED BY <2>1, <1>3, SeqSubset DEF PcGood
<1>5. \A n \in Names : downloads[n].total > 0 =>
         /\ downloads[n].received = Len(downloads[n].bytes)
         /\ downloads[n].received < downloads[n].total
  BY SMT DEF PcGood, PcEntry
<1>6. Pc!PcTypeOK
  BY <1>4, <1>5 DEF PcGood, Download, Pc!PcTypeOK
<1>7. Pc!HelloFirst
  BY DEF PcGood, Pc!HelloFirst
<1> QED BY <1>2, <1>6, <1>7 DEF Pc!TypeOK

(* An entry for a name follows the stream.                                 *)
LEMMA PcExpectedStays ==
    ASSUME NEW P \in Seq(Sent), NEW X \in Seq(Sent), Starts(X)
    PROVE  PcExpected(P \o X) = PcExpected(P)
<1>1. ASSUME NEW n \in Names
      PROVE  /\ Pending(P \o X, n) <=> Pending(P, n)
             /\ Pending(P, n) => (P \o X)[1] = P[1]
  BY PendingStays DEF Pending
<1> HIDE DEF Pending, PcPartial
<1> QED BY <1>1 DEF PcExpected

(* One part more.                                                          *)
LEMMA PartsExtend ==
    ASSUME NEW v, NEW k \in Nat
    PROVE  Append([i \in 1..k |-> <<v, i - 1>>], <<v, k>>)
              = [i \in 1..(k + 1) |-> <<v, i - 1>>]
<1> DEFINE S == {v} \X Int
           b == [i \in 1..k |-> <<v, i - 1>>]
           c == [i \in 1..(k + 1) |-> <<v, i - 1>>]
           x == <<v, k>>
<1>1. /\ \A i \in 1..k : b[i] = <<v, i - 1>>
      /\ \A i \in 1..(k + 1) : c[i] = <<v, i - 1>> /\ i - 1 \in Int
      /\ \A i \in 1..k : i - 1 \in Int
  BY SMT
<1>2. b \in [1..k -> S] /\ c \in [1..(k + 1) -> S] /\ x \in S
  BY SMT
<1>3. c[k + 1] = x
  BY SMT
<1> HIDE DEF S, b, c, x
<1>4. b \in Seq(S) /\ c \in Seq(S) /\ Len(b) = k /\ Len(c) = k + 1
  BY <1>2, SMT
<1>5. /\ Append(b, x) \in Seq(S) /\ Len(Append(b, x)) = k + 1
      /\ \A i \in 1..k : Append(b, x)[i] = b[i]
      /\ Append(b, x)[k + 1] = x
  BY <1>2, <1>4, SMT
<1>6. \A i \in 1..(k + 1) : Append(b, x)[i] = c[i]
  <2>1. \A i \in 1..(k + 1) : i \in 1..k \/ i = k + 1
    BY SMT
  <2> QED BY <2>1, <1>1, <1>3, <1>5
<1>7. Append(b, x) = c
  BY <1>4, <1>5, <1>6, SameElements
<1> QED BY <1>7 DEF b, c, x

(* What one chunk does to the entry of its file.                           *)
LEMMA PcChunk ==
    ASSUME NEW P \in Seq(Sent), Stream(P), P # << >>,
           P[1].type = "data", P[1].total > 0
    PROVE  LET m == P[1]
               D == PcExpected(P)
               d == Pc!Received(D[m.name], m)
           IN  IF d.received >= d.total
               THEN /\ ~Unfinished(m) /\ Whole(d.bytes)
                    /\ PcExpected(Tail(P)) = [D EXCEPT ![m.name] = Pc!NoDownload]
               ELSE /\ Unfinished(m)
                    /\ PcExpected(Tail(P)) = [D EXCEPT ![m.name] = d]
<1> DEFINE m == P[1]
           D == PcExpected(P)
           d == Pc!Received(D[m.name], m)
<1>1. m \in Sent
  BY Behead
<1>2. /\ m.type = "data" /\ m.name \in Names /\ m.idx \in Nat /\ m.total \in Nat
      /\ m = [type |-> "data", name |-> m.name, idx |-> m.idx,
              total |-> m.total, version |-> m.version]
  BY <1>1, DataFields
<1>3. /\ m.total > 0 /\ m.idx < m.total
      /\ m.version \in Versions /\ m.total = Chunks[m.version]
  <2>1. Sound(m)
    BY StreamGoesOn
  <2> HIDE DEF m
  <2>2. m.total > 0
    BY DEF m
  <2> QED BY <1>2, <2>1, <2>2, SMT DEF Sound
<1>4. Pending(P, m.name) <=> m.idx > 0
  BY <1>2 DEF Pending, Cont
<1>5. D[m.name] = IF m.idx > 0 THEN PcPartial(m) ELSE Pc!NoDownload
  BY <1>2, <1>4 DEF PcExpected
<1>6. d = PcPartial(Following(m))
  <2> HIDE DEF m, D
  <2>1. Following(m) = [type |-> "data", name |-> m.name, idx |-> m.idx + 1,
                        total |-> m.total, version |-> m.version]
    BY <1>2, SMT DEF Following
  <2>2. PcPartial(Following(m)) =
           [total |-> m.total, received |-> m.idx + 1,
            bytes |-> [i \in 1..(m.idx + 1) |-> <<m.version, i - 1>>]]
    BY <2>1 DEF PcPartial
  <2>3. CASE m.idx = 0
    <3>1. D[m.name] = [total |-> 0, received |-> 0, bytes |-> << >>]
      BY <2>3, <1>5, SMT DEF Pc!NoDownload
    <3>2. d = [total |-> m.total, received |-> 1,
               bytes |-> <<<<m.version, 0>>>>]
      BY <3>1, <2>3, SMT DEF Pc!Received
    <3>3. [i \in 1..(0 + 1) |-> <<m.version, i - 1>>] = <<<<m.version, 0>>>>
      BY SMT
    <3> QED BY <3>2, <3>3, <2>2, <2>3, SMT
  <2>4. CASE m.idx > 0
    <3> DEFINE b == [i \in 1..m.idx |-> <<m.version, i - 1>>]
               c == [i \in 1..(m.idx + 1) |-> <<m.version, i - 1>>]
    <3>1. D[m.name] = [total |-> m.total, received |-> m.idx, bytes |-> b]
      BY <2>4, <1>5 DEF PcPartial
    <3>2. Append(b, <<m.version, m.idx>>) = c
      BY <1>2, PartsExtend
    <3> HIDE DEF b, c
    <3>3. d = [total |-> m.total, received |-> m.idx + 1, bytes |-> c]
      <4> DEFINE e == D[m.name]
      <4>1. d = [total |-> IF e.total = 0 THEN m.total ELSE e.total,
                 received |-> e.received + 1,
                 bytes |-> Append(e.bytes, <<m.version, m.idx>>)]
        BY DEF Pc!Received
      <4>2. e.total = m.total /\ e.received = m.idx /\ e.bytes = b
        BY <3>1
      <4> HIDE DEF d, e
      <4> QED BY <4>1, <4>2, <3>2, <1>3
    <3> QED BY <3>3, <2>2 DEF c
  <2> QED BY <2>3, <2>4, <1>2, SMT
<1>7. /\ d.received = m.idx + 1 /\ d.total = m.total
      /\ d.bytes = [i \in 1..(m.idx + 1) |-> <<m.version, i - 1>>]
  <2> HIDE DEF m, d
  <2>1. Following(m) = [type |-> "data", name |-> m.name, idx |-> m.idx + 1,
                        total |-> m.total, version |-> m.version]
    BY <1>2, SMT DEF Following
  <2> QED BY <2>1, <1>6 DEF PcPartial
<1>8. ASSUME d.received >= d.total
      PROVE  /\ ~Unfinished(m) /\ Whole(d.bytes)
             /\ PcExpected(Tail(P)) = [D EXCEPT ![m.name] = Pc!NoDownload]
  <2>1. m.idx + 1 = m.total
    <3> HIDE DEF m, d
    <3> QED BY <1>2, <1>3, <1>7, <1>8, SMT
  <2>2. Whole(d.bytes)
    <3> HIDE DEF m, d
    <3>1. d.bytes = [i \in 1..m.total |-> <<m.version, i - 1>>]
      BY <2>1, <1>7
    <3>2. Len(d.bytes) = m.total /\ DOMAIN d.bytes = 1..m.total
      BY <3>1, <1>2, SMT
    <3> QED BY <3>1, <3>2, <1>3 DEF Whole
  <2>3. ~Unfinished(m)
    <3> HIDE DEF m
    <3> QED BY <2>1, <1>2, SMT DEF Unfinished
  <2>4. \A n \in Names : ~Pending(Tail(P), n)
    BY <2>3, NonePendingNext
  <2>5. \A n \in Names : n # m.name => ~Pending(P, n)
    BY DEF Pending
  <2> HIDE DEF Pending, PcPartial
  <2>6. PcExpected(Tail(P)) = [n \in Names |-> Pc!NoDownload]
    BY <2>4 DEF PcExpected
  <2>7. D \in [Names -> {D[n] : n \in Names}] /\ DOMAIN D = Names
    BY DEF PcExpected
  <2>8. \A n \in Names : n # m.name => D[n] = Pc!NoDownload
    BY <2>5 DEF PcExpected
  <2>9. [D EXCEPT ![m.name] = Pc!NoDownload] = [n \in Names |-> Pc!NoDownload]
    <3> HIDE DEF D, m
    <3> QED BY <2>7, <2>8
  <2> QED BY <2>2, <2>3, <2>6, <2>9
<1>9. ASSUME ~(d.received >= d.total)
      PROVE  /\ Unfinished(m)
             /\ PcExpected(Tail(P)) = [D EXCEPT ![m.name] = d]
  <2>1. Unfinished(m)
    <3> HIDE DEF m, d
    <3> QED BY <1>2, <1>3, <1>7, <1>9, SMT DEF Unfinished
  <2>2. Tail(P) # << >> /\ Tail(P)[1] = Following(m)
    BY <2>1, StreamGoesOn
  <2>3. /\ Following(m).type = "data" /\ Following(m).name = m.name
        /\ Cont(Following(m))
    <3> HIDE DEF m
    <3>1. Following(m) = [type |-> "data", name |-> m.name, idx |-> m.idx + 1,
                          total |-> m.total, version |-> m.version]
      BY <1>2, SMT DEF Following
    <3> QED BY <3>1, <1>2, SMT DEF Cont
  <2>4. \A n \in Names : Pending(Tail(P), n) <=> n = m.name
    BY <2>2, <2>3 DEF Pending
  <2>5. \A n \in Names : n # m.name => ~Pending(P, n)
    BY DEF Pending
  <2>6. DOMAIN D = Names /\ DOMAIN PcExpected(Tail(P)) = Names
    BY DEF PcExpected
  <2>7. \A n \in Names : n # m.name => D[n] = Pc!NoDownload
    BY <2>5 DEF PcExpected
  <2>8. \A n \in Names :
           PcExpected(Tail(P))[n] = IF n = m.name THEN d ELSE Pc!NoDownload
    <3> HIDE DEF Pending, PcPartial, d, m
    <3> QED BY <2>2, <2>4, <1>6 DEF PcExpected
  <2>9. PcExpected(Tail(P)) = [n \in Names |-> PcExpected(Tail(P))[n]]
    BY DEF PcExpected
  <2>10. D = [n \in Names |-> D[n]]
    BY DEF PcExpected
  <2> HIDE DEF D, d, m
  <2>11. [D EXCEPT ![m.name] = d] =
            [n \in Names |-> IF n = m.name THEN d ELSE Pc!NoDownload]
    BY <2>6, <2>7, <2>10
  <2> QED BY <2>1, <2>8, <2>9, <2>11
<1> QED BY <1>8, <1>9

(* PcClient: what holds of every state of the client and its connection.   *)
PcInv == PeerGood /\ PcGood /\ (lossy \/ PcWhole)

(* What is still to be handled.                                            *)
LEMMA PcPipeTyped ==
    ASSUME PeerGood, PcGood
    PROVE  /\ PcOpen \in Seq(Sent) /\ Wire \in Seq(Sent) /\ PcPipe \in Seq(Sent)
           /\ Handled \in 0..Len(rx) /\ Len(rx) \in Nat
<1>1. /\ rx \in Seq(Sent) /\ Len(rx) \in Nat /\ Handled \in 0..Len(rx)
  BY SMT DEF PcGood, Handled
<1>2. PcOpen \in Seq(Sent)
  <2> HIDE DEF Handled
  <2> QED BY <1>1, CutAndJoined DEF PcOpen
<1>3. Wire \in Seq(Sent)
  BY WireTyped
<1>4. PcPipe \in Seq(Sent)
  BY <1>2, <1>3, Joined DEF PcPipe
<1> QED BY <1>1, <1>2, <1>3, <1>4

(* A step that handles nothing, saves nothing and sends nothing.           *)
LEMMA PcSame ==
    ASSUME PcInv, PcOpen' = PcOpen,
           UNCHANGED <<sending, outbox, cut, lossy, downloads, saved>>
    PROVE  lossy' \/ PcWhole'
<1>1. PcPipe' = PcPipe
  BY DEF PcPipe, Wire
<1>2. PcExpected(PcPipe') = PcExpected(PcPipe)
  BY <1>1
<1> QED BY <1>1, <1>2 DEF PcInv, PcWhole, Stream, Whole

(* The rest of a sequence from one place, and from the next.               *)
LEMMA RestOf ==
    ASSUME NEW S, NEW s \in Seq(S), NEW k \in 0..Len(s), k < Len(s)
    PROVE  /\ Len(SubSeq(s, k + 1, Len(s))) = Len(s) - k
           /\ SubSeq(s, k + 1, Len(s))[1] = s[k + 1]
           /\ SubSeq(s, k + 1, Len(s)) # << >>
           /\ Tail(SubSeq(s, k + 1, Len(s))) = SubSeq(s, (k + 1) + 1, Len(s))
<1> DEFINE a == SubSeq(s, k + 1, Len(s))
           b == SubSeq(s, (k + 1) + 1, Len(s))
           l == k + 1
<1>1. k \in Nat /\ Len(s) \in Nat /\ l \in Nat /\ l <= Len(s) /\ l = k + 1
  BY SMT
<1>2. /\ a \in Seq(S) /\ Len(a) = Len(s) - k
      /\ \A i \in 1..(Len(s) - k) : a[i] = s[k + i]
  BY SMT
<1>3. /\ b \in Seq(S) /\ Len(b) = Len(s) - l
      /\ \A i \in 1..(Len(s) - l) : b[i] = s[l + i]
  <2> HIDE DEF l
  <2>1. /\ SubSeq(s, l + 1, Len(s)) \in Seq(S)
        /\ Len(SubSeq(s, l + 1, Len(s))) = Len(s) - l
        /\ \A i \in 1..(Len(s) - l) : SubSeq(s, l + 1, Len(s))[i] = s[l + i]
    BY <1>1, SMT
  <2> QED BY <2>1 DEF l
<1> HIDE DEF a, b, l
<1>4. a # << >> /\ 1 \in 1..(Len(s) - k) /\ Len(s) - k = Len(a)
  BY <1>1, <1>2, SMT
<1>5. /\ Tail(a) \in Seq(S) /\ Len(Tail(a)) = Len(a) - 1
      /\ \A i \in 1..Len(Tail(a)) : Tail(a)[i] = a[i + 1]
  BY <1>2, <1>4, Behead
<1>6. Len(Tail(a)) = Len(b)
  BY <1>1, <1>2, <1>3, <1>5, SMT
<1>7. \A i \in 1..Len(b) : /\ i + 1 \in 1..(Len(s) - k) /\ i \in 1..(Len(s) - l)
                          /\ k + (i + 1) = l + i
  BY <1>1, <1>3, SMT
<1>8. ASSUME NEW i \in 1..Len(b) PROVE Tail(a)[i] = b[i]
  <2>1. /\ i + 1 \in 1..(Len(s) - k) /\ i \in 1..(Len(s) - l)
        /\ k + (i + 1) = l + i
    BY <1>7
  <2>2. Tail(a)[i] = a[i + 1] /\ a[i + 1] = s[k + (i + 1)] /\ b[i] = s[l + i]
    BY <2>1, <1>2, <1>3, <1>5, <1>6
  <2> QED BY <2>1, <2>2
<1>9. Tail(a) = b
  BY <1>3, <1>5, <1>6, <1>8, SameElements
<1>10. a[1] = s[k + 1]
  BY <1>2, <1>4
<1> QED BY <1>2, <1>4, <1>9, <1>10 DEF a, b

(* A handler is given the first message of what is still to be handled,    *)
(* and leaves the rest.                                                    *)
LEMMA PcHandles ==
    ASSUME PeerGood, PcGood, NEW t, Pc!Handling(t)
    PROVE  /\ PcPipe # << >> /\ PcPipe[1] = Pc!Current
           /\ Pc!Current \in Sent /\ Pc!Current.type = t
           /\ Pc!Returns \/ Pc!OpensDialog =>
                 /\ UNCHANGED <<sending, outbox>> => PcPipe' = Tail(PcPipe)
                 /\ off' \in 0..Len(rx') /\ loop' \in {"busy", "dialog"}
                 /\ loop' = "dialog" => off' < Len(rx')
<1>1. /\ loop = "busy" /\ off < Len(rx) /\ Pc!Current = rx[off + 1]
      /\ Pc!Current.type = t /\ rx' = rx
      /\ rx \in Seq(Sent) /\ off \in Nat /\ Len(rx) \in Nat /\ Handled = off
  BY SMT DEF Pc!Handling, Pc!Current, PcGood, Handled
<1>2. /\ PcOpen = SubSeq(rx, off + 1, Len(rx)) /\ PcOpen \in Seq(Sent)
      /\ Wire \in Seq(Sent)
  BY <1>1, PcPipeTyped DEF PcOpen
<1>3. /\ Len(PcOpen) = Len(rx) - off /\ PcOpen[1] = rx[off + 1]
      /\ PcOpen # << >> /\ rx[off + 1] \in Sent
      /\ Tail(PcOpen) = SubSeq(rx, off + 2, Len(rx))
  <2>1. off \in 0..Len(rx) /\ off < Len(rx) /\ (off + 1) + 1 = off + 2
    BY <1>1, SMT
  <2>2. off + 1 \in 1..Len(rx)
    BY <1>1, SMT
  <2>3. rx[off + 1] \in Sent
    BY <1>1, <2>2, SMT
  <2> QED BY <1>1, <1>2, <2>1, <2>3, RestOf
<1>4. /\ PcPipe # << >> /\ PcPipe[1] = rx[off + 1]
      /\ Tail(PcPipe) = Tail(PcOpen) \o Wire
  BY <1>2, <1>3, TailOfJoined DEF PcPipe
<1>5. ASSUME Pc!Returns \/ Pc!OpensDialog
      PROVE  /\ UNCHANGED <<sending, outbox>> => PcPipe' = Tail(PcPipe)
             /\ off' \in 0..Len(rx') /\ loop' \in {"busy", "dialog"}
             /\ loop' = "dialog" => off' < Len(rx')
  <2>1. /\ Handled' = off + 1
        /\ off' \in 0..Len(rx') /\ loop' \in {"busy", "dialog"}
        /\ loop' = "dialog" => off' < Len(rx')
    BY <1>1, <1>5, SMT DEF Pc!Returns, Pc!OpensDialog, Handled
  <2>2. (off + 1) + 1 = off + 2
    BY <1>1, SMT
  <2>3. PcOpen' = Tail(PcOpen)
    BY <1>1, <1>3, <2>1, <2>2 DEF PcOpen
  <2>4. UNCHANGED <<sending, outbox>> => PcPipe' = Tail(PcOpen) \o Wire
    BY <2>3 DEF PcPipe, Wire
  <2> QED BY <1>4, <2>1, <2>4
<1> QED BY <1>1, <1>3, <1>4, <1>5

(* A message that is not of a transfer, or says that there is no file.     *)
LEMMA PcPasses ==
    ASSUME PcInv, ~lossy, PcPipe # << >>, PcPipe' = Tail(PcPipe),
           PcPipe[1].type = "data" => PcPipe[1].total = 0,
           downloads' = downloads,
           UNCHANGED saved
    PROVE  PcWhole'
<1>1. PcPipe \in Seq(Sent) /\ Stream(PcPipe)
  BY PcPipeTyped DEF PcInv, PcWhole
<1>2. PcPipe[1] \in Sent
  BY <1>1, PcInv, PcPipeTyped, Behead
<1>3. ~Unfinished(PcPipe[1]) /\ ~Cont(PcPipe[1])
  <2>1. CASE PcPipe[1].type = "data"
    <3>1. PcPipe[1].total = 0 /\ PcPipe[1].idx \in Nat /\ Sound(PcPipe[1])
      BY <2>1, <1>1, <1>2, DataFields, StreamGoesOn
    <3>2. PcPipe[1].idx = 0
      BY <2>1, <3>1, SMT DEF Sound
    <3> QED BY <3>1, <3>2, SMT DEF Unfinished, Cont
  <2>2. CASE PcPipe[1].type # "data"
    BY <2>2 DEF Unfinished, Cont
  <2> QED BY <2>1, <2>2
<1>4. Stream(Tail(PcPipe)) /\ Starts(Tail(PcPipe)) /\ Starts(PcPipe)
  BY <1>1, <1>3, StreamGoesOn DEF Starts
<1>5. PcExpected(Tail(PcPipe)) = PcExpected(PcPipe)
  <2>1. \A n \in Names : ~Pending(PcPipe, n) /\ ~Pending(Tail(PcPipe), n)
    BY <1>4, NothingPending
  <2> HIDE DEF Pending, PcPipe, PcPartial
  <2> QED BY <2>1 DEF PcExpected
<1>6. Stream(PcPipe')
  BY <1>4
<1>7. downloads' = PcExpected(PcPipe')
  BY <1>5 DEF PcInv, PcWhole
<1>8. saved' # << >> => Whole(saved')
  BY DEF PcInv, PcWhole
<1> QED BY <1>6, <1>7, <1>8 DEF PcWhole, Stream, Whole

(* The state of the connection, as a step of the client leaves it.         *)
LEMMA PeerSame ==
    ASSUME PeerGood, UNCHANGED Pc!peerVars
    PROVE  /\ PeerGood'
           /\ UNCHANGED <<sending, outbox, cut, lossy, inbox>>
<1>1. UNCHANGED <<store, made, auth, inbox, sending, outbox, cut, lossy, asked,
                  clicks>>
  BY DEF Pc!peerVars, Pc!serverVars
<1> QED BY <1>1 DEF PeerGood

(* The client sends: only the inbox grows.                                 *)
LEMMA AskKeeps ==
    ASSUME PeerGood, NEW r \in Seq(Ask), inbox' = inbox \o r,
           asked' \in Seq(Names), clicks' \in Nat,
           UNCHANGED <<store, made, auth, sending, outbox, cut, lossy>>
    PROVE  PeerGood'
<1>1. inbox' \in Seq(Ask)
  BY Joined DEF PeerGood
<1> QED BY <1>1 DEF PeerGood

(* HELLO and the request for the list, as both clients open with.          *)
LEMMA OpeningAsks ==
    /\ Pc!HelloAndList \in Seq(Ask) /\ Pc!HelloAndList[1].type = "hello"
    /\ Mobile!Opening \in Seq(Ask) /\ Mobile!Opening[1].type = "hello"
    /\ Pc!Req("list") \in Ask /\ Mobile!Req("list") \in Ask
<1> DEFINE h == [type |-> "hello", name |-> NoName]
           l == [type |-> "list", name |-> NoName]
<1>1. h \in Ask /\ l \in Ask /\ h.type = "hello"
  BY SMT DEF Ask, Request
<1>2. /\ Pc!HelloAndList = <<h, l>> /\ Mobile!Opening = <<h, l>>
      /\ Pc!Req("list") = l /\ Mobile!Req("list") = l
  BY DEF Pc!HelloAndList, Mobile!Opening, Pc!Req, Mobile!Req
<1> HIDE DEF h, l
<1>3. <<h, l>> \in Seq(Ask) /\ <<h, l>>[1] = h
  BY <1>1, SMT
<1> QED BY <1>1, <1>2, <1>3

(* The steps that handle no message.                                       *)
LEMMA PcOther ==
    ASSUME PcInv,
           \/ Pc!ConnectFails \/ Pc!onConnected \/ Pc!onEncrypted
           \/ Pc!PinRefused \/ Pc!disconnectFromTerminal \/ Pc!Disconnected
           \/ Pc!DialogCloses \/ Pc!BufferDone \/ Pc!Click
    PROVE  PcInv'
<1> USE DEF Pc!qtVars, Pc!readVars, Pc!uiVars
<1>0. PeerGood /\ PcGood
  BY DEF PcInv
<1>a. ASSUME UNCHANGED <<rx, off, loop>> PROVE PcOpen' = PcOpen
  BY <1>a DEF PcOpen, Handled
<1>b. {} \subseteq Names
  OBVIOUS
<1>1. CASE Pc!ConnectFails
  <2>1. /\ UNCHANGED Pc!peerVars
        /\ UNCHANGED <<tls, pin, rx, off, loop, downloads, connected, list,
                       video, first, answered, saved>>
        /\ sock' = "off"
    BY <1>1 DEF Pc!ConnectFails
  <2>2. PcGood'
    BY <2>1, <1>0 DEF PcGood
  <2> QED BY <2>1, <2>2, <1>0, <1>a, PeerSame, PcSame DEF PcInv
<1>c. ASSUME Pc!sendHello, sock' = "up", UNCHANGED loop PROVE PcInv'
  <2>1. /\ inbox' = inbox \o Pc!HelloAndList
        /\ UNCHANGED <<store, made, auth, sending, outbox, cut, lossy, asked,
                       clicks>>
        /\ UNCHANGED <<tls, pin, rx, off, loop, downloads, list, video,
                       answered, saved>>
        /\ first' = Pc!HelloAndList[1].type /\ connected' = TRUE
    BY <1>c DEF Pc!sendHello, Pc!Sends
  <2>2. PcGood'
    BY <2>1, <1>c, <1>0, OpeningAsks DEF PcGood
  <2>3. asked' \in Seq(Names) /\ clicks' \in Nat
    BY <2>1, <1>0 DEF PeerGood
  <2>4. PeerGood'
    BY <2>1, <2>3, <1>0, OpeningAsks, AskKeeps
  <2> QED BY <2>1, <2>2, <2>4, <1>a, PcSame DEF PcInv
<1>2. CASE Pc!onConnected
  <2>1. CASE tls
    <3>1. /\ UNCHANGED Pc!peerVars
          /\ UNCHANGED <<tls, pin, rx, off, loop, downloads, connected, list,
                         video, first, answered, saved>>
          /\ sock' = "tcp"
      BY <1>2, <2>1 DEF Pc!onConnected
    <3>2. PcGood'
      BY <3>1, <1>0 DEF PcGood
    <3> QED BY <3>1, <3>2, <1>0, <1>a, PeerSame, PcSame DEF PcInv
  <2>2. CASE ~tls
    <3>1. sock' = "up" /\ Pc!sendHello /\ UNCHANGED loop
      BY <1>2, <2>2 DEF Pc!onConnected, Pc!sendHello
    <3> QED BY <3>1, <1>c
  <2> QED BY <2>1, <2>2
<1>3. CASE Pc!onEncrypted
  <2>1. sock' = "up" /\ Pc!sendHello /\ UNCHANGED loop
    BY <1>3 DEF Pc!onEncrypted, Pc!sendHello
  <2> QED BY <2>1, <1>c
<1>4. CASE Pc!PinRefused \/ Pc!Disconnected
  <2>1. /\ UNCHANGED Pc!peerVars
        /\ UNCHANGED <<tls, pin, rx, off, loop, downloads, first, answered,
                       saved>>
        /\ sock' = "off" /\ connected' = FALSE /\ list' = {} /\ video' = FALSE
    BY <1>4 DEF Pc!PinRefused, Pc!Disconnected, Pc!onDisconnected
  <2>2. PcGood'
    BY <2>1, <1>0, <1>b DEF PcGood
  <2> QED BY <2>1, <2>2, <1>0, <1>a, PeerSame, PcSame DEF PcInv
<1>5. CASE Pc!disconnectFromTerminal
  <2>1. /\ UNCHANGED Pc!peerVars
        /\ UNCHANGED <<tls, pin, rx, off, loop, downloads, connected, list,
                       video, first, answered, saved>>
        /\ sock' = "closing"
    BY <1>5 DEF Pc!disconnectFromTerminal
  <2>2. PcGood'
    BY <2>1, <1>0 DEF PcGood
  <2> QED BY <2>1, <2>2, <1>0, <1>a, PeerSame, PcSame DEF PcInv
<1>6. CASE Pc!DialogCloses
  <2>1. /\ UNCHANGED Pc!peerVars
        /\ UNCHANGED <<sock, tls, pin, rx, downloads, connected, list, video,
                       first, answered, saved>>
        /\ loop = "dialog" /\ loop' = "busy" /\ off' = off + 1
    BY <1>6 DEF Pc!DialogCloses, Pc!Returns
  <2>2. off + 1 \in 0..Len(rx)
    BY <2>1, <1>0, SMT DEF PcGood
  <2>3. PcGood'
    BY <2>1, <2>2, <1>0 DEF PcGood
  <2>4. PcOpen' = PcOpen
    BY <2>1 DEF PcOpen, Handled
  <2> QED BY <2>1, <2>3, <2>4, <1>0, PeerSame, PcSame DEF PcInv
<1>7. CASE Pc!BufferDone
  <2>1. /\ UNCHANGED Pc!peerVars
        /\ UNCHANGED <<sock, tls, pin, downloads, connected, list, video,
                       first, answered, saved>>
        /\ loop = "busy" /\ off = Len(rx)
        /\ rx' = << >> /\ off' = 0 /\ loop' = "idle"
    BY <1>7 DEF Pc!BufferDone
  <2>2. rx' \in Seq(Sent) /\ off' \in 0..Len(rx')
    BY <2>1, SMT
  <2>3. PcGood'
    BY <2>1, <2>2, <1>0 DEF PcGood
  <2>4. PcOpen = << >>
    <3>1. Handled = Len(rx) /\ rx \in Seq(Sent)
      BY <2>1, <1>0 DEF Handled, PcGood
    <3>2. SubSeq(rx, Len(rx) + 1, Len(rx)) = << >>
      BY <3>1, SMT
    <3> QED BY <3>1, <3>2 DEF PcOpen
  <2>5. PcOpen' = << >>
    <3>1. SubSeq(<< >>, 0 + 1, Len(<< >>)) = << >>
      BY SMT
    <3> QED BY <2>1, <3>1 DEF PcOpen, Handled
  <2> QED BY <2>1, <2>3, <2>4, <2>5, <1>0, PeerSame, PcSame DEF PcInv
<1>8. CASE Pc!Click
  <2>1. /\ UNCHANGED Pc!pcVars /\ UNCHANGED outbox /\ clicks' = clicks + 1
        /\ \E r \in Pc!Offered :
              IF Pc!isConnected
              THEN /\ inbox' = inbox \o <<r>>
                   /\ UNCHANGED <<store, made, auth, sending, cut, lossy>>
                   /\ asked' = IF r.type = "get" THEN Append(asked, r.name)
                                                 ELSE asked
              ELSE UNCHANGED <<inbox, store, made, auth, sending, cut, lossy,
                               asked>>
    BY <1>8 DEF Pc!Click, Pc!Sends
  <2>2. UNCHANGED <<sock, tls, pin, rx, off, loop, downloads, connected, list,
                    video, first, answered, saved>>
    BY <2>1 DEF Pc!pcVars
  <2>3. PcGood'
    BY <2>2, <1>0 DEF PcGood
  <2>4. clicks' \in Nat
    BY <2>1, <1>0, SMT DEF PeerGood
  <2>5. PICK r \in Pc!Offered :
              IF Pc!isConnected
              THEN /\ inbox' = inbox \o <<r>>
                   /\ UNCHANGED <<store, made, auth, sending, cut, lossy>>
                   /\ asked' = IF r.type = "get" THEN Append(asked, r.name)
                                                 ELSE asked
              ELSE UNCHANGED <<inbox, store, made, auth, sending, cut, lossy,
                               asked>>
    BY <2>1
  <2>6. r \in Ask
    BY <1>0 DEF Pc!Offered, Pc!Request, Ask, Request, PcGood
  <2>7. r.type = "get" => r.name \in Names
    BY <2>6 DEF Ask
  <2>8. CASE Pc!isConnected
    <3>1. asked' \in Seq(Names)
      <4>1. asked \in Seq(Names)
        BY <1>0 DEF PeerGood
      <4>2. r.name \in Names => Append(asked, r.name) \in Seq(Names)
        BY <4>1, SMT
      <4> QED BY <2>5, <2>7, <2>8, <4>1, <4>2
    <3>2. <<r>> \in Seq(Ask)
      BY <2>6, SMT
    <3>3. PeerGood'
      BY <2>1, <2>4, <2>5, <2>8, <3>1, <3>2, <1>0, AskKeeps
    <3> QED BY <2>1, <2>2, <2>3, <2>5, <2>8, <3>3, <1>a, PcSame DEF PcInv
  <2>9. CASE ~Pc!isConnected
    <3>1. PeerGood'
      BY <2>1, <2>4, <2>5, <2>9, <1>0 DEF PeerGood
    <3> QED BY <2>1, <2>2, <2>3, <2>5, <2>9, <3>1, <1>a, PcSame DEF PcInv
  <2> QED BY <2>8, <2>9
<1> QED BY <1>1, <1>2, <1>3, <1>4, <1>5, <1>6, <1>7, <1>8

(* A new connection starts with nothing of the one before.                 *)
LEMMA PcConnects ==
    ASSUME PcInv, Pc!connectToTerminal PROVE PcInv'
<1>0. PeerGood /\ PcGood
  BY DEF PcInv
<1>1. /\ rx' = << >> /\ downloads' = [n \in Names |-> Pc!NoDownload]
      /\ loop = "idle" /\ off' = off /\ loop' = loop
      /\ first' = "none" /\ answered' = << >> /\ saved' = << >>
      /\ auth' = "no" /\ outbox' = <<[type |-> "hello"]>>
      /\ inbox' = << >> /\ sending' = << >> /\ cut' = << >>
      /\ lossy' = FALSE /\ asked' = << >> /\ clicks' = 0
      /\ UNCHANGED <<store, made>>
  BY DEF Pc!connectToTerminal, Pc!ConnectClicked, Pc!Cleared, Pc!Anew
<1>2. /\ \/ connected' = FALSE /\ list' = {} /\ video' = FALSE
         \/ UNCHANGED <<connected, list, video>>
      /\ tls' \in BOOLEAN /\ pin' \in {"none", "right", "wrong"}
      /\ sock' \in {"connecting", "off"}
  <2>1. /\ IF Pc!isConnected THEN connected' = FALSE /\ list' = {} /\ video' = FALSE
                             ELSE UNCHANGED <<connected, list, video>>
        /\ \/ /\ tls' \in BOOLEAN
              /\ pin' \in IF tls' THEN {"none", "right", "wrong"} ELSE {"none"}
              /\ sock' = "connecting"
           \/ tls' = TRUE /\ pin' = "none" /\ sock' = "off"
    BY DEF Pc!connectToTerminal, Pc!onDisconnected, Pc!uiVars
  <2> QED BY <2>1
<1>3. /\ [type |-> "hello"] \in Sent /\ [type |-> "hello"].type = "hello"
      /\ << >> \in Seq(Ask) /\ << >> \in Seq(Sent \cap Data)
      /\ << >> \in Seq(Names) /\ << >> \in Seq(Pc!Part) /\ << >> \in Seq(Sent)
      /\ Len(<< >>) = 0 /\ 0 \in Nat /\ 0 \in 0..0 /\ 0 <= 1
  BY PlainSent, SMT
<1>4. /\ <<[type |-> "hello"]>> \in Seq(Sent)
      /\ Stream(<<[type |-> "hello"]>>) /\ Starts(<<[type |-> "hello"]>>)
  BY <1>3, OneMessage
<1>5. PeerGood'
  BY <1>0, <1>1, <1>3, <1>4 DEF PeerGood
<1>6. Pc!NoDownload \in Download /\ PcEntry(Pc!NoDownload)
  BY SMT DEF Pc!NoDownload, Download, PcEntry
<1>7. PcGood'
  <2>1. off' = 0
    BY <1>0, <1>1 DEF PcGood
  <2>2. off' \in 0..Len(rx') /\ rx' \in Seq(Sent)
    BY <2>1, <1>1, <1>3
  <2>3. /\ downloads' \in [Names -> Download]
        /\ \A n \in Names : PcEntry(downloads'[n])
    BY <1>1, <1>6
  <2>4. connected' \in BOOLEAN /\ list' \subseteq Names /\ video' \in BOOLEAN
    BY <1>0, <1>2 DEF PcGood
  <2>5. loop' \in {"idle", "busy", "dialog"} /\ loop' # "dialog"
    BY <1>1
  <2>6. answered' \in Seq(Names) /\ saved' \in Seq(Pc!Part) /\ first' = "none"
    BY <1>1, <1>3
  <2>7. \A n \in Names : PcEntry(downloads[n])'
    BY <2>3 DEF PcEntry
  <2> QED BY <1>2, <2>1, <2>2, <2>3, <2>4, <2>5, <2>6, <2>7 DEF PcGood
<1>8. PcWhole'
  <2> DEFINE h == [type |-> "hello"]
  <2>1. PcPipe' = <<h>>
    <3>1. loop' = "idle" /\ off' = 0
      BY <1>0, <1>1 DEF PcGood
    <3>2. SubSeq(<< >>, 0 + 1, Len(<< >>)) = << >> /\ << >> \o (<<h>> \o << >>) = <<h>>
      BY SMT
    <3>3. PcOpen' = << >>
      BY <3>1, <3>2, <1>1 DEF PcOpen, Handled
    <3> QED BY <3>2, <3>3, <1>1 DEF PcPipe, Wire
  <2>2. PcExpected(<<h>>) = [n \in Names |-> Pc!NoDownload]
    <3>1. \A n \in Names : ~Pending(<<h>>, n)
      BY <1>4, NothingPending
    <3> HIDE DEF Pending, PcPartial, h
    <3> QED BY <3>1 DEF PcExpected
  <2> HIDE DEF h
  <2>3. Stream(PcPipe')
    BY <1>4, <2>1 DEF h
  <2>4. downloads' = PcExpected(PcPipe')
    BY <1>1, <2>1, <2>2
  <2>5. saved' = << >>
    BY <1>1
  <2> QED BY <2>3, <2>4, <2>5 DEF PcWhole, Stream
<1> QED BY <1>5, <1>7, <1>8 DEF PcInv

(* Reading moves messages from the socket's buffer to the client's.        *)
LEMMA PcReads ==
    ASSUME PcInv, Pc!onReadyRead PROVE PcInv' /\ PcPipe' = PcPipe
<1>0. PeerGood /\ PcGood
  BY DEF PcInv
<1>1. PICK k \in 1..Len(outbox) :
         /\ rx' = rx \o SubSeq(outbox, 1, k)
         /\ outbox' = SubSeq(outbox, k + 1, Len(outbox))
  BY DEF Pc!onReadyRead
<1>2. /\ UNCHANGED <<store, made, auth, inbox, sending, cut, lossy, asked,
                     clicks, off, sock, tls, pin, downloads, connected, list,
                     video, first, answered, saved>>
      /\ loop = "idle" /\ loop' = "busy"
  BY DEF Pc!onReadyRead, Pc!qtVars, Pc!uiVars
<1> DEFINE a == SubSeq(outbox, 1, k)
           b == SubSeq(outbox, k + 1, Len(outbox))
<1>3. /\ a \in Seq(Sent) /\ b \in Seq(Sent) /\ a \o b = outbox
  <2>1. outbox \in Seq(Sent) /\ k \in 0..Len(outbox)
    BY <1>0, SMT DEF PeerGood
  <2> QED BY <2>1, CutAndJoined
<1> HIDE DEF a, b
<1>4. rx' = rx \o a /\ outbox' = b
  BY <1>1 DEF a, b
<1>5. rx \in Seq(Sent) /\ off = 0
  BY <1>0, <1>2 DEF PcGood
<1>6. rx' \in Seq(Sent)
  BY <1>3, <1>4, <1>5, Joined
<1>7. PeerGood'
  BY <1>0, <1>2, <1>3, <1>4 DEF PeerGood
<1>8. PcGood'
  <2>1. off' \in 0..Len(rx')
    BY <1>2, <1>5, <1>6, SMT
  <2> QED BY <1>0, <1>2, <1>6, <2>1 DEF PcGood
<1>9. PcPipe' = PcPipe
  <2>1. \A s \in Seq(Sent) : SubSeq(s, 0 + 1, Len(s)) = s
    BY SMT
  <2>2. PcOpen = rx /\ PcOpen' = rx'
    BY <1>2, <1>5, <1>6, <2>1 DEF PcOpen, Handled
  <2>3. sending \in Seq(Sent)
    BY <1>0, WireTyped
  <2>4. (rx \o a) \o (b \o sending) = rx \o ((a \o b) \o sending)
    <3>0. a \in Seq(Sent) /\ b \in Seq(Sent) /\ rx \in Seq(Sent)
      BY <1>3, <1>5
    <3>1. b \o sending \in Seq(Sent)
      BY <3>0, <2>3, Joined
    <3>2. (rx \o a) \o (b \o sending) = rx \o (a \o (b \o sending))
      <4> DEFINE t == b \o sending
      <4>1. t \in Seq(Sent)
        BY <3>1
      <4> HIDE DEF t
      <4>2. (rx \o a) \o t = rx \o (a \o t)
        <5>1. Associates(rx, a, t)
          BY <3>0, <4>1, SentAssociative
        <5> QED BY <5>1 DEF Associates
      <4> QED BY <4>2 DEF t
    <3>3. (a \o b) \o sending = a \o (b \o sending)
      <4>1. Associates(a, b, sending)
        BY <3>0, <2>3, SentAssociative
      <4> QED BY <4>1 DEF Associates
    <3> QED BY <3>2, <3>3
  <2> QED BY <1>2, <1>3, <1>4, <2>2, <2>4 DEF PcPipe, Wire
<1>10. lossy' \/ PcWhole'
  <2>1. PcExpected(PcPipe') = PcExpected(PcPipe)
    BY <1>9
  <2> QED BY <1>2, <1>9, <2>1 DEF PcInv, PcWhole, Stream, Whole
<1> QED BY <1>7, <1>8, <1>9, <1>10 DEF PcInv

(* The handlers of the messages that are not of a transfer.                *)
LEMMA PcHandlesOthers ==
    ASSUME PcInv,
           \/ Pc!ProtocolError \/ Pc!handleVideoFrame \/ Pc!handleFileList
           \/ Pc!handleHello \/ Pc!handleFileDeleteResp
    PROVE  PcInv'
<1>0. PeerGood /\ PcGood
  BY DEF PcInv
<1>1. CASE Pc!ProtocolError
  <2>1. /\ Pc!Handling("junk") /\ UNCHANGED Pc!peerVars
        /\ UNCHANGED <<rx, tls, pin, first, downloads, answered, saved>>
        /\ loop' = "idle" /\ off' = 0
        /\ IF sock = "off" THEN UNCHANGED <<sock, connected, list, video>>
                           ELSE /\ sock' = "off" /\ connected' = FALSE
                                /\ list' = {} /\ video' = FALSE
    BY <1>1 DEF Pc!ProtocolError, Pc!Handling, Pc!onDisconnected, Pc!uiVars
  <2>2. /\ sock' \in {"off", "connecting", "tcp", "up", "closing"}
        /\ connected' \in BOOLEAN /\ list' \subseteq Names /\ video' \in BOOLEAN
    BY <2>1, <1>0 DEF PcGood
  <2>3. off' \in 0..Len(rx')
    BY <2>1, <1>0, SMT DEF PcGood
  <2>4. PcGood'
    BY <2>1, <2>2, <2>3, <1>0 DEF PcGood
  <2>5. lossy
    <3>1. PcPipe # << >> /\ PcPipe[1].type = "junk"
      BY <2>1, <1>0, PcHandles
    <3>2. ASSUME ~lossy PROVE FALSE
      <4>1. PcPipe \in Seq(Sent) /\ Stream(PcPipe)
        BY <3>2, <1>0, PcPipeTyped DEF PcInv, PcWhole
      <4>2. Sound(PcPipe[1])
        BY <4>1, <3>1, StreamGoesOn
      <4> QED BY <3>1, <4>2 DEF Sound
    <3> QED BY <3>2
  <2> QED BY <2>1, <2>4, <2>5, <1>0, PeerSame DEF PcInv
<1>a. ASSUME NEW t \in {"video", "list", "hello", "deleted"},
             Pc!Handling(t), Pc!Returns \/ Pc!OpensDialog,
             UNCHANGED <<sock, connected, downloads, answered, saved>>,
             list' \subseteq Names, video' \in BOOLEAN,
             PeerGood', UNCHANGED <<sending, outbox, lossy>>
      PROVE  PcInv'
  <2>1. /\ PcPipe # << >> /\ PcPipe[1].type = t
        /\ PcPipe' = Tail(PcPipe)
        /\ off' \in 0..Len(rx') /\ loop' \in {"busy", "dialog"}
        /\ loop' = "dialog" => off' < Len(rx')
    BY <1>a, <1>0, PcHandles
  <2>2. UNCHANGED <<rx, tls, pin, first>>
    BY <1>a DEF Pc!Handling
  <2>3. PcGood'
    BY <1>a, <2>1, <2>2, <1>0 DEF PcGood
  <2>4. lossy' \/ PcWhole'
    BY <1>a, <2>1, PcPasses
  <2> QED BY <1>a, <2>3, <2>4 DEF PcInv
<1>2. CASE Pc!handleVideoFrame
  <2>1. /\ Pc!Handling("video") /\ Pc!Returns /\ video' = TRUE
        /\ UNCHANGED Pc!peerVars
        /\ UNCHANGED <<sock, connected, list, downloads, answered, saved>>
    BY <1>2 DEF Pc!handleVideoFrame
  <2>2. list' \subseteq Names
    BY <2>1, <1>0 DEF PcGood
  <2> QED BY <2>1, <2>2, <1>0, <1>a, PeerSame
<1>3. CASE Pc!handleFileList
  <2>1. /\ Pc!Handling("list") /\ Pc!Returns /\ list' = Pc!Current.names
        /\ UNCHANGED Pc!peerVars
        /\ UNCHANGED <<sock, connected, video, downloads, answered, saved>>
    BY <1>3 DEF Pc!handleFileList, Pc!setFiles
  <2>2. Pc!Current \in Sent /\ Pc!Current.type = "list"
    BY <2>1, <1>0, PcHandles
  <2>3. \A m \in Sent : m.type = "list" => m.names \subseteq Names
    BY SMT DEF Sent, Message, Data, Listing, Deleted, Plain
  <2>4. list' \subseteq Names /\ video' \in BOOLEAN
    BY <2>1, <2>2, <2>3, <1>0 DEF PcGood
  <2> QED BY <2>1, <2>4, <1>0, <1>a, PeerSame
<1>4. CASE Pc!handleHello
  <2>1. /\ Pc!Handling("hello") /\ Pc!Returns
        /\ UNCHANGED Pc!peerVars
        /\ UNCHANGED <<sock, connected, list, video, downloads, answered, saved>>
    BY <1>4 DEF Pc!handleHello, Pc!uiVars
  <2>2. list' \subseteq Names /\ video' \in BOOLEAN
    BY <2>1, <1>0 DEF PcGood
  <2> QED BY <2>1, <2>2, <1>0, <1>a, PeerSame
<1>5. CASE Pc!handleFileDeleteResp
  <2>1. /\ Pc!Handling("deleted")
        /\ Pc!Returns \/ Pc!OpensDialog
        /\ \/ /\ inbox' = inbox \o <<Pc!Req("list")>>
              /\ UNCHANGED <<store, made, auth, sending, cut, lossy>>
           \/ UNCHANGED <<inbox, store, made, auth, sending, cut, lossy>>
        /\ UNCHANGED <<outbox, asked, clicks, sock, connected, list, video,
                       downloads, answered, saved>>
    BY <1>5 DEF Pc!handleFileDeleteResp, Pc!Sends, Pc!uiVars
  <2>2. list' \subseteq Names /\ video' \in BOOLEAN
    BY <2>1, <1>0 DEF PcGood
  <2>3. PeerGood'
    <3>1. asked' \in Seq(Names) /\ clicks' \in Nat
      BY <2>1, <1>0 DEF PeerGood
    <3>2. <<Pc!Req("list")>> \in Seq(Ask)
      <4>1. Pc!Req("list") \in Ask
        BY OpeningAsks
      <4> HIDE DEF Ask
      <4> QED BY <4>1, SMT
    <3>3. CASE UNCHANGED inbox
      BY <2>1, <3>3, <1>0 DEF PeerGood
    <3>4. CASE inbox' = inbox \o <<Pc!Req("list")>>
      BY <2>1, <3>1, <3>2, <3>4, <1>0, AskKeeps
    <3> QED BY <2>1, <3>3, <3>4
  <2> QED BY <2>1, <2>2, <2>3, <1>a
<1> QED BY <1>1, <1>2, <1>3, <1>4, <1>5

(* The file that is not there, and a chunk.                                *)
LEMMA PcHandlesData ==
    ASSUME PcInv, Pc!NotFound \/ Pc!ReceiveChunk PROVE PcInv'
<1> DEFINE m == Pc!Current
           d == Pc!Received(downloads[m.name], m)
<1>0. PeerGood /\ PcGood
  BY DEF PcInv
<1>1. /\ Pc!Handling("data")
      /\ Pc!Returns \/ Pc!OpensDialog
      /\ UNCHANGED Pc!peerVars
      /\ UNCHANGED <<sock, connected, list, video>>
  BY DEF Pc!NotFound, Pc!ReceiveChunk, Pc!uiVars
<1>2. UNCHANGED <<rx, tls, pin, first>>
  BY <1>1 DEF Pc!Handling
<1>3. PeerGood' /\ UNCHANGED <<sending, outbox, lossy>>
  BY <1>0, <1>1, PeerSame
<1>4. /\ PcPipe # << >> /\ PcPipe[1] = m /\ m \in Sent /\ m.type = "data"
      /\ PcPipe' = Tail(PcPipe)
      /\ off' \in 0..Len(rx') /\ loop' \in {"busy", "dialog"}
      /\ loop' = "dialog" => off' < Len(rx')
  BY <1>0, <1>1, <1>3, PcHandles
<1> HIDE DEF m
<1>5. /\ m.name \in Names /\ m.idx \in Nat /\ m.total \in Nat
      /\ m.version \in 0..Len(Chunks)
  BY <1>4, DataFields
<1>6. ASSUME downloads' \in [Names -> Download],
             \A n \in Names : PcEntry(downloads'[n]),
             answered' \in Seq(Names), saved' \in Seq(Pc!Part)
      PROVE  PcGood'
  <2>1. \A n \in Names : PcEntry(downloads[n])'
    BY <1>6 DEF PcEntry
  <2>2. PcGood'
    BY <1>0, <1>1, <1>2, <1>4, <1>6, <2>1 DEF PcGood
  <2> QED BY <2>2
<1>7. /\ downloads \in [Names -> Download] /\ \A n \in Names : PcEntry(downloads[n])
      /\ answered \in Seq(Names) /\ saved \in Seq(Pc!Part)
      /\ Append(answered, m.name) \in Seq(Names)
  <2>1. answered \in Seq(Names)
    BY <1>0 DEF PcGood
  <2>2. Append(answered, m.name) \in Seq(Names)
    BY <2>1, <1>5, SMT
  <2> QED BY <2>1, <2>2, <1>0 DEF PcGood
<1>8. Pc!NoDownload \in Download /\ PcEntry(Pc!NoDownload)
  BY SMT DEF Pc!NoDownload, Download, PcEntry
<1>b. \/ lossy
      \/ /\ PcPipe \in Seq(Sent) /\ Stream(PcPipe)
         /\ downloads = PcExpected(PcPipe)
         /\ saved # << >> => Whole(saved)
  BY <1>0, PcPipeTyped DEF PcInv, PcWhole
<1>9. CASE Pc!NotFound
  <2>1. /\ m.total = 0 /\ downloads' = [downloads EXCEPT ![m.name] = Pc!NoDownload]
        /\ answered' = Append(answered, m.name) /\ UNCHANGED saved
    BY <1>9 DEF Pc!NotFound, m
  <2>2. /\ downloads' \in [Names -> Download]
        /\ \A n \in Names : PcEntry(downloads'[n])
    <3> HIDE DEF Download, PcEntry
    <3> QED BY <2>1, <1>5, <1>7, <1>8
  <2>3. PcGood'
    BY <2>1, <2>2, <1>6, <1>7
  <2>4. ASSUME ~lossy PROVE PcWhole'
    <3>1. downloads = PcExpected(PcPipe) /\ Stream(PcPipe) /\ PcPipe \in Seq(Sent)
      BY <2>4, <1>b
    <3>2. m.idx = 0
      <4>1. Sound(m)
        BY <3>1, <1>4, StreamGoesOn
      <4> QED BY <4>1, <2>1, <1>4, <1>5, SMT DEF Sound
    <3>3. ~Pending(PcPipe, m.name)
      BY <3>2, <1>4, SMT DEF Pending, Cont
    <3>4. downloads[m.name] = Pc!NoDownload
      <4> HIDE DEF Pending, PcPipe, PcPartial
      <4> QED BY <3>1, <3>3, <1>5 DEF PcExpected
    <3>5. downloads' = downloads
      BY <3>4, <2>1, <1>5, <1>7
    <3> QED BY <3>5, <2>1, <2>4, <1>4, PcPasses
  <2> QED BY <2>3, <2>4, <1>3 DEF PcInv
<1>10. CASE Pc!ReceiveChunk
  <2>1. /\ m.total > 0
        /\ IF d.received >= d.total
           THEN /\ downloads' = [downloads EXCEPT ![m.name] = Pc!NoDownload]
                /\ answered' = Append(answered, m.name)
                /\ saved' = d.bytes
           ELSE /\ downloads' = [downloads EXCEPT ![m.name] = d]
                /\ UNCHANGED <<answered, saved>>
    BY <1>10 DEF Pc!ReceiveChunk, m
  <2>2. /\ d \in Download /\ d.total > 0 /\ d.received = Len(d.bytes)
    <3> DEFINE e == downloads[m.name]
               x == <<m.version, m.idx>>
    <3>1. e \in Download /\ PcEntry(e)
      BY <1>5, <1>7
    <3>2. x \in Pc!Part
      BY <1>5 DEF Pc!Part
    <3>3. d = [total |-> IF e.total = 0 THEN m.total ELSE e.total,
               received |-> e.received + 1, bytes |-> Append(e.bytes, x)]
      BY DEF Pc!Received
    <3> HIDE DEF d, e, x
    <3>4. /\ e.total \in Nat /\ e.received \in Nat /\ e.bytes \in Seq(Pc!Part)
      BY <3>1 DEF Download
    <3>5. e.received = Len(e.bytes)
      <4>1. CASE e.total = 0
        BY <4>1, <3>1, SMT DEF PcEntry, Pc!NoDownload
      <4>2. CASE e.total # 0
        BY <4>2, <3>1 DEF PcEntry
      <4> QED BY <4>1, <4>2
    <3>6. /\ Append(e.bytes, x) \in Seq(Pc!Part)
          /\ Len(Append(e.bytes, x)) = Len(e.bytes) + 1
      BY <3>2, <3>4, SMT
    <3>7. /\ d.total \in Nat /\ d.total > 0
          /\ d.received = e.received + 1 /\ d.bytes = Append(e.bytes, x)
      BY <3>3, <3>4, <1>5, <2>1, SMT
    <3>8. e.received + 1 \in Nat
      BY <3>4, SMT
    <3>9. d \in Download
      <4>1. d = [total |-> d.total, received |-> e.received + 1,
                 bytes |-> Append(e.bytes, x)]
        BY <3>3, <3>7
      <4> QED BY <4>1, <3>6, <3>7, <3>8 DEF Download
    <3> QED BY <3>5, <3>6, <3>7, <3>9
  <2> HIDE DEF d
  <2>3. ~(d.received >= d.total) => PcEntry(d)
    <3>1. d.received \in Nat /\ d.total \in Nat
      BY <2>2 DEF Download
    <3> QED BY <3>1, <2>2, SMT DEF PcEntry
  <2>4. PcGood'
    <3>1. /\ downloads' \in [Names -> Download]
          /\ \A n \in Names : PcEntry(downloads'[n])
      <4> HIDE DEF Download, PcEntry
      <4> QED BY <2>1, <2>2, <2>3, <1>5, <1>7, <1>8
    <3>2. d.bytes \in Seq(Pc!Part)
      BY <2>2 DEF Download
    <3>3. answered' \in Seq(Names) /\ saved' \in Seq(Pc!Part)
      BY <2>1, <3>2, <1>7
    <3> QED BY <3>1, <3>3, <1>6
  <2>5. ASSUME ~lossy PROVE PcWhole'
    <3>1. /\ downloads = PcExpected(PcPipe) /\ Stream(PcPipe)
          /\ PcPipe \in Seq(Sent) /\ (saved # << >> => Whole(saved))
      BY <2>5, <1>b
    <3>2. IF d.received >= d.total
          THEN /\ Whole(d.bytes)
               /\ PcExpected(Tail(PcPipe)) = [downloads EXCEPT ![m.name] = Pc!NoDownload]
          ELSE PcExpected(Tail(PcPipe)) = [downloads EXCEPT ![m.name] = d]
      BY <3>1, <2>1, <1>4, PcChunk DEF d
    <3>3. Stream(PcPipe')
      BY <3>1, <1>4, StreamGoesOn
    <3>4. downloads' = PcExpected(PcPipe')
      BY <3>2, <2>1, <1>4
    <3>5. saved' # << >> => Whole(saved')
      BY <3>1, <3>2, <2>1
    <3> QED BY <3>3, <3>4, <3>5 DEF PcWhole, Stream, Whole
  <2> QED BY <2>4, <2>5, <1>3 DEF PcInv
<1> QED BY <1>9, <1>10

(* A step of the session.                                                  *)
LEMMA PcPeer ==
    ASSUME PcInv, PeerNext, UNCHANGED Pc!pcVars PROVE PcInv'
<1>0. PeerGood /\ PcGood
  BY DEF PcInv
<1>1. UNCHANGED <<sock, tls, pin, rx, off, loop, downloads, connected, list,
                  video, first, answered, saved>>
  BY DEF Pc!pcVars, Pc!qtVars, Pc!readVars, Pc!uiVars
<1>2. PeerGood' /\ (lossy' \/ Grows) /\ (lossy => lossy')
  BY <1>0, PeerKeeps
<1>3. PcGood'
  BY <1>0, <1>1 DEF PcGood
<1>4. ASSUME ~lossy' PROVE PcWhole'
  <2>1. Grows /\ ~lossy
    BY <1>2, <1>4
  <2>2. PICK X \in Seq(Sent) : Wire' = Wire \o X /\ Stream(X) /\ Starts(X)
    BY <2>1 DEF Grows
  <2>3. PcOpen \in Seq(Sent) /\ Wire \in Seq(Sent) /\ PcPipe \in Seq(Sent)
    BY <1>0, PcPipeTyped
  <2>4. PcOpen' = PcOpen
    BY <1>1 DEF PcOpen, Handled
  <2>5. PcPipe' = PcPipe \o X
    <3>1. (PcOpen \o Wire) \o X = PcOpen \o (Wire \o X)
      <4>1. Associates(PcOpen, Wire, X)
        BY <2>2, <2>3, SentAssociative
      <4> QED BY <4>1 DEF Associates
    <3> QED BY <3>1, <2>2, <2>4 DEF PcPipe
  <2>6. Stream(PcPipe) /\ downloads = PcExpected(PcPipe)
    BY <2>1 DEF PcInv, PcWhole
  <2>7. Stream(PcPipe \o X) /\ PcExpected(PcPipe \o X) = PcExpected(PcPipe)
    BY <2>2, <2>3, <2>6, StreamsJoin, PcExpectedStays
  <2>8. Stream(PcPipe')
    BY <2>5, <2>7
  <2>9. downloads' = PcExpected(PcPipe')
    BY <1>1, <2>5, <2>6, <2>7
  <2>10. saved' # << >> => Whole(saved')
    BY <2>1, <1>1 DEF PcInv, PcWhole
  <2> QED BY <2>8, <2>9, <2>10 DEF PcWhole, Stream, Whole
<1> QED BY <1>2, <1>3, <1>4 DEF PcInv

(* Every step of the PC client keeps the invariant.                         *)
LEMMA PcKeeps ==
    ASSUME PcInv, Pc!Next PROVE PcInv'
  BY SamePeer, PcPeer, PcConnects, PcOther, PcReads, PcHandlesOthers,
     PcHandlesData
     DEF Pc!Next

-----------------------------------------------------------------------------
(* MobileClient: the parts of a file in order.                             *)

Below(S, i) == {j \in S : j < i}
There(d) == DOMAIN d.parts \cap 0..(d.total - 1)
PartAt(S, k) == CHOOSE i \in S : Cardinality(Below(S, i)) = k - 1

(* InOrder over the numbers of the chunks that are there.                   *)
LEMMA InOrderIs ==
    ASSUME NEW d
    PROVE  /\ Mobile!InOrder(d) =
                 [k \in 1..Cardinality(There(d)) |->
                     <<d.parts[PartAt(There(d), k)], PartAt(There(d), k)>>]
           /\ Mobile!Complete(d) <=> Cardinality(DOMAIN d.parts) >= d.total
  BY Zenon DEF Mobile!InOrder, Mobile!Complete, Mobile!Cardinality, Cardinality,
               There, PartAt, Below

(* A set of naturals that is not empty has a least element.                *)
LEMMA LeastNatural ==
    ASSUME NEW T \in SUBSET Nat, T # {}
    PROVE  \E x \in T : \A y \in T : x <= y
<1>1. PICK x \in T : \A y \in T : ~(<<y, x>> \in OpToRel(<, Nat))
  BY NatLessThanWellFounded, WFMin
<1>2. \A y \in T : ~(y < x)
  BY <1>1 DEF OpToRel
<1>3. \A y \in T : x <= y
  BY <1>2, SMT
<1> QED BY <1>3

(* The naturals up to a bound are finitely many.                           *)
LEMMA Bounded ==
    ASSUME NEW t \in Int, NEW S \in SUBSET (0..t)
    PROVE  /\ IsFiniteSet(S) /\ Cardinality(S) \in Nat
           /\ \A j \in S : j \in Nat /\ j <= t
<1>1. IsFiniteSet(0..t)
  <2>1. 0 \in Int
    BY SMT
  <2> QED BY <2>1, FS_Interval
<1>2. IsFiniteSet(S)
  BY <1>1, FS_Subset
<1>3. Cardinality(S) \in Nat
  BY <1>2, FS_CardinalityType
<1>4. \A j \in 0..t : j \in Nat /\ j <= t
  BY SMT
<1> QED BY <1>2, <1>3, <1>4

(* A finite set of naturals has an element of every rank.                  *)
LEMMA RankExists ==
    ASSUME NEW t \in Int, NEW S \in SUBSET (0..t), NEW k \in 1..Cardinality(S)
    PROVE  /\ PartAt(S, k) \in S
           /\ Cardinality(Below(S, PartAt(S, k))) = k - 1
<1> DEFINE T == {i \in Nat : Cardinality(Below(S, i)) >= k}
<1>1. /\ IsFiniteSet(S) /\ Cardinality(S) \in Nat
      /\ \A j \in S : j \in Nat /\ j <= t
  BY Bounded
<1>2. k \in Nat /\ k >= 1 /\ k <= Cardinality(S)
  BY <1>1, SMT
<1>3. ASSUME NEW i
      PROVE  IsFiniteSet(Below(S, i)) /\ Cardinality(Below(S, i)) \in Nat
  <2>1. Below(S, i) \in SUBSET S
    BY DEF Below
  <2> QED BY <2>1, <1>1, FS_Subset, FS_CardinalityType
<1>4. T # {}
  <2>1. S # {}
    <3>1. Cardinality(S) # 0
      BY <1>1, <1>2, SMT
    <3> QED BY <3>1, FS_EmptySet
  <2>2. PICK j \in S : j \in Nat /\ j <= t
    BY <2>1, <1>1
  <2>3. t + 1 \in Nat
    BY <2>2, SMT
  <2>4. \A x \in S : x < t + 1
    BY <1>1, SMT
  <2>5. Below(S, t + 1) = S
    BY <2>4 DEF Below
  <2> QED BY <1>2, <2>3, <2>5
<1>5. PICK i \in T : \A j \in T : i <= j
  <2>1. T \in SUBSET Nat
    OBVIOUS
  <2> HIDE DEF T
  <2> QED BY <2>1, <1>4, LeastNatural
<1>6. i \in Nat /\ Cardinality(Below(S, i)) >= k
  OBVIOUS
<1>7. i # 0
  <2>1. Below(S, 0) = {}
    <3>1. \A j \in S : ~(j < 0)
      BY <1>1, SMT
    <3> QED BY <3>1 DEF Below
  <2>2. Cardinality(Below(S, 0)) = 0
    BY <2>1, FS_EmptySet
  <2>3. ~(0 >= k)
    BY <1>2, SMT
  <2> QED BY <1>6, <2>2, <2>3
<1>8. i - 1 \in Nat /\ ~(i <= i - 1)
  BY <1>6, <1>7, SMT
<1>9. Cardinality(Below(S, i - 1)) < k
  <2>1. i - 1 \notin T
    BY <1>5, <1>8
  <2>2. ~(Cardinality(Below(S, i - 1)) >= k)
    BY <2>1, <1>8
  <2> QED BY <2>2, <1>2, <1>3, SMT
<1> HIDE DEF T
<1>10. CASE i - 1 \in S
  <2>1. Below(S, i) = Below(S, i - 1) \cup {i - 1} /\ i - 1 \notin Below(S, i - 1)
    <3>1. \A j \in S : j < i <=> j < i - 1 \/ j = i - 1
      BY <1>1, <1>6, SMT
    <3>2. ~(i - 1 < i - 1)
      BY <1>6, SMT
    <3> QED BY <3>1, <3>2, <1>10 DEF Below
  <2>2. Cardinality(Below(S, i)) = Cardinality(Below(S, i - 1)) + 1
    BY <2>1, <1>3, FS_AddElement
  <2>3. Cardinality(Below(S, i - 1)) = k - 1
    BY <2>2, <1>2, <1>3, <1>6, <1>9, SMT
  <2> QED BY <2>3, <1>10 DEF PartAt
<1>11. CASE i - 1 \notin S
  <2>1. Below(S, i) = Below(S, i - 1)
    <3>1. \A j \in S : j < i <=> j < i - 1 \/ j = i - 1
      BY <1>1, <1>6, SMT
    <3> QED BY <3>1, <1>11 DEF Below
  <2> QED BY <2>1, <1>2, <1>3, <1>6, <1>9, SMT
<1> QED BY <1>10, <1>11

(* What is saved has the types of parts, whatever has come.                *)
LEMMA InOrderTyped ==
    ASSUME NEW V, NEW d, d.total \in Nat, DOMAIN d.parts \subseteq Nat,
           \A i \in DOMAIN d.parts : d.parts[i] \in V
    PROVE  Mobile!InOrder(d) \in Seq(V \X Nat)
<1> DEFINE S == There(d)
           N == Cardinality(S)
<1>1. S \in SUBSET (0..(d.total - 1)) /\ d.total - 1 \in Int
  BY SMT DEF There
<1>2. N \in Nat
  BY <1>1, Bounded
<1>3. ASSUME NEW k \in 1..N
      PROVE  <<d.parts[PartAt(S, k)], PartAt(S, k)>> \in V \X Nat
  <2>1. PartAt(S, k) \in S
    BY <1>1, RankExists
  <2>2. PartAt(S, k) \in DOMAIN d.parts /\ PartAt(S, k) \in Nat
    BY <2>1 DEF There
  <2> QED BY <2>2
<1> HIDE DEF N
<1>4. [k \in 1..N |-> <<d.parts[PartAt(S, k)], PartAt(S, k)>>] \in Seq(V \X Nat)
  BY <1>2, <1>3, SMT
<1> QED BY <1>4, InOrderIs DEF N

(* When every part is there, the parts are saved from the first to the last. *)
LEMMA InOrderWhole ==
    ASSUME NEW d, d.total \in Nat, DOMAIN d.parts = 0..(d.total - 1)
    PROVE  Mobile!InOrder(d) = [k \in 1..d.total |-> <<d.parts[k - 1], k - 1>>]
<1> DEFINE S == 0..(d.total - 1)
<1>1. There(d) = S
  BY DEF There
<1>2. Cardinality(S) = d.total
  BY FS_Interval, SMT
<1>3. ASSUME NEW i \in S PROVE Cardinality(Below(S, i)) = i
  <2>1. i \in Nat /\ i - 1 \in Int
    BY SMT
  <2>2. Below(S, i) = 0..(i - 1)
    BY SMT DEF Below
  <2> QED BY <2>1, <2>2, FS_Interval, SMT
<1>4. ASSUME NEW k \in 1..d.total PROVE PartAt(S, k) = k - 1
  <2>1. S \in SUBSET (0..(d.total - 1)) /\ d.total - 1 \in Int
    BY SMT
  <2>2. PartAt(S, k) \in S /\ Cardinality(Below(S, PartAt(S, k))) = k - 1
    BY <2>1, <1>2, RankExists
  <2> QED BY <2>2, <1>3
<1> HIDE DEF S
<1>5. Mobile!InOrder(d) = [k \in 1..d.total |-> <<d.parts[PartAt(S, k)], PartAt(S, k)>>]
  BY <1>1, <1>2, InOrderIs
<1> QED BY <1>4, <1>5

-----------------------------------------------------------------------------
(* MobileClient.                                                           *)

MobilePartial(m) ==
    [total |-> m.total, parts |-> [i \in 0..(m.idx - 1) |-> m.version]]

MobileExpected(P) ==
    [n \in Names |-> IF Pending(P, n) THEN MobilePartial(P[1])
                                      ELSE Mobile!NoEntry]

(* An entry of downloads.                                                  *)
MobileEntry(d) ==
    /\ d.total \in Nat
    /\ DOMAIN d.parts \subseteq Nat /\ IsFiniteSet(DOMAIN d.parts)
    /\ \A i \in DOMAIN d.parts : d.parts[i] \in 0..Len(Chunks)
    /\ d.total > 0 => Cardinality(DOMAIN d.parts) < d.total

MobileGood ==
    /\ ws \in {"null", "connecting", "open", "closed"}
    /\ status \in {"disconnected", "connecting", "connected"}
    /\ status = "disconnected" <=> ws = "null"
    /\ status = "connecting" => ws \in {"connecting", "closed"}
    /\ status = "connected" => ws \in {"open", "closed"}
    /\ files \subseteq Names /\ frame \in BOOLEAN
    /\ mDownloads = [n \in Names |-> mDownloads[n]]
    /\ \A n \in Names : MobileEntry(mDownloads[n])
    /\ mFirst \in {"none", "hello"}
    /\ mAnswered \in Seq(Names)
    /\ mSaved \in Seq((0..Len(Chunks)) \X Nat)

(* The entries of a connection that is dropped go with it, what is on its  *)
(* way does not.                                                           *)
MobileWhole ==
    /\ Stream(Wire)
    /\ ws # "null" => mDownloads = MobileExpected(Wire)
    /\ mSaved # << >> => Whole(mSaved)

MobileInv == PeerGood /\ MobileGood /\ (lossy \/ MobileWhole)

(* A well-formed mobile client has its types.                               *)
LEMMA MobileGoodIsTyped ==
    ASSUME PeerGood, MobileGood PROVE Mobile!TypeOK /\ Mobile!HelloFirst
<1>1. Mobile!PeerTypeOK <=> PeerTypeOK
  BY Zenon DEF PeerTypeOK, Request, Data, Message, Listing, Deleted, Plain,
               Mobile!PeerTypeOK, Mobile!Request, Mobile!Data, Mobile!Message,
               Mobile!Listing, Mobile!Deleted, Mobile!Plain
<1>2. Mobile!PeerTypeOK
  BY <1>1, GoodIsTyped
<1>3. \A S : Mobile!Cardinality(S) = Cardinality(S)
  BY DEF Mobile!Cardinality, Cardinality
<1>4. ASSUME NEW n \in Names
      PROVE  LET d == mDownloads[n]
             IN  /\ d.total \in Nat /\ DOMAIN d.parts \subseteq Nat
                 /\ d.total > 0 => Mobile!Cardinality(DOMAIN d.parts) < d.total
                 /\ \A i \in DOMAIN d.parts : d.parts[i] \in 0..Len(Chunks)
  <2>1. MobileEntry(mDownloads[n])
    BY DEF MobileGood
  <2> QED BY <2>1, <1>3 DEF MobileEntry
<1>5. Mobile!MobileTypeOK
  BY <1>4 DEF MobileGood, Mobile!MobileTypeOK
<1>6. Mobile!HelloFirst
  BY DEF MobileGood, Mobile!HelloFirst
<1> QED BY <1>2, <1>5, <1>6 DEF Mobile!TypeOK

(* The empty entry of the gallery has its type.                             *)
LEMMA NoEntryTyped == MobileEntry(Mobile!NoEntry)
<1>1. Mobile!NoEntry.total = 0 /\ Mobile!NoEntry.parts = << >>
  BY DEF Mobile!NoEntry
<1>2. DOMAIN << >> = {}
  BY SMT
<1> QED BY <1>1, <1>2, FS_EmptySet, SMT DEF MobileEntry

(* An entry for a name follows the stream.                                 *)
LEMMA MobileExpectedStays ==
    ASSUME NEW P \in Seq(Sent), NEW X \in Seq(Sent), Starts(X)
    PROVE  MobileExpected(P \o X) = MobileExpected(P)
<1>1. ASSUME NEW n \in Names
      PROVE  /\ Pending(P \o X, n) <=> Pending(P, n)
             /\ Pending(P, n) => (P \o X)[1] = P[1]
  BY PendingStays DEF Pending
<1> HIDE DEF Pending, MobilePartial
<1> QED BY <1>1 DEF MobileExpected

(* What one chunk does to the entry of its file.                           *)
LEMMA MobileChunk ==
    ASSUME NEW P \in Seq(Sent), Stream(P), P # << >>,
           P[1].type = "data", P[1].total > 0
    PROVE  LET m == P[1]
               D == MobileExpected(P)
               d == Mobile!Entry(D[m.name], m)
           IN  IF Mobile!Complete(d)
               THEN /\ ~Unfinished(m) /\ Whole(Mobile!InOrder(d))
                    /\ MobileExpected(Tail(P)) = [D EXCEPT ![m.name] = Mobile!NoEntry]
               ELSE /\ Unfinished(m)
                    /\ MobileExpected(Tail(P)) = [D EXCEPT ![m.name] = d]
<1> DEFINE m == P[1]
           D == MobileExpected(P)
           d == Mobile!Entry(D[m.name], m)
<1>1. m \in Sent
  BY Behead
<1>2. /\ m.type = "data" /\ m.name \in Names /\ m.idx \in Nat /\ m.total \in Nat
      /\ m = [type |-> "data", name |-> m.name, idx |-> m.idx,
              total |-> m.total, version |-> m.version]
  BY <1>1, DataFields
<1>3. /\ m.total > 0 /\ m.idx < m.total
      /\ m.version \in Versions /\ m.total = Chunks[m.version]
  <2>1. Sound(m)
    BY StreamGoesOn
  <2> HIDE DEF m
  <2>2. m.total > 0
    BY DEF m
  <2> QED BY <1>2, <2>1, <2>2, SMT DEF Sound
<1>4. Pending(P, m.name) <=> m.idx > 0
  BY <1>2 DEF Pending, Cont
<1>5. D[m.name] = IF m.idx > 0 THEN MobilePartial(m) ELSE Mobile!NoEntry
  BY <1>2, <1>4 DEF MobileExpected
<1>6. d = [total |-> m.total, parts |-> [i \in 0..m.idx |-> m.version]]
  <2> DEFINE e == D[m.name]
  <2>1. /\ e.total = 0 \/ e.total = m.total
        /\ DOMAIN e.parts = 0..(m.idx - 1)
        /\ \A i \in DOMAIN e.parts : e.parts[i] = m.version
    <3> HIDE DEF m, D
    <3>1. CASE m.idx = 0
      <4>1. e = [total |-> 0, parts |-> << >>]
        BY <3>1, <1>5, SMT DEF Mobile!NoEntry
      <4>2. DOMAIN << >> = {} /\ 0..(0 - 1) = {}
        BY SMT
      <4>3. e.total = 0 /\ e.parts = << >>
        BY <4>1
      <4> HIDE DEF e
      <4> QED BY <4>2, <4>3, <3>1
    <3>2. CASE m.idx > 0
      <4>1. e = [total |-> m.total, parts |-> [i \in 0..(m.idx - 1) |-> m.version]]
        BY <3>2, <1>5 DEF MobilePartial
      <4> HIDE DEF e
      <4> QED BY <4>1
    <3>3. m.idx = 0 \/ m.idx > 0
      BY <1>2, SMT
    <3> QED BY <3>1, <3>2, <3>3
  <2>2. d = [total |-> IF e.total = 0 THEN m.total ELSE e.total,
             parts |-> IF m.idx \in DOMAIN e.parts THEN e.parts
                       ELSE [i \in DOMAIN e.parts \cup {m.idx} |->
                                IF i = m.idx THEN m.version ELSE e.parts[i]]]
    BY DEF Mobile!Entry
  <2> HIDE DEF d, e, D, m
  <2>3. /\ m.idx \notin 0..(m.idx - 1)
        /\ 0..(m.idx - 1) \cup {m.idx} = 0..m.idx
        /\ \A i \in 0..m.idx : i # m.idx => i \in 0..(m.idx - 1)
    BY <1>2, SMT
  <2>4. [i \in 0..m.idx |-> IF i = m.idx THEN m.version ELSE e.parts[i]]
           = [i \in 0..m.idx |-> m.version]
    BY <2>1, <2>3
  <2> QED BY <2>1, <2>2, <2>3, <2>4
<1>7. /\ d.total = m.total /\ d.parts = [i \in 0..m.idx |-> m.version]
      /\ DOMAIN d.parts = 0..m.idx
  <2> HIDE DEF d, m
  <2> QED BY <1>6
<1>8. Mobile!Complete(d) <=> m.idx + 1 = m.total
  <2> HIDE DEF d, m
  <2>1. Cardinality(0..m.idx) = m.idx + 1
    <3>1. 0 \in Int /\ m.idx \in Int /\ ~(0 > m.idx) /\ m.idx - 0 + 1 = m.idx + 1
      BY <1>2, SMT
    <3> QED BY <3>1, FS_Interval
  <2>2. Mobile!Complete(d) <=> m.idx + 1 >= m.total
    BY <2>1, <1>7, InOrderIs
  <2>3. m.idx + 1 >= m.total <=> m.idx + 1 = m.total
    BY <1>2, <1>3, SMT
  <2> QED BY <2>2, <2>3
<1>9. ASSUME m.idx + 1 = m.total
      PROVE  /\ ~Unfinished(m) /\ Whole(Mobile!InOrder(d))
             /\ MobileExpected(Tail(P)) = [D EXCEPT ![m.name] = Mobile!NoEntry]
  <2>1. Whole(Mobile!InOrder(d))
    <3> HIDE DEF d, m
    <3>1. d.total \in Nat /\ DOMAIN d.parts = 0..(d.total - 1)
      <4>1. m.total - 1 = m.idx
        BY <1>2, <1>9, SMT
      <4> QED BY <4>1, <1>2, <1>7
    <3>2. Mobile!InOrder(d) = [k \in 1..m.total |-> <<d.parts[k - 1], k - 1>>]
      BY <3>1, <1>7, InOrderWhole
    <3>3. \A k \in 1..m.total : k - 1 \in 0..m.idx
      BY <1>2, <1>9, SMT
    <3>4. Mobile!InOrder(d) = [k \in 1..m.total |-> <<m.version, k - 1>>]
      BY <3>2, <3>3, <1>7
    <3> DEFINE w == Mobile!InOrder(d)
    <3>5. /\ Len(w) = m.total /\ DOMAIN w = 1..m.total
          /\ \A k \in 1..m.total : w[k] = <<m.version, k - 1>>
      <4> HIDE DEF w
      <4>1. w = [k \in 1..m.total |-> <<m.version, k - 1>>]
        BY <3>4 DEF w
      <4> QED BY <4>1, <1>2, SMT
    <3> HIDE DEF w
    <3>6. Whole(w)
      BY <3>5, <1>3 DEF Whole
    <3> QED BY <3>6 DEF w
  <2>2. ~Unfinished(m)
    <3> HIDE DEF m
    <3> QED BY <1>9, <1>2, SMT DEF Unfinished
  <2>3. \A n \in Names : ~Pending(Tail(P), n)
    BY <2>2, NonePendingNext
  <2>4. \A n \in Names : n # m.name => ~Pending(P, n)
    BY DEF Pending
  <2> HIDE DEF Pending, MobilePartial
  <2>5. MobileExpected(Tail(P)) = [n \in Names |-> Mobile!NoEntry]
    BY <2>3 DEF MobileExpected
  <2>6. D = [n \in Names |-> D[n]]
    BY DEF MobileExpected
  <2>7. \A n \in Names : n # m.name => D[n] = Mobile!NoEntry
    BY <2>4 DEF MobileExpected
  <2>8. [D EXCEPT ![m.name] = Mobile!NoEntry] = [n \in Names |-> Mobile!NoEntry]
    <3> HIDE DEF D, m
    <3> QED BY <2>6, <2>7
  <2> QED BY <2>1, <2>2, <2>5, <2>8
<1>10. ASSUME m.idx + 1 # m.total
       PROVE  /\ Unfinished(m)
              /\ MobileExpected(Tail(P)) = [D EXCEPT ![m.name] = d]
  <2>1. Unfinished(m)
    <3> HIDE DEF m
    <3> QED BY <1>2, <1>3, <1>10, SMT DEF Unfinished
  <2>2. Tail(P) # << >> /\ Tail(P)[1] = Following(m)
    BY <2>1, StreamGoesOn
  <2>3. /\ Following(m).type = "data" /\ Following(m).name = m.name
        /\ Cont(Following(m)) /\ MobilePartial(Following(m)) = d
    <3> HIDE DEF m, d
    <3>1. Following(m) = [type |-> "data", name |-> m.name, idx |-> m.idx + 1,
                          total |-> m.total, version |-> m.version]
      BY <1>2, SMT DEF Following
    <3>2. (m.idx + 1) - 1 = m.idx
      BY <1>2, SMT
    <3>3. MobilePartial(Following(m)) = d
      <4> DEFINE f == Following(m)
      <4>1. f.total = m.total /\ f.version = m.version /\ f.idx = m.idx + 1
        BY <3>1
      <4>2. MobilePartial(f) = [total |-> f.total,
                                parts |-> [i \in 0..(f.idx - 1) |-> f.version]]
        BY DEF MobilePartial
      <4> HIDE DEF f
      <4>3. f.idx - 1 = m.idx
        BY <4>1, <3>2
      <4> QED BY <4>1, <4>2, <4>3, <1>6 DEF f
    <3>4. Cont(Following(m))
      BY <3>1, <1>2, SMT DEF Cont
    <3> QED BY <3>1, <3>3, <3>4
  <2>4. \A n \in Names : Pending(Tail(P), n) <=> n = m.name
    BY <2>2, <2>3 DEF Pending
  <2>5. \A n \in Names : n # m.name => ~Pending(P, n)
    BY DEF Pending
  <2>6. D = [n \in Names |-> D[n]]
    BY DEF MobileExpected
  <2>7. \A n \in Names : n # m.name => D[n] = Mobile!NoEntry
    BY <2>5 DEF MobileExpected
  <2>8. \A n \in Names :
           MobileExpected(Tail(P))[n] = IF n = m.name THEN d ELSE Mobile!NoEntry
    <3> HIDE DEF Pending, MobilePartial, d, m
    <3> QED BY <2>2, <2>3, <2>4 DEF MobileExpected
  <2>9. MobileExpected(Tail(P)) = [n \in Names |-> MobileExpected(Tail(P))[n]]
    BY DEF MobileExpected
  <2> HIDE DEF D, d, m
  <2>10. [D EXCEPT ![m.name] = d] =
            [n \in Names |-> IF n = m.name THEN d ELSE Mobile!NoEntry]
    BY <2>6, <2>7
  <2> QED BY <2>1, <2>8, <2>9, <2>10
<1> QED BY <1>8, <1>9, <1>10

(* A step that leaves the wire as it is.                                   *)
LEMMA MobileSame ==
    ASSUME MobileInv, UNCHANGED <<sending, outbox, lossy, mDownloads, mSaved>>,
           ws' # "null" => ws # "null"
    PROVE  lossy' \/ MobileWhole'
<1>1. Wire' = Wire
  BY DEF Wire
<1>2. MobileExpected(Wire') = MobileExpected(Wire)
  BY <1>1
<1> QED BY <1>1, <1>2 DEF MobileInv, MobileWhole, Stream, Whole

(* A step of the session.                                                  *)
LEMMA MobilePeer ==
    ASSUME MobileInv, PeerNext, UNCHANGED Mobile!mobileVars PROVE MobileInv'
<1>0. PeerGood /\ MobileGood
  BY DEF MobileInv
<1>1. UNCHANGED <<ws, status, files, frame, mDownloads, mFirst, mAnswered, mSaved>>
  BY DEF Mobile!mobileVars, Mobile!storeVars
<1>2. PeerGood' /\ (lossy' \/ Grows) /\ (lossy => lossy')
  BY <1>0, PeerKeeps
<1>3. MobileGood'
  <2>1. \A n \in Names : MobileEntry(mDownloads[n])'
    BY <1>0, <1>1 DEF MobileGood, MobileEntry
  <2> QED BY <1>0, <1>1, <2>1 DEF MobileGood
<1>4. ASSUME ~lossy' PROVE MobileWhole'
  <2>1. Grows /\ ~lossy
    BY <1>2, <1>4
  <2>2. PICK X \in Seq(Sent) : Wire' = Wire \o X /\ Stream(X) /\ Starts(X)
    BY <2>1 DEF Grows
  <2>3. Wire \in Seq(Sent)
    BY <1>0, WireTyped
  <2>4. Stream(Wire) /\ (ws # "null" => mDownloads = MobileExpected(Wire))
    BY <2>1 DEF MobileInv, MobileWhole
  <2>5. Stream(Wire \o X) /\ MobileExpected(Wire \o X) = MobileExpected(Wire)
    BY <2>2, <2>3, <2>4, StreamsJoin, MobileExpectedStays
  <2>6. Stream(Wire')
    BY <2>2, <2>5
  <2>7. ws' # "null" => mDownloads' = MobileExpected(Wire')
    BY <1>1, <2>2, <2>4, <2>5
  <2>8. mSaved' # << >> => Whole(mSaved')
    BY <2>1, <1>1 DEF MobileInv, MobileWhole
  <2> QED BY <2>6, <2>7, <2>8 DEF MobileWhole, Stream, Whole
<1> QED BY <1>2, <1>3, <1>4 DEF MobileInv

(* The state of the connection, when the socket or the store changes.      *)
LEMMA MobilePeerSame ==
    ASSUME PeerGood, UNCHANGED Mobile!peerVars
    PROVE  /\ PeerGood'
           /\ UNCHANGED <<sending, outbox, cut, lossy, inbox>>
<1>1. UNCHANGED <<store, made, auth, inbox, sending, outbox, cut, lossy, asked,
                  clicks>>
  BY DEF Mobile!peerVars, Mobile!serverVars
<1> QED BY <1>1 DEF PeerGood

(* The entries after a step that leaves them or drops them.                *)
LEMMA EntriesTyped ==
    /\ MobileGood /\ UNCHANGED mDownloads =>
          /\ mDownloads' = [n \in Names |-> mDownloads'[n]]
          /\ \A n \in Names : MobileEntry(mDownloads[n])'
    /\ mDownloads' = [n \in Names |-> Mobile!NoEntry] =>
          /\ mDownloads' = [n \in Names |-> mDownloads'[n]]
          /\ \A n \in Names : MobileEntry(mDownloads[n])'
<1>1. ASSUME MobileGood, UNCHANGED mDownloads
      PROVE  /\ mDownloads' = [n \in Names |-> mDownloads'[n]]
             /\ \A n \in Names : MobileEntry(mDownloads[n])'
  BY <1>1 DEF MobileGood, MobileEntry
<1>2. ASSUME mDownloads' = [n \in Names |-> Mobile!NoEntry]
      PROVE  /\ mDownloads' = [n \in Names |-> mDownloads'[n]]
             /\ \A n \in Names : MobileEntry(mDownloads[n])'
  <2>1. \A n \in Names : MobileEntry(mDownloads'[n])
    BY <1>2, NoEntryTyped
  <2>2. \A n \in Names : MobileEntry(mDownloads[n])'
    BY <2>1 DEF MobileEntry
  <2> QED BY <1>2, <2>2
<1> QED BY <1>1, <1>2

(* The steps of the user and of the socket.                                *)
LEMMA MobileOther ==
    ASSUME MobileInv,
           \/ Mobile!disconnect \/ Mobile!onopen \/ Mobile!SocketEnds
           \/ Mobile!onclose \/ Mobile!MobileClick
    PROVE  MobileInv'
<1>0. PeerGood /\ MobileGood
  BY DEF MobileInv
<1>1. CASE Mobile!disconnect
  <2>1. /\ ws' = "null" /\ status' = "disconnected" /\ frame' = FALSE
        /\ mDownloads' = [n \in Names |-> Mobile!NoEntry]
        /\ UNCHANGED files /\ UNCHANGED Mobile!peerVars
        /\ UNCHANGED <<mFirst, mAnswered, mSaved>>
    BY <1>1 DEF Mobile!disconnect, Mobile!Dropped
  <2>2. MobileGood'
    BY <2>1, <1>0, EntriesTyped DEF MobileGood
  <2>3. PeerGood' /\ UNCHANGED <<sending, outbox, lossy>>
    BY <2>1, <1>0, MobilePeerSame
  <2>4. lossy' \/ MobileWhole'
    <3>1. Wire' = Wire
      BY <2>3 DEF Wire
    <3> QED BY <3>1, <2>1, <2>3 DEF MobileInv, MobileWhole, Stream, Whole
  <2> QED BY <2>2, <2>3, <2>4 DEF MobileInv
<1>2. CASE Mobile!onopen
  <2>1. /\ ws = "connecting" /\ ws' = "open" /\ status' = "connected"
        /\ inbox' = inbox \o Mobile!Opening
        /\ UNCHANGED <<store, made, auth, sending, cut, lossy, outbox, asked,
                       clicks>>
        /\ mFirst' = Mobile!Opening[1].type
        /\ UNCHANGED <<files, frame, mDownloads, mAnswered, mSaved>>
    BY <1>2 DEF Mobile!onopen, Mobile!Sends
  <2>2. MobileGood'
    BY <2>1, <1>0, EntriesTyped, OpeningAsks DEF MobileGood
  <2>3. asked' \in Seq(Names) /\ clicks' \in Nat
    BY <2>1, <1>0 DEF PeerGood
  <2>4. PeerGood'
    BY <2>1, <2>3, <1>0, OpeningAsks, AskKeeps
  <2>5. lossy' \/ MobileWhole'
    BY <2>1, MobileSame
  <2> QED BY <2>2, <2>4, <2>5 DEF MobileInv
<1>3. CASE Mobile!SocketEnds
  <2>1. /\ ws \in {"connecting", "open"} /\ ws' = "closed"
        /\ UNCHANGED Mobile!peerVars
        /\ UNCHANGED <<status, files, frame, mDownloads, mFirst, mAnswered,
                       mSaved>>
    BY <1>3 DEF Mobile!SocketEnds
  <2>2. MobileGood'
    BY <2>1, <1>0, EntriesTyped DEF MobileGood
  <2> QED BY <2>1, <2>2, <1>0, MobilePeerSame, MobileSame DEF MobileInv
<1>4. CASE Mobile!onclose
  <2>1. /\ ws = "closed" /\ ws' = "null" /\ status' = "disconnected"
        /\ UNCHANGED Mobile!peerVars
        /\ UNCHANGED <<files, frame, mDownloads, mFirst, mAnswered, mSaved>>
    BY <1>4 DEF Mobile!onclose
  <2>2. MobileGood'
    BY <2>1, <1>0, EntriesTyped DEF MobileGood
  <2> QED BY <2>1, <2>2, <1>0, MobilePeerSame, MobileSame DEF MobileInv
<1>5. CASE Mobile!MobileClick
  <2>1. PICK r \in Mobile!mOffered :
           /\ Mobile!send(<<r>>)
           /\ asked' = IF r.type = "get" /\ ws = "open"
                       THEN Append(asked, r.name) ELSE asked
    BY <1>5 DEF Mobile!MobileClick
  <2>2. /\ clicks' = clicks + 1
        /\ UNCHANGED <<store, made, auth, sending, outbox, cut, lossy>>
        /\ UNCHANGED <<ws, status, files, frame, mDownloads, mFirst, mAnswered,
                       mSaved>>
    BY <1>5 DEF Mobile!MobileClick, Mobile!mobileVars, Mobile!storeVars
  <2>3. MobileGood'
    BY <2>2, <1>0, EntriesTyped DEF MobileGood
  <2>4. r \in Ask
    BY <1>0 DEF Mobile!mOffered, Mobile!Request, Ask, Request, MobileGood
  <2>5. asked' \in Seq(Names)
    <3>1. asked \in Seq(Names)
      BY <1>0 DEF PeerGood
    <3>2. r.name \in Names => Append(asked, r.name) \in Seq(Names)
      BY <3>1, SMT
    <3>3. r.type = "get" => r.name \in Names
      BY <2>4 DEF Ask
    <3> QED BY <2>1, <3>1, <3>2, <3>3
  <2>6. clicks' \in Nat
    BY <2>2, <1>0, SMT DEF PeerGood
  <2>7. <<r>> \in Seq(Ask)
    <3> HIDE DEF Ask
    <3> QED BY <2>4, SMT
  <2>8. PeerGood'
    <3>1. inbox' = inbox \o <<r>> \/ inbox' = inbox
      BY <2>1 DEF Mobile!send
    <3>2. CASE inbox' = inbox \o <<r>>
      BY <3>2, <2>2, <2>5, <2>6, <2>7, <1>0, AskKeeps
    <3>3. CASE inbox' = inbox
      BY <3>3, <2>2, <2>5, <2>6, <1>0 DEF PeerGood
    <3> QED BY <3>1, <3>2, <3>3
  <2>9. lossy' \/ MobileWhole'
    BY <2>2, MobileSame
  <2> QED BY <2>3, <2>8, <2>9 DEF MobileInv
<1> QED BY <1>1, <1>2, <1>3, <1>4, <1>5

(* A new connection starts with nothing of the one before.                 *)
LEMMA MobileConnects ==
    ASSUME MobileInv, Mobile!connect PROVE MobileInv'
<1>0. PeerGood /\ MobileGood
  BY DEF MobileInv
<1>1. /\ mDownloads' = [n \in Names |-> Mobile!NoEntry]
      /\ mFirst' = "none" /\ mAnswered' = << >> /\ mSaved' = << >>
      /\ auth' = "no" /\ outbox' = <<[type |-> "hello"]>>
      /\ inbox' = << >> /\ sending' = << >> /\ cut' = << >>
      /\ lossy' = FALSE /\ asked' = << >> /\ clicks' = 0
      /\ UNCHANGED <<store, made, files>> /\ frame' = FALSE
      /\ \/ ws' = "connecting" /\ status' = "connecting"
         \/ ws' = "null" /\ status' = "disconnected"
  BY DEF Mobile!connect, Mobile!Dropped, Mobile!Anew
<1>2. /\ [type |-> "hello"] \in Sent /\ [type |-> "hello"].type = "hello"
      /\ << >> \in Seq(Ask) /\ << >> \in Seq(Sent \cap Data)
      /\ << >> \in Seq(Names) /\ << >> \in Seq((0..Len(Chunks)) \X Nat)
      /\ Len(<< >>) = 0 /\ 0 \in Nat /\ 0 <= 1
  BY PlainSent, SMT
<1>3. /\ <<[type |-> "hello"]>> \in Seq(Sent)
      /\ Stream(<<[type |-> "hello"]>>) /\ Starts(<<[type |-> "hello"]>>)
  BY <1>2, OneMessage
<1>4. PeerGood'
  BY <1>0, <1>1, <1>2, <1>3 DEF PeerGood
<1>5. MobileGood'
  <2>1. /\ mDownloads' = [n \in Names |-> mDownloads'[n]]
        /\ \A n \in Names : MobileEntry(mDownloads[n])'
    BY <1>1, EntriesTyped
  <2> QED BY <1>0, <1>1, <1>2, <2>1 DEF MobileGood
<1>6. MobileWhole'
  <2> DEFINE h == [type |-> "hello"]
  <2>1. Wire' = <<h>>
    <3>1. <<h>> \o << >> = <<h>>
      BY SMT
    <3> QED BY <3>1, <1>1 DEF Wire
  <2>2. MobileExpected(<<h>>) = [n \in Names |-> Mobile!NoEntry]
    <3>1. \A n \in Names : ~Pending(<<h>>, n)
      BY <1>3, NothingPending
    <3> HIDE DEF Pending, MobilePartial, h
    <3> QED BY <3>1 DEF MobileExpected
  <2> HIDE DEF h
  <2>3. Stream(Wire')
    BY <1>3, <2>1 DEF h
  <2>4. mDownloads' = MobileExpected(Wire')
    BY <1>1, <2>1, <2>2
  <2>5. mSaved' = << >>
    BY <1>1
  <2> QED BY <2>3, <2>4, <2>5 DEF MobileWhole, Stream
<1> QED BY <1>4, <1>5, <1>6 DEF MobileInv

(* A message that arrives is the first of the wire.                        *)
LEMMA MobileArrives ==
    ASSUME PeerGood, NEW t, Mobile!Arrives(t)
    PROVE  /\ Wire # << >> /\ Wire[1] = Mobile!Arrived
           /\ Mobile!Arrived \in Sent /\ Mobile!Arrived.type = t
           /\ Wire' = Tail(Wire) /\ outbox' \in Seq(Sent)
           /\ ws = "open" /\ lossy' = lossy
           /\ inbox' \in Seq(Ask) => PeerGood'
<1>1. /\ ws = "open" /\ outbox # << >> /\ Head(outbox).type = t
      /\ outbox' = Tail(outbox)
      /\ UNCHANGED <<store, made, auth, sending, cut, lossy, asked, clicks>>
  BY DEF Mobile!Arrives
<1>2. outbox \in Seq(Sent) /\ sending \in Seq(Sent)
  BY WireTyped DEF PeerGood
<1>3. /\ Head(outbox) = outbox[1] /\ outbox[1] \in Sent
      /\ Tail(outbox) \in Seq(Sent)
  BY <1>1, <1>2, Behead
<1>4. /\ Tail(outbox \o sending) = Tail(outbox) \o sending
      /\ outbox \o sending # << >> /\ (outbox \o sending)[1] = outbox[1]
  BY <1>1, <1>2, TailOfJoined
<1>5. inbox' \in Seq(Ask) => PeerGood'
  BY <1>1, <1>3 DEF PeerGood
<1> QED BY <1>1, <1>3, <1>4, <1>5 DEF Wire, Mobile!Arrived

(* A message that is not of a transfer, or says that there is no file.     *)
LEMMA MobilePasses ==
    ASSUME MobileInv, ~lossy, Wire # << >>, Wire' = Tail(Wire),
           Wire[1].type = "data" => Wire[1].total = 0, ws # "null",
           UNCHANGED <<mDownloads, mSaved>>
    PROVE  MobileWhole'
<1>1. Wire \in Seq(Sent) /\ Stream(Wire)
  BY WireTyped DEF MobileInv, MobileWhole
<1>2. Wire[1] \in Sent
  BY <1>1, Behead
<1>3. ~Unfinished(Wire[1]) /\ ~Cont(Wire[1])
  <2>1. CASE Wire[1].type = "data"
    <3>1. Wire[1].total = 0 /\ Wire[1].idx \in Nat /\ Sound(Wire[1])
      BY <2>1, <1>1, <1>2, DataFields, StreamGoesOn
    <3>2. Wire[1].idx = 0
      BY <2>1, <3>1, SMT DEF Sound
    <3> QED BY <3>1, <3>2, SMT DEF Unfinished, Cont
  <2>2. CASE Wire[1].type # "data"
    BY <2>2 DEF Unfinished, Cont
  <2> QED BY <2>1, <2>2
<1>4. Stream(Tail(Wire)) /\ Starts(Tail(Wire)) /\ Starts(Wire)
  BY <1>1, <1>3, StreamGoesOn DEF Starts
<1>5. MobileExpected(Tail(Wire)) = MobileExpected(Wire)
  <2>1. \A n \in Names : ~Pending(Wire, n) /\ ~Pending(Tail(Wire), n)
    BY <1>4, NothingPending
  <2> HIDE DEF Pending, Wire, MobilePartial
  <2> QED BY <2>1 DEF MobileExpected
<1>6. Stream(Wire')
  BY <1>4
<1>7. mDownloads' = MobileExpected(Wire')
  BY <1>5 DEF MobileInv, MobileWhole
<1>8. mSaved' # << >> => Whole(mSaved')
  BY DEF MobileInv, MobileWhole
<1> QED BY <1>6, <1>7, <1>8 DEF MobileWhole, Stream, Whole

(* The handlers of the messages that are not of a transfer.                *)
LEMMA MobileHandlesOthers ==
    ASSUME MobileInv,
           \/ Mobile!BadFrame \/ Mobile!onVideo \/ Mobile!onFileList
           \/ Mobile!onHello \/ Mobile!onFileDeleteResp
    PROVE  MobileInv'
<1>0. PeerGood /\ MobileGood /\ inbox \in Seq(Ask)
  BY DEF MobileInv, PeerGood
<1>1. CASE Mobile!BadFrame
  <2>1. /\ Mobile!Arrives("junk") /\ ws' = "closed"
        /\ UNCHANGED <<inbox, files, frame, mDownloads, mAnswered, mSaved>>
        /\ UNCHANGED <<status, mFirst>>
    BY <1>1 DEF Mobile!BadFrame, Mobile!Arrives
  <2>2. /\ Wire # << >> /\ Wire[1].type = "junk" /\ ws = "open"
        /\ PeerGood' /\ lossy' = lossy
    BY <2>1, <1>0, MobileArrives
  <2>3. MobileGood'
    BY <2>1, <2>2, <1>0, EntriesTyped DEF MobileGood
  <2>4. lossy
    <3>1. ASSUME ~lossy PROVE FALSE
      <4>1. Wire \in Seq(Sent) /\ Stream(Wire)
        BY <3>1, <1>0, WireTyped DEF MobileInv, MobileWhole
      <4>2. Sound(Wire[1])
        BY <4>1, <2>2, StreamGoesOn
      <4> QED BY <2>2, <4>2 DEF Sound
    <3> QED BY <3>1
  <2> QED BY <2>2, <2>3, <2>4 DEF MobileInv
<1>a. ASSUME NEW t \in {"video", "list", "hello", "deleted"},
             Mobile!Arrives(t), inbox' \in Seq(Ask),
             UNCHANGED <<ws, mDownloads, mAnswered, mSaved>>,
             files' \subseteq Names, frame' \in BOOLEAN
      PROVE  MobileInv'
  <2>1. /\ Wire # << >> /\ Wire[1].type = t /\ Wire' = Tail(Wire)
        /\ ws = "open" /\ lossy' = lossy /\ PeerGood'
    BY <1>a, <1>0, MobileArrives
  <2>2. UNCHANGED <<status, mFirst>>
    BY <1>a DEF Mobile!Arrives
  <2>3. MobileGood'
    BY <1>a, <2>2, <1>0, EntriesTyped DEF MobileGood
  <2>4. lossy' \/ MobileWhole'
    BY <1>a, <2>1, MobilePasses
  <2> QED BY <2>1, <2>3, <2>4 DEF MobileInv
<1>2. CASE Mobile!onVideo
  <2>1. /\ Mobile!Arrives("video") /\ frame' = TRUE
        /\ UNCHANGED <<inbox, ws, files, mDownloads, mAnswered, mSaved>>
    BY <1>2 DEF Mobile!onVideo
  <2>2. files' \subseteq Names
    BY <2>1, <1>0 DEF MobileGood
  <2> QED BY <2>1, <2>2, <1>0, <1>a
<1>3. CASE Mobile!onFileList
  <2>1. /\ Mobile!Arrives("list") /\ files' = Mobile!Arrived.names
        /\ UNCHANGED <<inbox, ws, frame, mDownloads, mAnswered, mSaved>>
    BY <1>3 DEF Mobile!onFileList
  <2>2. Mobile!Arrived \in Sent /\ Mobile!Arrived.type = "list"
    BY <2>1, <1>0, MobileArrives
  <2>3. \A m \in Sent : m.type = "list" => m.names \subseteq Names
    BY SMT DEF Sent, Message, Data, Listing, Deleted, Plain
  <2>4. files' \subseteq Names /\ frame' \in BOOLEAN
    BY <2>1, <2>2, <2>3, <1>0 DEF MobileGood
  <2> QED BY <2>1, <2>4, <1>0, <1>a
<1>4. CASE Mobile!onHello
  <2>1. /\ Mobile!Arrives("hello")
        /\ UNCHANGED <<inbox, ws, files, frame, mDownloads, mAnswered, mSaved>>
    BY <1>4 DEF Mobile!onHello
  <2>2. files' \subseteq Names /\ frame' \in BOOLEAN
    BY <2>1, <1>0 DEF MobileGood
  <2> QED BY <2>1, <2>2, <1>0, <1>a
<1>5. CASE Mobile!onFileDeleteResp
  <2>1. /\ Mobile!Arrives("deleted")
        /\ inbox' = inbox \/ inbox' = inbox \o <<Mobile!Req("list")>>
        /\ UNCHANGED <<ws, files, frame, mDownloads, mAnswered, mSaved>>
    BY <1>5 DEF Mobile!onFileDeleteResp, Mobile!send
  <2>2. files' \subseteq Names /\ frame' \in BOOLEAN
    BY <2>1, <1>0 DEF MobileGood
  <2>3. inbox' \in Seq(Ask)
    <3>1. Mobile!Req("list") \in Ask
      BY OpeningAsks
    <3> HIDE DEF Ask
    <3>2. <<Mobile!Req("list")>> \in Seq(Ask)
      BY <3>1, SMT
    <3>3. inbox \o <<Mobile!Req("list")>> \in Seq(Ask)
      BY <3>2, <1>0, Joined
    <3> QED BY <3>3, <2>1, <1>0
  <2> QED BY <2>1, <2>2, <2>3, <1>a
<1> QED BY <1>1, <1>2, <1>3, <1>4, <1>5

(* What a chunk leaves of an entry has the types of one, whatever the      *)
(* chunk and the entry are.                                                *)
LEMMA EntryTyped ==
    ASSUME NEW e, MobileEntry(e), NEW m \in Sent, m.type = "data"
    PROVE  LET d == Mobile!Entry(e, m)
           IN  /\ ~Mobile!Complete(d) => MobileEntry(d)
               /\ Mobile!InOrder(d) \in Seq((0..Len(Chunks)) \X Nat)
<1> DEFINE d == Mobile!Entry(e, m)
           V == 0..Len(Chunks)
<1>1. m.idx \in Nat /\ m.total \in Nat /\ m.version \in V
  BY DataFields
<1>2. /\ e.total \in Nat /\ DOMAIN e.parts \subseteq Nat
      /\ IsFiniteSet(DOMAIN e.parts)
      /\ \A i \in DOMAIN e.parts : e.parts[i] \in V
  BY DEF MobileEntry
<1>3. d = [total |-> IF e.total = 0 THEN m.total ELSE e.total,
           parts |-> IF m.idx \in DOMAIN e.parts THEN e.parts
                     ELSE [i \in DOMAIN e.parts \cup {m.idx} |->
                              IF i = m.idx THEN m.version ELSE e.parts[i]]]
  BY DEF Mobile!Entry
<1> HIDE DEF d, V
<1>4. /\ d.total \in Nat
      /\ d.parts = IF m.idx \in DOMAIN e.parts THEN e.parts
                   ELSE [i \in DOMAIN e.parts \cup {m.idx} |->
                            IF i = m.idx THEN m.version ELSE e.parts[i]]
  BY <1>1, <1>2, <1>3
<1>5. /\ DOMAIN d.parts = DOMAIN e.parts \cup {m.idx}
      /\ \A i \in DOMAIN d.parts : d.parts[i] \in V
  <2>1. CASE m.idx \in DOMAIN e.parts
    <3>1. DOMAIN e.parts \cup {m.idx} = DOMAIN e.parts
      BY <2>1
    <3> QED BY <2>1, <3>1, <1>2, <1>4
  <2>2. CASE m.idx \notin DOMAIN e.parts
    <3>1. d.parts = [i \in DOMAIN e.parts \cup {m.idx} |->
                        IF i = m.idx THEN m.version ELSE e.parts[i]]
      BY <2>2, <1>4
    <3> QED BY <3>1, <1>1, <1>2
  <2> QED BY <2>1, <2>2
<1>6. DOMAIN d.parts \subseteq Nat /\ IsFiniteSet(DOMAIN d.parts)
  <2>1. IsFiniteSet(DOMAIN e.parts \cup {m.idx})
    BY <1>2, FS_AddElement
  <2> QED BY <2>1, <1>1, <1>2, <1>5
<1>7. Mobile!InOrder(d) \in Seq(V \X Nat)
  BY <1>4, <1>5, <1>6, InOrderTyped
<1>8. ASSUME ~Mobile!Complete(d) PROVE Cardinality(DOMAIN d.parts) < d.total
  <2>1. ~(Cardinality(DOMAIN d.parts) >= d.total)
    BY <1>8, InOrderIs
  <2>2. Cardinality(DOMAIN d.parts) \in Nat
    BY <1>6, FS_CardinalityType
  <2> QED BY <2>1, <2>2, <1>4, SMT
<1> QED BY <1>4, <1>5, <1>6, <1>7, <1>8 DEF MobileEntry, d, V

(* The file that is not there, and a chunk.                                *)
LEMMA MobileHandlesData ==
    ASSUME MobileInv, Mobile!FileNotFound \/ Mobile!onFileData
    PROVE  MobileInv'
<1> DEFINE m == Mobile!Arrived
           e == mDownloads[m.name]
           d == Mobile!Entry(e, m)
<1>0. PeerGood /\ MobileGood /\ inbox \in Seq(Ask)
  BY DEF MobileInv, PeerGood
<1>1. /\ Mobile!Arrives("data") /\ inbox' = inbox
      /\ UNCHANGED <<ws, files, frame>>
  BY DEF Mobile!FileNotFound, Mobile!onFileData
<1>2. UNCHANGED <<status, mFirst>>
  BY <1>1 DEF Mobile!Arrives
<1>3. /\ Wire # << >> /\ Wire[1] = m /\ m \in Sent /\ m.type = "data"
      /\ Wire' = Tail(Wire) /\ ws = "open" /\ lossy' = lossy /\ PeerGood'
  BY <1>0, <1>1, MobileArrives
<1> HIDE DEF m
<1>4. m.name \in Names /\ m.idx \in Nat /\ m.total \in Nat
  BY <1>3, DataFields
<1>5. /\ mDownloads = [n \in Names |-> mDownloads[n]]
      /\ \A n \in Names : MobileEntry(mDownloads[n])
      /\ mAnswered \in Seq(Names)
      /\ mSaved \in Seq((0..Len(Chunks)) \X Nat)
      /\ Append(mAnswered, m.name) \in Seq(Names)
  <2>1. mAnswered \in Seq(Names)
    BY <1>0 DEF MobileGood
  <2>2. Append(mAnswered, m.name) \in Seq(Names)
    BY <2>1, <1>4, SMT
  <2> QED BY <2>1, <2>2, <1>0 DEF MobileGood
<1>6. ASSUME NEW x, MobileEntry(x), mDownloads' = [mDownloads EXCEPT ![m.name] = x],
             mAnswered' \in Seq(Names),
             mSaved' \in Seq((0..Len(Chunks)) \X Nat)
      PROVE  MobileGood'
  <2>1. /\ mDownloads' = [n \in Names |-> mDownloads'[n]]
        /\ \A n \in Names : MobileEntry(mDownloads'[n])
    <3> HIDE DEF MobileEntry
    <3>1. mDownloads' = [n \in Names |-> IF n = m.name THEN x ELSE mDownloads[n]]
      BY <1>4, <1>5, <1>6
    <3>2. /\ mDownloads' = [n \in Names |-> mDownloads'[n]]
          /\ \A n \in Names : mDownloads'[n] = IF n = m.name THEN x ELSE mDownloads[n]
      BY <3>1
    <3> QED BY <3>2, <1>5, <1>6
  <2>2. \A n \in Names : MobileEntry(mDownloads[n])'
    BY <2>1 DEF MobileEntry
  <2> QED BY <1>0, <1>1, <1>2, <1>6, <2>1, <2>2 DEF MobileGood
<1>b. \/ lossy
      \/ /\ Wire \in Seq(Sent) /\ Stream(Wire)
         /\ mDownloads = MobileExpected(Wire)
         /\ mSaved # << >> => Whole(mSaved)
  BY <1>0, <1>3, WireTyped DEF MobileInv, MobileWhole
<1>7. CASE Mobile!FileNotFound
  <2>1. /\ m.total = 0
        /\ mDownloads' = [mDownloads EXCEPT ![m.name] = Mobile!NoEntry]
        /\ mAnswered' = Append(mAnswered, m.name) /\ UNCHANGED mSaved
    BY <1>7 DEF Mobile!FileNotFound, m
  <2>2. MobileGood'
    BY <2>1, <1>5, <1>6, NoEntryTyped
  <2>3. ASSUME ~lossy PROVE MobileWhole'
    <3>1. mDownloads = MobileExpected(Wire) /\ Stream(Wire) /\ Wire \in Seq(Sent)
      BY <2>3, <1>b
    <3>2. m.idx = 0
      <4>1. Sound(m)
        BY <3>1, <1>3, StreamGoesOn
      <4> QED BY <4>1, <2>1, <1>3, <1>4, SMT DEF Sound
    <3>3. ~Pending(Wire, m.name)
      BY <3>2, <1>3, SMT DEF Pending, Cont
    <3>4. mDownloads[m.name] = Mobile!NoEntry
      <4> HIDE DEF Pending, Wire, MobilePartial
      <4> QED BY <3>1, <3>3, <1>4 DEF MobileExpected
    <3>5. mDownloads' = mDownloads
      BY <3>4, <2>1, <1>4, <1>5
    <3> QED BY <3>5, <2>1, <2>3, <1>3, MobilePasses
  <2> QED BY <2>2, <2>3, <1>3 DEF MobileInv
<1>8. CASE Mobile!onFileData
  <2>1. /\ m.total > 0
        /\ IF Mobile!Complete(d)
           THEN /\ mDownloads' = [mDownloads EXCEPT ![m.name] = Mobile!NoEntry]
                /\ mAnswered' = Append(mAnswered, m.name)
                /\ mSaved' = Mobile!InOrder(d)
           ELSE /\ mDownloads' = [mDownloads EXCEPT ![m.name] = d]
                /\ UNCHANGED <<mAnswered, mSaved>>
    BY <1>8 DEF Mobile!onFileData, m
  <2>2. /\ ~Mobile!Complete(d) => MobileEntry(d)
        /\ Mobile!InOrder(d) \in Seq((0..Len(Chunks)) \X Nat)
    <3>1. MobileEntry(e)
      BY <1>4, <1>5
    <3> HIDE DEF e
    <3> QED BY <3>1, <1>3, EntryTyped
  <2> HIDE DEF d
  <2>3. MobileGood'
    <3>1. CASE Mobile!Complete(d)
      BY <3>1, <2>1, <2>2, <1>5, <1>6, NoEntryTyped
    <3>2. CASE ~Mobile!Complete(d)
      BY <3>2, <2>1, <2>2, <1>5, <1>6
    <3> QED BY <3>1, <3>2
  <2>4. ASSUME ~lossy PROVE MobileWhole'
    <3>1. /\ mDownloads = MobileExpected(Wire) /\ Stream(Wire)
          /\ Wire \in Seq(Sent) /\ (mSaved # << >> => Whole(mSaved))
      BY <2>4, <1>b
    <3>2. IF Mobile!Complete(d)
          THEN /\ Whole(Mobile!InOrder(d))
               /\ MobileExpected(Tail(Wire)) =
                     [mDownloads EXCEPT ![m.name] = Mobile!NoEntry]
          ELSE MobileExpected(Tail(Wire)) = [mDownloads EXCEPT ![m.name] = d]
      BY <3>1, <2>1, <1>3, MobileChunk DEF d
    <3>3. Stream(Wire')
      BY <3>1, <1>3, StreamGoesOn
    <3>4. mDownloads' = MobileExpected(Wire')
      BY <3>2, <2>1, <1>3
    <3>5. mSaved' # << >> => Whole(mSaved')
      BY <3>1, <3>2, <2>1
    <3> QED BY <3>3, <3>4, <3>5 DEF MobileWhole, Stream, Whole
  <2> QED BY <2>3, <2>4, <1>3 DEF MobileInv
<1> QED BY <1>7, <1>8

(* Every step of the mobile client keeps the invariant.                     *)
LEMMA MobileKeeps ==
    ASSUME MobileInv, Mobile!Next PROVE MobileInv'
  BY SamePeer, MobilePeer, MobileConnects, MobileOther, MobileHandlesOthers,
     MobileHandlesData
     DEF Mobile!Next

-----------------------------------------------------------------------------
(* Either client.  The variables of the other one stay as they began.      *)

IInv ==
    /\ kind \in {"pc", "mobile"}
    /\ PeerGood /\ PcGood /\ MobileGood
    /\ kind = "pc" => (lossy \/ PcWhole) /\ mSaved = << >>
    /\ kind = "mobile" => (lossy \/ MobileWhole) /\ saved = << >>

(* The invariant holds initially.                                           *)
LEMMA InitInv == Init => IInv
<1> SUFFICES ASSUME Init PROVE IInv
  OBVIOUS
<1>1. /\ kind \in {"pc", "mobile"}
      /\ made \in 0..(IF Versions = {} THEN 0 ELSE 1) /\ store \in [Names -> 0..made]
      /\ auth = "no" /\ inbox = << >> /\ sending = << >> /\ outbox = << >>
      /\ cut = << >> /\ lossy = FALSE /\ asked = << >> /\ clicks = 0
  BY DEF Init, Pc!Init, Pc!PeerInit, Pc!Fresh, Pc!Versions, Versions
<1>2. /\ sock = "off" /\ tls = FALSE /\ pin = "none"
      /\ rx = << >> /\ off = 0 /\ loop = "idle"
      /\ downloads = [n \in Names |-> Pc!NoDownload]
      /\ connected = FALSE /\ list = {} /\ video = FALSE
      /\ first = "none" /\ answered = << >> /\ saved = << >>
  BY DEF Init, Pc!Init
<1>3. /\ ws = "null" /\ status = "disconnected" /\ files = {} /\ frame = FALSE
      /\ mDownloads = [n \in Names |-> Mobile!NoEntry]
      /\ mFirst = "none" /\ mAnswered = << >> /\ mSaved = << >>
  BY DEF Init, Mobile!Init
<1>4. /\ << >> \in Seq(Ask) /\ << >> \in Seq(Sent \cap Data) /\ << >> \in Seq(Sent)
      /\ << >> \in Seq(Names) /\ << >> \in Seq(Pc!Part)
      /\ << >> \in Seq((0..Len(Chunks)) \X Nat)
      /\ Len(<< >>) = 0 /\ 0 \in Nat /\ 0 <= 1 /\ 0 \in 0..0
      /\ << >> \o (<< >> \o << >>) = << >> /\ << >> \o << >> = << >>
      /\ SubSeq(<< >>, 0 + 1, Len(<< >>)) = << >>
  BY SMT
<1>5. made \in 0..Len(Chunks) /\ 0..made \subseteq 0..Len(Chunks)
  <2>1. Len(Chunks) \in Nat
    BY ChunksAssumption, SMT
  <2>2. Versions # {} => 1 <= Len(Chunks)
    BY <2>1, SMT DEF Versions
  <2>3. made \in Nat /\ made <= Len(Chunks)
    <3>1. CASE Versions = {}
      BY <3>1, <1>1, <2>1, SMT
    <3>2. CASE Versions # {}
      BY <3>2, <1>1, <2>1, <2>2, SMT
    <3> QED BY <3>1, <3>2
  <2> QED BY <2>1, <2>3, SMT
<1>6. PeerGood
  BY <1>1, <1>4, <1>5 DEF PeerGood
<1>7. Pc!NoDownload \in Download /\ PcEntry(Pc!NoDownload)
  BY SMT DEF Pc!NoDownload, Download, PcEntry
<1>8. PcGood
  <2>1. /\ downloads \in [Names -> Download]
        /\ \A n \in Names : PcEntry(downloads[n])
    BY <1>2, <1>7
  <2> QED BY <1>2, <1>4, <2>1 DEF PcGood
<1>9. MobileGood
  <2>1. /\ mDownloads = [n \in Names |-> mDownloads[n]]
        /\ \A n \in Names : MobileEntry(mDownloads[n])
    BY <1>3, NoEntryTyped
  <2> QED BY <1>3, <1>4, <2>1 DEF MobileGood
<1>10. Wire = << >> /\ PcPipe = << >>
  BY <1>1, <1>2, <1>4 DEF Wire, PcPipe, PcOpen, Handled
<1>11. \A n \in Names : ~Pending(<< >>, n)
  BY DEF Pending
<1> HIDE DEF Pending, PcPartial, MobilePartial, Wire, PcPipe
<1>12. PcWhole
  BY <1>2, <1>10, <1>11, EmptyStream DEF PcWhole, PcExpected
<1>13. MobileWhole
  BY <1>3, <1>10, <1>11, EmptyStream DEF MobileWhole, MobileExpected
<1> QED BY <1>1, <1>2, <1>3, <1>6, <1>8, <1>9, <1>12, <1>13 DEF IInv

(* Every step of either client keeps the invariant.                         *)
LEMMA NextInv == IInv /\ [Next]_vars => IInv'
<1> SUFFICES ASSUME IInv, [Next]_vars PROVE IInv'
  OBVIOUS
<1> USE DEF IInv
<1>a. ASSUME UNCHANGED <<ws, status, files, frame, mDownloads, mFirst, mAnswered,
                        mSaved>>
      PROVE  MobileGood'
  <2>1. MobileGood
    OBVIOUS
  <2> QED BY <1>a, <2>1, EntriesTyped DEF MobileGood
<1>b. ASSUME UNCHANGED <<sock, tls, pin, rx, off, loop, downloads, connected,
                        list, video, first, answered, saved>>
      PROVE  PcGood'
  <2>1. PcGood
    OBVIOUS
  <2>2. \A n \in Names : PcEntry(downloads[n])'
    BY <1>b, <2>1 DEF PcGood, PcEntry
  <2> QED BY <1>b, <2>1, <2>2 DEF PcGood
<1>1. CASE PcStep
  <2>1. /\ kind = "pc" /\ kind' = "pc" /\ Pc!Next
        /\ UNCHANGED <<ws, status, files, frame, mDownloads, mFirst, mAnswered,
                       mSaved>>
    BY <1>1 DEF PcStep, mobileVars
  <2>2. PcInv
    BY <2>1 DEF PcInv
  <2>3. PcInv'
    BY <2>1, <2>2, PcKeeps
  <2>4. MobileGood' /\ mSaved' = << >>
    BY <1>a, <2>1
  <2> QED BY <2>1, <2>3, <2>4 DEF PcInv
<1>2. CASE MobileStep
  <2>1. /\ kind = "mobile" /\ kind' = "mobile" /\ Mobile!Next
        /\ UNCHANGED <<sock, tls, pin, rx, off, loop, downloads, connected,
                       list, video, first, answered, saved>>
    BY <1>2 DEF MobileStep, pcVars
  <2>2. MobileInv
    BY <2>1 DEF MobileInv
  <2>3. MobileInv'
    BY <2>1, <2>2, MobileKeeps
  <2>4. PcGood' /\ saved' = << >>
    BY <1>b, <2>1
  <2> QED BY <2>1, <2>3, <2>4 DEF MobileInv
<1>3. CASE UNCHANGED vars
  <2>1. /\ UNCHANGED <<ws, status, files, frame, mDownloads, mFirst, mAnswered,
                       mSaved>>
        /\ UNCHANGED <<sock, tls, pin, rx, off, loop, downloads, connected,
                       list, video, first, answered, saved>>
        /\ UNCHANGED <<kind, store, made, auth, inbox, sending, outbox, cut,
                       lossy, asked, clicks>>
    BY <1>3 DEF vars, pcVars, mobileVars, peerVars, serverVars
  <2>2. PcGood' /\ MobileGood'
    BY <1>a, <1>b, <2>1
  <2>3. PeerGood'
    BY <2>1 DEF PeerGood
  <2>4. PcWhole => PcWhole'
    <3>1. PcOpen' = PcOpen /\ Wire' = Wire
      BY <2>1 DEF PcOpen, Handled, Wire
    <3>2. PcPipe' = PcPipe
      BY <3>1 DEF PcPipe
    <3> QED BY <2>1, <3>2 DEF PcWhole, PcExpected, Pending, Stream, Whole
  <2>5. MobileWhole => MobileWhole'
    BY <2>1 DEF MobileWhole, Wire, MobileExpected, Pending, Stream, Whole
  <2> QED BY <2>1, <2>2, <2>3, <2>4, <2>5
<1> QED BY <1>1, <1>2, <1>3 DEF Next

(* The inductive invariant.                                                 *)
LEMMA Invariant == Spec => []IInv
  BY InitInv, NextInv, PTL DEF Spec

(* The state of either client and of its connection has its types: in      *)
(* PcClient, an unfinished download has fewer chunks than it needs, and    *)
(* none of the messages read is handled twice or skipped; in MobileClient, *)
(* the store's status agrees with its socket.                              *)
THEOREM TypesHold == Spec => []TypeOK
<1>1. IInv => TypeOK
  BY PcGoodIsTyped, MobileGoodIsTyped DEF IInv, TypeOK
<1> QED BY <1>1, Invariant, PTL

(* HELLO is the first message of every connection of either client         *)
(* (TcpClient::sendHello, MainWindow::onConnected; terminal.ts, onopen).   *)
THEOREM HelloComesFirst == Spec => []HelloFirst
<1>1. IInv => HelloFirst
  BY PcGoodIsTyped, MobileGoodIsTyped DEF IInv, HelloFirst
<1> QED BY <1>1, Invariant, PTL

(* What either client offers for saving is one version of a file, whole,   *)
(* unless a write of the terminal's failed on the connection: however the  *)
(* captures change meanwhile, however the reads cut what comes and whatever *)
(* the user does (TcpClient::handleFileData; terminal.ts, onFileData;      *)
(* ClientSession::sendFile).                                               *)
THEOREM FilesAreWhole == Spec => []SavedIsWhole
<1>1. IInv => SavedIsWhole
  <2>1. \A s : (Pc!Whole(s) <=> Whole(s)) /\ (Mobile!Whole(s) <=> Whole(s))
    BY DEF Whole, Versions, Pc!Whole, Pc!Versions, Mobile!Whole, Mobile!Versions
  <2>2. ASSUME IInv PROVE Pc!SavedIsWhole /\ Mobile!SavedIsWhole
    <3>1. ~lossy => (saved # << >> => Whole(saved))
      BY <2>2 DEF IInv, PcWhole
    <3>2. ~lossy => (mSaved # << >> => Whole(mSaved))
      BY <2>2 DEF IInv, MobileWhole
    <3> QED BY <2>1, <3>1, <3>2 DEF Pc!SavedIsWhole, Mobile!SavedIsWhole
  <2> QED BY <2>2 DEF SavedIsWhole
<1> QED BY <1>1, Invariant, PTL

-----------------------------------------------------------------------------
(* The names in a sequence of messages or requests, in their order.        *)

(* A request for a file, and the message that ends the answer to one.      *)
Answers(m) == m.type = "get" \/ (m.type = "data" /\ ~Unfinished(m))

(* The names of the elements of s that answer a request, or are one, in    *)
(* their order.                                                            *)
Picks(f, s, m, t, n) ==
    /\ f \in [1..n -> 1..m]
    /\ \A j, k \in 1..n : j < k => f[j] < f[k]
    /\ \A i \in 1..m : Answers(s[i]) <=> \E k \in 1..n : f[k] = i
    /\ \A k \in 1..n : t[k] = s[f[k]].name
Lists(s, t) == \E f : Picks(f, s, Len(s), t, Len(t))

(* Elements that stand for no name.                                        *)
LEMMA ListsNone ==
    ASSUME NEW S, NEW s \in Seq(S), \A i \in 1..Len(s) : ~Answers(s[i])
    PROVE  Lists(s, << >>)
<1> DEFINE f == [k \in 1..Len(<< >>) |-> 1]
<1>1. \A k \in 1..Len(<< >>) : FALSE
  BY SMT
<1>2. f \in [1..Len(<< >>) -> 1..Len(s)]
  BY <1>1
<1> HIDE DEF f
<1> QED BY <1>1, <1>2 DEF Lists, Picks

(* The last element, and it alone, stands for a name.                      *)
LEMMA ListsLast ==
    ASSUME NEW S, NEW s \in Seq(S), s # << >>, Answers(s[Len(s)]),
           \A i \in 1..(Len(s) - 1) : ~Answers(s[i])
    PROVE  Lists(s, <<s[Len(s)].name>>)
<1> DEFINE f == [k \in 1..1 |-> Len(s)]
           t == <<s[Len(s)].name>>
<1>1. Len(t) = 1 /\ t[1] = s[Len(s)].name
  BY SMT
<1>2. Len(s) \in 1..Len(s) /\ Len(s) \in Nat
  BY SMT
<1>3. \A k \in 1..1 : k = 1
  BY SMT
<1>4. 1 \in 1..1 /\ ~(1 < 1)
  BY SMT
<1>5. \A i \in 1..Len(s) : i = Len(s) \/ i \in 1..(Len(s) - 1)
  BY <1>2, SMT
<1>6. f \in [1..1 -> 1..Len(s)] /\ f[1] = Len(s)
  BY <1>2, <1>4
<1> HIDE DEF f, t
<1>7. \A i \in 1..Len(s) : Answers(s[i]) <=> \E k \in 1..1 : f[k] = i
  BY <1>3, <1>4, <1>5, <1>6
<1>8. \A j, k \in 1..1 : j < k => f[j] < f[k]
  BY <1>3, <1>4
<1>9. \A k \in 1..1 : t[k] = s[f[k]].name
  BY <1>1, <1>3, <1>6
<1>10. Lists(s, t)
  BY <1>1, <1>6, <1>7, <1>8, <1>9 DEF Lists, Picks
<1> QED BY <1>10 DEF t

(* Nothing stands for no names.                                            *)
LEMMA ListsEmpty ==
    ASSUME NEW S, NEW t \in Seq(S), Lists(<< >>, t) PROVE t = << >>
<1>1. PICK f : f \in [1..Len(t) -> 1..Len(<< >>)]
  BY DEF Lists, Picks
<1>2. \A i \in 1..Len(<< >>) : FALSE
  BY SMT
<1>3. \A k \in 1..Len(t) : FALSE
  BY <1>1, <1>2
<1> QED BY <1>3, SMT

(* The names of two sequences that are joined.                             *)
LEMMA ListsJoin ==
    ASSUME NEW S, NEW T, NEW s \in Seq(S), NEW u \in Seq(S),
           NEW t \in Seq(T), NEW v \in Seq(T), Lists(s, t), Lists(u, v)
    PROVE  Lists(s \o u, t \o v)
<1> DEFINE m == Len(s)
           n == Len(t)
           mm == Len(u)
           nn == Len(v)
           su == s \o u
           tv == t \o v
<1>0. m \in Nat /\ mm \in Nat
  BY SMT
<1>1. /\ m \in Nat /\ mm \in Nat /\ Len(su) = m + mm
      /\ \A i \in 1..m : su[i] = s[i]
      /\ \A i \in (m + 1)..(m + mm) : su[i] = u[i - m]
  BY Joined, SMT
<1>2. /\ n \in Nat /\ nn \in Nat /\ Len(tv) = n + nn
      /\ \A i \in 1..n : tv[i] = t[i]
      /\ \A i \in (n + 1)..(n + nn) : tv[i] = v[i - n]
  BY Joined, SMT
<1>3. PICK f :
         /\ f \in [1..n -> 1..m]
         /\ \A j, k \in 1..n : j < k => f[j] < f[k]
         /\ \A i \in 1..m : Answers(s[i]) <=> \E k \in 1..n : f[k] = i
         /\ \A k \in 1..n : t[k] = s[f[k]].name
  BY DEF Lists, Picks
<1>4. PICK g :
         /\ g \in [1..nn -> 1..mm]
         /\ \A j, k \in 1..nn : j < k => g[j] < g[k]
         /\ \A i \in 1..mm : Answers(u[i]) <=> \E k \in 1..nn : g[k] = i
         /\ \A k \in 1..nn : v[k] = u[g[k]].name
  BY DEF Lists, Picks
<1> HIDE DEF m, n, mm, nn, su, tv
<1> DEFINE h == [k \in 1..(n + nn) |-> IF k <= n THEN f[k] ELSE m + g[k - n]]
<1>5. ASSUME NEW k \in 1..(n + nn)
      PROVE  \/ k \in 1..n /\ h[k] = f[k] /\ h[k] \in 1..m
             \/ /\ k > n /\ k - n \in 1..nn /\ k \in (n + 1)..(n + nn)
                /\ h[k] = m + g[k - n] /\ h[k] \in (m + 1)..(m + mm)
                /\ h[k] - m = g[k - n] /\ g[k - n] \in 1..mm
  <2>1. CASE k <= n
    <3>1. k \in 1..n
      BY <2>1, <1>2, SMT
    <3> QED BY <3>1, <2>1, <1>3
  <2>2. CASE ~(k <= n)
    <3>1. k > n /\ k - n \in 1..nn /\ k \in (n + 1)..(n + nn)
      BY <2>2, <1>2, SMT
    <3>2. g[k - n] \in 1..mm
      BY <3>1, <1>4
    <3>3. h[k] = m + g[k - n]
      BY <2>2
    <3> HIDE DEF h
    <3>4. h[k] \in (m + 1)..(m + mm) /\ h[k] - m = g[k - n]
      BY <3>2, <3>3, <1>1, SMT
    <3> QED BY <3>1, <3>2, <3>3, <3>4
  <2> QED BY <2>1, <2>2
<1>6. DOMAIN h = 1..(n + nn) /\ h = [k \in 1..(n + nn) |-> h[k]]
  OBVIOUS
<1> HIDE DEF h
<1>7. h \in [1..(n + nn) -> 1..(m + mm)]
  <2>1. \A x : x \in 1..m \/ x \in (m + 1)..(m + mm) => x \in 1..(m + mm)
    BY <1>1, SMT
  <2>2. \A k \in 1..(n + nn) : h[k] \in 1..(m + mm)
    BY <1>5, <2>1
  <2> QED BY <1>6, <2>2
<1>8. ASSUME NEW j \in 1..(n + nn), NEW k \in 1..(n + nn), j < k
      PROVE  h[j] < h[k]
  <2>1. CASE k \in 1..n
    <3>1. j \in 1..n /\ ~(j > n) /\ ~(k > n)
      BY <2>1, <1>2, <1>8, SMT
    <3>2. h[j] = f[j] /\ h[k] = f[k]
      BY <3>1, <1>5
    <3> QED BY <2>1, <3>1, <3>2, <1>3, <1>8
  <2>2. CASE k \notin 1..n
    <3>1. /\ k - n \in 1..nn /\ h[k] = m + g[k - n]
          /\ h[k] \in (m + 1)..(m + mm)
          /\ g[k - n] \in 1..mm
      BY <2>2, <1>5
    <3>2. CASE j \in 1..n /\ h[j] \in 1..m
      BY <3>1, <3>2, <1>0, SMT
    <3>3. CASE /\ j > n /\ j - n \in 1..nn
               /\ h[j] = m + g[j - n] /\ g[j - n] \in 1..mm
      <4>1. j - n < k - n
        BY <1>2, <1>8, SMT
      <4>2. g[j - n] < g[k - n]
        BY <4>1, <3>1, <3>3, <1>4
      <4>3. \A a, b \in 1..mm : a < b => m + a < m + b
        BY <1>0, SMT
      <4> QED BY <4>2, <4>3, <3>1, <3>3, Zenon
    <3> QED BY <3>2, <3>3, <1>5
  <2> QED BY <2>1, <2>2
<1>9. ASSUME NEW i \in 1..(m + mm)
      PROVE  Answers(su[i]) <=> \E k \in 1..(n + nn) : h[k] = i
  <2>1. CASE i <= m
    <3>1. i \in 1..m /\ su[i] = s[i] /\ ~(i \in (m + 1)..(m + mm))
      BY <2>1, <1>1, SMT
    <3>2. ASSUME NEW k \in 1..n, f[k] = i PROVE \E x \in 1..(n + nn) : h[x] = i
      <4>1. k \in 1..(n + nn) /\ ~(k > n)
        BY <1>2, SMT
      <4> QED BY <4>1, <3>2, <1>5
    <3>3. ASSUME NEW k \in 1..(n + nn), h[k] = i
          PROVE  \E x \in 1..n : f[x] = i
      BY <3>1, <3>3, <1>5
    <3> QED BY <3>1, <3>2, <3>3, <1>3
  <2>2. CASE ~(i <= m)
    <3>1. /\ i - m \in 1..mm /\ i \in (m + 1)..(m + mm) /\ ~(i \in 1..m)
          /\ m + (i - m) = i
      BY <2>2, <1>1, SMT
    <3>2. su[i] = u[i - m]
      BY <3>1, <1>1
    <3>3. ASSUME NEW k \in 1..nn, g[k] = i - m
          PROVE  \E x \in 1..(n + nn) : h[x] = i
      <4>1. n + k \in 1..(n + nn) /\ ~(n + k \in 1..n) /\ (n + k) - n = k
        BY <1>2, SMT
      <4> QED BY <4>1, <3>1, <3>3, <1>5
    <3>4. ASSUME NEW k \in 1..(n + nn), h[k] = i
          PROVE  \E x \in 1..nn : g[x] = i - m
      BY <3>1, <3>4, <1>5
    <3> QED BY <3>1, <3>2, <3>3, <3>4, <1>4
  <2> QED BY <2>1, <2>2
<1>10. ASSUME NEW k \in 1..(n + nn) PROVE tv[k] = su[h[k]].name
  <2>1. CASE k \in 1..n /\ h[k] = f[k] /\ h[k] \in 1..m
    <3>1. tv[k] = t[k] /\ su[h[k]] = s[f[k]]
      BY <2>1, <1>1, <1>2
    <3> QED BY <2>1, <3>1, <1>3
  <2>2. CASE /\ k > n /\ k - n \in 1..nn /\ k \in (n + 1)..(n + nn)
             /\ h[k] \in (m + 1)..(m + mm) /\ h[k] - m = g[k - n]
    <3>1. tv[k] = v[k - n] /\ su[h[k]] = u[g[k - n]]
      BY <2>2, <1>1, <1>2
    <3> QED BY <2>2, <3>1, <1>4
  <2> QED BY <2>1, <2>2, <1>5
<1>11. m + mm = Len(su) /\ n + nn = Len(tv)
  BY <1>1, <1>2
<1>12. Picks(h, su, m + mm, tv, n + nn)
  BY <1>7, <1>8, <1>9, <1>10 DEF Picks
<1>13. Lists(su, tv)
  BY <1>11, <1>12 DEF Lists
<1> QED BY <1>13 DEF su, tv

(* The names without the first element.                                    *)
LEMMA ListsTail ==
    ASSUME NEW S, NEW T, NEW s \in Seq(S), NEW t \in Seq(T), s # << >>,
           Lists(s, t)
    PROVE  IF Answers(s[1])
           THEN t # << >> /\ t[1] = s[1].name /\ Lists(Tail(s), Tail(t))
           ELSE Lists(Tail(s), t)
<1> DEFINE m == Len(s)
           n == Len(t)
           r == Tail(s)
           w == Tail(t)
<1>1. /\ m \in Nat /\ m >= 1 /\ Len(r) = m - 1
      /\ \A i \in 1..(m - 1) : r[i] = s[i + 1]
  BY Behead, SMT
<1>2. n \in Nat /\ (n = 0 <=> t = << >>)
  BY SMT
<1>3. t # << >> => /\ Len(w) = n - 1
                   /\ \A i \in 1..(n - 1) : w[i] = t[i + 1]
  BY Behead, SMT
<1>4. PICK f :
         /\ f \in [1..n -> 1..m]
         /\ \A j, k \in 1..n : j < k => f[j] < f[k]
         /\ \A i \in 1..m : Answers(s[i]) <=> \E k \in 1..n : f[k] = i
         /\ \A k \in 1..n : t[k] = s[f[k]].name
  BY DEF Lists, Picks
<1> HIDE DEF m, n, r, w
<1>5. 1 \in 1..m
  BY <1>1, SMT
<1>6. CASE Answers(s[1])
  <2>1. PICK k1 \in 1..n : f[k1] = 1
    BY <1>4, <1>5, <1>6
  <2>2. 1 \in 1..n /\ n >= 1 /\ t # << >>
    BY <2>1, <1>2, SMT
  <2>3. f[1] = 1
    <3>1. CASE k1 = 1
      BY <3>1, <2>1
    <3>2. CASE k1 # 1
      <4>1. 1 < k1
        BY <3>2, <1>2, SMT
      <4>2. f[1] < 1 /\ f[1] \in 1..m
        BY <4>1, <2>1, <2>2, <1>4
      <4> QED BY <4>2, <1>1, SMT
    <3> QED BY <3>1, <3>2
  <2>4. t[1] = s[1].name
    BY <2>2, <2>3, <1>4
  <2> DEFINE h == [k \in 1..(n - 1) |-> f[k + 1] - 1]
  <2>5. ASSUME NEW k \in 1..(n - 1)
        PROVE  /\ k + 1 \in 1..n /\ h[k] = f[k + 1] - 1
               /\ f[k + 1] \in 1..m /\ h[k] \in 1..(m - 1)
               /\ h[k] + 1 = f[k + 1]
    <3>1. k + 1 \in 1..n /\ 1 < k + 1
      BY <1>2, SMT
    <3>2. f[1] < f[k + 1] /\ f[k + 1] \in 1..m
      BY <3>1, <2>2, <1>4
    <3>3. h[k] = f[k + 1] - 1
      OBVIOUS
    <3> HIDE DEF h
    <3>4. \A x \in 1..m : 1 < x => x - 1 \in 1..(m - 1) /\ (x - 1) + 1 = x
      <4>1. m \in Nat
        BY <1>1
      <4> QED BY <4>1, SMT
    <3>5. h[k] \in 1..(m - 1) /\ h[k] + 1 = f[k + 1]
      BY <3>2, <3>3, <3>4, <2>3
    <3> QED BY <3>1, <3>2, <3>3, <3>5
  <2>6. h = [k \in 1..(n - 1) |-> h[k]]
    OBVIOUS
  <2> HIDE DEF h
  <2>7. h \in [1..(n - 1) -> 1..(m - 1)]
    BY <2>5, <2>6
  <2>8. ASSUME NEW j \in 1..(n - 1), NEW k \in 1..(n - 1), j < k
        PROVE  h[j] < h[k]
    <3>1. j + 1 < k + 1
      BY <2>8, <1>2, SMT
    <3>2. f[j + 1] < f[k + 1] /\ f[j + 1] \in 1..m /\ f[k + 1] \in 1..m
      BY <3>1, <2>5, <1>4
    <3>3. h[j] = f[j + 1] - 1 /\ h[k] = f[k + 1] - 1
      BY <2>5
    <3> QED BY <3>2, <3>3, <1>1, SMT
  <2>9. ASSUME NEW i \in 1..(m - 1)
        PROVE  Answers(r[i]) <=> \E k \in 1..(n - 1) : h[k] = i
    <3>1. i + 1 \in 1..m /\ i + 1 # 1 /\ (i + 1) - 1 = i /\ r[i] = s[i + 1]
      BY <1>1, SMT
    <3>2. ASSUME NEW k \in 1..n, f[k] = i + 1
          PROVE  \E x \in 1..(n - 1) : h[x] = i
      <4>1. k # 1
        BY <3>1, <3>2, <2>3
      <4>2. k - 1 \in 1..(n - 1) /\ (k - 1) + 1 = k
        BY <4>1, <1>2, SMT
      <4>3. h[k - 1] = i
        BY <4>2, <3>1, <3>2, <2>5
      <4> QED BY <4>2, <4>3
    <3>3. ASSUME NEW k \in 1..(n - 1), h[k] = i
          PROVE  \E x \in 1..n : f[x] = i + 1
      BY <3>3, <2>5
    <3> QED BY <3>1, <3>2, <3>3, <1>4
  <2>10. ASSUME NEW k \in 1..(n - 1) PROVE w[k] = r[h[k]].name
    <3>1. w[k] = t[k + 1]
      BY <2>2, <1>3
    <3>2. r[h[k]] = s[h[k] + 1]
      BY <2>5, <1>1
    <3>3. t[k + 1] = s[f[k + 1]].name
      BY <2>5, <1>4
    <3> QED BY <3>1, <3>2, <3>3, <2>5
  <2>11. m - 1 = Len(r) /\ n - 1 = Len(w)
    BY <2>2, <1>1, <1>3
  <2>12. Picks(h, r, m - 1, w, n - 1)
    BY <2>7, <2>8, <2>9, <2>10 DEF Picks
  <2>13. Lists(r, w)
    BY <2>11, <2>12 DEF Lists
  <2> QED BY <1>6, <2>2, <2>4, <2>13 DEF r, w
<1>7. CASE ~Answers(s[1])
  <2>1. \A k \in 1..n : f[k] # 1
    BY <1>4, <1>5, <1>7
  <2> DEFINE h == [k \in 1..n |-> f[k] - 1]
  <2>2. ASSUME NEW k \in 1..n
        PROVE  /\ h[k] = f[k] - 1 /\ f[k] \in 1..m
               /\ h[k] \in 1..(m - 1) /\ h[k] + 1 = f[k]
    <3>1. f[k] \in 1..m /\ f[k] # 1
      BY <2>1, <1>4
    <3>2. h[k] = f[k] - 1
      OBVIOUS
    <3> HIDE DEF h
    <3>3. h[k] \in 1..(m - 1) /\ h[k] + 1 = f[k]
      BY <3>1, <3>2, <1>1, SMT
    <3> QED BY <3>1, <3>2, <3>3
  <2>3. h = [k \in 1..n |-> h[k]]
    OBVIOUS
  <2> HIDE DEF h
  <2>4. h \in [1..n -> 1..(m - 1)]
    BY <2>2, <2>3
  <2>5. ASSUME NEW j \in 1..n, NEW k \in 1..n, j < k PROVE h[j] < h[k]
    <3>1. f[j] < f[k] /\ f[j] \in 1..m /\ f[k] \in 1..m
      BY <2>5, <1>4
    <3>2. h[j] = f[j] - 1 /\ h[k] = f[k] - 1
      BY <2>2
    <3> QED BY <3>1, <3>2, <1>1, SMT
  <2>6. ASSUME NEW i \in 1..(m - 1)
        PROVE  Answers(r[i]) <=> \E k \in 1..n : h[k] = i
    <3>1. i + 1 \in 1..m /\ (i + 1) - 1 = i /\ r[i] = s[i + 1]
      BY <1>1, SMT
    <3>2. ASSUME NEW k \in 1..n PROVE h[k] = i <=> f[k] = i + 1
      BY <3>1, <2>2
    <3> QED BY <3>1, <3>2, <1>4
  <2>7. ASSUME NEW k \in 1..n PROVE t[k] = r[h[k]].name
    <3>1. r[h[k]] = s[h[k] + 1]
      BY <2>2, <1>1
    <3> QED BY <3>1, <2>2, <1>4
  <2>8. Picks(h, r, m - 1, t, n)
    BY <2>4, <2>5, <2>6, <2>7 DEF Picks
  <2>9. m - 1 = Len(r) /\ n = Len(t)
    BY <1>1 DEF n
  <2>10. Lists(r, t)
    BY <2>8, <2>9 DEF Lists
  <2> QED BY <1>7, <2>10 DEF r
<1> QED BY <1>6, <1>7

-----------------------------------------------------------------------------
(* The order of the answers.                                               *)

(* What the client has been answered so far (A), the files whose answers   *)
(* are on their way (P) and those whose requests are (I) are together the  *)
(* files it has asked for (R).                                             *)
Orders(P, I, A, R) ==
    \E u, w \in Seq(Names) : Lists(P, u) /\ Lists(I, w) /\ R = A \o (u \o w)

(* A message that answers no request for a file.                           *)
LEMMA AnswersNone ==
    ASSUME NEW S, NEW m \in S, ~Answers(m)
    PROVE  <<m>> \in Seq(S) /\ Lists(<<m>>, << >>)
<1> HIDE DEF Answers
<1>1. <<m>> \in Seq(S) /\ Len(<<m>>) = 1 /\ <<m>>[1] = m
  BY SMT
<1>2. \A i \in 1..1 : i = 1
  BY SMT
<1>3. \A i \in 1..Len(<<m>>) : ~Answers(<<m>>[i])
  BY <1>1, <1>2
<1> QED BY <1>1, <1>3, ListsNone

(* A message or a request that stands for a file.                          *)
LEMMA AnswersOne ==
    ASSUME NEW S, NEW m \in S, Answers(m)
    PROVE  <<m>> \in Seq(S) /\ Lists(<<m>>, <<m.name>>)
<1> HIDE DEF Answers
<1>1. <<m>> \in Seq(S) /\ Len(<<m>>) = 1 /\ <<m>>[1] = m /\ <<m>> # << >>
  BY SMT
<1>2. \A i \in 1..(1 - 1) : FALSE
  BY SMT
<1>3. Answers(<<m>>[Len(<<m>>)]) /\ <<m>>[Len(<<m>>)] = m
  BY <1>1
<1>4. \A i \in 1..(Len(<<m>>) - 1) : ~Answers(<<m>>[i])
  BY <1>1, <1>2
<1>5. Lists(<<m>>, <<<<m>>[Len(<<m>>)].name>>)
  BY <1>1, <1>3, <1>4, ListsLast
<1> QED BY <1>1, <1>3, <1>5

(* A request stands for a file if it is one for a file.                    *)
LEMMA AskAnswers ==
    ASSUME NEW r \in Ask
    PROVE  Answers(r) <=> r.type = "get"
  BY SMT DEF Ask, Request, Answers

(* What the requests I ask for is x and then what the requests J ask for.  *)
Shifts(I, J, x) ==
    \A w \in Seq(Names) : Lists(I, w) =>
        \E z \in Seq(Names) : Lists(J, z) /\ w = x \o z

(* The messages of the first part are answered, and the requests of the    *)
(* second, when the session takes a request and sends its answer.          *)
LEMMA OrdersServed ==
    ASSUME NEW P \in Seq(Sent), NEW X \in Seq(Sent), NEW x \in Seq(Names),
           NEW I, NEW J, NEW A \in Seq(Names), NEW R,
           Orders(P, I, A, R), Lists(X, x), Shifts(I, J, x)
    PROVE  Orders(P \o X, J, A, R)
<1>1. PICK u \in Seq(Names), w \in Seq(Names) :
         Lists(P, u) /\ Lists(I, w) /\ R = A \o (u \o w)
  BY DEF Orders
<1>2. PICK z \in Seq(Names) : Lists(J, z) /\ w = x \o z
  BY <1>1 DEF Shifts
<1>3. Lists(P \o X, u \o x) /\ u \o x \in Seq(Names)
  BY <1>1, ListsJoin, Joined
<1>4. (u \o x) \o z = u \o (x \o z)
  <2>1. Associates(u, x, z)
    BY NamesAssociative
  <2> QED BY <2>1 DEF Associates
<1>5. R = A \o ((u \o x) \o z)
  BY <1>1, <1>2, <1>4
<1> QED BY <1>2, <1>3, <1>5 DEF Orders

(* The client takes the first message.                                     *)
LEMMA OrdersHandled ==
    ASSUME NEW P \in Seq(Sent), P # << >>, NEW I, NEW A \in Seq(Names), NEW R,
           Orders(P, I, A, R)
    PROVE  Orders(Tail(P), I, IF Answers(P[1]) THEN Append(A, P[1].name)
                                               ELSE A, R)
<1> HIDE DEF Answers
<1>1. PICK u \in Seq(Names), w \in Seq(Names) :
         Lists(P, u) /\ Lists(I, w) /\ R = A \o (u \o w)
  BY DEF Orders
<1>2. IF Answers(P[1])
      THEN u # << >> /\ u[1] = P[1].name /\ Lists(Tail(P), Tail(u))
      ELSE Lists(Tail(P), u)
  BY <1>1, ListsTail
<1>3. CASE Answers(P[1])
  <2>1. Head(u) = u[1] /\ u[1] \in Names /\ Tail(u) \in Seq(Names)
    BY <1>2, <1>3, Behead
  <2>2. Tail(u) \o w \in Seq(Names) /\ u \o w \in Seq(Names)
    BY <2>1, Joined
  <2>3. Tail(u \o w) = Tail(u) \o w /\ u \o w # << >> /\ (u \o w)[1] = u[1]
    BY <1>2, <1>3, TailOfJoined
  <2>4. Head(u \o w) = u[1]
    BY <2>2, <2>3, Behead
  <2>5. Append(A, Head(u \o w)) \o Tail(u \o w) = A \o (u \o w)
    <3> DEFINE v == u \o w
    <3>1. v \in Seq(Names) /\ v # << >>
      BY <2>2, <2>3
    <3> HIDE DEF v
    <3>2. Append(A, Head(v)) \o Tail(v) = A \o v
      BY <3>1, Moved
    <3> QED BY <3>2 DEF v
  <2>6. R = Append(A, P[1].name) \o (Tail(u) \o w)
    BY <1>1, <1>2, <1>3, <2>3, <2>4, <2>5
  <2> QED BY <1>1, <1>2, <1>3, <2>1, <2>6 DEF Orders
<1>4. CASE ~Answers(P[1])
  BY <1>1, <1>2, <1>4 DEF Orders
<1> QED BY <1>3, <1>4

(* The client asks for a file.                                             *)
LEMMA OrdersAsked ==
    ASSUME NEW P, NEW I \in Seq(Ask), NEW A \in Seq(Names),
           NEW R \in Seq(Names), NEW r \in Ask, r.type = "get",
           Orders(P, I, A, R)
    PROVE  Orders(P, I \o <<r>>, A, Append(R, r.name))
<1>1. PICK u \in Seq(Names), w \in Seq(Names) :
         Lists(P, u) /\ Lists(I, w) /\ R = A \o (u \o w)
  BY DEF Orders
<1>2. r.name \in Names /\ Answers(r)
  BY AskAnswers DEF Ask
<1> DEFINE n == r.name
<1> HIDE DEF n
<1>3. n \in Names
  BY <1>2 DEF n
<1>4. <<r>> \in Seq(Ask) /\ Lists(<<r>>, <<n>>)
  BY <1>2, AnswersOne DEF n
<1>5. /\ <<n>> \in Seq(Names) /\ w \o <<n>> \in Seq(Names)
      /\ u \o w \in Seq(Names)
  <2>1. <<n>> \in Seq(Names)
    BY <1>3, SMT
  <2> QED BY <2>1, Joined
<1>6. Lists(I \o <<r>>, w \o <<n>>)
  BY <1>1, <1>4, <1>5, ListsJoin
<1>7. Append(R, n) = A \o (u \o (w \o <<n>>))
  <2>1. Append(R, n) = R \o <<n>>
    BY <1>3, SMT
  <2> DEFINE x == <<n>>
             v == u \o w
  <2>2. x \in Seq(Names) /\ v \in Seq(Names)
    BY <1>5
  <2>3. R = A \o v
    BY <1>1
  <2> HIDE DEF x, v
  <2>4. (A \o v) \o x = A \o (v \o x)
    <3>1. Associates(A, v, x)
      BY <2>2, NamesAssociative
    <3> QED BY <3>1 DEF Associates
  <2>5. v \o x = u \o (w \o x)
    <3>1. Associates(u, w, x)
      BY <2>2, NamesAssociative
    <3> QED BY <3>1 DEF Associates, v
  <2> QED BY <2>1, <2>3, <2>4, <2>5 DEF x
<1> QED BY <1>1, <1>5, <1>6, <1>7 DEF Orders, n

(* The client asks for something else.                                     *)
LEMMA OrdersOther ==
    ASSUME NEW P, NEW I \in Seq(Ask), NEW A, NEW R, NEW q \in Seq(Ask),
           Lists(q, << >>), Orders(P, I, A, R)
    PROVE  Orders(P, I \o q, A, R)
<1>1. PICK u \in Seq(Names), w \in Seq(Names) :
         Lists(P, u) /\ Lists(I, w) /\ R = A \o (u \o w)
  BY DEF Orders
<1>2. << >> \in Seq(Names) /\ w \o << >> = w
  BY SMT
<1>3. Lists(I \o q, w \o << >>)
  BY <1>1, <1>2, ListsJoin
<1> QED BY <1>1, <1>2, <1>3 DEF Orders

(* A connection begins with a greeting on its way, and nothing asked.      *)
LEMMA OrdersFresh ==
    ASSUME NEW P \in Seq(Sent), Lists(P, << >>)
    PROVE  Orders(P, << >>, << >>, << >>)
<1>1. /\ << >> \in Seq(Names) /\ << >> \in Seq(Ask)
      /\ << >> \o (<< >> \o << >>) = << >>
  BY SMT
<1>2. \A i \in 1..Len(<< >>) : FALSE
  BY SMT
<1>3. Lists(<< >>, << >>)
  BY <1>1, <1>2, ListsNone
<1> QED BY <1>1, <1>3 DEF Orders

(* What has been answered is the first part of what was asked for, and all *)
(* of it when nothing is on its way.                                       *)
LEMMA OrdersPrefix ==
    ASSUME NEW P, NEW I, NEW A \in Seq(Names), NEW R, Orders(P, I, A, R)
    PROVE  /\ Len(A) <= Len(R) /\ A = SubSeq(R, 1, Len(A))
           /\ P = << >> /\ I = << >> => A = R
<1>1. PICK u \in Seq(Names), w \in Seq(Names) :
         Lists(P, u) /\ Lists(I, w) /\ R = A \o (u \o w)
  BY DEF Orders
<1> DEFINE v == u \o w
<1>2. v \in Seq(Names)
  BY Joined
<1>3. R = A \o v
  BY <1>1
<1>4. ASSUME P = << >>, I = << >> PROVE A = R
  <2>1. u = << >> /\ w = << >>
    BY <1>1, <1>4, ListsEmpty
  <2>2. A \o (<< >> \o << >>) = A
    BY SMT
  <2> QED BY <1>1, <2>1, <2>2
<1> HIDE DEF v
<1>5. R \in Seq(Names) /\ Len(R) = Len(A) + Len(v)
  BY <1>2, <1>3, Joined
<1>6. /\ Len(A) \in 0..Len(R)
      /\ SubSeq(R, 1, Len(A)) \in Seq(Names)
      /\ Len(SubSeq(R, 1, Len(A))) = Len(A)
      /\ \A i \in 1..Len(A) : SubSeq(R, 1, Len(A))[i] = R[i]
  <2>1. Len(A) \in Nat /\ Len(v) \in Nat
    BY <1>2, SMT
  <2>2. Len(A) \in 0..Len(R)
    BY <1>5, <2>1, SMT
  <2> DEFINE k == Len(A)
  <2> HIDE DEF k
  <2>3. ASSUME k \in 0..Len(R)
        PROVE  /\ SubSeq(R, 1, k) \in Seq(Names) /\ Len(SubSeq(R, 1, k)) = k
               /\ \A i \in 1..k : SubSeq(R, 1, k)[i] = R[i]
    BY <1>5, <2>3, SMT
  <2> QED BY <2>2, <2>3 DEF k
<1>7. \A i \in 1..Len(A) : R[i] = A[i]
  BY <1>2, <1>3, Joined
<1>8. A = SubSeq(R, 1, Len(A))
  BY <1>6, <1>7, SameElements
<1>9. Len(A) <= Len(R)
  BY <1>6, SMT
<1> QED BY <1>4, <1>8, <1>9

(* What sendFile() sends of a file answers one request for it.             *)
LEMMA FileAnswers ==
    ASSUME NEW n \in Names, store \in [Names -> 0..Len(Chunks)]
    PROVE  Lists(FileData(n), <<n>>)
<1> DEFINE v == store[n]
           total == IF v = 0 THEN 0 ELSE Chunks[v]
           chunk(i) == [type |-> "data", name |-> n, idx |-> i,
                        total |-> total, version |-> v]
           F == FileData(n)
<1>1. v \in 0..Len(Chunks) /\ total \in Nat
  BY ChunksAssumption, SMT DEF Versions
<1>2. F = IF total = 0 THEN <<chunk(0)>> ELSE [i \in 1..total |-> chunk(i - 1)]
  BY DEF FileData
<1>3. F \in Seq(Sent)
  <2>1. F \in Seq(Sent \cap Data)
    BY FileIsStream
  <2> HIDE DEF F
  <2> QED BY <2>1, SeqSubset
<1> HIDE DEF v, total, F
<1>4. ASSUME NEW i \in Nat
      PROVE  Answers(chunk(i)) <=> ~(i + 1 < total)
  BY SMT DEF Answers, Unfinished
<1>5. \A i : chunk(i).name = n
  OBVIOUS
<1> HIDE DEF chunk, Answers
<1>6. /\ F # << >> /\ Len(F) \in Nat /\ F[Len(F)].name = n
      /\ Answers(F[Len(F)])
      /\ \A i \in 1..(Len(F) - 1) : ~Answers(F[i])
  <2>1. CASE total = 0
    <3>1. F = <<chunk(0)>> /\ Answers(chunk(0))
      BY <2>1, <1>2, <1>4, SMT
    <3>2. Len(F) = 1 /\ F[1] = chunk(0) /\ F # << >>
      BY <3>1, SMT
    <3>3. \A i \in 1..(1 - 1) : FALSE
      BY SMT
    <3> QED BY <3>1, <3>2, <3>3, <1>5
  <2>2. CASE total # 0
    <3>1. F = [i \in 1..total |-> chunk(i - 1)]
      BY <2>2, <1>2
    <3>2. Len(F) = total /\ \A i \in 1..total : F[i] = chunk(i - 1)
      <4>1. DOMAIN F = 1..total
        BY <3>1
      <4>2. Len(F) = total
        BY <4>1, <1>1, <1>3, SMT
      <4> QED BY <4>2, <3>1
    <3>3. /\ total \in 1..total /\ total - 1 \in Nat
          /\ ~((total - 1) + 1 < total)
      BY <2>2, <1>1, SMT
    <3>4. F[total] = chunk(total - 1) /\ Answers(chunk(total - 1))
      BY <3>2, <3>3, <1>4
    <3>5. ASSUME NEW i \in 1..(total - 1) PROVE ~Answers(F[i])
      <4>1. i \in 1..total /\ i - 1 \in Nat /\ (i - 1) + 1 < total
        BY <1>1, SMT
      <4> QED BY <4>1, <3>2, <1>4
    <3>6. F # << >>
      BY <3>2, <2>2, SMT
    <3> QED BY <3>2, <3>4, <3>5, <3>6, <1>1, <1>5
  <2> QED BY <2>1, <2>2
<1>7. Lists(F, <<F[Len(F)].name>>)
  BY <1>3, <1>6, ListsLast
<1>8. Lists(F, <<n>>)
  BY <1>6, <1>7
<1> QED BY <1>8 DEF F

(* What a step of the session does: X, which goes on the wire, answers the *)
(* requests that it takes.                                                 *)
Serves(X, x) ==
    /\ Wire' = Wire \o X
    /\ Lists(X, x)
    /\ \A w \in Seq(Names) : Lists(inbox, w) =>
           \E z \in Seq(Names) : Lists(inbox', z) /\ w = x \o z

(* Before the HELLO is taken, the first request is not for a file, and a   *)
(* client that may ask has asked for something.                            *)
First(a, I, c) ==
    a = "no" => /\ c => I # << >>
                /\ I # << >> => I[1].type # "get"

(* A message that answers nothing goes out, or none does.                  *)
LEMMA ServesNone ==
    ASSUME NEW X, Wire' = Wire \o X, Lists(X, << >>),
           \/ inbox' = inbox
           \/ /\ inbox \in Seq(Ask) /\ inbox # << >> /\ inbox[1].type # "get"
              /\ inbox' = Tail(inbox)
    PROVE  Serves(X, << >>)
<1>1. ASSUME NEW w \in Seq(Names), Lists(inbox, w) PROVE Lists(inbox', w)
  <2>1. CASE inbox' = inbox
    BY <2>1, <1>1
  <2>2. CASE /\ inbox \in Seq(Ask) /\ inbox # << >> /\ inbox[1].type # "get"
             /\ inbox' = Tail(inbox)
    <3>1. inbox[1] \in Ask
      BY <2>2, Behead
    <3>2. ~Answers(inbox[1])
      BY <2>2, <3>1, AskAnswers
    <3> HIDE DEF Answers, Ask
    <3> QED BY <2>2, <3>2, <1>1, ListsTail
  <2> QED BY <2>1, <2>2
<1>2. \A w \in Seq(Names) : w = << >> \o w
  BY SMT
<1> QED BY <1>1, <1>2 DEF Serves

(* An answer that goes out and is no file's.                               *)
LEMMA AnswerServes ==
    ASSUME PeerGood, NEW m \in Sent, m.type # "data", m.type # "get",
           Answer(m), ~lossy', sending = << >>, sending' = << >>,
           \/ inbox' = inbox
           \/ /\ inbox # << >> /\ inbox[1].type # "get"
              /\ inbox' = Tail(inbox)
    PROVE  Serves(<<m>>, << >>) /\ <<m>> \in Seq(Sent)
<1>1. Reply(m) /\ ~lossy
  BY DEF Answer, Reply, Unsent
<1>2. outbox' = Append(outbox, m) /\ outbox \in Seq(Sent)
  BY <1>1, ReplyKeeps DEF PeerGood
<1>3. Wire' = outbox' \o << >> /\ Wire = outbox
  BY WireTyped DEF Wire
<1>4. Append(outbox, m) \o << >> = outbox \o <<m>>
  BY <1>2, SMT
<1>5. Wire' = Wire \o <<m>>
  BY <1>2, <1>3, <1>4
<1>6. ~Answers(m)
  BY DEF Answers
<1>7. <<m>> \in Seq(Sent) /\ Lists(<<m>>, << >>)
  BY <1>6, AnswersNone
<1>8. inbox \in Seq(Ask)
  BY DEF PeerGood
<1> QED BY <1>5, <1>7, <1>8, ServesNone

(* Nothing goes out.                                                       *)
LEMMA SilenceServes ==
    ASSUME PeerGood, Wire' = Wire,
           \/ inbox' = inbox
           \/ /\ inbox # << >> /\ inbox[1].type # "get"
              /\ inbox' = Tail(inbox)
    PROVE  Serves(<< >>, << >>) /\ << >> \in Seq(Sent)
<1>1. Wire \in Seq(Sent) /\ inbox \in Seq(Ask)
  BY WireTyped DEF PeerGood
<1>2. Wire \o << >> = Wire /\ << >> \in Seq(Sent)
  BY <1>1, SMT
<1>3. \A i \in 1..Len(<< >>) : FALSE
  BY SMT
<1>4. Lists(<< >>, << >>)
  BY <1>2, <1>3, ListsNone
<1> QED BY <1>1, <1>2, <1>4, ServesNone

(* Every step of the session serves the requests in their order.           *)
LEMMA PeerServes ==
    ASSUME PeerGood, PeerNext, ~lossy', NEW c, First(auth, inbox, c)
    PROVE  /\ asked' = asked
           /\ \E X \in Seq(Sent), x \in Seq(Names) : Serves(X, x)
<1> DEFINE Goal == \E X \in Seq(Sent), x \in Seq(Names) : Serves(X, x)
<1>a. ASSUME NEW X \in Seq(Sent), Serves(X, << >>) PROVE Goal
  <2>1. << >> \in Seq(Names)
    BY SMT
  <2> QED BY <1>a, <2>1
<1>b. ASSUME NEW t, Take(t)
      PROVE  /\ sending = << >> /\ inbox # << >> /\ inbox[1].type = t
             /\ inbox' = Tail(inbox) /\ asked' = asked
             /\ Head(inbox) = inbox[1]
             /\ inbox \in Seq(Ask) /\ inbox[1] \in Ask
  <2>1. inbox \in Seq(Ask) /\ inbox # << >>
    BY <1>b DEF Take, PeerGood
  <2>2. Head(inbox) = inbox[1] /\ inbox[1] \in Ask
    BY <2>1, Behead
  <2> QED BY <1>b, <2>1, <2>2 DEF Take
<1> HIDE DEF Goal
<1>1. CASE Greet
  <2>1. /\ auth = "no" /\ inbox # << >> /\ inbox' = Tail(inbox)
        /\ UNCHANGED <<sending, outbox, asked>>
    BY <1>1 DEF Greet
  <2>2. inbox[1].type # "get"
    BY <2>1 DEF First
  <2>3. Wire' = Wire
    BY <2>1 DEF Wire
  <2>4. Goal
    BY <2>1, <2>2, <2>3, <1>a, SilenceServes
  <2> QED BY <2>1, <2>4 DEF Goal
<1>2. CASE ServeList
  <2>1. /\ Take("list") /\ Answer([type |-> "list", names |-> Listed])
        /\ UNCHANGED <<store, made, sending>>
    BY <1>2 DEF ServeList
  <2>2. [type |-> "list", names |-> Listed] \in Sent
    <3>1. Listed \in SUBSET Names
      BY DEF Listed
    <3> QED BY <3>1, PlainSent
  <2>3. /\ asked' = asked /\ sending = << >> /\ sending' = << >>
        /\ inbox # << >> /\ inbox[1].type # "get" /\ inbox' = Tail(inbox)
    BY <2>1, <1>b
  <2>4. Goal
    BY <2>1, <2>2, <2>3, <1>a, AnswerServes
  <2> QED BY <2>3, <2>4 DEF Goal
<1>3. CASE ServeGet
  <2> DEFINE n == Head(inbox).name
  <2>1. /\ Take("get") /\ sending' = FileData(n) /\ UNCHANGED outbox
    BY <1>3 DEF ServeGet
  <2>2. /\ sending = << >> /\ inbox # << >> /\ inbox[1].type = "get"
        /\ inbox' = Tail(inbox) /\ asked' = asked
        /\ inbox \in Seq(Ask) /\ inbox[1] \in Ask /\ n = inbox[1].name
    BY <2>1, <1>b
  <2>3. n \in Names /\ Answers(inbox[1])
    BY <2>2, AskAnswers DEF Ask
  <2> HIDE DEF n
  <2>4. FileData(n) \in Seq(Sent) /\ Lists(FileData(n), <<n>>)
    <3>1. FileData(n) \in Seq(Sent \cap Data) /\ Lists(FileData(n), <<n>>)
      BY <2>3, FileIsStream, FileAnswers DEF PeerGood
    <3> QED BY <3>1, SeqSubset
  <2>5. Wire' = Wire \o FileData(n)
    BY <2>1, <2>2, WireTyped DEF Wire
  <2>6. ASSUME NEW w \in Seq(Names), Lists(inbox, w)
        PROVE  \E z \in Seq(Names) : Lists(inbox', z) /\ w = <<n>> \o z
    <3>1. w # << >> /\ w[1] = n /\ Lists(Tail(inbox), Tail(w))
      <4> HIDE DEF Answers, Ask
      <4> QED BY <2>2, <2>3, <2>6, ListsTail
    <3>2. Tail(w) \in Seq(Names) /\ Head(w) = w[1]
      BY <3>1, Behead
    <3>3. w = <<Head(w)>> \o Tail(w)
      BY <3>1, SMT
    <3> QED BY <3>1, <3>2, <3>3, <2>2
  <2>7. Serves(FileData(n), <<n>>)
    BY <2>4, <2>5, <2>6 DEF Serves
  <2>8. <<n>> \in Seq(Names)
    BY <2>3, SMT
  <2>9. Goal
    BY <2>4, <2>7, <2>8 DEF Goal
  <2> QED BY <2>2, <2>9 DEF Goal
<1>4. CASE SendChunk
  <2>1. /\ sending # << >> /\ Reply(Head(sending)) /\ sending' = Tail(sending)
        /\ UNCHANGED <<inbox, asked>>
    BY <1>4 DEF SendChunk
  <2>2. Head(sending) \in Sent
    BY <2>1, Behead DEF PeerGood
  <2>3. /\ ~lossy /\ outbox' = Append(outbox, Head(sending))
        /\ outbox \in Seq(Sent)
    <3>1. ~lossy
      BY <2>1 DEF Reply
    <3> QED BY <3>1, <2>1, <2>2, ReplyKeeps DEF PeerGood
  <2>4. Append(outbox, Head(sending)) \o Tail(sending) = outbox \o sending
    BY <2>1, <2>3, WireTyped, Moved
  <2>5. Wire' = Wire
    BY <2>1, <2>3, <2>4 DEF Wire
  <2>6. Goal
    BY <2>1, <2>5, <1>a, SilenceServes
  <2> QED BY <2>1, <2>6 DEF Goal
<1>5. CASE TransferFails
  BY <1>5 DEF TransferFails
<1>6. CASE ServeDelete
  <2> DEFINE n == Head(inbox).name
             m == [type |-> "deleted", name |-> n, ok |-> store[n] > 0]
  <2>1. /\ Take("delete") /\ Answer(m) /\ UNCHANGED sending
    BY <1>6 DEF ServeDelete
  <2>2. n \in Names
    BY <2>1, <1>b DEF Ask
  <2>3. m \in Sent /\ m.type = "deleted"
    <3>1. (store[n] > 0) \in BOOLEAN
      OBVIOUS
    <3> HIDE DEF n
    <3>2. \A b \in BOOLEAN :
             [type |-> "deleted", name |-> n, ok |-> b] \in Sent
      BY <2>2, PlainSent
    <3>3. m \in Sent
      BY <3>1, <3>2, Zenon
    <3> QED BY <3>3
  <2> HIDE DEF m
  <2>4. /\ asked' = asked /\ sending = << >> /\ sending' = << >>
        /\ inbox # << >> /\ inbox[1].type # "get" /\ inbox' = Tail(inbox)
    BY <2>1, <1>b
  <2>5. Goal
    BY <2>1, <2>3, <2>4, <1>a, AnswerServes
  <2> QED BY <2>4, <2>5 DEF Goal
<1>7. CASE ServeSnapshot
  <2> DEFINE N == {n \in Names : store'[n] > 0}
             m == [type |-> "list", names |-> N]
  <2>1. Take("snapshot") /\ Answer(m) /\ UNCHANGED sending
    BY <1>7 DEF ServeSnapshot
  <2>2. m \in Sent /\ m.type = "list"
    <3>1. N \in SUBSET Names
      OBVIOUS
    <3> HIDE DEF N
    <3> QED BY <3>1, PlainSent
  <2> HIDE DEF m
  <2>3. /\ asked' = asked /\ sending = << >> /\ sending' = << >>
        /\ inbox # << >> /\ inbox[1].type # "get" /\ inbox' = Tail(inbox)
    BY <2>1, <1>b
  <2>4. Goal
    BY <2>1, <2>2, <2>3, <1>a, AnswerServes
  <2> QED BY <2>3, <2>4 DEF Goal
<1>8. CASE ServeCommand
  <2>1. /\ Take("command") \/ Take("hello")
        /\ UNCHANGED <<sending, outbox>>
    BY <1>8 DEF ServeCommand
  <2>2. Wire' = Wire
    BY <2>1 DEF Wire
  <2>3. /\ asked' = asked /\ inbox # << >> /\ inbox[1].type # "get"
        /\ inbox' = Tail(inbox)
    BY <2>1, <1>b
  <2>4. Goal
    BY <2>2, <2>3, <1>a, SilenceServes
  <2> QED BY <2>3, <2>4 DEF Goal
<1>9. CASE SendVideo
  <2>1. /\ sending = << >> /\ Reply([type |-> "video"])
        /\ UNCHANGED <<inbox, sending, asked>>
    BY <1>9 DEF SendVideo
  <2>2. [type |-> "video"] \in Sent
    BY PlainSent
  <2>3. Goal
    BY <2>1, <2>2, <1>a, AnswerServes DEF Answer
  <2> QED BY <2>1, <2>3 DEF Goal
<1>10. CASE OthersChange
  <2>1. UNCHANGED <<inbox, sending, outbox, asked>>
    BY <1>10 DEF OthersChange
  <2>2. Wire' = Wire
    BY <2>1 DEF Wire
  <2>3. Goal
    BY <2>1, <2>2, <1>a, SilenceServes
  <2> QED BY <2>1, <2>3 DEF Goal
<1> QED BY <1>1, <1>2, <1>3, <1>4, <1>5, <1>6, <1>7, <1>8, <1>9, <1>10
        DEF PeerNext

(* Until the HELLO is taken, no step of the session touches the requests.  *)
LEMMA PeerFirst ==
    ASSUME PeerNext, NEW c, First(auth, inbox, c) PROVE First(auth', inbox', c)
<1>1. auth' = "no" => auth = "no" /\ inbox' = inbox
  BY DEF PeerNext, Greet, ServeList, ServeGet, SendChunk, TransferFails,
         ServeDelete, ServeSnapshot, ServeCommand, SendVideo, OthersChange,
         Take
<1> QED BY <1>1 DEF First

(* A client asks: it may, or what it asks for is not a file.               *)
LEMMA FirstSends ==
    ASSUME NEW a, NEW I \in Seq(Ask), NEW q \in Seq(Ask), NEW c, NEW d,
           First(a, I, c), q # << >>, q[1].type # "get" \/ c
    PROVE  First(a, I \o q, d)
<1> HIDE DEF Ask
<1>1. I \o q # << >> /\ (I \o q)[1] = IF I = << >> THEN q[1] ELSE I[1]
  <2>1. CASE I = << >>
    BY <2>1, SMT
  <2>2. CASE I # << >>
    BY <2>2, TailOfJoined
  <2> QED BY <2>1, <2>2
<1> QED BY <1>1 DEF First

-----------------------------------------------------------------------------
(* PcClient's requests and their answers.                                  *)

PcOrder ==
    /\ First(auth, inbox, connected)
    /\ lossy \/ Orders(PcPipe, inbox, answered, asked)

(* The same of the next state.                                             *)
LEMMA PcOrderNext ==
    ASSUME First(auth', inbox', connected'),
           lossy' \/ Orders(PcPipe', inbox', answered', asked')
    PROVE  PcOrder'
<1> HIDE DEF PcPipe
<1> QED BY DEF PcOrder, First, Orders, Lists, Picks, Answers, Unfinished

(* The types of what is ordered.                                           *)
LEMMA PcOrderTyped ==
    ASSUME PcInv
    PROVE  /\ PcPipe \in Seq(Sent) /\ inbox \in Seq(Ask)
           /\ answered \in Seq(Names) /\ asked \in Seq(Names)
           /\ lossy \in BOOLEAN
  BY PcPipeTyped DEF PcInv, PeerGood, PcGood

(* A step that asks for nothing and is answered nothing.                   *)
LEMMA PcOrderSame ==
    ASSUME PcOrder, PcPipe' = PcPipe, UNCHANGED Pc!peerVars \/
               UNCHANGED <<auth, inbox, lossy, asked>>,
           UNCHANGED answered, connected' => connected
    PROVE  PcOrder'
<1>1. UNCHANGED <<auth, inbox, lossy, asked>>
  BY DEF Pc!peerVars, Pc!serverVars
<1>2. First(auth', inbox', connected')
  BY <1>1 DEF PcOrder, First
<1>3. lossy' \/ Orders(PcPipe', inbox', answered', asked')
  BY <1>1 DEF PcOrder
<1> QED BY <1>2, <1>3, PcOrderNext

(* The steps that handle no message keep what is still to be handled.      *)
LEMMA PcPipeStays ==
    ASSUME PcInv,
           \/ Pc!ConnectFails \/ Pc!onConnected \/ Pc!onEncrypted
           \/ Pc!PinRefused \/ Pc!disconnectFromTerminal \/ Pc!Disconnected
           \/ Pc!DialogCloses \/ Pc!BufferDone \/ Pc!Click
    PROVE  PcPipe' = PcPipe
<1> USE DEF Pc!peerVars, Pc!serverVars, Pc!qtVars, Pc!readVars, Pc!pcVars
<1>1. UNCHANGED <<outbox, sending>>
  BY DEF Pc!ConnectFails, Pc!onConnected, Pc!onEncrypted, Pc!PinRefused,
         Pc!disconnectFromTerminal, Pc!Disconnected, Pc!DialogCloses,
         Pc!BufferDone, Pc!Click, Pc!sendHello, Pc!Sends
<1>2. CASE UNCHANGED <<rx, off, loop>>
  BY <1>1, <1>2 DEF PcPipe, PcOpen, Handled, Wire
<1>3. CASE Pc!DialogCloses
  <2>1. loop = "dialog" /\ loop' = "busy" /\ off' = off + 1 /\ rx' = rx
    BY <1>3 DEF Pc!DialogCloses, Pc!Returns
  <2> QED BY <1>1, <2>1 DEF PcPipe, PcOpen, Handled, Wire
<1>4. CASE Pc!BufferDone
  <2>1. /\ loop = "busy" /\ off = Len(rx)
        /\ rx' = << >> /\ off' = 0 /\ loop' = "idle"
    BY <1>4 DEF Pc!BufferDone
  <2>2. Handled = Len(rx) /\ Handled' = 0 /\ rx \in Seq(Sent)
    BY <2>1 DEF Handled, PcInv, PcGood
  <2>3. /\ SubSeq(rx, Len(rx) + 1, Len(rx)) = << >>
        /\ SubSeq(<< >>, 0 + 1, Len(<< >>)) = << >>
    BY <2>2, SMT
  <2>4. PcOpen' = PcOpen
    BY <2>1, <2>2, <2>3 DEF PcOpen
  <2> QED BY <1>1, <2>4 DEF PcPipe, Wire
<1>5. UNCHANGED <<rx, off, loop>> \/ Pc!DialogCloses \/ Pc!BufferDone
  BY DEF Pc!ConnectFails, Pc!onConnected, Pc!onEncrypted, Pc!PinRefused,
         Pc!disconnectFromTerminal, Pc!Disconnected, Pc!Click, Pc!sendHello
<1> QED BY <1>2, <1>3, <1>4, <1>5

(* HELLO and the request for the list ask for no file.                     *)
LEMMA OpeningOrders ==
    ASSUME NEW q \in {Pc!HelloAndList, Mobile!Opening}
    PROVE  /\ q \in Seq(Ask) /\ q # << >> /\ q[1].type # "get"
           /\ Lists(q, << >>)
<1> DEFINE h == [type |-> "hello", name |-> NoName]
           l == [type |-> "list", name |-> NoName]
<1>1. q \in Seq(Ask) /\ q = <<h, l>>
  <2>1. Pc!HelloAndList = <<h, l>> /\ Mobile!Opening = <<h, l>>
    BY DEF Pc!HelloAndList, Mobile!Opening, Pc!Req, Mobile!Req
  <2> QED BY <2>1, OpeningAsks
<1>2. ~Answers(h) /\ ~Answers(l) /\ h.type # "get"
  BY DEF Answers
<1> HIDE DEF h, l, Answers, Ask
<1>3. q[1] = h /\ q[2] = l /\ Len(q) = 2 /\ q # << >>
  BY <1>1, SMT
<1>4. \A i \in 1..2 : i = 1 \/ i = 2
  BY SMT
<1>5. \A i \in 1..Len(q) : ~Answers(q[i])
  BY <1>2, <1>3, <1>4
<1> QED BY <1>1, <1>2, <1>3, <1>5, ListsNone

(* The request for the list alone asks for none either.                    *)
LEMMA ListOrders ==
    ASSUME NEW r \in {Pc!Req("list"), Mobile!Req("list")}
    PROVE  /\ <<r>> \in Seq(Ask) /\ <<r>> # << >> /\ <<r>>[1].type # "get"
           /\ Lists(<<r>>, << >>)
<1>1. r \in Ask /\ r.type = "list"
  BY OpeningAsks DEF Pc!Req, Mobile!Req
<1>2. ~Answers(r)
  BY <1>1 DEF Answers
<1> HIDE DEF Ask, Answers
<1>3. <<r>>[1] = r /\ <<r>> # << >>
  BY SMT
<1> QED BY <1>1, <1>2, <1>3, AnswersNone

(* A step of the session.                                                  *)
LEMMA PcOrderPeer ==
    ASSUME PcInv, PcOrder, PeerNext, UNCHANGED Pc!pcVars PROVE PcOrder'
<1>1. UNCHANGED <<rx, off, loop, connected, answered>>
  BY DEF Pc!pcVars, Pc!readVars, Pc!uiVars
<1>2. First(auth', inbox', connected')
  BY <1>1, PeerFirst DEF PcOrder
<1>3. ASSUME ~lossy' PROVE Orders(PcPipe', inbox', answered', asked')
  <2>1. ~lossy /\ PeerGood
    BY <1>3, PeerKeeps DEF PcInv
  <2>2. Orders(PcPipe, inbox, answered, asked)
    BY <2>1 DEF PcOrder
  <2>3. asked' = asked
    BY <2>1, <1>3, PeerServes DEF PcOrder
  <2>4. PICK X \in Seq(Sent), x \in Seq(Names) : Serves(X, x)
    BY <2>1, <1>3, PeerServes DEF PcOrder
  <2>5. PcPipe' = PcPipe \o X
    <3>1. PcOpen \in Seq(Sent) /\ Wire \in Seq(Sent)
      BY PcPipeTyped DEF PcInv
    <3>2. (PcOpen \o Wire) \o X = PcOpen \o (Wire \o X)
      <4>1. Associates(PcOpen, Wire, X)
        BY <3>1, SentAssociative
      <4> QED BY <4>1 DEF Associates
    <3>3. PcOpen' = PcOpen
      BY <1>1 DEF PcOpen, Handled
    <3> QED BY <3>2, <3>3, <2>4 DEF PcPipe, Serves
  <2>6. Orders(PcPipe \o X, inbox', answered, asked)
    <3>1. /\ Lists(X, x)
          /\ \A w \in Seq(Names) : Lists(inbox, w) =>
                \E z \in Seq(Names) : Lists(inbox', z) /\ w = x \o z
      BY <2>4 DEF Serves
    <3> DEFINE I == inbox
               J == inbox'
    <3>2. PcPipe \in Seq(Sent) /\ answered \in Seq(Names)
      BY PcOrderTyped
    <3>3. Orders(PcPipe, I, answered, asked)
      BY <2>2
    <3>4. Shifts(I, J, x)
      BY <3>1 DEF Shifts
    <3> HIDE DEF I, J
    <3>5. Orders(PcPipe \o X, J, answered, asked)
      BY <3>1, <3>2, <3>3, <3>4, OrdersServed
    <3> QED BY <3>5 DEF J
  <2> QED BY <1>1, <2>3, <2>5, <2>6
<1> QED BY <1>2, <1>3, PcOrderNext

(* A new connection.                                                       *)
LEMMA PcOrderConnects ==
    ASSUME PcInv, Pc!connectToTerminal PROVE PcOrder'
<1> DEFINE h == [type |-> "hello"]
<1>1. /\ rx' = << >> /\ loop' = "idle" /\ off' = 0 /\ ~connected'
      /\ outbox' = <<h>> /\ inbox' = << >> /\ sending' = << >>
      /\ answered' = << >> /\ asked' = << >>
  <2>1. /\ rx' = << >> /\ loop' = loop /\ loop = "idle" /\ off' = off
        /\ outbox' = <<h>> /\ inbox' = << >> /\ sending' = << >>
        /\ answered' = << >> /\ asked' = << >>
    BY DEF Pc!connectToTerminal, Pc!ConnectClicked, Pc!Cleared, Pc!Anew
  <2>2. ~connected'
    BY DEF Pc!connectToTerminal, Pc!ConnectClicked, Pc!onDisconnected,
           Pc!uiVars
  <2> QED BY <2>1, <2>2 DEF PcInv, PcGood
<1>2. PcPipe' = <<h>>
  <2>1. SubSeq(<< >>, 0 + 1, Len(<< >>)) = << >>
        /\ << >> \o (<<h>> \o << >>) = <<h>>
    BY SMT
  <2>2. PcOpen' = << >>
    BY <2>1, <1>1 DEF PcOpen, Handled
  <2> QED BY <2>1, <2>2, <1>1 DEF PcPipe, Wire
<1>3. <<h>> \in Seq(Sent) /\ Lists(<<h>>, << >>)
  <2>1. h \in Sent /\ ~Answers(h)
    BY PlainSent DEF Answers
  <2> HIDE DEF h, Answers
  <2> QED BY <2>1, AnswersNone
<1>4. Orders(PcPipe', inbox', answered', asked')
  BY <1>1, <1>2, <1>3, OrdersFresh
<1>5. First(auth', inbox', connected')
  BY <1>1 DEF First
<1> QED BY <1>4, <1>5, PcOrderNext

(* The client sends requests.                                              *)
LEMMA PcOrderSends ==
    ASSUME PcInv, PcOrder, NEW q \in Seq(Ask), q # << >>,
           q[1].type # "get", Lists(q, << >>),
           UNCHANGED <<auth, lossy, asked, answered>>,
           inbox' = inbox \o q, PcPipe' = PcPipe
    PROVE  PcOrder'
<1>1. First(auth, inbox \o q, connected')
  BY PcOrderTyped, FirstSends DEF PcOrder
<1>2. lossy \/ Orders(PcPipe, inbox \o q, answered, asked)
  BY PcOrderTyped, OrdersOther DEF PcOrder
<1> QED BY <1>1, <1>2, PcOrderNext

(* A button.                                                               *)
LEMMA PcOrderClick ==
    ASSUME PcInv, PcOrder, Pc!Click PROVE PcOrder'
<1>0. PcPipe' = PcPipe /\ UNCHANGED <<connected, answered>> /\ connected
  BY PcPipeStays DEF Pc!Click, Pc!pcVars, Pc!uiVars, Pc!Enabled
<1>1. PICK r \in Pc!Offered :
         IF Pc!isConnected
         THEN /\ inbox' = inbox \o <<r>>
              /\ UNCHANGED <<auth, lossy>>
              /\ asked' = IF r.type = "get" THEN Append(asked, r.name)
                                            ELSE asked
         ELSE UNCHANGED <<auth, inbox, lossy, asked>>
  BY DEF Pc!Click, Pc!Sends
<1>2. r \in Ask
  BY DEF Pc!Offered, Pc!Request, Ask, Request, PcInv, PcGood
<1>3. CASE ~Pc!isConnected
  BY <1>0, <1>1, <1>3, PcOrderSame
<1>4. CASE Pc!isConnected
  <2>1. <<r>> \in Seq(Ask) /\ <<r>> # << >>
    BY <1>2, SMT
  <2>2. First(auth, inbox \o <<r>>, connected')
    BY <1>0, <2>1, PcOrderTyped, FirstSends DEF PcOrder
  <2>3. ASSUME ~lossy
        PROVE  Orders(PcPipe, inbox \o <<r>>, answered,
                      IF r.type = "get" THEN Append(asked, r.name) ELSE asked)
    <3>1. Orders(PcPipe, inbox, answered, asked)
      BY <2>3 DEF PcOrder
    <3>2. CASE r.type = "get"
      BY <3>1, <3>2, <1>2, PcOrderTyped, OrdersAsked
    <3>3. CASE r.type # "get"
      <4>1. Lists(<<r>>, << >>)
        BY <3>3, <1>2, AskAnswers, AnswersNone
      <4> QED BY <4>1, <3>1, <3>3, <2>1, PcOrderTyped, OrdersOther
    <3> QED BY <3>2, <3>3
  <2> QED BY <1>0, <1>1, <1>4, <2>2, <2>3, PcOrderNext
<1> QED BY <1>3, <1>4

(* The steps that handle no message.                                       *)
LEMMA PcOrderOther ==
    ASSUME PcInv, PcOrder,
           \/ Pc!ConnectFails \/ Pc!onConnected \/ Pc!onEncrypted
           \/ Pc!PinRefused \/ Pc!disconnectFromTerminal \/ Pc!Disconnected
           \/ Pc!onReadyRead \/ Pc!DialogCloses \/ Pc!BufferDone
    PROVE  PcOrder'
<1>1. PcPipe' = PcPipe
  BY PcPipeStays, PcReads
<1>2. CASE Pc!sendHello
  <2>1. /\ inbox' = inbox \o Pc!HelloAndList
        /\ UNCHANGED <<auth, lossy, asked, answered>>
    BY <1>2 DEF Pc!sendHello, Pc!Sends
  <2> QED BY <1>1, <2>1, OpeningOrders, PcOrderSends
<1>3. CASE ~Pc!sendHello
  <2>1. UNCHANGED <<auth, inbox, lossy, asked, answered>>
    BY <1>3 DEF Pc!ConnectFails, Pc!onConnected, Pc!onEncrypted,
         Pc!PinRefused, Pc!disconnectFromTerminal, Pc!Disconnected,
         Pc!onReadyRead, Pc!DialogCloses, Pc!BufferDone,
         Pc!peerVars, Pc!serverVars
  <2>2. connected' => connected
    BY <1>3 DEF Pc!ConnectFails, Pc!onConnected, Pc!onEncrypted,
         Pc!PinRefused, Pc!disconnectFromTerminal, Pc!Disconnected,
         Pc!onReadyRead, Pc!DialogCloses, Pc!BufferDone, Pc!onDisconnected,
         Pc!uiVars
  <2> QED BY <1>1, <2>1, <2>2, PcOrderSame
<1> QED BY <1>2, <1>3

(* A handler takes the first message.                                      *)
LEMMA PcOrderTakes ==
    ASSUME PcInv, PcOrder, NEW t, Pc!Handling(t),
           Pc!Returns \/ Pc!OpensDialog,
           UNCHANGED <<sending, outbox, auth, lossy, asked, connected>>,
           \/ inbox' = inbox \/ inbox' = inbox \o <<Pc!Req("list")>>,
           ~lossy => answered' = IF Answers(PcPipe[1])
                                 THEN Append(answered, PcPipe[1].name)
                                 ELSE answered,
           answered' \in Seq(Names)
    PROVE  PcOrder'
<1>0. PeerGood /\ PcGood
  BY DEF PcInv
<1>1. PcPipe # << >> /\ PcPipe' = Tail(PcPipe)
  BY <1>0, PcHandles
<1>2. ASSUME ~lossy PROVE Orders(PcPipe', inbox, answered', asked)
  <2>1. Orders(PcPipe, inbox, answered, asked)
    BY <1>2 DEF PcOrder
  <2> HIDE DEF Answers
  <2> QED BY <2>1, <1>1, <1>2, PcOrderTyped, OrdersHandled
<1>3. CASE inbox' = inbox
  <2>1. First(auth', inbox', connected')
    BY <1>3 DEF PcOrder
  <2> QED BY <1>2, <1>3, <2>1, PcOrderNext
<1>4. CASE inbox' = inbox \o <<Pc!Req("list")>>
  <2> DEFINE q == <<Pc!Req("list")>>
  <2>1. q \in Seq(Ask) /\ q # << >> /\ q[1].type # "get" /\ Lists(q, << >>)
    BY ListOrders
  <2>2. inbox' = inbox \o q
    BY <1>4
  <2> HIDE DEF q
  <2>3. First(auth, inbox \o q, connected')
    BY <2>1, PcOrderTyped, FirstSends DEF PcOrder
  <2>4. ~lossy => Orders(PcPipe', inbox \o q, answered', asked)
    BY <2>1, <1>2, PcOrderTyped, OrdersOther
  <2> QED BY <2>2, <2>3, <2>4, PcOrderNext
<1> QED BY <1>3, <1>4

(* What a whole stream holds in front.                                     *)
LEMMA PcFront ==
    ASSUME PcInv, ~lossy, PcPipe # << >>
    PROVE  /\ PcPipe \in Seq(Sent) /\ Stream(PcPipe)
           /\ downloads = PcExpected(PcPipe) /\ Sound(PcPipe[1])
<1>1. /\ PcPipe \in Seq(Sent) /\ Stream(PcPipe)
      /\ downloads = PcExpected(PcPipe)
  BY PcPipeTyped DEF PcInv, PcWhole
<1> QED BY <1>1, StreamGoesOn

(* The handlers of the messages that are not of a transfer.                *)
LEMMA PcOrderOthers ==
    ASSUME PcInv, PcOrder,
           \/ Pc!ProtocolError \/ Pc!handleVideoFrame \/ Pc!handleFileList
           \/ Pc!handleHello \/ Pc!handleFileDeleteResp
    PROVE  PcOrder'
<1>0. PeerGood /\ PcGood /\ answered \in Seq(Names)
  BY DEF PcInv, PcGood
<1>1. CASE Pc!ProtocolError
  <2>1. /\ Pc!Handling("junk") /\ UNCHANGED <<auth, inbox, lossy>>
        /\ connected' = connected \/ ~connected'
    BY <1>1 DEF Pc!ProtocolError, Pc!onDisconnected, Pc!uiVars,
                Pc!peerVars, Pc!serverVars
  <2>2. PcPipe # << >> /\ PcPipe[1].type = "junk"
    BY <2>1, <1>0, PcHandles
  <2>3. lossy
    BY <2>2, PcFront DEF Sound
  <2>4. First(auth', inbox', connected')
    BY <2>1 DEF PcOrder, First
  <2> QED BY <2>1, <2>3, <2>4, PcOrderNext
<1>2. CASE \/ Pc!handleVideoFrame \/ Pc!handleFileList
           \/ Pc!handleHello \/ Pc!handleFileDeleteResp
  <2>1. PICK t \in {"video", "list", "hello", "deleted"} : Pc!Handling(t)
    BY <1>2 DEF Pc!handleVideoFrame, Pc!handleFileList, Pc!handleHello,
                Pc!handleFileDeleteResp
  <2>2. /\ Pc!Returns \/ Pc!OpensDialog
        /\ UNCHANGED <<sending, outbox, auth, lossy, asked, connected>>
        /\ inbox' = inbox \/ inbox' = inbox \o <<Pc!Req("list")>>
        /\ answered' = answered
    BY <1>2 DEF Pc!handleVideoFrame, Pc!handleFileList, Pc!handleHello,
                Pc!handleFileDeleteResp, Pc!Sends, Pc!uiVars,
                Pc!peerVars, Pc!serverVars
  <2>3. PcPipe[1].type = t
    BY <2>1, <1>0, PcHandles
  <2>4. ~Answers(PcPipe[1])
    BY <2>3 DEF Answers
  <2> HIDE DEF Answers
  <2> QED BY <2>1, <2>2, <2>4, <1>0, PcOrderTakes
<1> QED BY <1>1, <1>2

(* The file that is not there, and a chunk: the last one of a transfer, and *)
(* it alone, answers.                                                      *)
LEMMA PcOrderData ==
    ASSUME PcInv, PcOrder, Pc!NotFound \/ Pc!ReceiveChunk PROVE PcOrder'
<1> DEFINE m == Pc!Current
           d == Pc!Received(downloads[m.name], m)
<1>0. PeerGood /\ PcGood /\ answered \in Seq(Names)
  BY DEF PcInv, PcGood
<1>1. /\ Pc!Handling("data")
      /\ Pc!Returns \/ Pc!OpensDialog
      /\ UNCHANGED <<sending, outbox, auth, lossy, asked, connected, inbox>>
  BY DEF Pc!NotFound, Pc!ReceiveChunk, Pc!uiVars, Pc!peerVars, Pc!serverVars
<1>2. /\ PcPipe # << >> /\ PcPipe[1] = m /\ m \in Sent /\ m.type = "data"
  BY <1>0, <1>1, PcHandles
<1>3. \/ m.total = 0 /\ answered' = Append(answered, m.name)
      \/ /\ m.total > 0
         /\ IF d.received >= d.total
            THEN answered' = Append(answered, m.name)
            ELSE answered' = answered
  BY DEF Pc!NotFound, Pc!ReceiveChunk
<1> HIDE DEF m
<1>4. m.name \in Names /\ m.idx \in Nat /\ m.total \in Nat
  BY <1>2, DataFields
<1>5. answered' \in Seq(Names)
  <2>1. Append(answered, m.name) \in Seq(Names)
    BY <1>0, <1>4, SMT
  <2> QED BY <2>1, <1>0, <1>3
<1>6. Answers(m) <=> ~Unfinished(m)
  BY <1>2 DEF Answers
<1>7. ASSUME ~lossy
      PROVE  answered' = IF Answers(PcPipe[1])
                         THEN Append(answered, PcPipe[1].name) ELSE answered
  <2>1. /\ PcPipe \in Seq(Sent) /\ Stream(PcPipe)
        /\ downloads = PcExpected(PcPipe)
    BY <1>2, <1>7, PcFront
  <2>2. CASE m.total = 0
    <3>1. ~Unfinished(m)
      BY <2>2, <1>4, SMT DEF Unfinished
    <3>2. ~(m.total > 0)
      BY <2>2, SMT
    <3> QED BY <3>1, <3>2, <1>2, <1>3, <1>6
  <2>3. CASE m.total > 0
    <3>1. d.received >= d.total <=> ~Unfinished(m)
      BY <2>1, <2>3, <1>2, PcChunk
    <3>2. m.total # 0
      BY <2>3, SMT
    <3> HIDE DEF d
    <3> QED BY <3>1, <3>2, <1>2, <1>3, <1>6
  <2> QED BY <2>2, <2>3, <1>3
<1> QED BY <1>0, <1>1, <1>5, <1>7, PcOrderTakes

(* Every step of the PC client keeps the order.                            *)
LEMMA PcKeepsOrder ==
    ASSUME PcInv, PcOrder, Pc!Next PROVE PcOrder'
  BY SamePeer, PcOrderPeer, PcOrderConnects, PcOrderOther, PcOrderClick,
     PcOrderOthers, PcOrderData
     DEF Pc!Next

-----------------------------------------------------------------------------
(* MobileClient's requests and their answers.                              *)

MobileOrder ==
    /\ First(auth, inbox, status = "connected")
    /\ lossy \/ Orders(Wire, inbox, mAnswered, asked)

(* The same of the next state.                                             *)
LEMMA MobileOrderNext ==
    ASSUME First(auth', inbox', status' = "connected"),
           lossy' \/ Orders(Wire', inbox', mAnswered', asked')
    PROVE  MobileOrder'
<1> HIDE DEF Wire
<1> QED BY DEF MobileOrder, First, Orders, Lists, Picks, Answers, Unfinished

(* The types of what is ordered.                                           *)
LEMMA MobileOrderTyped ==
    ASSUME MobileInv
    PROVE  /\ Wire \in Seq(Sent) /\ inbox \in Seq(Ask)
           /\ mAnswered \in Seq(Names) /\ asked \in Seq(Names)
           /\ lossy \in BOOLEAN
  BY WireTyped DEF MobileInv, PeerGood, MobileGood

(* A step of the session.                                                  *)
LEMMA MobileOrderPeer ==
    ASSUME MobileInv, MobileOrder, PeerNext, UNCHANGED Mobile!mobileVars
    PROVE  MobileOrder'
<1>1. UNCHANGED <<status, mAnswered>>
  BY DEF Mobile!mobileVars, Mobile!storeVars
<1>2. First(auth', inbox', status' = "connected")
  BY <1>1, PeerFirst DEF MobileOrder
<1>3. ASSUME ~lossy' PROVE Orders(Wire', inbox', mAnswered', asked')
  <2>1. ~lossy /\ PeerGood
    BY <1>3, PeerKeeps DEF MobileInv
  <2>2. Orders(Wire, inbox, mAnswered, asked)
    BY <2>1 DEF MobileOrder
  <2>3. asked' = asked
    BY <2>1, <1>3, PeerServes DEF MobileOrder
  <2>4. PICK X \in Seq(Sent), x \in Seq(Names) : Serves(X, x)
    BY <2>1, <1>3, PeerServes DEF MobileOrder
  <2>5. Orders(Wire \o X, inbox', mAnswered, asked)
    <3>1. /\ Lists(X, x)
          /\ \A w \in Seq(Names) : Lists(inbox, w) =>
                \E z \in Seq(Names) : Lists(inbox', z) /\ w = x \o z
      BY <2>4 DEF Serves
    <3> DEFINE I == inbox
               J == inbox'
    <3>2. Wire \in Seq(Sent) /\ mAnswered \in Seq(Names)
      BY MobileOrderTyped
    <3>3. Orders(Wire, I, mAnswered, asked)
      BY <2>2
    <3>4. Shifts(I, J, x)
      BY <3>1 DEF Shifts
    <3> HIDE DEF I, J
    <3>5. Orders(Wire \o X, J, mAnswered, asked)
      BY <3>1, <3>2, <3>3, <3>4, OrdersServed
    <3> QED BY <3>5 DEF J
  <2> QED BY <1>1, <2>3, <2>4, <2>5 DEF Serves
<1> QED BY <1>2, <1>3, MobileOrderNext

(* A new connection.                                                       *)
LEMMA MobileOrderConnects ==
    ASSUME Mobile!connect PROVE MobileOrder'
<1> DEFINE h == [type |-> "hello"]
<1>1. /\ outbox' = <<h>> /\ inbox' = << >> /\ sending' = << >>
      /\ mAnswered' = << >> /\ asked' = << >> /\ status' # "connected"
  BY DEF Mobile!connect, Mobile!Anew
<1>2. Wire' = <<h>>
  <2>1. <<h>> \o << >> = <<h>>
    BY SMT
  <2> QED BY <2>1, <1>1 DEF Wire
<1>3. <<h>> \in Seq(Sent) /\ Lists(<<h>>, << >>)
  <2>1. h \in Sent /\ ~Answers(h)
    BY PlainSent DEF Answers
  <2> HIDE DEF h, Answers
  <2> QED BY <2>1, AnswersNone
<1>4. Orders(Wire', inbox', mAnswered', asked')
  BY <1>1, <1>2, <1>3, OrdersFresh
<1>5. First(auth', inbox', status' = "connected")
  BY <1>1 DEF First
<1> QED BY <1>4, <1>5, MobileOrderNext

(* The steps of the user and of the socket that ask for nothing.           *)
LEMMA MobileOrderOther ==
    ASSUME MobileOrder,
           \/ Mobile!disconnect \/ Mobile!SocketEnds \/ Mobile!onclose
    PROVE  MobileOrder'
<1>1. /\ UNCHANGED <<auth, inbox, lossy, asked, mAnswered, outbox, sending>>
      /\ status' = status \/ status' = "disconnected"
  BY DEF Mobile!disconnect, Mobile!SocketEnds, Mobile!onclose,
         Mobile!peerVars, Mobile!serverVars
<1>2. First(auth', inbox', status' = "connected")
  BY <1>1 DEF MobileOrder, First
<1>3. Wire' = Wire
  BY <1>1 DEF Wire
<1>4. lossy' \/ Orders(Wire', inbox', mAnswered', asked')
  BY <1>1, <1>3 DEF MobileOrder
<1> QED BY <1>2, <1>4, MobileOrderNext

(* HELLO and the request for the list.                                     *)
LEMMA MobileOrderOpens ==
    ASSUME MobileInv, MobileOrder, Mobile!onopen PROVE MobileOrder'
<1> DEFINE q == Mobile!Opening
<1>1. /\ inbox' = inbox \o q
      /\ UNCHANGED <<auth, lossy, asked, mAnswered, outbox, sending>>
  BY DEF Mobile!onopen, Mobile!Sends
<1>2. q \in Seq(Ask) /\ q # << >> /\ q[1].type # "get" /\ Lists(q, << >>)
  BY OpeningOrders
<1> HIDE DEF q
<1>3. First(auth, inbox \o q, status' = "connected")
  BY <1>2, MobileOrderTyped, FirstSends DEF MobileOrder
<1>4. lossy \/ Orders(Wire, inbox \o q, mAnswered, asked)
  BY <1>2, MobileOrderTyped, OrdersOther DEF MobileOrder
<1>5. Wire' = Wire
  BY <1>1 DEF Wire
<1> QED BY <1>1, <1>3, <1>4, <1>5, MobileOrderNext

(* A button.                                                               *)
LEMMA MobileOrderClick ==
    ASSUME MobileInv, MobileOrder, Mobile!MobileClick PROVE MobileOrder'
<1>1. /\ UNCHANGED <<auth, lossy, mAnswered, outbox, sending, status>>
      /\ status = "connected"
  BY DEF Mobile!MobileClick, Mobile!mobileVars, Mobile!storeVars
<1>2. PICK r \in Mobile!mOffered :
         /\ inbox' = IF ws = "open" THEN inbox \o <<r>> ELSE inbox
         /\ asked' = IF r.type = "get" /\ ws = "open"
                     THEN Append(asked, r.name) ELSE asked
  BY DEF Mobile!MobileClick, Mobile!send
<1>3. r \in Ask
  BY DEF Mobile!mOffered, Mobile!Request, Ask, Request, MobileInv, MobileGood
<1>4. Wire' = Wire
  BY <1>1 DEF Wire
<1>5. CASE ws # "open"
  BY <1>1, <1>2, <1>4, <1>5, MobileOrderNext DEF MobileOrder
<1>6. CASE ws = "open"
  <2>1. <<r>> \in Seq(Ask) /\ <<r>> # << >>
    BY <1>3, SMT
  <2>2. First(auth, inbox \o <<r>>, status' = "connected")
    BY <1>1, <2>1, MobileOrderTyped, FirstSends DEF MobileOrder
  <2>3. ASSUME ~lossy
        PROVE  Orders(Wire, inbox \o <<r>>, mAnswered,
                      IF r.type = "get" THEN Append(asked, r.name) ELSE asked)
    <3>1. Orders(Wire, inbox, mAnswered, asked)
      BY <2>3 DEF MobileOrder
    <3>2. CASE r.type = "get"
      BY <3>1, <3>2, <1>3, MobileOrderTyped, OrdersAsked
    <3>3. CASE r.type # "get"
      <4>1. Lists(<<r>>, << >>)
        BY <3>3, <1>3, AskAnswers, AnswersNone
      <4> QED BY <4>1, <3>1, <3>3, <2>1, MobileOrderTyped, OrdersOther
    <3> QED BY <3>2, <3>3
  <2> QED BY <1>1, <1>2, <1>4, <1>6, <2>2, <2>3, MobileOrderNext
<1> QED BY <1>5, <1>6

(* A handler takes the first message.                                      *)
LEMMA MobileOrderTakes ==
    ASSUME MobileInv, MobileOrder, NEW t, Mobile!Arrives(t),
           \/ inbox' = inbox \/ inbox' = inbox \o <<Mobile!Req("list")>>,
           ~lossy => mAnswered' = IF Answers(Wire[1])
                                  THEN Append(mAnswered, Wire[1].name)
                                  ELSE mAnswered,
           mAnswered' \in Seq(Names)
    PROVE  MobileOrder'
<1>0. UNCHANGED <<auth, lossy, asked, status>>
  BY DEF Mobile!Arrives
<1>1. Wire # << >> /\ Wire' = Tail(Wire)
  BY MobileArrives DEF MobileInv
<1>2. ASSUME ~lossy PROVE Orders(Wire', inbox, mAnswered', asked)
  <2>1. Orders(Wire, inbox, mAnswered, asked)
    BY <1>2 DEF MobileOrder
  <2> HIDE DEF Answers
  <2> QED BY <2>1, <1>1, <1>2, MobileOrderTyped, OrdersHandled
<1>3. CASE inbox' = inbox
  <2>1. First(auth', inbox', status' = "connected")
    BY <1>0, <1>3 DEF MobileOrder
  <2> QED BY <1>0, <1>2, <1>3, <2>1, MobileOrderNext
<1>4. CASE inbox' = inbox \o <<Mobile!Req("list")>>
  <2> DEFINE q == <<Mobile!Req("list")>>
  <2>1. q \in Seq(Ask) /\ q # << >> /\ q[1].type # "get" /\ Lists(q, << >>)
    BY ListOrders
  <2>2. inbox' = inbox \o q
    BY <1>4
  <2> HIDE DEF q
  <2>3. First(auth, inbox \o q, status' = "connected")
    BY <2>1, MobileOrderTyped, FirstSends DEF MobileOrder
  <2>4. ~lossy => Orders(Wire', inbox \o q, mAnswered', asked)
    BY <2>1, <1>2, MobileOrderTyped, OrdersOther
  <2> QED BY <1>0, <2>2, <2>3, <2>4, MobileOrderNext
<1> QED BY <1>3, <1>4

(* What a whole stream holds in front.                                     *)
LEMMA MobileFront ==
    ASSUME MobileInv, ~lossy, Wire # << >>
    PROVE  /\ Wire \in Seq(Sent) /\ Stream(Wire) /\ Sound(Wire[1])
           /\ ws # "null" => mDownloads = MobileExpected(Wire)
<1>1. /\ Wire \in Seq(Sent) /\ Stream(Wire)
      /\ ws # "null" => mDownloads = MobileExpected(Wire)
  BY WireTyped DEF MobileInv, MobileWhole
<1> QED BY <1>1, StreamGoesOn

(* The handlers of the messages that are not of a transfer.                *)
LEMMA MobileOrderOthers ==
    ASSUME MobileInv, MobileOrder,
           \/ Mobile!BadFrame \/ Mobile!onVideo \/ Mobile!onFileList
           \/ Mobile!onHello \/ Mobile!onFileDeleteResp
    PROVE  MobileOrder'
<1>0. PeerGood /\ mAnswered \in Seq(Names)
  BY DEF MobileInv, MobileGood
<1>1. CASE Mobile!BadFrame
  <2>1. Mobile!Arrives("junk") /\ UNCHANGED <<auth, inbox, lossy, status>>
    BY <1>1 DEF Mobile!BadFrame, Mobile!Arrives
  <2>2. Wire # << >> /\ Wire[1].type = "junk"
    BY <2>1, <1>0, MobileArrives
  <2>3. lossy
    BY <2>2, MobileFront DEF Sound
  <2>4. First(auth', inbox', status' = "connected")
    BY <2>1 DEF MobileOrder
  <2> QED BY <2>1, <2>3, <2>4, MobileOrderNext
<1>2. CASE \/ Mobile!onVideo \/ Mobile!onFileList
           \/ Mobile!onHello \/ Mobile!onFileDeleteResp
  <2>1. PICK t \in {"video", "list", "hello", "deleted"} : Mobile!Arrives(t)
    BY <1>2 DEF Mobile!onVideo, Mobile!onFileList, Mobile!onHello,
                Mobile!onFileDeleteResp
  <2>2. /\ inbox' = inbox \/ inbox' = inbox \o <<Mobile!Req("list")>>
        /\ mAnswered' = mAnswered
    BY <1>2 DEF Mobile!onVideo, Mobile!onFileList, Mobile!onHello,
                Mobile!onFileDeleteResp, Mobile!send
  <2>3. Wire[1].type = t
    BY <2>1, <1>0, MobileArrives
  <2>4. ~Answers(Wire[1])
    BY <2>3 DEF Answers
  <2> HIDE DEF Answers
  <2> QED BY <2>1, <2>2, <2>4, <1>0, MobileOrderTakes
<1> QED BY <1>1, <1>2

(* The file that is not there, and a chunk.                                *)
LEMMA MobileOrderData ==
    ASSUME MobileInv, MobileOrder, Mobile!FileNotFound \/ Mobile!onFileData
    PROVE  MobileOrder'
<1> DEFINE m == Mobile!Arrived
           d == Mobile!Entry(mDownloads[m.name], m)
<1>0. PeerGood /\ mAnswered \in Seq(Names)
  BY DEF MobileInv, MobileGood
<1>1. Mobile!Arrives("data") /\ inbox' = inbox
  BY DEF Mobile!FileNotFound, Mobile!onFileData
<1>2. /\ Wire # << >> /\ Wire[1] = m /\ m \in Sent /\ m.type = "data"
      /\ ws = "open"
  BY <1>0, <1>1, MobileArrives
<1>3. \/ m.total = 0 /\ mAnswered' = Append(mAnswered, m.name)
      \/ /\ m.total > 0
         /\ IF Mobile!Complete(d)
            THEN mAnswered' = Append(mAnswered, m.name)
            ELSE mAnswered' = mAnswered
  BY DEF Mobile!FileNotFound, Mobile!onFileData
<1> HIDE DEF m
<1>4. m.name \in Names /\ m.idx \in Nat /\ m.total \in Nat
  BY <1>2, DataFields
<1>5. mAnswered' \in Seq(Names)
  <2>1. Append(mAnswered, m.name) \in Seq(Names)
    BY <1>0, <1>4, SMT
  <2> QED BY <2>1, <1>0, <1>3
<1>6. Answers(m) <=> ~Unfinished(m)
  BY <1>2 DEF Answers
<1>7. ASSUME ~lossy
      PROVE  mAnswered' = IF Answers(Wire[1])
                          THEN Append(mAnswered, Wire[1].name) ELSE mAnswered
  <2>1. /\ Wire \in Seq(Sent) /\ Stream(Wire)
        /\ mDownloads = MobileExpected(Wire)
    BY <1>2, <1>7, MobileFront
  <2>2. CASE m.total = 0
    <3>1. ~Unfinished(m)
      BY <2>2, <1>4, SMT DEF Unfinished
    <3>2. ~(m.total > 0)
      BY <2>2, SMT
    <3> QED BY <3>1, <3>2, <1>2, <1>3, <1>6
  <2>3. CASE m.total > 0
    <3>1. Mobile!Complete(d) <=> ~Unfinished(m)
      BY <2>1, <2>3, <1>2, MobileChunk
    <3>2. m.total # 0
      BY <2>3, SMT
    <3> HIDE DEF d
    <3> QED BY <3>1, <3>2, <1>2, <1>3, <1>6
  <2> QED BY <2>2, <2>3, <1>3
<1> QED BY <1>1, <1>5, <1>7, MobileOrderTakes

(* Every step of the mobile client keeps the order.                        *)
LEMMA MobileKeepsOrder ==
    ASSUME MobileInv, MobileOrder, Mobile!Next PROVE MobileOrder'
  BY SamePeer, MobileOrderPeer, MobileOrderConnects, MobileOrderOther,
     MobileOrderOpens, MobileOrderClick, MobileOrderOthers, MobileOrderData
     DEF Mobile!Next

-----------------------------------------------------------------------------
(* The order of either client's answers.                                   *)

Orderly ==
    /\ kind = "pc" => PcOrder
    /\ kind = "mobile" => MobileOrder

(* Nothing is asked for before the first connection.                       *)
LEMMA InitOrder == Init => Orderly
<1> SUFFICES ASSUME Init PROVE Orderly
  OBVIOUS
<1>1. /\ auth = "no" /\ inbox = << >> /\ sending = << >> /\ outbox = << >>
      /\ asked = << >>
  BY DEF Init, Pc!Init, Pc!PeerInit, Pc!Fresh
<1>2. /\ rx = << >> /\ off = 0 /\ loop = "idle" /\ connected = FALSE
      /\ answered = << >>
  BY DEF Init, Pc!Init
<1>3. status = "disconnected" /\ mAnswered = << >>
  BY DEF Init, Mobile!Init
<1>4. /\ << >> \o (<< >> \o << >>) = << >> /\ << >> \o << >> = << >>
      /\ SubSeq(<< >>, 0 + 1, Len(<< >>)) = << >>
      /\ << >> \in Seq(Sent) /\ \A i \in 1..Len(<< >>) : FALSE
  BY SMT
<1>5. Wire = << >> /\ PcPipe = << >>
  BY <1>1, <1>2, <1>4 DEF Wire, PcPipe, PcOpen, Handled
<1>6. Lists(<< >>, << >>)
  BY <1>4, ListsNone
<1>7. Orders(<< >>, << >>, << >>, << >>)
  BY <1>4, <1>6, OrdersFresh
<1>8. PcOrder
  BY <1>1, <1>2, <1>5, <1>7 DEF PcOrder, First
<1>9. MobileOrder
  BY <1>1, <1>3, <1>5, <1>7 DEF MobileOrder, First
<1> QED BY <1>8, <1>9 DEF Orderly

(* Every step of either client keeps the order.                            *)
LEMMA NextOrder == IInv /\ Orderly /\ [Next]_vars => Orderly'
<1> SUFFICES ASSUME IInv, Orderly, [Next]_vars PROVE Orderly'
  OBVIOUS
<1>1. CASE PcStep
  <2>1. kind = "pc" /\ kind' = "pc" /\ Pc!Next
    BY <1>1 DEF PcStep
  <2>2. PcInv /\ PcOrder
    BY <2>1 DEF IInv, Orderly, PcInv
  <2>3. PcOrder'
    BY <2>1, <2>2, PcKeepsOrder
  <2> QED BY <2>1, <2>3 DEF Orderly
<1>2. CASE MobileStep
  <2>1. kind = "mobile" /\ kind' = "mobile" /\ Mobile!Next
    BY <1>2 DEF MobileStep
  <2>2. MobileInv /\ MobileOrder
    BY <2>1 DEF IInv, Orderly, MobileInv
  <2>3. MobileOrder'
    BY <2>1, <2>2, MobileKeepsOrder
  <2> QED BY <2>1, <2>3 DEF Orderly
<1>3. CASE UNCHANGED vars
  <2>1. UNCHANGED <<kind, auth, inbox, sending, outbox, lossy, asked, rx, off,
                    loop, connected, answered, status, mAnswered>>
    BY <1>3 DEF vars, pcVars, mobileVars, peerVars, serverVars
  <2>2. Wire' = Wire
    BY <2>1 DEF Wire
  <2>3. PcPipe' = PcPipe
    BY <2>1, <2>2 DEF PcPipe, PcOpen, Handled
  <2>4. PcOrder => PcOrder'
    <3>1. ASSUME PcOrder
          PROVE  /\ First(auth', inbox', connected')
                 /\ lossy' \/ Orders(PcPipe', inbox', answered', asked')
      BY <3>1, <2>1, <2>3 DEF PcOrder
    <3> QED BY <3>1, PcOrderNext
  <2>5. MobileOrder => MobileOrder'
    <3>1. ASSUME MobileOrder
          PROVE  /\ First(auth', inbox', status' = "connected")
                 /\ lossy' \/ Orders(Wire', inbox', mAnswered', asked')
      BY <3>1, <2>1, <2>2 DEF MobileOrder
    <3> QED BY <3>1, MobileOrderNext
  <2> QED BY <2>1, <2>4, <2>5 DEF Orderly
<1> QED BY <1>1, <1>2, <1>3 DEF Next

(* What is in order, read off one state.                                   *)
LEMMA OrderAnswers ==
    ASSUME IInv, Orderly PROVE AnswersInOrder
<1>1. kind \in {"pc", "mobile"} /\ PeerGood /\ PcGood /\ MobileGood
  BY DEF IInv
<1>2. << >> \o << >> = << >> /\ << >> \o (<< >> \o << >>) = << >>
  BY SMT
<1>3. CASE kind = "pc"
  <2>1. ASSUME ~lossy
        PROVE  /\ Len(answered) <= Len(asked)
               /\ answered = SubSeq(asked, 1, Len(answered))
               /\ Pc!Quiet /\ rx = << >> => answered = asked
    <3>1. Orders(PcPipe, inbox, answered, asked) /\ answered \in Seq(Names)
      BY <2>1, <1>1, <1>3 DEF Orderly, PcOrder, PcGood
    <3>2. ASSUME Pc!Quiet, rx = << >>
          PROVE  PcPipe = << >> /\ inbox = << >>
      <4>1. inbox = << >> /\ sending = << >> /\ outbox = << >>
        BY <3>2 DEF Pc!Quiet
      <4>2. off = 0 /\ loop # "dialog"
        <5>1. Len(<< >>) = 0 /\ \A i \in 0..0 : i = 0
          BY SMT
        <5>2. ~(off < 0)
          BY <5>1, <1>1, <3>2, SMT DEF PcGood
        <5> QED BY <5>1, <5>2, <1>1, <3>2 DEF PcGood
      <4>3. SubSeq(<< >>, 0 + 1, Len(<< >>)) = << >>
        BY SMT
      <4> QED BY <4>1, <4>2, <4>3, <1>2, <3>2
              DEF PcPipe, PcOpen, Handled, Wire
    <3> QED BY <3>1, <3>2, OrdersPrefix
  <2> QED BY <2>1, <1>3 DEF AnswersInOrder, Pc!AnswersInOrder
<1>4. CASE kind = "mobile"
  <2>1. ASSUME ~lossy
        PROVE  /\ Len(mAnswered) <= Len(asked)
               /\ mAnswered = SubSeq(asked, 1, Len(mAnswered))
               /\ Mobile!Quiet => mAnswered = asked
    <3>1. Orders(Wire, inbox, mAnswered, asked) /\ mAnswered \in Seq(Names)
      BY <2>1, <1>1, <1>4 DEF Orderly, MobileOrder, MobileGood
    <3>2. Mobile!Quiet => Wire = << >> /\ inbox = << >>
      BY <1>2 DEF Mobile!Quiet, Wire
    <3> QED BY <3>1, <3>2, OrdersPrefix
  <2> QED BY <2>1, <1>4 DEF AnswersInOrder, Mobile!AnswersInOrder
<1> QED BY <1>1, <1>3, <1>4

(* Every file that either client asks for is answered, each time it asks,  *)
(* and in the order of the requests; nothing is answered that was not      *)
(* asked for; and when nothing is on its way any more, nothing is left     *)
(* unanswered: as long as no write of the terminal's has failed            *)
(* (ClientSession::sendFile; TcpClient::handleFileData; terminal.ts,       *)
(* onFileData).                                                            *)
THEOREM FilesAnsweredInOrder == Spec => []AnswersInOrder
<1>1. Spec => []Orderly
  <2>1. Orderly /\ IInv /\ [Next]_vars => Orderly'
    BY NextOrder
  <2> QED BY <2>1, InitOrder, Invariant, PTL DEF Spec
<1>2. IInv /\ Orderly => AnswersInOrder
  BY OrderAnswers
<1> QED BY <1>1, <1>2, Invariant, PTL
=============================================================================
