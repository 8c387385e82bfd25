-------------------------- MODULE ConnSetup_proofs --------------------------
(***************************************************************************)
(* How long a session can take, for every timeout, deadline, limit and     *)
(* size of message: the types, the bound on a session that does not        *)
(* authenticate and the bound on one that is asked to stop.                *)
(*                                                                         *)
(* The argument: "Spent" bounds the time in the operation under way by     *)
(* what it has moved, and can only grow while it lasts; at its end it is   *)
(* at most a timeout for every byte.  The rest of the invariant adds up    *)
(* what the operations before it may have taken, on every way through the  *)
(* setup and through one pass of the loop.                                 *)
(***************************************************************************)
EXTENDS ConnSetup, TLAPS

(* The time n system calls may take.                                       *)
Time(n) == Timeout * n

(* The operation under way has bytes to move, and a send() that has moved  *)
(* something has fewer of them.                                            *)
CallInv ==
    /\ pc \in Reading \cup Writing => todo > 0
    /\ moved => pc \in Writing /\ todo < MessageBytes
    /\ pc \in {"loop", "poll"} => wait = 0

(* A bound of the time in the operation under way: each byte moved has     *)
(* paid for one system call, what a send() has moved for its own.          *)
Used == IF moved THEN 1 ELSE 0
Spent == Time(Bytes(pc) - todo - Used) + wait

Longest == IF SetupBound > PassBound THEN SetupBound ELSE PassBound
TlsRead == IF tls THEN Time(RecordBytes) ELSE 0

(* What the operations before it may have taken.                           *)
SetupBefore(p) ==
    CASE p = "accept"  -> 0
      [] p = "upgrade" -> IF tls THEN Time(HandshakeBytes) ELSE 0
      [] OTHER         -> SetupBound
PassBefore(p) ==
    CASE p \in {"poll", "record"} -> 0
      [] p = "control" -> TlsRead
      [] OTHER         -> ReadBound
StopBefore(p) ==
    CASE p \in {"accept", "upgrade"}   -> SetupBefore(p)
      [] p \in {"loop", "shutdown"}    -> Longest
      [] p = "frame"                   -> ReadBound + Time(MessageBytes)
      [] OTHER                         -> PassBefore(p)

ClockInv == (InSetup => since = 0) /\ (~stop => stopAge = 0)
AgeInv == ~Over => age <= SetupBefore(pc) + (IF InSetup THEN Spent ELSE since)
StayInv ==
    ~Over /\ ~authed /\ ~InSetup =>
        since <= AuthTimeout + 1 + PassBefore(pc) + Spent
StopInv == ~Over => stopAge <= StopBefore(pc) + Spent

IInv == TypeOK /\ CallInv /\ ClockInv /\ AgeInv /\ StayInv /\ StopInv

-----------------------------------------------------------------------------
(* Arithmetic.                                                             *)

(* The constants are numbers, and no operation is empty.                   *)
LEMMA ConstantsAre ==
    /\ Timeout \in Nat \ {0} /\ AuthTimeout \in Nat
    /\ HandshakeBytes \in Nat \ {0} /\ RecordBytes \in Nat \ {0}
    /\ MessageBytes \in Nat \ {0} /\ MaxReq \in Nat /\ MaxAge \in Nat
BY TimesAssumption, SizesAssumption

(* A time is a number of ticks.                                            *)
LEMMA TimeType ==
    ASSUME NEW n \in Nat
    PROVE  Time(n) \in Nat
BY ConstantsAre DEF Time

(* One more call takes a timeout more.                                     *)
LEMMA TimeNext ==
    ASSUME NEW n \in Nat
    PROVE  Time(n + 1) = Time(n) + Timeout
BY ConstantsAre DEF Time

(* More calls take no less time.                                           *)
LEMMA TimeMonotone ==
    ASSUME NEW m \in Nat, NEW n \in Nat, m <= n
    PROVE  Time(m) <= Time(n)
BY ConstantsAre DEF Time

LEMMA TimeZero == Time(0) = 0
BY ConstantsAre DEF Time

(* The request may have bytes.                                             *)
LEMMA ReqBytesType == tls \in BOOLEAN => ReqBytes \in Nat \ {0}
<1>1. \A a, b \in Nat \ {0} : a * b \in Nat \ {0}
  OBVIOUS
<1>2. (MaxReq + 1) \in Nat \ {0}
  BY ConstantsAre
<1>3. (IF tls THEN RecordBytes ELSE 1) \in Nat \ {0}
  BY ConstantsAre
<1> QED BY <1>1, <1>2, <1>3 DEF ReqBytes

(* The bounds that the properties state, in timeouts.                      *)
LEMMA BoundsAre ==
    ASSUME tls \in BOOLEAN, ws \in BOOLEAN
    PROVE  /\ SetupBound = (IF tls THEN Time(HandshakeBytes) ELSE 0)
                            + (IF ws THEN Time(ReqBytes) ELSE 0)
           /\ ReadBound = TlsRead + (IF ws THEN Time(MessageBytes) ELSE 0)
           /\ PassBound = ReadBound + Time(MessageBytes) + Time(MessageBytes)
           /\ TlsRead \in Nat /\ SetupBound \in Nat /\ ReadBound \in Nat
           /\ PassBound \in Nat /\ Longest \in Nat
           /\ Time(HandshakeBytes) \in Nat /\ Time(ReqBytes) \in Nat
           /\ Time(MessageBytes) \in Nat /\ Time(RecordBytes) \in Nat
<1>1. /\ Time(HandshakeBytes) \in Nat /\ Time(ReqBytes) \in Nat
      /\ Time(MessageBytes) \in Nat /\ Time(RecordBytes) \in Nat
  BY ConstantsAre, ReqBytesType, TimeType
<1>2. \A a, b, c \in Nat : a * (b + c) = a * b + a * c /\ a * 0 = 0
  OBVIOUS
<1>3. SetupBound = (IF tls THEN Time(HandshakeBytes) ELSE 0)
                    + (IF ws THEN Time(ReqBytes) ELSE 0)
  <2> DEFINE h == IF tls THEN HandshakeBytes ELSE 0
             r == IF ws THEN ReqBytes ELSE 0
  <2>1. h \in Nat /\ r \in Nat /\ Timeout \in Nat
    BY ConstantsAre, ReqBytesType
  <2>2. Timeout * h = (IF tls THEN Time(HandshakeBytes) ELSE 0)
    BY <2>1, <1>2 DEF Time
  <2>3. Timeout * r = (IF ws THEN Time(ReqBytes) ELSE 0)
    BY <2>1, <1>2 DEF Time
  <2>4. SetupBound = Timeout * (h + r)
    BY DEF SetupBound
  <2> HIDE DEF h, r
  <2> QED BY <1>2, <2>1, <2>2, <2>3, <2>4
<1>4. ReadBound = TlsRead + (IF ws THEN Time(MessageBytes) ELSE 0)
  <2> DEFINE h == IF tls THEN RecordBytes ELSE 0
             r == IF ws THEN MessageBytes ELSE 0
  <2>1. h \in Nat /\ r \in Nat /\ Timeout \in Nat
    BY ConstantsAre
  <2>2. Timeout * h = TlsRead
    BY <2>1, <1>2 DEF Time, TlsRead
  <2>3. Timeout * r = (IF ws THEN Time(MessageBytes) ELSE 0)
    BY <2>1, <1>2 DEF Time
  <2>4. ReadBound = Timeout * (h + r)
    BY DEF ReadBound
  <2> HIDE DEF h, r
  <2> QED BY <1>2, <2>1, <2>2, <2>3, <2>4
<1>5. TlsRead \in Nat
  BY <1>1 DEF TlsRead
<1>6. SetupBound \in Nat /\ ReadBound \in Nat
  BY <1>1, <1>3, <1>4, <1>5
<1>7. PassBound = ReadBound + Time(MessageBytes) + Time(MessageBytes)
  <2>1. 2 * Timeout * MessageBytes = Timeout * MessageBytes
                                     + Timeout * MessageBytes
    BY ConstantsAre
  <2>2. PassBound = ReadBound + 2 * Timeout * MessageBytes
    BY DEF PassBound
  <2>3. Time(MessageBytes) = Timeout * MessageBytes
    BY DEF Time
  <2> QED BY <1>1, <1>6, <2>1, <2>2, <2>3
<1>8. PassBound \in Nat /\ Longest \in Nat
  BY <1>1, <1>6, <1>7 DEF Longest
<1> QED BY <1>1, <1>3, <1>4, <1>5, <1>6, <1>7, <1>8

(* Every operation has bytes to move.                                      *)
LEMMA BytesAre ==
    ASSUME tls \in BOOLEAN
    PROVE  /\ Bytes("accept") = HandshakeBytes /\ Bytes("upgrade") = ReqBytes
           /\ Bytes("record") = RecordBytes
           /\ \A p \in Writing : Bytes(p) = MessageBytes
           /\ \A p \in {"loop", "poll", "shutdown", "ended", "gone"} :
                 Bytes(p) = 0
           /\ \A p \in Reading \cup Writing : Bytes(p) \in Nat \ {0}
<1>1. Bytes("accept") = HandshakeBytes
  BY DEF Bytes, Writing
<1>2. Bytes("upgrade") = ReqBytes
  BY DEF Bytes, Writing
<1>3. Bytes("record") = RecordBytes
  BY DEF Bytes, Writing
<1>4. Bytes("control") = MessageBytes
  BY DEF Bytes, Writing
<1>5. Bytes("answer") = MessageBytes
  BY DEF Bytes, Writing
<1>6. Bytes("frame") = MessageBytes
  BY DEF Bytes, Writing
<1>7. \A p \in {"loop", "poll", "shutdown", "ended", "gone"} : Bytes(p) = 0
  BY DEF Bytes, Writing
<1> QED BY <1>1, <1>2, <1>3, <1>4, <1>5, <1>6, <1>7, ConstantsAre, ReqBytesType
        DEF Reading, Writing

-----------------------------------------------------------------------------
(* What the steps do to the operation under way.                           *)

Places ==
    Reading \cup Writing \cup {"loop", "poll", "shutdown", "ended", "gone"}

(* The time in an operation, while it lasts and at its end.                *)
LEMMA SpentIs ==
    ASSUME TypeOK, CallInv
    PROVE  /\ Spent \in Nat
           /\ pc \in Reading \cup Writing => Spent <= Time(Bytes(pc))
           /\ pc \in {"loop", "poll"} => Spent = 0
           /\ pc = "shutdown" => Spent = wait
<1>1. /\ tls \in BOOLEAN /\ todo \in 0..Bytes(pc) /\ wait \in 0..Timeout
      /\ moved \in BOOLEAN /\ pc \in Places
  BY DEF TypeOK, Places
<1>2. CASE pc \in Reading \cup Writing
  <2>1. Bytes(pc) \in Nat \ {0} /\ todo > 0
    BY <1>1, <1>2, BytesAre DEF CallInv
  <2>2. moved => Bytes(pc) = MessageBytes /\ todo < Bytes(pc)
    BY <1>1, BytesAre DEF CallInv
  <2> DEFINE k == Bytes(pc) - todo - Used
  <2>3. k \in Nat /\ k + 1 \in Nat /\ k + 1 <= Bytes(pc)
    BY <1>1, <2>1, <2>2 DEF Used
  <2>4. Spent = Time(k) + wait
    BY DEF Spent
  <2> HIDE DEF k
  <2>5. Time(k) \in Nat /\ Time(k) + Timeout <= Time(Bytes(pc))
    BY <2>1, <2>3, TimeType, TimeNext, TimeMonotone
  <2>6. Spent \in Nat /\ Spent <= Time(Bytes(pc))
    BY <1>1, <2>1, <2>4, <2>5, TimeType, ConstantsAre
  <2> QED BY <1>2, <2>6 DEF Reading, Writing
<1>3. CASE pc \notin Reading \cup Writing
  <2>1. Bytes(pc) = 0 /\ ~moved
    BY <1>1, <1>3, BytesAre DEF Places, CallInv
  <2>2. Bytes(pc) - todo - Used = 0
    <3>1. Used = 0
      BY <2>1 DEF Used
    <3>2. todo = 0
      BY <1>1, <2>1
    <3> QED BY <2>1, <3>1, <3>2
  <2>3. Spent = wait
    BY <1>1, <2>2, TimeZero, ConstantsAre DEF Spent
  <2> QED BY <1>1, <1>3, <2>3, ConstantsAre DEF CallInv
<1> QED BY <1>2, <1>3

(* A new operation has taken no time.                                      *)
LEMMA EnterStep ==
    ASSUME tls \in BOOLEAN, tls' = tls, NEW q \in Places, Enter(q)
    PROVE  /\ pc' = q /\ wait' \in 0..Timeout /\ moved' \in BOOLEAN
           /\ todo' \in 0..Bytes(pc)' /\ CallInv' /\ Spent' = 0
<1>1. /\ pc' = q /\ todo' = Bytes(q) /\ wait' = 0 /\ moved' = FALSE
  BY DEF Enter
<1>2. Bytes(q) \in Nat /\ (q \in Reading \cup Writing => Bytes(q) > 0)
  BY BytesAre DEF Places
<1>3. Bytes(pc)' = Bytes(q)
  BY <1>1 DEF Bytes, ReqBytes
<1>4. CallInv'
  BY <1>1, <1>2 DEF CallInv
<1>5. Spent' = 0
  <2>1. Used' = 0
    BY <1>1 DEF Used
  <2>2. Bytes(pc)' - todo' - Used' = 0
    BY <1>1, <1>2, <1>3, <2>1
  <2> QED BY <1>1, <2>2, TimeZero, ConstantsAre DEF Spent
<1>6. todo' \in 0..Bytes(pc)'
  BY <1>1, <1>2, <1>3
<1>7. wait' \in 0..Timeout
  BY <1>1, ConstantsAre
<1> QED BY <1>1, <1>4, <1>5, <1>6, <1>7

(* The operation goes on: a byte comes or goes, or a system call is over   *)
(* and the next one begins.                                                *)
GoesOn ==
    /\ pc \in Reading \cup Writing
    /\ \/ /\ todo > 1 /\ todo' = todo - 1 /\ wait' = 0
          /\ moved = FALSE /\ moved' = FALSE
       \/ /\ pc \in Writing /\ todo > 1
          /\ todo' = todo - 1 /\ wait' = wait /\ moved' = TRUE
       \/ /\ moved /\ wait = Timeout
          /\ todo' = todo /\ wait' = 0 /\ moved' = FALSE
    /\ UNCHANGED <<tls, ws, pc, authed, stop, fdVars, clockVars>>

(* What it has moved pays for the time it has taken.                       *)
LEMMA GoesOnStep ==
    ASSUME TypeOK, CallInv, GoesOn
    PROVE  TypeOK' /\ CallInv' /\ Spent <= Spent' /\ Spent' \in Nat
<1>1. /\ tls \in BOOLEAN /\ todo \in 0..Bytes(pc) /\ wait \in 0..Timeout
      /\ moved \in BOOLEAN /\ pc \in Reading \cup Writing /\ todo > 0
      /\ tls' = tls /\ pc' = pc
  BY DEF TypeOK, CallInv, GoesOn
<1>2. Bytes(pc) \in Nat \ {0} /\ (pc \in Writing => Bytes(pc) = MessageBytes)
  BY <1>1, BytesAre
<1>3. Bytes(pc)' = Bytes(pc)
  BY <1>1 DEF Bytes, ReqBytes
<1>4. /\ todo' \in 0..Bytes(pc)' /\ wait' \in 0..Timeout /\ moved' \in BOOLEAN
      /\ todo' > 0 /\ (moved' => pc' \in Writing /\ todo' < MessageBytes)
  <2>1. CASE /\ todo > 1 /\ todo' = todo - 1 /\ wait' = 0
             /\ moved = FALSE /\ moved' = FALSE
    <3>1. todo' \in 0..Bytes(pc)' /\ todo' > 0
      BY <1>1, <1>2, <1>3, <2>1
    <3>2. wait' \in 0..Timeout
      BY <2>1, ConstantsAre
    <3> QED BY <1>1, <2>1, <3>1, <3>2
  <2>2. CASE /\ pc \in Writing /\ todo > 1
             /\ todo' = todo - 1 /\ wait' = wait /\ moved' = TRUE
    <3>1. todo' \in 0..Bytes(pc)' /\ todo' > 0 /\ todo' < Bytes(pc)
      BY <1>1, <1>2, <1>3, <2>2
    <3> QED BY <1>1, <1>2, <2>2, <3>1
  <2>3. CASE /\ moved /\ wait = Timeout /\ todo' = todo /\ wait' = 0
             /\ moved' = FALSE
    <3>1. todo' \in 0..Bytes(pc)' /\ todo' > 0
      BY <1>1, <1>2, <1>3, <2>3
    <3>2. wait' \in 0..Timeout
      BY <2>3, ConstantsAre
    <3> QED BY <1>1, <2>3, <3>1, <3>2
  <2> QED BY <2>1, <2>2, <2>3 DEF GoesOn
<1>5. TypeOK'
  BY <1>4 DEF TypeOK, GoesOn, fdVars, clockVars
<1>6. CallInv'
  BY <1>1, <1>4 DEF CallInv, Reading, Writing
<1>7. Spent <= Spent' /\ Spent' \in Nat
  <2> DEFINE k == Bytes(pc) - todo - Used
             l == Bytes(pc)' - todo' - Used'
  <2>1. k \in Nat
    BY <1>1, <1>2 DEF Used, CallInv
  <2>2. Spent = Time(k) + wait /\ Spent' = Time(l) + wait'
    BY DEF Spent
  <2>3. CASE l = k + 1 /\ wait' = 0
    <3> HIDE DEF k, l
    <3>1. Time(l) = Time(k) + Timeout /\ Time(k) \in Nat
      BY <2>1, <2>3, TimeNext, TimeType
    <3> QED BY <1>1, <2>2, <2>3, <3>1, ConstantsAre
  <2>4. CASE (l = k \/ l = k + 1) /\ wait' = wait
    <3> HIDE DEF k, l
    <3>1. Time(l) >= Time(k) /\ Time(k) \in Nat /\ Time(l) \in Nat
      BY <2>1, <2>4, TimeMonotone, TimeType
    <3> QED BY <1>1, <2>2, <2>4, <3>1, ConstantsAre
  <2>5. \/ l = k + 1 /\ wait' = 0
        \/ (l = k \/ l = k + 1) /\ wait' = wait
    <3>1. CASE /\ todo > 1 /\ todo' = todo - 1 /\ wait' = 0
               /\ moved = FALSE /\ moved' = FALSE
      BY <1>1, <1>2, <1>3, <3>1 DEF Used
    <3>2. CASE /\ pc \in Writing /\ todo > 1
               /\ todo' = todo - 1 /\ wait' = wait /\ moved' = TRUE
      BY <1>1, <1>2, <1>3, <3>2 DEF Used
    <3>3. CASE /\ moved /\ wait = Timeout /\ todo' = todo /\ wait' = 0
               /\ moved' = FALSE
      BY <1>1, <1>2, <1>3, <3>3 DEF Used
    <3> QED BY <3>1, <3>2, <3>3 DEF GoesOn
  <2> QED BY <2>3, <2>4, <2>5
<1> QED BY <1>5, <1>6, <1>7

(* The descriptor is ours, or fd_ says that it is not.                     *)
FdOK ==
    /\ held \in BOOLEAN /\ fd \in {"mine", "free", "other"}
    /\ held <=> fd = "mine"

(* Which operation follows which.                                          *)
Follows(q) ==
    \/ pc = "accept" /\ q = (IF ws THEN "upgrade" ELSE "loop")
    \/ pc = "upgrade" /\ q = "loop"
    \/ pc = "loop" /\ ~MustEnd /\ q = "poll"
    \/ pc = "poll" /\ tls /\ q = "record"
    \/ pc \in {"poll", "record"} /\ ws /\ q = "control"
    \/ pc \in {"poll", "record", "control"} /\ authed' /\ q = "answer"
    \/ pc \in {"poll", "record", "control", "answer"} /\ q = "loop"
    \/ pc \in {"poll", "record", "control", "answer"} /\ authed' /\ q = "frame"
    \/ pc = "frame" /\ q = "loop"
    \/ ~Over /\ pc # "shutdown" /\ tls /\ q = "shutdown"
    \/ q \in {"ended", "gone"}

Rests == UNCHANGED <<tls, ws, stop, clockVars>>

(* One operation is over and another begins.                               *)
GoesTo(q) ==
    Enter(q) /\ Follows(q) /\ authed' \in {authed, TRUE} /\ FdOK' /\ Rests

Goes == \E q \in Places : GoesTo(q)

(* Closing, and leaving the descriptor alone, keep fd_ right.              *)
LEMMA CloseFdStep == FdOK /\ CloseFd => FdOK'
BY DEF FdOK, CloseFd, fdVars

LEMMA FdKept == FdOK /\ UNCHANGED fdVars => FdOK'
BY DEF FdOK, fdVars

(* An operation may fail.                                                  *)
LEMMA ClosesStep ==
    ASSUME TypeOK, Closes, ~Over, pc # "shutdown",
           authed' \in {authed, TRUE}, Rests
    PROVE  Goes
<1>1. FdOK
  BY DEF TypeOK, FdOK
<1>2. CASE tls
  <2>1. Enter("shutdown") /\ UNCHANGED fdVars
    BY <1>2 DEF Closes
  <2>2. GoesTo("shutdown")
    BY <1>1, <1>2, <2>1, FdKept DEF GoesTo, Follows
  <2> QED BY <2>2 DEF Goes, Places
<1>3. CASE ~tls
  <2>1. Enter("ended") /\ CloseFd
    BY <1>3 DEF Closes
  <2>2. GoesTo("ended")
    BY <1>1, <2>1, CloseFdStep DEF GoesTo, Follows
  <2> QED BY <2>2 DEF Goes, Places
<1> QED BY <1>2, <1>3

(* A pass through the loop ends with a frame, or without.                  *)
LEMMA FrameStep ==
    ASSUME TypeOK, pc \in {"poll", "record", "control", "answer"},
           FrameIfDue, authed' \in {authed, TRUE}, UNCHANGED fdVars, Rests
    PROVE  Goes
<1>1. FdOK'
  BY FdKept DEF TypeOK, FdOK
<1>2. CASE Enter("loop")
  BY <1>1, <1>2 DEF Goes, GoesTo, Follows, Places
<1>3. CASE authed' /\ Enter("frame")
  <2>1. GoesTo("frame")
    BY <1>1, <1>3 DEF GoesTo, Follows
  <2> QED BY <2>1 DEF Goes, Places, Writing
<1> QED BY <1>2, <1>3 DEF FrameIfDue

(* Messages are handled.                                                   *)
LEMMA HandledStep ==
    ASSUME TypeOK, pc \in {"poll", "record", "control"}, Handled, Rests
    PROVE  Goes
<1>1. CASE Fails
  <2>1. authed' \in {authed, TRUE} /\ Closes
    BY <1>1 DEF Fails
  <2> QED BY <2>1, ClosesStep DEF Over
<1>2. CASE /\ authed' \in {authed, TRUE} /\ UNCHANGED fdVars
           /\ FrameIfDue \/ (authed' /\ Enter("answer"))
  <2>1. FdOK'
    BY <1>2, FdKept DEF TypeOK, FdOK
  <2>2. CASE FrameIfDue
    BY <1>2, <2>2, FrameStep
  <2>3. CASE authed' /\ Enter("answer")
    <3>1. GoesTo("answer")
      BY <1>2, <2>1, <2>3 DEF GoesTo, Follows
    <3> QED BY <3>1 DEF Goes, Places, Writing
  <2> QED BY <1>2, <2>2, <2>3
<1> QED BY <1>1, <1>2 DEF Handled

(* Input has come.                                                         *)
LEMMA ReceivedStep ==
    ASSUME TypeOK, pc \in {"poll", "record"}, Received, Rests
    PROVE  Goes
<1>1. CASE Handled
  BY <1>1, HandledStep
<1>2. CASE ws /\ GoesOnTo("control")
  <2>1. FdOK' /\ Enter("control") /\ authed' = authed
    BY <1>2, FdKept DEF TypeOK, FdOK, GoesOnTo
  <2>2. GoesTo("control")
    BY <1>2, <2>1 DEF GoesTo, Follows
  <2> QED BY <2>2 DEF Goes, Places, Writing
<1> QED BY <1>1, <1>2 DEF Received

(* Some of what is read has come.                                          *)
LEMMA MoreStep ==
    ASSUME TypeOK, CallInv, pc \in Reading, MoreToCome, Rests
    PROVE  GoesOn
<1>1. moved = FALSE
  BY DEF TypeOK, CallInv, Reading, Writing
<1> QED BY <1>1 DEF MoreToCome, Rests, GoesOn

(* A message is sent, or given up.                                         *)
LEMMA WritesDoneStep ==
    ASSUME TypeOK, WritesDone, Rests
    PROVE  Goes
<1>1. CASE pc = "control" /\ Handled
  BY <1>1, HandledStep
<1>2. CASE pc = "answer" /\ UNCHANGED <<authed, fdVars>> /\ FrameIfDue
  BY <1>2, FrameStep
<1> QED BY <1>1, <1>2 DEF WritesDone

(* What a step can do: an operation goes on or another begins, time        *)
(* passes, or neither.                                                     *)
LEMMA StepIs ==
    ASSUME TypeOK, CallInv, [Next]_vars
    PROVE  \/ GoesOn \/ Goes \/ Tick
           \/ /\ UNCHANGED <<tls, ws, pc, callVars, authed, clockVars>>
              /\ stop' \in {stop, TRUE} /\ FdOK'
<1>0. FdOK /\ tls \in BOOLEAN /\ ws \in BOOLEAN /\ moved \in BOOLEAN
  BY DEF TypeOK, FdOK
<1>1. CASE TlsHandshake
  <2>1. pc = "accept" /\ Rests
    BY <1>1 DEF TlsHandshake, ByteComes, Rests
  <2>2. CASE MoreToCome
    BY <2>1, <2>2, MoreStep DEF Reading
  <2>3. CASE GoesOnTo(IF ws THEN "upgrade" ELSE "loop")
    <3> DEFINE q == IF ws THEN "upgrade" ELSE "loop"
    <3>1. q \in Places
      BY DEF Places, Reading
    <3>2. Enter(q) /\ authed' = authed /\ FdOK'
      BY <1>0, <2>3, FdKept DEF GoesOnTo
    <3>3. Follows(q)
      BY <2>1 DEF Follows
    <3> HIDE DEF q
    <3> QED BY <2>1, <3>1, <3>2, <3>3 DEF Goes, GoesTo
  <2>4. CASE Fails
    BY <2>1, <2>4, ClosesStep DEF Fails, Over
  <2> QED BY <1>1, <2>2, <2>3, <2>4 DEF TlsHandshake
<1>2. CASE Upgrade
  <2>1. pc = "upgrade" /\ Rests
    BY <1>2 DEF Upgrade, ByteComes, Rests
  <2>2. CASE MoreToCome
    BY <2>1, <2>2, MoreStep DEF Reading
  <2>3. CASE GoesOnTo("loop")
    <3>1. Enter("loop") /\ authed' = authed /\ FdOK'
      BY <1>0, <2>3, FdKept DEF GoesOnTo
    <3>2. GoesTo("loop")
      BY <2>1, <3>1 DEF GoesTo, Follows
    <3> QED BY <3>2 DEF Goes, Places
  <2>4. CASE Fails
    BY <2>1, <2>4, ClosesStep DEF Fails, Over
  <2> QED BY <1>2, <2>2, <2>3, <2>4 DEF Upgrade
<1>3. CASE readAndDispatch
  <2>1. pc = "poll" /\ Rests
    BY <1>3 DEF readAndDispatch, ByteComes, Rests
  <2>2. CASE tls /\ GoesOnTo("record")
    <3>1. Enter("record") /\ authed' = authed /\ FdOK'
      BY <1>0, <2>2, FdKept DEF GoesOnTo
    <3>2. GoesTo("record")
      BY <2>1, <2>2, <3>1 DEF GoesTo, Follows
    <3> QED BY <3>2 DEF Goes, Places, Reading
  <2>3. CASE Received
    BY <2>1, <2>3, ReceivedStep
  <2> QED BY <1>3, <2>2, <2>3 DEF readAndDispatch
<1>4. CASE RecordByte
  <2>1. pc = "record" /\ Rests
    BY <1>4 DEF RecordByte, ByteComes, Rests
  <2>2. CASE MoreToCome
    BY <2>1, <2>2, MoreStep DEF Reading
  <2>3. CASE Received
    BY <2>1, <2>3, ReceivedStep
  <2> QED BY <1>4, <2>2, <2>3 DEF RecordByte
<1>5. CASE PeerTakes
  <2>1. pc \in Writing /\ Rests
    BY <1>5 DEF PeerTakes, Rests
  <2>2. CASE /\ todo > 1 /\ todo' = todo - 1 /\ moved' = TRUE
             /\ UNCHANGED <<pc, wait, authed, fdVars>>
    BY <2>1, <2>2 DEF GoesOn, Rests
  <2>3. CASE WritesDone
    BY <2>1, <2>3, WritesDoneStep
  <2>4. CASE pc = "frame" /\ GoesOnTo("loop")
    <3>1. Enter("loop") /\ authed' = authed /\ FdOK'
      BY <1>0, <2>4, FdKept DEF GoesOnTo
    <3>2. GoesTo("loop")
      BY <2>1, <2>4, <3>1 DEF GoesTo, Follows
    <3> QED BY <3>2 DEF Goes, Places
  <2> QED BY <1>5, <2>2, <2>3, <2>4 DEF PeerTakes
<1>6. CASE PeerEnds
  <2>1. Rests /\ Fails /\ ~Over /\ pc # "shutdown"
    BY <1>6 DEF PeerEnds, Rests, Over, Reading
  <2> QED BY <2>1, ClosesStep DEF Fails
<1>7. CASE PollReturns
  <2>1. pc = "poll" /\ Rests /\ FrameIfDue /\ authed' = authed
        /\ UNCHANGED fdVars
    BY <1>7 DEF PollReturns, Rests, fdVars
  <2> QED BY <2>1, FrameStep
<1>8. CASE ReadTimesOut
  <2>1. pc \in Reading /\ Rests
    BY <1>8 DEF ReadTimesOut, Rests
  <2>2. CASE pc = "record" /\ UNCHANGED <<authed, fdVars>> /\ FrameIfDue
    BY <2>1, <2>2, FrameStep
  <2>3. CASE Fails
    BY <2>1, <2>3, ClosesStep DEF Fails, Over, Reading
  <2> QED BY <1>8, <2>2, <2>3 DEF ReadTimesOut
<1>9. CASE SendTimesOut
  <2>1. pc \in Writing /\ Rests /\ wait = Timeout
    BY <1>9 DEF SendTimesOut, Rests
  <2>2. CASE moved
    BY <1>9, <2>1, <2>2 DEF SendTimesOut, Rests, GoesOn
  <2>3. CASE ~moved /\ WritesDone
    BY <2>1, <2>3, WritesDoneStep
  <2>4. CASE pc = "frame" /\ Fails
    BY <2>1, <2>4, ClosesStep DEF Fails, Over
  <2>5. CASE /\ ~moved /\ todo > 1 /\ todo' = todo - 1 /\ wait' = 0
             /\ UNCHANGED <<pc, moved, authed, fdVars>>
    <3>1. moved = FALSE /\ moved' = FALSE
      BY <1>0, <2>5
    <3> QED BY <2>1, <2>5, <3>1 DEF GoesOn, Rests
  <2> QED BY <1>9, <2>2, <2>3, <2>4, <2>5 DEF SendTimesOut, WriteFails
<1>10. CASE LoopTop
  <2>1. pc = "loop" /\ Rests
    BY <1>10 DEF LoopTop, Rests
  <2>2. CASE Fails
    BY <2>1, <2>2, ClosesStep DEF Fails, Over
  <2>3. CASE ~MustEnd /\ GoesOnTo("poll")
    <3>1. Enter("poll") /\ authed' = authed /\ FdOK'
      BY <1>0, <2>3, FdKept DEF GoesOnTo
    <3>2. GoesTo("poll")
      BY <2>1, <2>3, <3>1 DEF GoesTo, Follows
    <3> QED BY <3>2 DEF Goes, Places
  <2> QED BY <1>10, <2>2, <2>3 DEF LoopTop
<1>11. CASE ShutdownDone
  <2>1. Enter("ended") /\ Rests /\ authed' = authed /\ FdOK'
    BY <1>0, <1>11, CloseFdStep DEF ShutdownDone, Rests
  <2>2. GoesTo("ended")
    BY <2>1 DEF GoesTo, Follows
  <2> QED BY <2>2 DEF Goes, Places
<1>12. CASE Destroyed
  <2>1. Enter("gone") /\ Rests /\ authed' = authed /\ FdOK'
    BY <1>0, <1>12, CloseFdStep DEF Destroyed, Rests
  <2>2. GoesTo("gone")
    BY <2>1 DEF GoesTo, Follows
  <2> QED BY <2>2 DEF Goes, Places
<1>13. CASE requestStop
  <2>1. UNCHANGED fdVars
    BY <1>13 DEF requestStop
  <2>2. FdOK'
    BY <1>0, <2>1, FdKept
  <2> QED BY <1>13, <2>2 DEF requestStop
<1>14. CASE Reused
  BY <1>0, <1>14 DEF Reused, FdOK
<1>15. CASE UNCHANGED vars
  <2>1. UNCHANGED fdVars
    BY <1>15 DEF vars
  <2>2. FdOK'
    BY <1>0, <2>1, FdKept
  <2> QED BY <1>15, <2>2 DEF vars
<1> QED BY <1>1, <1>2, <1>3, <1>4, <1>5, <1>6, <1>7, <1>8, <1>9, <1>10,
           <1>11, <1>12, <1>13, <1>14, <1>15 DEF Next, Thread

-----------------------------------------------------------------------------
(* The bounds, step by step.                                               *)

(* They depend on the connection's layers only.                            *)
LEMMA BoundsKept ==
    ASSUME tls' = tls, ws' = ws, NEW q, pc' = q
    PROVE  /\ SetupBefore(pc)' = SetupBefore(q)
           /\ PassBefore(pc)' = PassBefore(q)
           /\ StopBefore(pc)' = StopBefore(q)
<1>1. SetupBound' = SetupBound /\ ReadBound' = ReadBound
  BY DEF SetupBound, ReadBound, ReqBytes
<1>2. Longest' = Longest
  BY <1>1 DEF Longest, PassBound
<1>3. TlsRead' = TlsRead
  BY DEF TlsRead, Time
<1>4. SetupBefore(pc)' = SetupBefore(q)
  BY <1>1 DEF SetupBefore, Time
<1>5. PassBefore(pc)' = PassBefore(q)
  BY <1>1, <1>3 DEF PassBefore
<1> QED BY <1>1, <1>2, <1>4, <1>5 DEF StopBefore, Time

(* The numbers that the proofs below add up.                               *)
LEMMA NumbersAre ==
    ASSUME TypeOK, CallInv
    PROVE  /\ since \in Nat /\ age \in Nat /\ stopAge \in Nat
           /\ Spent \in Nat /\ AuthTimeout \in Nat
           /\ SetupBefore(pc) \in Nat /\ PassBefore(pc) \in Nat
           /\ StopBefore(pc) \in Nat
<1>1. tls \in BOOLEAN /\ ws \in BOOLEAN /\ MaxAge \in Nat
      /\ {since, age, stopAge} \subseteq 0..MaxAge /\ AuthTimeout \in Nat
  BY ConstantsAre DEF TypeOK
<1>2. since \in Nat /\ age \in Nat /\ stopAge \in Nat
  BY <1>1
<1>3. SetupBefore(pc) \in Nat
  BY <1>1, BoundsAre DEF SetupBefore
<1>4. PassBefore(pc) \in Nat
  BY <1>1, BoundsAre DEF PassBefore
<1>5. StopBefore(pc) \in Nat
  BY <1>1, <1>3, <1>4, BoundsAre DEF StopBefore
<1> QED BY <1>1, <1>2, <1>3, <1>4, <1>5, SpentIs

(* The time an operation has taken at its end.                             *)
LEMMA SpentAtEnd ==
    ASSUME TypeOK, CallInv
    PROVE  /\ pc = "accept" => Spent <= Time(HandshakeBytes)
           /\ pc = "upgrade" => Spent <= Time(ReqBytes)
           /\ pc = "record" => Spent <= Time(RecordBytes)
           /\ pc \in Writing => Spent <= Time(MessageBytes)
<1>1. tls \in BOOLEAN
  BY DEF TypeOK
<1>2. pc \in Reading \cup Writing => Spent <= Time(Bytes(pc))
  BY SpentIs
<1> QED BY <1>1, <1>2, BytesAre DEF Reading

(* While an operation goes on, its time pays for the clocks.               *)
LEMMA GoesOnClocks ==
    ASSUME IInv, GoesOn
    PROVE  IInv'
<1>1. TypeOK' /\ CallInv' /\ Spent <= Spent' /\ Spent' \in Nat
  BY GoesOnStep DEF IInv
<1>2. /\ UNCHANGED <<tls, ws, pc, authed, stop, since, age, stopAge>>
      /\ UNCHANGED <<InSetup, Over>>
  BY DEF GoesOn, clockVars, InSetup, Over
<1>3. /\ SetupBefore(pc)' = SetupBefore(pc) /\ PassBefore(pc)' = PassBefore(pc)
      /\ StopBefore(pc)' = StopBefore(pc)
  BY <1>2, BoundsKept
<1>4. /\ since \in Nat /\ age \in Nat /\ stopAge \in Nat
      /\ Spent \in Nat /\ AuthTimeout \in Nat
      /\ SetupBefore(pc) \in Nat /\ PassBefore(pc) \in Nat
      /\ StopBefore(pc) \in Nat
  BY NumbersAre DEF IInv
<1>5. ClockInv'
  BY <1>2 DEF IInv, ClockInv
<1>6. AgeInv'
  <2>1. CASE InSetup
    BY <1>1, <1>2, <1>3, <1>4, <2>1 DEF IInv, AgeInv
  <2>2. CASE ~InSetup
    BY <1>2, <1>3, <2>2 DEF IInv, AgeInv
  <2> QED BY <2>1, <2>2
<1>7. StayInv'
  BY <1>1, <1>2, <1>3, <1>4 DEF IInv, StayInv
<1>8. StopInv'
  BY <1>1, <1>2, <1>3, <1>4 DEF IInv, StopInv
<1> QED BY <1>1, <1>5, <1>6, <1>7, <1>8 DEF IInv

(* A step that is about the stop flag or the descriptor only.              *)
LEMMA OtherStep ==
    ASSUME IInv, UNCHANGED <<tls, ws, pc, callVars, authed, clockVars>>,
           stop' \in {stop, TRUE}, FdOK'
    PROVE  IInv'
<1>1. /\ UNCHANGED <<tls, ws, pc, todo, wait, moved, authed>>
      /\ UNCHANGED <<since, age, stopAge, InSetup, Over>>
  BY DEF callVars, clockVars, InSetup, Over
<1>2. /\ SetupBefore(pc)' = SetupBefore(pc) /\ PassBefore(pc)' = PassBefore(pc)
      /\ StopBefore(pc)' = StopBefore(pc)
  BY <1>1, BoundsKept
<1>3. Spent' = Spent /\ Bytes(pc)' = Bytes(pc)
  BY <1>1 DEF Spent, Time, Bytes, ReqBytes, Used
<1>4. stop' \in BOOLEAN
  BY DEF IInv, TypeOK
<1>5. TypeOK'
  BY <1>1, <1>3, <1>4 DEF IInv, TypeOK, FdOK
<1>6. CallInv'
  BY <1>1 DEF IInv, CallInv
<1>7. ClockInv'
  BY <1>1, <1>4 DEF IInv, ClockInv
<1>8. AgeInv' /\ StayInv' /\ StopInv'
  BY <1>1, <1>2, <1>3 DEF IInv, AgeInv, StayInv, StopInv
<1> QED BY <1>5, <1>6, <1>7, <1>8 DEF IInv

(* Between two operations no time passes, and the one before has taken a   *)
(* timeout for each of its bytes at most.                                  *)
LEMMA GoesTypes ==
    ASSUME IInv, NEW q \in Places, GoesTo(q)
    PROVE  /\ TypeOK' /\ CallInv' /\ ClockInv' /\ pc' = q /\ Spent' = 0
           /\ UNCHANGED <<tls, ws, stop, since, age, stopAge>>
<1>1. /\ UNCHANGED <<tls, ws, stop, since, age, stopAge>> /\ Enter(q)
      /\ authed' \in {authed, TRUE} /\ FdOK' /\ Follows(q)
  BY DEF GoesTo, Rests, clockVars
<1>2. tls \in BOOLEAN /\ authed \in BOOLEAN
  BY DEF IInv, TypeOK
<1>3. /\ pc' = q /\ wait' \in 0..Timeout /\ moved' \in BOOLEAN
      /\ todo' \in 0..Bytes(pc)' /\ CallInv' /\ Spent' = 0
  BY <1>1, <1>2, EnterStep
<1>4. q \in {"accept", "record", "shutdown"} => tls
  BY <1>1 DEF Follows
<1>5. q \in {"upgrade", "control"} => ws
  BY <1>1 DEF Follows
<1>6. q \in {"answer", "frame"} => authed'
  BY <1>1 DEF Follows
<1>7. authed' \in BOOLEAN
  BY <1>1, <1>2
<1>8. TypeOK'
  BY <1>1, <1>3, <1>4, <1>5, <1>6, <1>7 DEF IInv, TypeOK, FdOK, Places
<1>9. ClockInv'
  <2>1. q \in {"accept", "upgrade"} => pc \in {"accept", "upgrade"}
    BY <1>1 DEF Follows
  <2> QED BY <1>1, <1>3, <2>1 DEF IInv, ClockInv, InSetup
<1> QED BY <1>1, <1>3, <1>8, <1>9

(* The age of the thread is paid for by the setup and the time in the      *)
(* loop.                                                                   *)
LEMMA GoesAge ==
    ASSUME IInv, NEW q \in Places, GoesTo(q)
    PROVE  AgeInv'
<1>1. /\ pc' = q /\ Spent' = 0
      /\ UNCHANGED <<tls, ws, stop, since, age, stopAge>>
  BY GoesTypes
<1>2. SetupBefore(pc)' = SetupBefore(q)
  BY <1>1, BoundsKept
<1>3. SUFFICES ASSUME q \notin {"ended", "gone"}
               PROVE  age <= SetupBefore(q)
                           + (IF q \in {"accept", "upgrade"} THEN 0 ELSE since)
  BY <1>1, <1>2 DEF AgeInv, Over, InSetup
<1>4. Follows(q) /\ tls \in BOOLEAN /\ ws \in BOOLEAN
  BY DEF GoesTo, IInv, TypeOK
<1>5. /\ since \in Nat /\ age \in Nat /\ Spent \in Nat
      /\ SetupBefore(pc) \in Nat
  BY NumbersAre DEF IInv
<1>6. /\ SetupBound = (IF tls THEN Time(HandshakeBytes) ELSE 0)
                       + (IF ws THEN Time(ReqBytes) ELSE 0)
      /\ SetupBound \in Nat
      /\ Time(HandshakeBytes) \in Nat /\ Time(ReqBytes) \in Nat
  BY <1>4, BoundsAre
<1>7. ~Over
  BY <1>3, <1>4 DEF Follows, Over
<1>8. CASE pc = "accept"
  <2>1. tls /\ age <= Time(HandshakeBytes)
    <3>1. tls /\ age <= 0 + Spent
      BY <1>7, <1>8 DEF IInv, TypeOK, AgeInv, SetupBefore, InSetup
    <3>2. Spent <= Time(HandshakeBytes)
      BY <1>8, SpentAtEnd DEF IInv
    <3> QED BY <1>5, <1>6, <3>1, <3>2
  <2>2. q \in {"upgrade", "loop", "shutdown"}
    BY <1>3, <1>4, <1>8 DEF Follows
  <2>3. CASE q = "upgrade"
    BY <1>5, <1>6, <2>1, <2>3 DEF SetupBefore
  <2>4. CASE q \in {"loop", "shutdown"}
    <3>1. SetupBefore(q) = SetupBound
      BY <2>4 DEF SetupBefore
    <3> QED BY <1>5, <1>6, <2>1, <2>4, <3>1
  <2> QED BY <2>2, <2>3, <2>4
<1>9. CASE pc = "upgrade"
  <2>1. ws /\ age <= SetupBound
    <3>1. ws /\ age <= (IF tls THEN Time(HandshakeBytes) ELSE 0) + Spent
      BY <1>7, <1>9 DEF IInv, TypeOK, AgeInv, SetupBefore, InSetup
    <3>2. Spent <= Time(ReqBytes)
      BY <1>9, SpentAtEnd DEF IInv
    <3> QED BY <1>5, <1>6, <3>1, <3>2
  <2>2. q \in {"loop", "shutdown"}
    BY <1>3, <1>4, <1>9 DEF Follows
  <2>3. SetupBefore(q) = SetupBound
    BY <2>2 DEF SetupBefore
  <2> QED BY <1>5, <1>6, <2>1, <2>2, <2>3
<1>10. CASE pc \notin {"accept", "upgrade"}
  <2>1. age <= SetupBound + since
    BY <1>7, <1>10 DEF IInv, AgeInv, SetupBefore, InSetup
  <2>2. q \notin {"accept", "upgrade"}
    BY <1>3, <1>4, <1>10 DEF Follows
  <2>3. SetupBefore(q) = SetupBound
    BY <2>2 DEF SetupBefore
  <2> QED BY <2>1, <2>2, <2>3
<1> QED BY <1>8, <1>9, <1>10

(* The time in the loop of a client that has not authenticated is paid     *)
(* for by the deadline and what it may send until the loop looks at it.    *)
LEMMA GoesStay ==
    ASSUME IInv, NEW q \in Places, GoesTo(q)
    PROVE  StayInv'
<1>1. /\ pc' = q /\ Spent' = 0
      /\ UNCHANGED <<tls, ws, stop, since, age, stopAge>>
  BY GoesTypes
<1>2. PassBefore(pc)' = PassBefore(q)
  BY <1>1, BoundsKept
<1>3. Follows(q) /\ tls \in BOOLEAN /\ ws \in BOOLEAN /\ authed \in BOOLEAN
      /\ authed' \in {authed, TRUE}
  BY DEF GoesTo, IInv, TypeOK
<1>4. /\ since \in Nat /\ Spent \in Nat /\ AuthTimeout \in Nat
      /\ PassBefore(pc) \in Nat
  BY NumbersAre DEF IInv
<1>5. /\ ReadBound = TlsRead + (IF ws THEN Time(MessageBytes) ELSE 0)
      /\ ReadBound \in Nat /\ TlsRead \in Nat /\ Time(MessageBytes) \in Nat
      /\ Time(RecordBytes) \in Nat
  BY <1>3, BoundsAre
<1>6. PassBefore(q) \in Nat
  BY <1>5 DEF PassBefore
<1>7. SUFFICES ASSUME q \notin {"ended", "gone"},
                      ~authed', q \notin {"accept", "upgrade"}
               PROVE  since <= AuthTimeout + 1 + PassBefore(q)
  BY <1>1, <1>2, <1>4, <1>6 DEF StayInv, Over, InSetup
<1>8. /\ ~authed /\ ~Over /\ q \notin {"answer", "frame"}
      /\ pc \notin {"answer", "frame", "shutdown"}
  <2>1. ~authed
    BY <1>3, <1>7
  <2>2. pc \notin {"answer", "frame"}
    BY <2>1 DEF IInv, TypeOK
  <2>3. ~Over /\ pc # "shutdown" /\ q \notin {"answer", "frame"}
    BY <1>3, <1>7 DEF Follows, Over
  <2> QED BY <2>1, <2>2, <2>3
<1>9. CASE pc \in {"accept", "upgrade"}
  <2>1. since = 0
    BY <1>9 DEF IInv, ClockInv, InSetup
  <2> QED BY <1>4, <1>6, <2>1
<1>10. CASE pc = "loop"
  <2>1. q \in {"poll", "shutdown"}
    BY <1>3, <1>7, <1>8, <1>10 DEF Follows
  <2>2. CASE q = "poll"
    <3>1. ~MustEnd
      BY <1>3, <1>10, <2>2 DEF Follows
    <3>2. ~(since > AuthTimeout)
      BY <1>8, <3>1 DEF MustEnd
    <3> QED BY <1>4, <1>6, <3>2
  <2>3. CASE q = "shutdown"
    <3>1. Spent = 0
      BY <1>10, SpentIs DEF IInv
    <3>2. PassBefore(pc) = ReadBound /\ PassBefore(q) = ReadBound
      BY <1>10, <2>3 DEF PassBefore
    <3>3. since <= AuthTimeout + 1 + PassBefore(pc) + Spent
      BY <1>8, <1>10 DEF IInv, StayInv, InSetup
    <3> QED BY <1>4, <1>5, <3>1, <3>2, <3>3
  <2> QED BY <2>1, <2>2, <2>3
<1>11. CASE pc = "poll"
  <2>1. Spent = 0
    BY <1>11, SpentIs DEF IInv
  <2>2. PassBefore(pc) = 0
    BY <1>11 DEF PassBefore
  <2>3. since <= AuthTimeout + 1 + PassBefore(pc) + Spent
    BY <1>8, <1>11 DEF IInv, StayInv, InSetup
  <2> QED BY <1>4, <1>6, <2>1, <2>2, <2>3
<1>12. CASE pc = "record"
  <2>1. Spent <= TlsRead
    BY <1>12, SpentAtEnd DEF IInv, TypeOK, TlsRead
  <2>2. PassBefore(pc) = 0
    BY <1>12 DEF PassBefore
  <2>3. since <= AuthTimeout + 1 + PassBefore(pc) + Spent
    BY <1>8, <1>12 DEF IInv, StayInv, InSetup
  <2>4. q \in {"control", "loop", "shutdown"}
    BY <1>3, <1>7, <1>8, <1>12 DEF Follows
  <2>5. PassBefore(q) >= TlsRead
    BY <1>5, <2>4 DEF PassBefore
  <2> QED BY <1>4, <1>5, <1>6, <2>1, <2>2, <2>3, <2>5
<1>13. CASE pc = "control"
  <2>1. Spent <= Time(MessageBytes) /\ ws
    BY <1>13, SpentAtEnd DEF IInv, TypeOK, Writing
  <2>2. PassBefore(pc) = TlsRead
    BY <1>13 DEF PassBefore
  <2>3. since <= AuthTimeout + 1 + PassBefore(pc) + Spent
    BY <1>8, <1>13 DEF IInv, StayInv, InSetup
  <2>4. q \in {"loop", "shutdown"}
    BY <1>3, <1>7, <1>8, <1>13 DEF Follows
  <2>5. PassBefore(q) = ReadBound
    BY <2>4 DEF PassBefore
  <2> QED BY <1>4, <1>5, <2>1, <2>2, <2>3, <2>5
<1> QED BY <1>8, <1>9, <1>10, <1>11, <1>12, <1>13
        DEF IInv, TypeOK, Over, Reading, Writing

(* The time since requestStop() is paid for by the setup, or the pass      *)
(* through the loop, that was under way.                                   *)
LEMMA GoesStop ==
    ASSUME IInv, NEW q \in Places, GoesTo(q)
    PROVE  StopInv'
<1>1. /\ pc' = q /\ Spent' = 0
      /\ UNCHANGED <<tls, ws, stop, since, age, stopAge>>
  BY GoesTypes
<1>2. StopBefore(pc)' = StopBefore(q)
  BY <1>1, BoundsKept
<1>3. Follows(q) /\ tls \in BOOLEAN /\ ws \in BOOLEAN
  BY DEF GoesTo, IInv, TypeOK
<1>4. stopAge \in Nat /\ Spent \in Nat /\ StopBefore(pc) \in Nat
  BY NumbersAre DEF IInv
<1>5. /\ SetupBound = (IF tls THEN Time(HandshakeBytes) ELSE 0)
                       + (IF ws THEN Time(ReqBytes) ELSE 0)
      /\ ReadBound = TlsRead + (IF ws THEN Time(MessageBytes) ELSE 0)
      /\ PassBound = ReadBound + Time(MessageBytes) + Time(MessageBytes)
      /\ TlsRead \in Nat /\ SetupBound \in Nat /\ ReadBound \in Nat
      /\ PassBound \in Nat /\ Longest \in Nat
      /\ Time(HandshakeBytes) \in Nat /\ Time(ReqBytes) \in Nat
      /\ Time(MessageBytes) \in Nat /\ Time(RecordBytes) \in Nat
  BY <1>3, BoundsAre
<1>6. SetupBound <= Longest /\ PassBound <= Longest
  BY <1>5 DEF Longest
<1>7. SUFFICES ASSUME q \notin {"ended", "gone"}
               PROVE  stopAge <= StopBefore(q)
  <2>1. q \notin {"ended", "gone"} => StopBefore(q) \in Nat
    BY <1>5 DEF StopBefore, PassBefore, SetupBefore
  <2> QED BY <1>1, <1>2, <1>4, <1>7, <2>1 DEF StopInv, Over
<1>8. ~Over /\ pc # "shutdown" /\ stopAge <= StopBefore(pc) + Spent
  BY <1>3, <1>7 DEF IInv, StopInv, Follows, Over
<1>9. q \in {"loop", "shutdown"} => StopBefore(q) = Longest
  BY DEF StopBefore
<1>10. CASE pc = "accept"
  <2>1. tls /\ Spent <= Time(HandshakeBytes)
    BY <1>10, SpentAtEnd DEF IInv, TypeOK
  <2>2. StopBefore(pc) = 0
    BY <1>10 DEF StopBefore, SetupBefore
  <2>3. stopAge <= Time(HandshakeBytes)
    BY <1>4, <1>5, <1>8, <2>1, <2>2
  <2>4. q \in {"upgrade", "loop", "shutdown"}
    BY <1>3, <1>7, <1>10 DEF Follows
  <2>5. q = "upgrade" => StopBefore(q) = Time(HandshakeBytes)
    BY <2>1 DEF StopBefore, SetupBefore
  <2>6. Time(HandshakeBytes) <= Longest
    BY <1>5, <1>6, <2>1
  <2> QED BY <1>4, <1>5, <1>9, <2>3, <2>4, <2>5, <2>6
<1>11. CASE pc = "upgrade"
  <2>1. ws /\ Spent <= Time(ReqBytes)
    BY <1>11, SpentAtEnd DEF IInv, TypeOK
  <2>2. StopBefore(pc) = (IF tls THEN Time(HandshakeBytes) ELSE 0)
    BY <1>11 DEF StopBefore, SetupBefore
  <2>3. stopAge <= SetupBound
    BY <1>4, <1>5, <1>8, <2>1, <2>2
  <2>4. q \in {"loop", "shutdown"}
    BY <1>3, <1>7, <1>11 DEF Follows
  <2> QED BY <1>4, <1>5, <1>6, <1>9, <2>3, <2>4
<1>12. CASE pc = "loop"
  <2>1. q \in {"poll", "shutdown"} /\ Spent = 0
    BY <1>3, <1>7, <1>12, SpentIs DEF IInv, Follows
  <2>2. CASE q = "poll"
    <3>1. ~stop
      BY <1>3, <1>12, <2>2 DEF Follows, MustEnd
    <3>2. stopAge = 0 /\ StopBefore(q) = 0
      BY <2>2, <3>1 DEF IInv, ClockInv, StopBefore, PassBefore
    <3> QED BY <3>2
  <2>3. CASE q = "shutdown"
    <3>1. StopBefore(pc) = Longest
      BY <1>12 DEF StopBefore
    <3> QED BY <1>4, <1>8, <1>9, <2>1, <2>3, <3>1
  <2> QED BY <2>1, <2>2, <2>3
<1>13. CASE pc = "poll"
  <2>1. stopAge = 0
    <3>1. Spent = 0 /\ StopBefore(pc) = 0
      BY <1>13, SpentIs DEF IInv, StopBefore, PassBefore
    <3> QED BY <1>4, <1>8, <3>1
  <2>2. StopBefore(q) \in Nat
    BY <1>5, <1>7 DEF StopBefore, PassBefore, SetupBefore
  <2> QED BY <2>1, <2>2
<1>14. CASE pc = "record"
  <2>1. stopAge <= TlsRead
    <3>1. Spent <= TlsRead
      BY <1>14, SpentAtEnd DEF IInv, TypeOK, TlsRead
    <3>2. StopBefore(pc) = 0
      BY <1>14 DEF StopBefore, PassBefore
    <3> QED BY <1>4, <1>5, <1>8, <3>1, <3>2
  <2>2. q \in {"control", "answer", "frame", "loop", "shutdown"}
    BY <1>3, <1>7, <1>14 DEF Follows
  <2>3. /\ q = "control" => StopBefore(q) = TlsRead
        /\ q = "answer" => StopBefore(q) = ReadBound
        /\ q = "frame" => StopBefore(q) = ReadBound + Time(MessageBytes)
    BY DEF StopBefore, PassBefore
  <2>4. TlsRead <= ReadBound /\ TlsRead <= Longest
    BY <1>5, <1>6
  <2> QED BY <1>4, <1>5, <1>9, <2>1, <2>2, <2>3, <2>4
<1>15. CASE pc = "control"
  <2>1. stopAge <= ReadBound
    <3>1. Spent <= Time(MessageBytes) /\ ws
      BY <1>15, SpentAtEnd DEF IInv, TypeOK, Writing
    <3>2. StopBefore(pc) = TlsRead
      BY <1>15 DEF StopBefore, PassBefore
    <3> QED BY <1>4, <1>5, <1>8, <3>1, <3>2
  <2>2. q \in {"answer", "frame", "loop", "shutdown"}
    BY <1>3, <1>7, <1>15 DEF Follows
  <2>3. /\ q = "answer" => StopBefore(q) = ReadBound
        /\ q = "frame" => StopBefore(q) = ReadBound + Time(MessageBytes)
    BY DEF StopBefore, PassBefore
  <2>4. ReadBound <= Longest
    BY <1>5, <1>6
  <2> QED BY <1>4, <1>5, <1>9, <2>1, <2>2, <2>3, <2>4
<1>16. CASE pc = "answer"
  <2>1. stopAge <= ReadBound + Time(MessageBytes)
    <3>1. Spent <= Time(MessageBytes)
      BY <1>16, SpentAtEnd DEF IInv, Writing
    <3>2. StopBefore(pc) = ReadBound
      BY <1>16 DEF StopBefore, PassBefore
    <3> QED BY <1>4, <1>5, <1>8, <3>1, <3>2
  <2>2. q \in {"frame", "loop", "shutdown"}
    BY <1>3, <1>7, <1>16 DEF Follows
  <2>3. q = "frame" => StopBefore(q) = ReadBound + Time(MessageBytes)
    BY DEF StopBefore
  <2>4. ReadBound + Time(MessageBytes) <= Longest
    BY <1>5, <1>6
  <2> QED BY <1>4, <1>5, <1>9, <2>1, <2>2, <2>3, <2>4
<1>17. CASE pc = "frame"
  <2>1. stopAge <= PassBound
    <3>1. Spent <= Time(MessageBytes)
      BY <1>17, SpentAtEnd DEF IInv, Writing
    <3>2. StopBefore(pc) = ReadBound + Time(MessageBytes)
      BY <1>17 DEF StopBefore
    <3> QED BY <1>4, <1>5, <1>8, <3>1, <3>2
  <2>2. q \in {"loop", "shutdown"}
    BY <1>3, <1>7, <1>17 DEF Follows
  <2> QED BY <1>4, <1>5, <1>6, <1>9, <2>1, <2>2
<1> QED BY <1>8, <1>10, <1>11, <1>12, <1>13, <1>14, <1>15, <1>16, <1>17
        DEF IInv, TypeOK, Over, Reading, Writing

(* The next operation begins.                                              *)
LEMMA GoesClocks ==
    ASSUME IInv, Goes
    PROVE  IInv'
<1>1. PICK q \in Places : GoesTo(q)
  BY DEF Goes
<1> QED BY <1>1, GoesTypes, GoesAge, GoesStay, GoesStop DEF IInv

(* A clock counts a tick, or has reached the end of what is watched.       *)
LEMMA LaterIs ==
    ASSUME NEW t \in 0..MaxAge
    PROVE  /\ Later(t) \in 0..MaxAge
           /\ Later(t) <= t + 1
           /\ Later(t) = t + 1 \/ Later(t) = MaxAge
BY ConstantsAre DEF Later

(* What the time of an operation is counted from.                          *)
LEMMA CallsPaid ==
    ASSUME TypeOK, CallInv
    PROVE  Bytes(pc) - todo - Used \in Nat
<1>1. /\ tls \in BOOLEAN /\ todo \in 0..Bytes(pc)
      /\ moved \in BOOLEAN /\ pc \in Places
  BY DEF TypeOK, Places
<1>2. Bytes(pc) \in Nat
  BY <1>1, BytesAre DEF Places
<1>3. moved => todo < Bytes(pc)
  BY <1>1, BytesAre DEF CallInv
<1> QED BY <1>1, <1>2, <1>3 DEF Used

(* Time passes in the operation under way.                                 *)
LEMMA TickTypes ==
    ASSUME IInv, Tick
    PROVE  /\ TypeOK' /\ CallInv' /\ ClockInv'
           /\ pc # "poll" => Spent' = Spent + 1
           /\ pc = "poll" => Spent' = Spent /\ ~MustEnd
<1>1. /\ UNCHANGED <<tls, ws, pc, todo, moved, authed, stop, fdVars>>
      /\ {since, age, stopAge} \subseteq 0..MaxAge
      /\ wait \in 0..Timeout /\ Timeout \in Nat /\ MaxAge \in Nat
  BY ConstantsAre DEF Tick, IInv, TypeOK
<1>2. wait' \in 0..Timeout
  BY <1>1 DEF Tick
<1>3. {since', age', stopAge'} \subseteq 0..MaxAge
  <2>1. 0 \in 0..MaxAge
    BY <1>1
  <2> QED BY <1>1, <2>1, LaterIs DEF Tick
<1>4. Bytes(pc)' = Bytes(pc)
  BY <1>1 DEF Bytes, ReqBytes
<1>5. TypeOK'
  BY <1>1, <1>2, <1>3, <1>4 DEF IInv, TypeOK, fdVars
<1>6. CallInv'
  BY <1>1 DEF IInv, CallInv, Tick, Reading, Writing
<1>7. ClockInv'
  BY <1>1 DEF IInv, ClockInv, Tick, InSetup
<1>8. /\ pc # "poll" => Spent' = Spent + 1
      /\ pc = "poll" => Spent' = Spent /\ ~MustEnd
  <2> DEFINE t == Time(Bytes(pc) - todo - Used)
  <2>1. t' = t
    BY <1>1, <1>4 DEF Used, Time
  <2>2. Spent = t + wait /\ Spent' = t' + wait'
    BY DEF Spent
  <2>3. t + wait \in Nat
    BY <2>2, SpentIs DEF IInv
  <2>4. CASE pc = "poll"
    <3>1. ~MustEnd /\ wait' = wait
      BY <2>4 DEF Tick, Reading, Writing
    <3> QED BY <2>1, <2>2, <2>4, <3>1
  <2>5. CASE pc # "poll"
    <3>1. wait' = wait + 1
      BY <2>5 DEF Tick
    <3>2. t \in Int
      <4>1. Bytes(pc) - todo - Used \in Nat
        BY CallsPaid DEF IInv
      <4> QED BY <4>1, TimeType
    <3> HIDE DEF t
    <3> QED BY <1>1, <2>1, <2>2, <2>5, <3>1, <3>2
  <2> QED BY <2>4, <2>5
<1> QED BY <1>5, <1>6, <1>7, <1>8

(* A tick adds one to every clock and to the time in the operation.        *)
LEMMA TickClocks ==
    ASSUME IInv, Tick
    PROVE  IInv'
<1>1. /\ TypeOK' /\ CallInv' /\ ClockInv'
      /\ pc # "poll" => Spent' = Spent + 1
      /\ pc = "poll" => Spent' = Spent /\ ~MustEnd
  BY TickTypes
<1>2. /\ UNCHANGED <<tls, ws, pc, authed, stop, InSetup, Over>>
      /\ age' = Later(age) /\ since' = (IF InSetup THEN 0 ELSE Later(since))
      /\ stopAge' = (IF stop THEN Later(stopAge) ELSE 0)
  BY DEF Tick, InSetup, Over
<1>3. /\ SetupBefore(pc)' = SetupBefore(pc) /\ PassBefore(pc)' = PassBefore(pc)
      /\ StopBefore(pc)' = StopBefore(pc)
  BY <1>2, BoundsKept
<1>4. /\ since \in Nat /\ age \in Nat /\ stopAge \in Nat
      /\ Spent \in Nat /\ AuthTimeout \in Nat
      /\ SetupBefore(pc) \in Nat /\ PassBefore(pc) \in Nat
      /\ StopBefore(pc) \in Nat
  BY NumbersAre DEF IInv
<1>5. /\ Later(age) <= age + 1 /\ Later(age) <= MaxAge /\ Later(age) \in Nat
      /\ Later(since) <= since + 1 /\ Later(since) \in Nat
      /\ Later(since) = since + 1 \/ Later(since) = MaxAge
      /\ Later(stopAge) <= stopAge + 1 /\ Later(stopAge) \in Nat
  <2>1. age \in 0..MaxAge /\ since \in 0..MaxAge /\ stopAge \in 0..MaxAge
    BY DEF IInv, TypeOK
  <2> QED BY <2>1, LaterIs, ConstantsAre
<1>6. AgeInv'
  <2>1. SUFFICES ASSUME ~Over
                 PROVE  Later(age) <= SetupBefore(pc)
                            + (IF InSetup THEN Spent' ELSE Later(since))
    BY <1>2, <1>3 DEF AgeInv
  <2>2. CASE InSetup
    <3>1. pc # "poll" /\ age <= SetupBefore(pc) + Spent
      BY <2>1, <2>2 DEF IInv, AgeInv, InSetup
    <3> QED BY <1>1, <1>4, <1>5, <2>2, <3>1
  <2>3. CASE ~InSetup
    <3>1. age <= SetupBefore(pc) + since
      BY <2>1, <2>3 DEF IInv, AgeInv
    <3>2. Later(age) <= SetupBefore(pc) + Later(since)
      BY <1>4, <1>5, <3>1, ConstantsAre
    <3> QED BY <2>3, <3>2
  <2> QED BY <2>2, <2>3
<1>7. StayInv'
  <2>1. SUFFICES ASSUME ~Over, ~authed, ~InSetup
                 PROVE  Later(since)
                            <= AuthTimeout + 1 + PassBefore(pc) + Spent'
    BY <1>2, <1>3 DEF StayInv
  <2>2. since <= AuthTimeout + 1 + PassBefore(pc) + Spent
    BY <2>1 DEF IInv, StayInv
  <2>3. CASE pc = "poll"
    <3>1. ~(since > AuthTimeout) /\ Spent' = Spent
      BY <1>1, <2>1, <2>3 DEF MustEnd
    <3> QED BY <1>4, <1>5, <3>1
  <2>4. CASE pc # "poll"
    BY <1>1, <1>4, <1>5, <2>2, <2>4
  <2> QED BY <2>3, <2>4
<1>8. StopInv'
  <2>1. SUFFICES ASSUME ~Over
                 PROVE  (IF stop THEN Later(stopAge) ELSE 0)
                            <= StopBefore(pc) + Spent'
    BY <1>2, <1>3 DEF StopInv
  <2>2. stopAge <= StopBefore(pc) + Spent
    BY <2>1 DEF IInv, StopInv
  <2>3. CASE pc = "poll"
    <3>1. ~stop /\ Spent' = Spent
      BY <1>1, <2>3 DEF MustEnd
    <3> QED BY <1>4, <3>1
  <2>4. CASE pc # "poll"
    BY <1>1, <1>4, <1>5, <2>2, <2>4
  <2> QED BY <2>3, <2>4
<1> QED BY <1>1, <1>6, <1>7, <1>8 DEF IInv

(* A session begins with nothing read and no time taken.                   *)
LEMMA InitInv == Init => IInv
<1> SUFFICES ASSUME Init PROVE IInv
  OBVIOUS
<1>1. /\ tls \in BOOLEAN /\ ws \in BOOLEAN
      /\ pc = (IF tls THEN "accept" ELSE IF ws THEN "upgrade" ELSE "loop")
      /\ todo = Bytes(pc) /\ wait = 0 /\ moved = FALSE
      /\ authed \in BOOLEAN /\ stop = FALSE /\ held = TRUE /\ fd = "mine"
      /\ since = 0 /\ age = 0 /\ stopAge = 0
  BY DEF Init
<1>2. pc \in {"accept", "upgrade", "loop"}
  BY <1>1
<1>3. Bytes(pc) \in Nat /\ (pc \in Reading \cup Writing => Bytes(pc) > 0)
  <2>1. pc \in Places /\ tls \in BOOLEAN
    BY <1>1, <1>2 DEF Places, Reading
  <2> QED BY <2>1, BytesAre DEF Places
<1>4. TypeOK
  <2>1. todo \in 0..Bytes(pc)
    BY <1>1, <1>3
  <2>2. wait \in 0..Timeout /\ {since, age, stopAge} \subseteq 0..MaxAge
    BY <1>1, ConstantsAre
  <2> QED BY <1>1, <1>2, <2>1, <2>2 DEF TypeOK, Reading
<1>5. CallInv
  BY <1>1, <1>3 DEF CallInv
<1>6. /\ SetupBefore(pc) \in Nat /\ PassBefore(pc) \in Nat
      /\ StopBefore(pc) \in Nat /\ Spent \in Nat /\ AuthTimeout \in Nat
  BY <1>4, <1>5, NumbersAre
<1>7. ClockInv
  BY <1>1 DEF ClockInv
<1>8. AgeInv /\ StayInv /\ StopInv
  BY <1>1, <1>6 DEF AgeInv, StayInv, StopInv
<1> QED BY <1>4, <1>5, <1>7, <1>8 DEF IInv

(* Every step keeps the invariant.                                         *)
LEMMA StepInv == IInv /\ [Next]_vars => IInv'
<1> SUFFICES ASSUME IInv, [Next]_vars PROVE IInv'
  OBVIOUS
<1>1. \/ GoesOn \/ Goes \/ Tick
      \/ /\ UNCHANGED <<tls, ws, pc, callVars, authed, clockVars>>
         /\ stop' \in {stop, TRUE} /\ FdOK'
  BY StepIs DEF IInv
<1> QED BY <1>1, GoesOnClocks, GoesClocks, TickClocks, OtherStep

(* The invariant holds always.                                             *)
LEMMA Inductive == Spec => []IInv
<1> QED BY InitInv, StepInv, PTL DEF Spec

-----------------------------------------------------------------------------
(* The variables have their types, and fd_ is the descriptor's number      *)
(* exactly while the number is the session's: the three that close it do   *)
(* so once (TlsByteStream::close, RawByteStream::close,                    *)
(* ClientSession::run), for every timeout and limit.                       *)
THEOREM SetupTypes == Spec => []TypeOK
<1>1. IInv => TypeOK
  BY DEF IInv
<1> QED BY <1>1, Inductive, PTL

(* What is left of an operation's bound, wherever the session is.          *)
LEMMA LastCall ==
    ASSUME TypeOK, CallInv, ~Over
    PROVE  /\ pc = "shutdown" => Spent <= Goodbye
           /\ pc \in {"loop", "poll"} => Spent = 0
           /\ Goodbye \in Nat
<1>1. pc = "shutdown" => tls /\ Spent = wait /\ wait \in 0..Timeout
  BY SpentIs DEF TypeOK
<1> QED BY <1>1, SpentIs, ConstantsAre DEF Goodbye

(* What the invariant says of a session that has not authenticated.        *)
LEMMA StayBound ==
    ASSUME IInv, ~authed, ~Over
    PROVE  age <= SetupBound + AuthTimeout + 1 + ReadBound + Goodbye
<1>1. tls \in BOOLEAN /\ ws \in BOOLEAN
  BY DEF IInv, TypeOK
<1>2. /\ since \in Nat /\ age \in Nat /\ Spent \in Nat /\ AuthTimeout \in Nat
  BY NumbersAre DEF IInv
<1>3. /\ SetupBound = (IF tls THEN Time(HandshakeBytes) ELSE 0)
                       + (IF ws THEN Time(ReqBytes) ELSE 0)
      /\ ReadBound = TlsRead + (IF ws THEN Time(MessageBytes) ELSE 0)
      /\ TlsRead \in Nat /\ SetupBound \in Nat /\ ReadBound \in Nat
      /\ Time(HandshakeBytes) \in Nat /\ Time(ReqBytes) \in Nat
      /\ Time(MessageBytes) \in Nat
  BY <1>1, BoundsAre
<1>4. /\ pc = "shutdown" => Spent <= Goodbye
      /\ pc \in {"loop", "poll"} => Spent = 0
      /\ Goodbye \in Nat
  BY LastCall DEF IInv
<1>5. CASE InSetup
  <2>1. age <= SetupBefore(pc) + Spent
    BY <1>5 DEF IInv, AgeInv
  <2>2. SetupBefore(pc) + Spent <= SetupBound
    <3>1. CASE pc = "accept"
      <4>1. tls /\ Spent <= Time(HandshakeBytes)
        BY <3>1, SpentAtEnd DEF IInv, TypeOK
      <4>2. SetupBefore(pc) = 0
        BY <3>1 DEF SetupBefore
      <4> QED BY <1>2, <1>3, <4>1, <4>2
    <3>2. CASE pc = "upgrade"
      <4>1. ws /\ Spent <= Time(ReqBytes)
        BY <3>2, SpentAtEnd DEF IInv, TypeOK
      <4>2. SetupBefore(pc) = (IF tls THEN Time(HandshakeBytes) ELSE 0)
        BY <3>2 DEF SetupBefore
      <4> QED BY <1>2, <1>3, <4>1, <4>2
    <3> QED BY <1>5, <3>1, <3>2 DEF InSetup
  <2>3. SetupBefore(pc) \in Nat
    BY NumbersAre DEF IInv
  <2> QED BY <1>2, <1>3, <1>4, <2>1, <2>2, <2>3
<1>6. CASE ~InSetup
  <2>1. age <= SetupBound + since
    BY <1>6 DEF IInv, AgeInv, SetupBefore, InSetup
  <2>2. since <= AuthTimeout + 1 + PassBefore(pc) + Spent
    BY <1>6 DEF IInv, StayInv
  <2>3. PassBefore(pc) + Spent <= ReadBound + Goodbye
    <3>1. CASE pc = "loop" \/ pc = "shutdown"
      <4>1. PassBefore(pc) = ReadBound
        BY <3>1 DEF PassBefore
      <4> QED BY <1>2, <1>3, <1>4, <3>1, <4>1
    <3>2. CASE pc = "poll"
      <4>1. PassBefore(pc) = 0
        BY <3>2 DEF PassBefore
      <4> QED BY <1>3, <1>4, <3>2, <4>1
    <3>3. CASE pc = "record"
      <4>1. Spent <= TlsRead
        BY <3>3, SpentAtEnd DEF IInv, TypeOK, TlsRead
      <4>2. PassBefore(pc) = 0
        BY <3>3 DEF PassBefore
      <4> QED BY <1>2, <1>3, <1>4, <4>1, <4>2
    <3>4. CASE pc = "control"
      <4>1. Spent <= Time(MessageBytes) /\ ws
        BY <3>4, SpentAtEnd DEF IInv, TypeOK, Writing
      <4>2. PassBefore(pc) = TlsRead
        BY <3>4 DEF PassBefore
      <4> QED BY <1>2, <1>3, <1>4, <4>1, <4>2
    <3>5. pc \in {"loop", "shutdown", "poll", "record", "control"}
      BY <1>6 DEF IInv, TypeOK, InSetup, Over, Reading, Writing
    <3> QED BY <3>1, <3>2, <3>3, <3>4, <3>5
  <2>4. PassBefore(pc) \in Nat
    BY NumbersAre DEF IInv
  <2> QED BY <1>2, <1>3, <1>4, <2>1, <2>2, <2>3, <2>4
<1> QED BY <1>5, <1>6

(* A client that does not authenticate frees its slot in time, whatever    *)
(* the timeout, the deadline, the length of a record and the limit of the  *)
(* request: what may be read before the loop and the deadline in it bound  *)
(* its stay (WebSocketConn::handshake, TlsByteStream::handshake and read,  *)
(* ClientSession::run).                                                    *)
THEOREM SlotFreed == Spec => []SlotIsFreed
<1>1. IInv => SlotIsFreed
  BY StayBound DEF SlotIsFreed
<1> QED BY <1>1, Inductive, PTL

(* What it says of a session that is asked to stop.                        *)
LEMMA StopBound ==
    ASSUME IInv, ~Over
    PROVE  stopAge <= Longest + Goodbye
<1>1. tls \in BOOLEAN /\ ws \in BOOLEAN
  BY DEF IInv, TypeOK
<1>2. stopAge \in Nat /\ Spent \in Nat /\ StopBefore(pc) \in Nat
  BY NumbersAre DEF IInv
<1>3. /\ SetupBound = (IF tls THEN Time(HandshakeBytes) ELSE 0)
                       + (IF ws THEN Time(ReqBytes) ELSE 0)
      /\ ReadBound = TlsRead + (IF ws THEN Time(MessageBytes) ELSE 0)
      /\ PassBound = ReadBound + Time(MessageBytes) + Time(MessageBytes)
      /\ TlsRead \in Nat /\ SetupBound \in Nat /\ ReadBound \in Nat
      /\ PassBound \in Nat /\ Longest \in Nat
      /\ Time(HandshakeBytes) \in Nat /\ Time(ReqBytes) \in Nat
      /\ Time(MessageBytes) \in Nat
  BY <1>1, BoundsAre
<1>4. SetupBound <= Longest /\ PassBound <= Longest
  BY <1>3 DEF Longest
<1>5. /\ pc = "shutdown" => Spent <= Goodbye
      /\ pc \in {"loop", "poll"} => Spent = 0
      /\ Goodbye \in Nat
  BY LastCall DEF IInv
<1>6. stopAge <= StopBefore(pc) + Spent
  BY DEF IInv, StopInv
<1>7. StopBefore(pc) + Spent <= Longest + Goodbye
  <2>1. CASE pc = "accept"
    <3>1. tls /\ Spent <= Time(HandshakeBytes)
      BY <2>1, SpentAtEnd DEF IInv, TypeOK
    <3>2. StopBefore(pc) = 0
      BY <2>1 DEF StopBefore, SetupBefore
    <3>3. Time(HandshakeBytes) <= SetupBound
      BY <1>3, <3>1
    <3> QED BY <1>2, <1>3, <1>4, <1>5, <3>1, <3>2, <3>3
  <2>2. CASE pc = "upgrade"
    <3>1. ws /\ Spent <= Time(ReqBytes)
      BY <2>2, SpentAtEnd DEF IInv, TypeOK
    <3>2. StopBefore(pc) = (IF tls THEN Time(HandshakeBytes) ELSE 0)
      BY <2>2 DEF StopBefore, SetupBefore
    <3>3. StopBefore(pc) + Spent <= SetupBound
      BY <1>2, <1>3, <3>1, <3>2
    <3> QED BY <1>2, <1>3, <1>4, <1>5, <3>3
  <2>3. CASE pc \in {"loop", "shutdown"}
    <3>1. StopBefore(pc) = Longest
      BY <2>3 DEF StopBefore
    <3> QED BY <1>2, <1>3, <1>5, <2>3, <3>1
  <2>4. CASE pc = "poll"
    <3>1. StopBefore(pc) = 0
      BY <2>4 DEF StopBefore, PassBefore
    <3> QED BY <1>3, <1>5, <2>4, <3>1
  <2>5. CASE pc = "record"
    <3>1. Spent <= TlsRead
      BY <2>5, SpentAtEnd DEF IInv, TypeOK, TlsRead
    <3>2. StopBefore(pc) = 0
      BY <2>5 DEF StopBefore, PassBefore
    <3> QED BY <1>2, <1>3, <1>4, <1>5, <3>1, <3>2
  <2>6. CASE pc = "control"
    <3>1. Spent <= Time(MessageBytes)
      BY <2>6, SpentAtEnd DEF IInv, Writing
    <3>2. StopBefore(pc) = TlsRead
      BY <2>6 DEF StopBefore, PassBefore
    <3>3. StopBefore(pc) + Spent <= PassBound
      BY <1>2, <1>3, <3>1, <3>2
    <3> QED BY <1>2, <1>3, <1>4, <1>5, <3>3
  <2>7. CASE pc = "answer"
    <3>1. Spent <= Time(MessageBytes)
      BY <2>7, SpentAtEnd DEF IInv, Writing
    <3>2. StopBefore(pc) = ReadBound
      BY <2>7 DEF StopBefore, PassBefore
    <3>3. StopBefore(pc) + Spent <= PassBound
      BY <1>2, <1>3, <3>1, <3>2
    <3> QED BY <1>2, <1>3, <1>4, <1>5, <3>3
  <2>8. CASE pc = "frame"
    <3>1. Spent <= Time(MessageBytes)
      BY <2>8, SpentAtEnd DEF IInv, Writing
    <3>2. StopBefore(pc) = ReadBound + Time(MessageBytes)
      BY <2>8 DEF StopBefore
    <3>3. StopBefore(pc) + Spent <= PassBound
      BY <1>2, <1>3, <3>1, <3>2
    <3> QED BY <1>2, <1>3, <1>4, <1>5, <3>3
  <2> QED BY <2>1, <2>2, <2>3, <2>4, <2>5, <2>6, <2>7, <2>8
          DEF IInv, TypeOK, Over, Reading, Writing
<1> QED BY <1>2, <1>3, <1>5, <1>6, <1>7

(* A session that is asked to stop ends in time, whatever the timeouts and *)
(* the sizes of the messages: it may have the setup or one pass of the     *)
(* loop before it, and the good-bye (ClientSession::run, sendAll,          *)
(* TlsByteStream::writeAll).                                               *)
THEOREM StopTimely == Spec => []StopIsTimely
<1>1. IInv => StopIsTimely
  BY StopBound DEF StopIsTimely, Longest
<1> QED BY <1>1, Inductive, PTL
=============================================================================
