------------------------ MODULE ClientSession_proofs ------------------------
(***************************************************************************)
(* Proofs about one client session, for every input of the peer, every set *)
(* of files and every number of frames.                                    *)
(***************************************************************************)
EXTENDS ClientSession, FiniteSetTheorems, TLAPS

OutItem == [kind : {"hello", "video", "list", "data", "deleted"},
            name : Texts, idx : Nat, total : Nat, whole : BOOLEAN]

(* Everything a step writes to the socket: nothing, or one more item.      *)
Writes(kinds) ==
    \/ UNCHANGED out
    \/ \E o \in OutItem : o.kind \in kinds /\ out' = Append(out, o)

(* Sending an item appends it, whole or cut short, or nothing.             *)
LEMMA ItemType ==
    ASSUME NEW kind \in {"hello", "video", "list", "data", "deleted"},
           NEW name \in Texts, NEW idx \in Nat, NEW total \in Nat,
           Send(Item(kind, name, idx, total))
    PROVE  Writes({kind}) /\ lossy' \in BOOLEAN \cup {lossy}
<1> DEFINE m == Item(kind, name, idx, total)
           t == [m EXCEPT !.whole = FALSE]
<1>1. m \in OutItem /\ t \in OutItem /\ m.kind = kind /\ t.kind = kind
  BY DEF Item, OutItem
<1>2. out' = Append(out, m) \/ out' = Append(out, t) \/ out' = out
  BY DEF Send, SendOk, SendFails
<1>3. QED
  BY <1>1, <1>2 DEF Writes, Send, SendOk, SendFails

-----------------------------------------------------------------------------
(* What each handler does to the state; the steps that send are reduced to *)
(* Writes.                                                                 *)

(* The peer's input is a sequence of messages.                             *)
LEMMA InputType == Init => input \in Seq(Message)
  BY InputsAssumption DEF Init

(* A handler's message is complete: pos stays within what was received.    *)
LEMMA HandlingFacts ==
    ASSUME TypeOK, NEW kinds, Handling(kinds)
    PROVE  /\ input[pos + 1] \in Message /\ input[pos + 1].kind \in kinds
           /\ authed \/ input[pos + 1].kind = "hello"
           /\ pos' \in 0..got /\ pos' = pos + 1 /\ authed' = TRUE
           /\ UNCHANGED <<input, got, partial, lastSent, frames, stop, expired, peerGone>>
<1>1. pos < got /\ pos + 1 \in 1..Len(input)
  BY DEF TypeOK, Handling, Complete
<1>2. QED
  BY <1>1 DEF TypeOK, Handling, Complete, Current, Admissible, inVars, envVars

(* Every handler keeps the types; the ones that send do it through         *)
(* ItemType.                                                               *)
LEMMA TypeStep == TypeOK /\ [Next]_vars => TypeOK'
<1> SUFFICES ASSUME TypeOK, [Next]_vars PROVE TypeOK'
  OBVIOUS
<1> DEFINE Rest == /\ pc' \in PC /\ authed' \in BOOLEAN /\ partial' \in BOOLEAN
                   /\ input' \in Seq(Message)
                   /\ got' \in 0..Len(input') /\ pos' \in 0..got'
                   /\ job' \in [name : Texts, total : Nat, next : Nat]
                   /\ cmds' \in Seq({"step", "abs", "autoOn", "autoOff"})
                   /\ files' \in SUBSET Names
                   /\ frames' \in 0..MaxFrames
                   /\ lastSent' \in 0..(SeqSpace - 1)
                   /\ stop' \in BOOLEAN /\ expired' \in BOOLEAN /\ peerGone' \in BOOLEAN
<1>1. ASSUME Rest, UNCHANGED <<out, lossy>> PROVE TypeOK'
  BY <1>1 DEF TypeOK
<1>2. ASSUME Rest, lossy' \in BOOLEAN \cup {lossy},
             NEW kinds, Writes(kinds) PROVE TypeOK'
  <2>1. out' \in Seq(OutItem)
    <3>1. out \in Seq(OutItem)
      BY DEF TypeOK, OutItem
    <3>2. Writes(kinds)
      BY <1>2
    <3>3. ASSUME NEW o \in OutItem, out' = Append(out, o) PROVE out' \in Seq(OutItem)
      BY <3>1, <3>3
    <3>4. QED
      BY <3>1, <3>2, <3>3 DEF Writes
  <2>2. QED
    BY <1>2, <2>1 DEF TypeOK, OutItem
<1>3. ASSUME Handshake \/ HandshakeFails \/ Leave \/ Idle \/ Disconnected
             \/ NeedMore \/ BadHeader \/ Reject \/ NotDue
      PROVE  TypeOK'
  <2>1. Rest /\ UNCHANGED <<out, lossy>>
    BY <1>3 DEF TypeOK, PC, Handshake, HandshakeFails, Leave, Idle, Disconnected,
       NeedMore, BadHeader, Reject, NotDue, Close, inVars, sysVars, envVars
  <2>2. QED
    BY <1>1, <2>1
<1>4. CASE Receive
  <2>1. Rest /\ UNCHANGED <<out, lossy>>
    BY <1>4 DEF TypeOK, PC, Receive, sysVars, envVars
  <2>2. QED
    BY <1>1, <2>1
<1>5. ASSUME Publish \/ TimePasses \/ RequestStop \/ PeerLeaves \/ OtherFileUse
      PROVE  TypeOK'
  <2>1. UNCHANGED sessionVars
    BY <1>5 DEF Publish, TimePasses, RequestStop, PeerLeaves, OtherFileUse
  <2>2. stop' \in BOOLEAN /\ expired' \in BOOLEAN /\ peerGone' \in BOOLEAN
    BY <1>5 DEF TypeOK, Publish, TimePasses, RequestStop, PeerLeaves,
       OtherFileUse, envVars
  <2>3. frames' \in 0..MaxFrames
    BY <1>5, SeqAssumption DEF TypeOK, Publish, TimePasses, RequestStop,
       PeerLeaves, OtherFileUse, envVars
  <2>4. files' \in SUBSET Names
    BY <1>5 DEF TypeOK, Publish, TimePasses, RequestStop, PeerLeaves, OtherFileUse
  <2>5. Rest /\ UNCHANGED <<out, lossy>>
    BY <2>1, <2>2, <2>3, <2>4 DEF TypeOK, sessionVars, inVars
  <2>6. QED
    BY <1>1, <2>5
<1>6. CASE SendHello
  <2>1. Rest
    BY <1>6 DEF TypeOK, PC, SendHello, inVars, sysVars, envVars
  <2>2. Send(Item("hello", NoName, 0, 0))
    BY <1>6 DEF SendHello
  <2>3. QED
    BY <1>2, <2>1, <2>2, ItemType DEF Texts
<1>7. CASE Ignore
  <2>1. pos' \in 0..got /\ authed' = TRUE
        /\ UNCHANGED <<input, got, partial, lastSent, frames, stop, expired, peerGone>>
    BY <1>7, HandlingFacts DEF Ignore
  <2>2. QED
    BY <1>1, <1>7, <2>1 DEF TypeOK, Ignore, sysVars
<1>8. CASE Forward
  <2>1. /\ pos' \in 0..got /\ authed' = TRUE
        /\ UNCHANGED <<input, got, partial, lastSent, frames, stop, expired, peerGone>>
        /\ input[pos + 1].kind \in {"step", "abs", "autoOn", "autoOff"}
    BY <1>8, HandlingFacts DEF Forward
  <2>2. cmds' \in Seq({"step", "abs", "autoOn", "autoOff"})
    BY <1>8, <2>1 DEF TypeOK, Forward, Current
  <2>3. QED
    BY <1>1, <1>8, <2>1, <2>2 DEF TypeOK, Forward
<1>9. CASE List
  <2>1. pos' \in 0..got /\ authed' = TRUE
        /\ UNCHANGED <<input, got, partial, lastSent, frames, stop, expired, peerGone>>
    BY <1>9, HandlingFacts DEF List
  <2>2. Rest
    BY <1>9, <2>1 DEF TypeOK, List, sysVars
  <2>3. Send(Item("list", NoName, 0, 0))
    BY <1>9 DEF List
  <2>4. QED
    BY <1>2, <2>2, <2>3, ItemType DEF Texts
<1>10. CASE Snapshot
  <2>1. pos' \in 0..got /\ authed' = TRUE
        /\ UNCHANGED <<input, got, partial, lastSent, frames, stop, expired, peerGone>>
    BY <1>10, HandlingFacts DEF Snapshot
  <2>2. Rest
    BY <1>10, <2>1 DEF TypeOK, Snapshot
  <2>3. Send(Item("list", NoName, 0, 0))
    BY <1>10 DEF Snapshot
  <2>4. QED
    BY <1>2, <2>2, <2>3, ItemType DEF Texts
<1>11. CASE Delete
  <2>1. /\ pos' \in 0..got /\ authed' = TRUE
        /\ UNCHANGED <<input, got, partial, lastSent, frames, stop, expired, peerGone>>
        /\ input[pos + 1] \in Message
    BY <1>11, HandlingFacts DEF Delete
  <2>2. Rest
    BY <1>11, <2>1 DEF TypeOK, Delete
  <2>3. PICK ok \in {0, 1} : Send(Item("deleted", Current.name, ok, 0))
    BY <1>11 DEF Delete
  <2>4. Current.name \in Texts
    BY <2>1 DEF Current, Message
  <2>5. QED
    BY <1>2, <2>2, <2>3, <2>4, ItemType
<1>12. CASE Get
  <2>1. /\ pos' \in 0..got /\ authed' = TRUE
        /\ UNCHANGED <<input, got, partial, lastSent, frames, stop, expired, peerGone>>
        /\ input[pos + 1] \in Message
    BY <1>12, HandlingFacts DEF Get
  <2>2. Current.name \in Texts
    BY <2>1 DEF Current, Message
  <2>3. /\ UNCHANGED <<cmds, files>>
        /\ \/ Send(Item("data", Current.name, 0, 0)) /\ UNCHANGED <<pc, job>>
           \/ /\ \E total \in Nat : job' = [name |-> Current.name, total |-> total, next |-> 0]
              /\ pc' = "sendFile" /\ UNCHANGED <<out, lossy>>
    BY <1>12, <2>2, ChunksAssumption DEF Get, sysVars, TypeOK
  <2>4. Rest
    BY <2>1, <2>2, <2>3 DEF TypeOK, PC
  <2>5. CASE Send(Item("data", Current.name, 0, 0))
    BY <1>2, <2>2, <2>4, <2>5, ItemType
  <2>6. QED
    BY <1>1, <2>3, <2>4, <2>5
<1>13. CASE SendChunk
  <2>1. job.name \in Texts /\ job.next \in Nat /\ job.total \in Nat
    BY DEF TypeOK
  <2>2. job' = NoJob \/ job' = [job EXCEPT !.next = @ + 1]
    BY <1>13 DEF SendChunk
  <2>3. job' \in [name : Texts, total : Nat, next : Nat]
    <3>1. NoJob \in [name : Texts, total : Nat, next : Nat]
      BY DEF NoJob, Texts
    <3>2. [job EXCEPT !.next = @ + 1]
             \in [name : Texts, total : Nat, next : Nat]
      <4>1. job \in [name : Texts, total : Nat, next : Nat]
        BY DEF TypeOK
      <4>2. job.next + 1 \in Nat
        BY <4>1
      <4>3. \A k \in Nat : [job EXCEPT !.next = k]
                           \in [name : Texts, total : Nat, next : Nat]
        BY ONLY <4>1
      <4> QED
        BY ONLY <4>2, <4>3
    <3>3. QED
      BY <2>2, <3>1, <3>2
  <2>4. Rest
    BY <1>13, <2>3 DEF SendChunk, TypeOK, PC, inVars, sysVars, envVars
  <2>5. Send(Item("data", job.name, job.next, job.total))
    BY <1>13 DEF SendChunk, Send
  <2>6. QED
    BY <1>2, <2>1, <2>4, <2>5, ItemType
<1>14. CASE PushFrame
  <2>1. frames \in Nat \ {0}
    BY <1>14, SeqAssumption DEF PushFrame, NewFrame, TypeOK
  <2>2. SeqOf(frames) \in 0..(SeqSpace - 1)
    BY <2>1, SeqAssumption DEF SeqOf
  <2>3. Rest
    BY <1>14, <2>2 DEF PushFrame, TypeOK, PC, inVars, sysVars, envVars
  <2>4. Send(Item("video", NoName, frames, 0))
    BY <1>14 DEF PushFrame, Send
  <2>5. QED
    BY <1>2, <2>1, <2>3, <2>4, ItemType DEF Texts
<1>15. CASE UNCHANGED vars
  BY <1>15 DEF vars, inVars, sysVars, envVars, TypeOK
<1>16. QED
  BY <1>3, <1>4, <1>5, <1>6, <1>7, <1>8, <1>9, <1>10, <1>11, <1>12, <1>13,
     <1>14, <1>15
  DEF Next, Session, Dispatch, Surroundings, Closed

(* The initial values have their types.                                    *)
LEMMA TypeInit == Init => TypeOK
<1> SUFFICES ASSUME Init PROVE TypeOK
  OBVIOUS
<1>1. authed \in BOOLEAN
  BY TokenAssumption DEF Init
<1>2. input \in Seq(Message) /\ got \in 0..Len(input) /\ pos \in 0..got
  BY InputType DEF Init
<1>3. job \in [name : Texts, total : Nat, next : Nat]
  BY DEF Init, NoJob, Texts
<1>4. frames \in 0..MaxFrames /\ lastSent \in 0..(SeqSpace - 1)
  BY SeqAssumption DEF Init
<1>5. out = << >> /\ cmds = << >> /\ files \in SUBSET Names
  BY DEF Init
<1>6. /\ pc \in PC /\ lossy \in BOOLEAN /\ partial \in BOOLEAN
      /\ stop \in BOOLEAN /\ expired \in BOOLEAN /\ peerGone \in BOOLEAN
  BY DEF Init, PC
<1>7. QED
  BY <1>1, <1>2, <1>3, <1>4, <1>5, <1>6 DEF TypeOK

(* Types hold for every peer input, file set and frame count.              *)
THEOREM SessionTypes == Spec => []TypeOK
  BY TypeInit, TypeStep, PTL DEF Spec

-----------------------------------------------------------------------------
(* The shape of a step for the properties about the output: who writes     *)
(* what, and when.                                                         *)

Quiet ==  \* no frame is written
    /\ UNCHANGED lastSent
    /\ frames' \in {frames, frames + 1}
    /\ pc = "closed" => UNCHANGED <<out, pc>>
    /\ Writes({"hello", "list", "data", "deleted"})

(* Only PushFrame writes a frame, and a closed session writes nothing.     *)
LEMMA StepShape ==
    TypeOK /\ [Next]_vars => Quiet \/ PushFrame
<1> SUFFICES ASSUME TypeOK, [Next]_vars, ~PushFrame PROVE Quiet
  OBVIOUS
<1> USE DEF Quiet
<1>1. ASSUME UNCHANGED <<out, lastSent, frames>>, pc # "closed" PROVE Quiet
  BY <1>1 DEF Writes
<1>2. ASSUME Handshake \/ HandshakeFails \/ Leave \/ Idle \/ Disconnected
             \/ Receive \/ NeedMore \/ BadHeader \/ Reject \/ NotDue
      PROVE  Quiet
  BY <1>1, <1>2 DEF Handshake, HandshakeFails, Leave, Idle, Disconnected,
     Receive, NeedMore, BadHeader, Reject, NotDue, Close, envVars
<1>3. ASSUME Publish \/ TimePasses \/ RequestStop \/ PeerLeaves \/ OtherFileUse
             \/ UNCHANGED vars
      PROVE  Quiet
  BY <1>3 DEF Publish, TimePasses, RequestStop, PeerLeaves, OtherFileUse,
     sessionVars, envVars, vars, Writes
<1>4. ASSUME NEW kind \in {"hello", "list", "data", "deleted"},
             NEW name \in Texts, NEW idx \in Nat, NEW total \in Nat,
             Send(Item(kind, name, idx, total)),
             pc # "closed", UNCHANGED <<lastSent, frames>>
      PROVE  Quiet
  BY <1>4, ItemType DEF Writes
<1>5. CASE SendHello
  BY <1>4, <1>5 DEF SendHello, envVars, Texts
<1>6. CASE SendChunk
  <2>1. job.name \in Texts /\ job.next \in Nat /\ job.total \in Nat
    BY DEF TypeOK
  <2>2. Send(Item("data", job.name, job.next, job.total))
    BY <1>6 DEF SendChunk, Send
  <2>3. pc # "closed" /\ UNCHANGED <<lastSent, frames>>
    BY <1>6 DEF SendChunk, envVars
  <2>4. QED
    BY <1>4, <2>1, <2>2, <2>3
<1>7. ASSUME NEW kinds, Handling(kinds)
      PROVE  /\ pc # "closed" /\ UNCHANGED <<lastSent, frames>>
             /\ Current.name \in Texts
  BY <1>7, HandlingFacts DEF Handling, Current, Message
<1>8. ASSUME Ignore \/ Forward PROVE Quiet
  <2>1. pc # "closed" /\ UNCHANGED <<lastSent, frames, out>>
    BY <1>7, <1>8 DEF Ignore, Forward
  <2>2. QED
    BY <1>1, <2>1
<1>9. ASSUME List \/ Snapshot PROVE Quiet
  <2>1. pc # "closed" /\ UNCHANGED <<lastSent, frames>>
    BY <1>7, <1>9 DEF List, Snapshot
  <2>2. Send(Item("list", NoName, 0, 0))
    BY <1>9 DEF List, Snapshot
  <2>3. QED
    BY <1>4, <2>1, <2>2 DEF Texts
<1>10. CASE Delete
  <2>1. /\ pc # "closed" /\ UNCHANGED <<lastSent, frames>>
        /\ Current.name \in Texts
    BY <1>7, <1>10 DEF Delete
  <2>2. PICK ok \in {0, 1} : Send(Item("deleted", Current.name, ok, 0))
    BY <1>10 DEF Delete
  <2>3. QED
    BY <1>4, <2>1, <2>2
<1>11. CASE Get
  <2>1. /\ pc # "closed" /\ UNCHANGED <<lastSent, frames>>
        /\ Current.name \in Texts
    BY <1>7, <1>11 DEF Get
  <2>2. Send(Item("data", Current.name, 0, 0)) \/ UNCHANGED out
    BY <1>11 DEF Get
  <2>3. QED
    BY <1>1, <1>4, <2>1, <2>2
<1>12. QED
  BY <1>2, <1>3, <1>5, <1>6, <1>8, <1>9, <1>10, <1>11
  DEF Next, Session, Dispatch, Surroundings, Closed

-----------------------------------------------------------------------------
(* The video stream.  SentInv ties lastSentSeq_ to the newest frame in the *)
(* output: were frames already sent, lastSent would be its number.         *)

SentInv ==
    \A i \in 1..Len(out) : out[i].kind = "video" =>
        /\ out[i].idx <= frames
        /\ out[i].idx = frames => lastSent = SeqOf(frames)

VideoInv == SentInv /\ VideoMovesForward /\ VideoFailureCloses

(* PushFrame appends a frame newer than all before it, or closes.          *)
LEMMA VideoStep == TypeOK /\ VideoInv /\ [Next]_vars => VideoInv'
<1> SUFFICES ASSUME TypeOK, VideoInv, [Next]_vars PROVE VideoInv'
  OBVIOUS
<1>1. out \in Seq(OutItem) /\ frames \in Nat /\ frames' \in Nat
  BY TypeStep, SeqAssumption DEF TypeOK, OutItem
<1> USE DEF VideoInv, SentInv, VideoMovesForward, VideoFailureCloses
<1>2. CASE Quiet /\ UNCHANGED out
  <2>1. ASSUME NEW i \in 1..Len(out), out[i].kind = "video"
        PROVE  out[i].idx \in Nat /\ out[i].idx <= frames
    <3>1. out[i] \in OutItem
      BY <1>1
    <3>2. QED
      BY <2>1, <3>1 DEF OutItem
  <2>2. SentInv'
    BY <1>1, <1>2, <2>1 DEF Quiet
  <2>3. VideoMovesForward' /\ VideoFailureCloses'
    BY <1>2 DEF Quiet
  <2>4. QED
    BY <2>2, <2>3
<1>3. ASSUME Quiet, NEW o \in OutItem, o.kind # "video", out' = Append(out, o)
      PROVE  VideoInv'
  <2>1. /\ Len(out') = Len(out) + 1 /\ Len(out) \in Nat
        /\ \A i \in 1..Len(out) : out'[i] = out[i]
        /\ out'[Len(out) + 1].kind # "video"
    BY <1>1, <1>3
  <2>2. pc # "closed"
    <3>1. out' # out
      BY <2>1
    <3>2. QED
      BY <1>3, <3>1 DEF Quiet
  <2>3. \A i \in 1..Len(out) : out[i].idx \in Nat
    <3>1. \A i \in 1..Len(out) : out[i] \in OutItem
      BY <1>1
    <3>2. QED
      BY <3>1 DEF OutItem
  <2>4. SentInv'
    BY <1>1, <1>3, <2>1, <2>3 DEF Quiet
  <2>5. VideoMovesForward' /\ VideoFailureCloses'
    BY <1>1, <2>1, <2>2
  <2>6. QED
    BY <2>4, <2>5
<1>4. CASE PushFrame
  <2>1. /\ pc = "push" /\ frames' = frames /\ frames > 0
        /\ SeqOf(frames) # lastSent /\ lastSent' = SeqOf(frames)
        /\ Send(Item("video", NoName, frames, 0))
    BY <1>4 DEF PushFrame, NewFrame, envVars, Send
  <2>2. CASE UNCHANGED out
    BY <1>1, <2>1, <2>2 DEF SeqOf
  <2>3. ASSUME NEW o \in OutItem, o.kind = "video", o.idx = frames,
               out' = Append(out, o), ~o.whole => pc' = "closed"
        PROVE  VideoInv'
    <3>1. /\ Len(out') = Len(out) + 1 /\ Len(out) \in Nat
          /\ \A i \in 1..Len(out) : out'[i] = out[i]
          /\ out'[Len(out) + 1] = o
      BY <1>1, <2>3
    <3>2. \A i \in 1..Len(out) : out[i].idx \in Nat
      <4>1. \A i \in 1..Len(out) : out[i] \in OutItem
        BY <1>1
      <4>2. QED
        BY <4>1 DEF OutItem
    <3>3. SentInv'
      BY <1>1, <2>1, <2>3, <3>1, <3>2 DEF SeqOf
    <3>4. \A i \in 1..Len(out) : out[i].kind = "video" => out[i].idx < frames
      BY <1>1, <2>1, <3>2
    <3>5. VideoMovesForward'
      BY <2>3, <3>1, <3>4
    <3>6. VideoFailureCloses'
      BY <2>1, <2>3, <3>1
    <3>7. QED
      BY <3>3, <3>5, <3>6
  <2>4. \/ UNCHANGED out
        \/ \E o \in OutItem : /\ o.kind = "video" /\ o.idx = frames
                              /\ out' = Append(out, o)
                              /\ ~o.whole => pc' = "closed"
    <3> DEFINE m == Item("video", NoName, frames, 0)
               t == [m EXCEPT !.whole = FALSE]
    <3>1. /\ m \in OutItem /\ m.kind = "video" /\ m.idx = frames /\ m.whole
          /\ t \in OutItem /\ t.kind = "video" /\ t.idx = frames
      BY <1>1 DEF Item, OutItem, Texts
    <3>2. \/ out' = Append(out, m)
          \/ out' = out
          \/ out' = Append(out, t) /\ pc' = "closed"
      BY <1>4 DEF PushFrame, SendOk, SendFails
    <3>3. QED
      BY <3>1, <3>2
  <2>5. QED
    BY <2>2, <2>3, <2>4
<1>5. QED
  BY <1>2, <1>3, <1>4, StepShape DEF Quiet, Writes

(* VideoInv holds in every reachable state.                                *)
LEMMA VideoInvariance == Spec => []VideoInv
<1>1. Init => VideoInv
  BY DEF Init, VideoInv, SentInv, VideoMovesForward, VideoFailureCloses
<1>2. QED
  BY <1>1, VideoStep, SessionTypes, PTL DEF Spec

(* No frame is sent twice or out of order, also across the wrap of seq.    *)
THEOREM VideoForward == Spec => []VideoMovesForward
<1>1. VideoInv => VideoMovesForward
  BY DEF VideoInv
<1>2. QED
  BY <1>1, VideoInvariance, PTL

(* Nothing is ever written behind a frame that was cut short.              *)
THEOREM VideoFailureIsLast == Spec => []VideoFailureCloses
<1>1. VideoInv => VideoFailureCloses
  BY DEF VideoInv
<1>2. QED
  BY <1>1, VideoInvariance, PTL

-----------------------------------------------------------------------------
(* What is safety in NewestFrameIsShown.  sendFrameIfNew() compares        *)
(* numbers, not frames: it passes over the newest frame only when the peer *)
(* has it, or has one as many frames older as there are numbers, or when   *)
(* nothing was sent and the frame has the number lastSentSeq_ starts with. *)
FrameIsDue ==
    pc # "closed" /\ frames > 0 /\ ~Masked(frames) =>
        NewFrame \/ \E m \in 1..frames : Shown(m) /\ SeqOf(m) = SeqOf(frames)

(* lastSent is where it began, or the number of a frame that was sent.     *)
NothingSent ==
    lastSent = SeqSpace - 1 /\ \A i \in 1..Len(out) : out[i].kind # "video"
SomeSent == \E m \in 1..frames : Shown(m) /\ lastSent = SeqOf(m)
LastInv == pc # "closed" => NothingSent \/ SomeSent

(* More output hides no frame.                                             *)
LEMMA ShownStays ==
    ASSUME TypeOK, NEW kinds, Writes(kinds), NEW m, Shown(m)
    PROVE  Shown(m)'
<1>1. CASE UNCHANGED out
  BY <1>1 DEF Shown
<1>2. ASSUME NEW o \in OutItem, out' = Append(out, o) PROVE Shown(m)'
  <2>1. out \in Seq(OutItem)
    BY DEF TypeOK, OutItem
  <2>2. /\ 1..Len(out) \subseteq 1..Len(out')
        /\ \A i \in 1..Len(out) : out'[i] = out[i]
    BY <1>2, <2>1
  <2> QED BY <2>2 DEF Shown
<1> QED BY <1>1, <1>2 DEF Writes

(* A frame that was sent sets lastSent; other messages leave it alone.     *)
LEMMA LastStep == TypeOK /\ LastInv /\ [Next]_vars => LastInv'
<1> SUFFICES ASSUME TypeOK, LastInv, [Next]_vars, pc' # "closed"
             PROVE  (NothingSent \/ SomeSent)'
  BY DEF LastInv
<1>1. out \in Seq(OutItem) /\ frames \in Nat
  BY SeqAssumption DEF TypeOK, OutItem
<1>2. ASSUME Quiet PROVE (NothingSent \/ SomeSent)'
  <2>1. /\ lastSent' = lastSent /\ frames' \in {frames, frames + 1}
        /\ Writes({"hello", "list", "data", "deleted"})
        /\ pc # "closed"
    BY <1>2 DEF Quiet
  <2>2. CASE NothingSent
    <3>1. CASE UNCHANGED out
      BY <2>1, <2>2, <3>1 DEF NothingSent
    <3>2. ASSUME NEW o \in OutItem, o.kind # "video", out' = Append(out, o)
          PROVE  NothingSent'
      <4>1. \A i \in 1..Len(out') : i \in 1..Len(out) \/ i = Len(out) + 1
        BY <1>1, <3>2
      <4>2. /\ \A i \in 1..Len(out) : out'[i] = out[i]
            /\ out'[Len(out) + 1] = o
        BY <1>1, <3>2
      <4> QED BY <2>1, <2>2, <3>2, <4>1, <4>2 DEF NothingSent
    <3> QED BY <2>1, <3>1, <3>2 DEF Writes
  <2>3. CASE SomeSent
    <3>1. PICK m \in 1..frames : Shown(m) /\ lastSent = SeqOf(m)
      BY <2>3 DEF SomeSent
    <3>2. m \in 1..frames'
      BY <1>1, <2>1
    <3>3. Shown(m)'
      BY <2>1, <3>1, ShownStays
    <3> QED BY <2>1, <3>1, <3>2, <3>3 DEF SomeSent, SeqOf
  <2> QED BY <2>1, <2>2, <2>3 DEF LastInv
<1>3. CASE PushFrame
  <2> DEFINE m == Item("video", NoName, frames, 0)
  <2>1. /\ frames' = frames /\ frames > 0 /\ lastSent' = SeqOf(frames)
        /\ out' = Append(out, m)
    BY <1>3 DEF PushFrame, NewFrame, SendOk, SendFails, envVars
  <2>2. m.kind = "video" /\ m.idx = frames
    BY DEF Item
  <2> HIDE DEF m
  <2>3. Len(out) + 1 \in 1..Len(out') /\ out'[Len(out) + 1] = m
    BY <1>1, <2>1
  <2>4. Shown(frames)'
    BY <2>1, <2>2, <2>3 DEF Shown
  <2> QED BY <1>1, <2>1, <2>4 DEF SomeSent, SeqOf
<1> QED BY <1>2, <1>3, StepShape

(* No frame is taken for one that the peer has, across every wrap of seq   *)
(* and whatever was sent in between.                                       *)
THEOREM NewestIsDue == Spec => []FrameIsDue
<1>1. Init => LastInv
  BY DEF Init, LastInv, NothingSent
<1>2. TypeOK /\ LastInv => FrameIsDue
  <2> SUFFICES ASSUME TypeOK, LastInv, pc # "closed", frames > 0,
                      ~Masked(frames), ~NewFrame
               PROVE  \E m \in 1..frames : Shown(m) /\ SeqOf(m) = SeqOf(frames)
    BY DEF FrameIsDue
  <2>1. lastSent = SeqOf(frames)
    BY DEF NewFrame
  <2>2. ~NothingSent
    <3> SUFFICES ASSUME NothingSent PROVE FALSE
      OBVIOUS
    <3>1. \A i \in 1..frames : ~Shown(i)
      BY DEF NothingSent, Shown
    <3> QED BY <2>1, <3>1 DEF NothingSent, Masked
  <2> QED BY <2>1, <2>2 DEF LastInv, SomeSent
<1> QED BY <1>1, <1>2, LastStep, SessionTypes, PTL DEF Spec

-----------------------------------------------------------------------------
(* Authentication.  A file is being sent only to an authenticated peer.    *)

GateInv == AuthGate /\ (pc = "sendFile" => authed)

(* authed_ is set only by an admissible message, the first one if a token  *)
(* is required.                                                            *)
LEMMA GateStep == TypeOK /\ GateInv /\ [Next]_vars => GateInv'
<1> SUFFICES ASSUME TypeOK, GateInv, [Next]_vars PROVE GateInv'
  OBVIOUS
<1> USE DEF GateInv, AuthGate
<1>1. ASSUME NEW kinds, Handling(kinds), pc' = "sendFile" \/ pc' = pc
      PROVE  GateInv'
  <2>1. /\ pos' = pos + 1 /\ pos \in Nat /\ input' = input
        /\ authed' = TRUE
        /\ authed \/ input[pos + 1].kind = "hello"
    <3>1. pos \in Nat
      BY DEF TypeOK
    <3>2. QED
      BY <1>1, <3>1, HandlingFacts
  <2>2. TokenRequired => input[1].kind = "hello"
    BY <2>1
  <2>3. QED
    BY <2>1, <2>2
<1>2. ASSUME Ignore \/ Forward \/ List \/ Snapshot \/ Delete \/ Get
      PROVE  GateInv'
  BY <1>1, <1>2 DEF Ignore, Forward, List, Snapshot, Delete, Get
<1>3. ASSUME UNCHANGED <<authed, pos, cmds, input>>,
             out' = out \/ authed,
             pc' # "sendFile" \/ authed
      PROVE  GateInv'
  BY <1>3
<1>4. ASSUME Handshake \/ HandshakeFails \/ Leave \/ Idle \/ Disconnected
             \/ Receive \/ NeedMore \/ BadHeader \/ Reject \/ NotDue
             \/ SendChunk \/ PushFrame
      PROVE  GateInv'
  BY <1>3, <1>4 DEF Handshake, HandshakeFails, Leave, Idle, Disconnected,
     Receive, NeedMore, BadHeader, Reject, NotDue, Close, SendChunk, PushFrame,
     inVars, sysVars
<1>5. ASSUME Publish \/ TimePasses \/ RequestStop \/ PeerLeaves \/ OtherFileUse
             \/ UNCHANGED vars
      PROVE  GateInv'
  BY <1>3, <1>5 DEF Publish, TimePasses, RequestStop, PeerLeaves, OtherFileUse,
     sessionVars, inVars, sysVars, vars
<1>6. CASE SendHello
  <2>1. Send(Item("hello", NoName, 0, 0)) /\ pc' = "loop"
        /\ UNCHANGED <<authed, pos, cmds, input>>
    BY <1>6 DEF SendHello, inVars, sysVars
  <2>2. Writes({"hello"})
    BY <2>1, ItemType DEF Texts
  <2>3. out \in Seq(OutItem)
    BY DEF TypeOK, OutItem
  <2>4. ASSUME \A i \in 1..Len(out) : out[i].kind = "hello"
        PROVE  \A i \in 1..Len(out') : out'[i].kind = "hello"
    <3>1. CASE UNCHANGED out
      BY <2>4, <3>1
    <3>2. ASSUME NEW o \in OutItem, o.kind = "hello", out' = Append(out, o)
          PROVE  \A i \in 1..Len(out') : out'[i].kind = "hello"
      BY <2>3, <2>4, <3>2
    <3>3. QED
      BY <2>2, <3>1, <3>2 DEF Writes
  <2>5. QED
    BY <2>1, <2>4
<1>7. QED
  BY <1>2, <1>4, <1>5, <1>6 DEF Next, Session, Dispatch, Surroundings, Closed

(* Before the token nothing reaches the gimbal or the files and nothing    *)
(* but HELLO leaves the terminal, whatever the peer sends.                 *)
THEOREM Authenticated == Spec => []AuthGate
<1>1. Init => GateInv
  <2> SUFFICES ASSUME Init PROVE GateInv
    OBVIOUS
  <2>1. out = << >> /\ cmds = << >> /\ pos = 0 /\ pc # "sendFile"
    BY DEF Init
  <2>2. ~(authed /\ TokenRequired)
    BY TokenAssumption DEF Init
  <2>3. \A i \in 1..Len(out) : out[i].kind = "hello"
    BY <2>1
  <2>4. QED
    BY <2>1, <2>2, <2>3 DEF GateInv, AuthGate
<1>2. GateInv => AuthGate
  BY DEF GateInv
<1>3. QED
  BY <1>1, <1>2, GateStep, SessionTypes, PTL DEF Spec

-----------------------------------------------------------------------------
(* What a step does to requests and answers, whichever handler it is.      *)

NotSending == pc # "sendFile" /\ pc' # "sendFile"

(* The messages before this one have had their effect.                     *)
Silent ==
    /\ UNCHANGED <<out, lossy, pos, input, cmds>>
    /\ UNCHANGED <<pc, job>> \/ NotSending

(* A message that answers nothing: HELLO or a frame.                       *)
Says(m) ==
    /\ NotSending /\ UNCHANGED <<pos, input, cmds>>
    /\ m \in OutItem /\ m.kind \in {"hello", "video"}
    /\ Send(m)

(* A message without an answer.                                            *)
Takes(m) ==
    /\ NotSending /\ UNCHANGED <<input, out, lossy>>
    /\ pos' = pos + 1 /\ m = input[pos + 1] /\ ~IsRequest(m)
    /\ cmds' = IF IsCommand(m) THEN Append(cmds, m.kind) ELSE cmds

(* A request that is answered at once, by o.                               *)
Answers(m, o) ==
    /\ NotSending /\ UNCHANGED <<input, cmds>>
    /\ pos' = pos + 1 /\ m = input[pos + 1] /\ IsRequest(m) /\ ~IsCommand(m)
    /\ o \in OutItem /\ <<o.kind, o.name>> = AnswerTo(m) /\ o.whole
    /\ o.kind = "data" => o.idx = 0 /\ o.total = 0
    /\ Send(o)

(* A request that starts a transfer.                                       *)
Starts(m) ==
    /\ pc # "sendFile" /\ pc' = "sendFile" /\ UNCHANGED <<input, out, lossy, cmds>>
    /\ pos' = pos + 1 /\ m = input[pos + 1] /\ IsRequest(m) /\ ~IsCommand(m)
    /\ AnswerTo(m) = <<"data", job'.name>>
    /\ job'.next = 0 /\ job'.total \in Nat \ {0}

(* Every step is one of these, or a turn of sendFile's loop.               *)
LEMMA StepKinds ==
    ASSUME TypeOK, [Next]_vars
    PROVE  \/ Silent \/ SendChunk
           \/ \E m : Says(m) \/ Takes(m) \/ Starts(m) \/ \E o : Answers(m, o)
<1>1. ASSUME Handshake \/ HandshakeFails \/ Leave \/ Idle \/ Disconnected
             \/ Receive \/ NeedMore \/ BadHeader \/ Reject \/ NotDue
             \/ Publish \/ TimePasses \/ RequestStop \/ PeerLeaves \/ OtherFileUse
             \/ UNCHANGED vars
      PROVE  Silent
  BY <1>1 DEF Handshake, HandshakeFails, Leave, Idle, Disconnected, Receive, NeedMore,
     BadHeader, Reject, NotDue, Publish, TimePasses, RequestStop, PeerLeaves,
     OtherFileUse, Close, Silent, NotSending, sessionVars, inVars, sysVars, vars
<1>2. ASSUME NEW kinds, Handling(kinds)
      PROVE  /\ input[pos + 1] \in Message /\ input[pos + 1].kind \in kinds
             /\ pos' = pos + 1 /\ pc = "dispatch" /\ UNCHANGED input
             /\ Current = input[pos + 1]
  BY <1>2, HandlingFacts DEF Handling, Current
<1>3. CASE SendHello
  <2>1. Item("hello", NoName, 0, 0) \in OutItem /\ Item("hello", NoName, 0, 0).kind = "hello"
    BY DEF Item, OutItem, Texts
  <2>2. Says(Item("hello", NoName, 0, 0))
    BY <1>3, <2>1 DEF SendHello, Says, NotSending, inVars, sysVars
  <2> QED
    BY <2>2
<1>4. CASE PushFrame
  <2> DEFINE m == Item("video", NoName, frames, 0)
  <2>1. frames \in Nat
    BY SeqAssumption DEF TypeOK
  <2>2. m \in OutItem /\ m.kind = "video"
    BY <2>1 DEF Item, OutItem, Texts
  <2>3. Send(m) /\ NotSending /\ UNCHANGED <<pos, input, cmds>>
    BY <1>4 DEF PushFrame, Send, NotSending, inVars, sysVars
  <2> HIDE DEF m
  <2>4. Says(m)
    BY <2>2, <2>3 DEF Says
  <2> QED
    BY <2>4
<1>5. CASE Ignore
  <2>1. ~IsRequest(input[pos + 1]) /\ ~IsCommand(input[pos + 1])
    BY <1>2, <1>5 DEF Ignore, IsRequest, IsCommand, Current
  <2>2. NotSending /\ UNCHANGED <<input, out, lossy, cmds>> /\ pos' = pos + 1
    BY <1>2, <1>5 DEF Ignore, NotSending, sysVars
  <2>3. Takes(input[pos + 1])
    BY <2>1, <2>2 DEF Takes
  <2> QED
    BY <2>3
<1>6. CASE Forward
  <2>1. ~IsRequest(input[pos + 1]) /\ IsCommand(input[pos + 1])
    BY <1>2, <1>6 DEF Forward, IsRequest, IsCommand
  <2>2. NotSending /\ UNCHANGED <<input, out, lossy>> /\ pos' = pos + 1
        /\ cmds' = Append(cmds, input[pos + 1].kind)
    BY <1>2, <1>6 DEF Forward, NotSending
  <2>3. Takes(input[pos + 1])
    BY <2>1, <2>2 DEF Takes
  <2> QED
    BY <2>3
<1>7. CASE List \/ Snapshot
  <2> DEFINE o == Item("list", NoName, 0, 0)
  <2>1. /\ o \in OutItem /\ o.whole /\ o.kind = "list" /\ o.name = NoName
    BY DEF Item, OutItem, Texts
  <2>2. /\ NotSending /\ UNCHANGED <<input, cmds>> /\ pos' = pos + 1
        /\ input[pos + 1].kind \in {"list", "snapshot"} /\ Send(o)
    BY <1>2, <1>7 DEF List, Snapshot, NotSending, sysVars
  <2> HIDE DEF o
  <2>3. <<o.kind, o.name>> = AnswerTo(input[pos + 1])
    BY <2>1, <2>2 DEF AnswerTo
  <2>4. Answers(input[pos + 1], o)
    BY <2>1, <2>2, <2>3 DEF Answers, IsRequest, IsCommand
  <2> QED
    BY <2>4
<1>8. CASE Delete
  <2>1. /\ NotSending /\ UNCHANGED <<input, cmds>> /\ pos' = pos + 1
        /\ input[pos + 1].kind = "delete" /\ input[pos + 1] \in Message
    BY <1>2, <1>8 DEF Delete, NotSending
  <2>2. PICK ok \in {0, 1} : Send(Item("deleted", input[pos + 1].name, ok, 0))
    BY <1>2, <1>8 DEF Delete
  <2> DEFINE o == Item("deleted", input[pos + 1].name, ok, 0)
  <2>3. /\ o \in OutItem /\ o.whole /\ o.kind = "deleted" /\ o.name = input[pos + 1].name
    BY <2>1 DEF Item, OutItem, Message
  <2>4. Send(o)
    BY <2>2
  <2> HIDE DEF o
  <2>5. <<o.kind, o.name>> = AnswerTo(input[pos + 1])
    BY <2>1, <2>3 DEF AnswerTo
  <2>6. Answers(input[pos + 1], o)
    BY <2>1, <2>3, <2>4, <2>5 DEF Answers, IsRequest, IsCommand
  <2> QED
    BY <2>6
<1>9. CASE Get
  <2> DEFINE m == input[pos + 1]
             o == Item("data", m.name, 0, 0)
  <2>1. /\ pc = "dispatch" /\ UNCHANGED <<input, cmds>> /\ pos' = pos + 1
        /\ m.kind = "get" /\ m \in Message /\ Current = m
        /\ m.name # NoName /\ ~TooLong(m.name)
    BY <1>2, <1>9 DEF Get, sysVars
  <2>2. m.name \in Texts
    BY <2>1 DEF Message
  <2>3. /\ o \in OutItem /\ o.whole /\ o.kind = "data" /\ o.name = m.name
        /\ o.idx = 0 /\ o.total = 0
    BY <2>2 DEF Item, OutItem
  <2>4. \/ Send(o) /\ UNCHANGED <<pc, job>>
        \/ /\ \E t \in Nat \ {0} : job' = [name |-> m.name, total |-> t, next |-> 0]
           /\ pc' = "sendFile" /\ UNCHANGED <<out, lossy>>
    BY <1>9, <2>1, <2>2, ChunksAssumption DEF Get, TypeOK
  <2> HIDE DEF o, m
  <2>5. AnswerTo(m) = <<"data", m.name>>
    BY <2>1 DEF AnswerTo
  <2>6. CASE Send(o) /\ UNCHANGED <<pc, job>>
    <3>1. Answers(m, o)
      BY <2>1, <2>3, <2>5, <2>6 DEF NotSending, Answers, IsRequest, IsCommand, m
    <3> QED
      BY <3>1
  <2>7. CASE ~(Send(o) /\ UNCHANGED <<pc, job>>)
    <3>1. Starts(m)
      BY <2>1, <2>4, <2>5, <2>7 DEF Starts, IsRequest, IsCommand, m
    <3> QED
      BY <3>1
  <2> QED
    BY <2>6, <2>7
<1> QED
  BY <1>1, <1>3, <1>4, <1>5, <1>6, <1>7, <1>8, <1>9
  DEF Next, Session, Dispatch, Surroundings, Closed

-----------------------------------------------------------------------------
(* Places and their ranks.                                                 *)

(* The places of a finite stretch are numbered from 1 up to their count.   *)
LEMMA RankRange ==
    ASSUME NEW n \in Nat, NEW P \in SUBSET (1..n)
    PROVE  /\ IsFiniteSet(P) /\ Cardinality(P) \in Nat
           /\ \A p \in P : Rank(P, p) \in 1..Cardinality(P)
<1>1. IsFiniteSet(P)
  <2>1. 1 \in Int /\ n \in Int
    OBVIOUS
  <2>2. IsFiniteSet(1..n)
    BY <2>1, FS_Interval
  <2> QED
    BY <2>2, FS_Subset
<1>2. Cardinality(P) \in Nat
  BY <1>1, FS_CardinalityType
<1>3. ASSUME NEW p \in P
      PROVE  Rank(P, p) \in 1..Cardinality(P)
  <2> DEFINE S == {q \in P : q <= p}
  <2>1. S \subseteq P /\ p \in S
    OBVIOUS
  <2>2. IsFiniteSet(S) /\ Cardinality(S) <= Cardinality(P)
    BY <1>1, <2>1, FS_Subset
  <2>3. Cardinality(S) \in Nat
    BY <2>2, FS_CardinalityType
  <2>4. Cardinality(S) # 0
    BY <2>1, <2>2, FS_EmptySet
  <2>5. Cardinality(S) \in 1..Cardinality(P)
    BY <1>2, <2>2, <2>3, <2>4
  <2> QED
    BY <2>5 DEF Rank
<1> QED
  BY <1>1, <1>2, <1>3

(* A later place gets the next number and the others keep theirs.          *)
LEMMA RankGrows ==
    ASSUME NEW n \in Nat, NEW P \in SUBSET (1..n)
    PROVE  /\ Cardinality(P \cup {n + 1}) = Cardinality(P) + 1
           /\ Rank(P \cup {n + 1}, n + 1) = Cardinality(P) + 1
           /\ \A p \in P : Rank(P \cup {n + 1}, p) = Rank(P, p)
<1> DEFINE Q == P \cup {n + 1}
<1>1. IsFiniteSet(P) /\ Cardinality(P) \in Nat
  BY RankRange
<1>2. n + 1 \notin P
  OBVIOUS
<1>3. Cardinality(Q) = Cardinality(P) + 1
  BY <1>1, <1>2, FS_AddElement
<1>4. {q \in Q : q <= n + 1} = Q
  <2>1. \A q \in Q : q <= n + 1
    OBVIOUS
  <2> HIDE DEF Q
  <2> QED
    BY <2>1
<1>5. Rank(Q, n + 1) = Cardinality(P) + 1
  BY <1>3, <1>4 DEF Rank
<1>6. ASSUME NEW p \in P
      PROVE  Rank(Q, p) = Rank(P, p)
  <2>1. {q \in Q : q <= p} = {q \in P : q <= p}
    OBVIOUS
  <2> QED
    BY <2>1 DEF Rank
<1> QED
  BY <1>3, <1>5, <1>6

(* The places of commands and requests after one more message.             *)
LEMMA MessagesGrow ==
    ASSUME TypeOK, UNCHANGED input, pos' = pos + 1
    PROVE  /\ pos \in Nat
           /\ CommandsAt' = IF IsCommand(input[pos + 1])
                              THEN CommandsAt \cup {pos + 1} ELSE CommandsAt
           /\ RequestsAt' = IF IsRequest(input[pos + 1])
                              THEN RequestsAt \cup {pos + 1} ELSE RequestsAt
<1>1. pos \in Nat
  BY DEF TypeOK
<1>2. 1..pos' = 1..pos \cup {pos + 1} /\ pos + 1 \notin 1..pos
  BY <1>1
<1>3. CommandsAt' = {p \in 1..pos' : IsCommand(input[p])}
  BY DEF CommandsAt, IsCommand
<1>4. RequestsAt' = {p \in 1..pos' : IsRequest(input[p])}
  BY DEF RequestsAt, IsRequest
<1>5. CommandsAt' = IF IsCommand(input[pos + 1])
                      THEN CommandsAt \cup {pos + 1} ELSE CommandsAt
  BY <1>2, <1>3 DEF CommandsAt
<1>6. RequestsAt' = IF IsRequest(input[pos + 1])
                      THEN RequestsAt \cup {pos + 1} ELSE RequestsAt
  BY <1>2, <1>4 DEF RequestsAt
<1> QED
  BY <1>1, <1>5, <1>6

(* The places of answers after one more item in the stream.                *)
LEMMA AnswersGrow ==
    ASSUME out \in Seq(OutItem), NEW o \in OutItem, out' = Append(out, o)
    PROVE  /\ AnswersAt' = IF IsAnswer(o) THEN AnswersAt \cup {Len(out) + 1} ELSE AnswersAt
           /\ \A i \in AnswersAt : out'[i] = out[i]
           /\ out'[Len(out) + 1] = o
<1>1. /\ 1..Len(out') = 1..Len(out) \cup {Len(out) + 1}
      /\ Len(out) + 1 \notin 1..Len(out)
      /\ \A i \in 1..Len(out) : out'[i] = out[i]
      /\ out'[Len(out) + 1] = o
  OBVIOUS
<1>2. AnswersAt' = {i \in 1..Len(out') : IsAnswer(out'[i])}
  BY DEF AnswersAt, IsAnswer
<1>3. \A i \in 1..Len(out) : IsAnswer(out'[i]) <=> IsAnswer(out[i])
  BY <1>1
<1> QED
  BY <1>1, <1>2, <1>3 DEF AnswersAt

-----------------------------------------------------------------------------
(* Commands.  One more command takes the next place in both sequences.     *)
LEMMA CommandsStep ==
    ASSUME TypeOK, CommandsInOrder, [Next]_vars
    PROVE  CommandsInOrder'
<1> DEFINE m == input[pos + 1]
<1>1. ASSUME UNCHANGED <<pos, input, cmds>>
      PROVE  CommandsInOrder'
  <2>1. CommandsAt' = CommandsAt
    BY <1>1 DEF CommandsAt, IsCommand
  <2> QED
    BY <1>1, <2>1 DEF CommandsInOrder
<1>2. ASSUME UNCHANGED input, pos' = pos + 1,
             cmds' = IF IsCommand(m) THEN Append(cmds, m.kind) ELSE cmds
      PROVE  CommandsInOrder'
  <2>1. /\ pos \in Nat
        /\ CommandsAt' = IF IsCommand(m) THEN CommandsAt \cup {pos + 1} ELSE CommandsAt
    BY <1>2, MessagesGrow
  <2>2. CommandsAt \in SUBSET (1..pos)
    BY DEF CommandsAt
  <2>3. CASE ~IsCommand(m)
    <3>1. UNCHANGED <<cmds, CommandsAt>>
      BY <1>2, <2>1, <2>3
    <3> QED
      BY <1>2, <3>1 DEF CommandsInOrder
  <2>4. CASE IsCommand(m)
    <3> DEFINE C == CommandsAt \cup {pos + 1}
    <3>1. /\ CommandsAt' = C
          /\ Cardinality(C) = Cardinality(CommandsAt) + 1
          /\ Rank(C, pos + 1) = Cardinality(CommandsAt) + 1
          /\ \A p \in CommandsAt : Rank(C, p) = Rank(CommandsAt, p)
      BY <2>1, <2>2, <2>4, RankGrows
    <3>2. \A p \in CommandsAt : Rank(CommandsAt, p) \in 1..Cardinality(CommandsAt)
      BY <2>1, <2>2, RankRange
    <3>3. /\ Len(cmds') = Len(cmds) + 1 /\ cmds'[Len(cmds) + 1] = m.kind
          /\ \A k \in 1..Len(cmds) : cmds'[k] = cmds[k]
      BY <1>2, <2>4 DEF TypeOK
    <3>4. /\ Len(cmds) = Cardinality(CommandsAt)
          /\ \A p \in CommandsAt : cmds[Rank(CommandsAt, p)] = input[p].kind
      BY DEF CommandsInOrder
    <3> HIDE DEF m
    <3>5. ASSUME NEW p \in C
          PROVE  cmds'[Rank(C, p)] = input[p].kind
      <4>1. CASE p \in CommandsAt
        <5>1. Rank(C, p) = Rank(CommandsAt, p) /\ Rank(CommandsAt, p) \in 1..Len(cmds)
          BY <3>1, <3>2, <3>4, <4>1
        <5> QED
          BY <3>3, <3>4, <4>1, <5>1
      <4>2. CASE p = pos + 1
        <5>1. Rank(C, p) = Len(cmds) + 1
          BY <3>1, <3>4, <4>2
        <5> QED
          BY <3>3, <4>2, <5>1 DEF m
      <4> QED
        BY <4>1, <4>2
    <3> HIDE DEF C
    <3>6. Len(cmds') = Cardinality(C)
      BY <3>1, <3>3, <3>4
    <3>7. \A p \in CommandsAt' : cmds'[Rank(CommandsAt', p)] = input'[p].kind
      BY <1>2, <3>1, <3>5
    <3> QED
      BY <3>1, <3>6, <3>7 DEF CommandsInOrder
  <2> QED
    BY <2>3, <2>4
<1>3. ASSUME NEW k, Says(k)
      PROVE  CommandsInOrder'
  BY <1>1, <1>3 DEF Says
<1>4. ASSUME NEW k, Takes(k)
      PROVE  CommandsInOrder'
  BY <1>2, <1>4 DEF Takes
<1>5. ASSUME NEW k, Starts(k)
      PROVE  CommandsInOrder'
  BY <1>2, <1>5 DEF Starts
<1>6. ASSUME NEW k, NEW o, Answers(k, o)
      PROVE  CommandsInOrder'
  BY <1>2, <1>6 DEF Answers
<1>7. CASE Silent \/ SendChunk
  BY <1>1, <1>7 DEF Silent, SendChunk, inVars, sysVars
<1> QED
  BY <1>3, <1>4, <1>5, <1>6, <1>7, StepKinds

(* Exactly the peer's commands reach the business thread, in order,        *)
(* however the stream is cut and whatever else the session is doing.       *)
THEOREM CommandsStayInOrder == Spec => []CommandsInOrder
<1>1. Init => CommandsInOrder
  <2> SUFFICES ASSUME Init PROVE CommandsInOrder
    OBVIOUS
  <2>1. CommandsAt = {} /\ cmds = << >>
    BY DEF Init, CommandsAt
  <2> QED
    BY <2>1, FS_EmptySet DEF CommandsInOrder
<1>2. TypeOK /\ CommandsInOrder /\ [Next]_vars => CommandsInOrder'
  BY CommandsStep
<1> QED
  BY <1>1, <1>2, SessionTypes, PTL DEF Spec

-----------------------------------------------------------------------------
(* Answers.  While a transfer has not begun to send, its request is the    *)
(* one that is still to be answered.                                       *)

Matched ==
    \A p \in RequestsAt, i \in AnswersAt :
        Rank(RequestsAt, p) = Rank(AnswersAt, i) =>
            <<out[i].kind, out[i].name>> = AnswerTo(input[p])

Awaited == pc = "sendFile" /\ job.next = 0

Level ==
    /\ ~Awaited => Cardinality(AnswersAt) = Cardinality(RequestsAt)
    /\ Awaited =>
         /\ Cardinality(RequestsAt) = Cardinality(AnswersAt) + 1
         /\ \A p \in RequestsAt : Rank(RequestsAt, p) = Cardinality(RequestsAt) =>
               AnswerTo(input[p]) = <<"data", job.name>>

AnswerInv == ~lossy => Matched /\ Level

(* Both are sets of places.                                                *)
LEMMA PlacesFacts ==
    ASSUME TypeOK
    PROVE  /\ pos \in Nat /\ Len(out) \in Nat /\ out \in Seq(OutItem)
           /\ RequestsAt \in SUBSET (1..pos) /\ AnswersAt \in SUBSET (1..Len(out))
           /\ Cardinality(RequestsAt) \in Nat /\ Cardinality(AnswersAt) \in Nat
           /\ \A p \in RequestsAt :
                 Rank(RequestsAt, p) \in 1..Cardinality(RequestsAt)
           /\ \A i \in AnswersAt :
                 Rank(AnswersAt, i) \in 1..Cardinality(AnswersAt)
<1>1. pos \in Nat /\ out \in Seq(OutItem)
  BY DEF TypeOK, OutItem
<1>2. Len(out) \in Nat
  BY <1>1
<1>3. RequestsAt \in SUBSET (1..pos) /\ AnswersAt \in SUBSET (1..Len(out))
  BY DEF RequestsAt, AnswersAt
<1> QED
  BY <1>1, <1>2, <1>3, RankRange

(* Nothing changes but who waits for whom.                                 *)
LEMMA AnswersSame ==
    ASSUME AnswerInv, ~lossy, UNCHANGED <<RequestsAt, AnswersAt, input>>,
           \A i \in AnswersAt : out'[i] = out[i],
           Awaited' <=> Awaited, Awaited => UNCHANGED job
    PROVE  AnswerInv'
<1>1. Matched /\ Level
  BY DEF AnswerInv
<1>2. Matched'
  BY <1>1 DEF Matched, AnswerTo
<1>3. Level'
  BY <1>1 DEF Level, AnswerTo
<1> QED
  BY <1>2, <1>3 DEF AnswerInv

(* One request more, and its answer: the two get the same number.          *)
LEMMA BothGrow ==
    ASSUME TypeOK, AnswerInv, ~lossy, ~Awaited, ~Awaited', UNCHANGED input,
           RequestsAt' = RequestsAt \cup {pos + 1},
           AnswersAt' = AnswersAt \cup {Len(out) + 1},
           \A i \in AnswersAt : out'[i] = out[i],
           <<out'[Len(out) + 1].kind, out'[Len(out) + 1].name>> = AnswerTo(input[pos + 1])
    PROVE  AnswerInv'
<1> DEFINE n == Cardinality(RequestsAt)
           R == RequestsAt \cup {pos + 1}
           A == AnswersAt \cup {Len(out) + 1}
<1>1. Matched /\ Cardinality(AnswersAt) = n /\ n \in Nat
  BY PlacesFacts DEF AnswerInv, Level
<1>2. /\ Cardinality(R) = n + 1 /\ Rank(R, pos + 1) = n + 1
      /\ \A p \in RequestsAt : Rank(R, p) = Rank(RequestsAt, p)
  BY PlacesFacts, RankGrows
<1>3. /\ Cardinality(A) = n + 1 /\ Rank(A, Len(out) + 1) = n + 1
      /\ \A i \in AnswersAt : Rank(A, i) = Rank(AnswersAt, i)
  <2>1. Len(out) \in Nat /\ AnswersAt \in SUBSET (1..Len(out))
    BY PlacesFacts
  <2>2. /\ Cardinality(A) = Cardinality(AnswersAt) + 1
        /\ Rank(A, Len(out) + 1) = Cardinality(AnswersAt) + 1
        /\ \A i \in AnswersAt : Rank(A, i) = Rank(AnswersAt, i)
    BY <2>1, RankGrows
  <2> QED
    BY <1>1, <2>2
<1>4. /\ \A p \in RequestsAt : Rank(RequestsAt, p) \in 1..n
      /\ \A i \in AnswersAt : Rank(AnswersAt, i) \in 1..n
  BY <1>1, PlacesFacts
<1> HIDE DEF n
<1>5. ASSUME NEW p \in R, NEW i \in A, Rank(R, p) = Rank(A, i)
      PROVE  <<out'[i].kind, out'[i].name>> = AnswerTo(input[p])
  <2>1. CASE p \in RequestsAt /\ i \in AnswersAt
    <3>1. <<out[i].kind, out[i].name>> = AnswerTo(input[p])
      BY <1>1, <1>2, <1>3, <1>5, <2>1 DEF Matched
    <3> QED
      BY <2>1, <3>1
  <2>2. CASE p = pos + 1 /\ i = Len(out) + 1
    BY <2>2
  <2>3. ~(p \in RequestsAt /\ i = Len(out) + 1)
    BY <1>1, <1>2, <1>3, <1>4, <1>5
  <2>4. ~(p = pos + 1 /\ i \in AnswersAt)
    BY <1>1, <1>2, <1>3, <1>4, <1>5
  <2> QED
    BY <2>1, <2>2, <2>3, <2>4
<1> HIDE DEF R, A
<1>6. RequestsAt' = R /\ AnswersAt' = A
  BY DEF R, A
<1>7. Matched'
  <2>1. input' = input
    OBVIOUS
  <2>2. \A p \in RequestsAt', i \in AnswersAt' :
           Rank(RequestsAt', p) = Rank(AnswersAt', i) =>
               <<out'[i].kind, out'[i].name>> = AnswerTo(input'[p])
    BY <1>5, <1>6, <2>1
  <2> QED
    BY <2>2 DEF Matched
<1>8. Level'
  BY <1>2, <1>3, <1>6 DEF Level
<1> QED
  BY <1>7, <1>8 DEF AnswerInv

(* A request that starts a transfer has a number no answer has yet.        *)
LEMMA RequestGrows ==
    ASSUME TypeOK, AnswerInv, ~lossy, ~Awaited, Awaited', UNCHANGED <<input, out>>,
           RequestsAt' = RequestsAt \cup {pos + 1},
           AnswerTo(input[pos + 1]) = <<"data", job'.name>>
    PROVE  AnswerInv'
<1> DEFINE n == Cardinality(RequestsAt)
           R == RequestsAt \cup {pos + 1}
<1>1. Matched /\ Cardinality(AnswersAt) = n /\ n \in Nat
  BY PlacesFacts DEF AnswerInv, Level
<1>2. /\ Cardinality(R) = n + 1 /\ Rank(R, pos + 1) = n + 1
      /\ \A p \in RequestsAt : Rank(R, p) = Rank(RequestsAt, p)
  BY PlacesFacts, RankGrows
<1>3. /\ \A p \in RequestsAt : Rank(RequestsAt, p) \in 1..n
      /\ \A i \in AnswersAt : Rank(AnswersAt, i) \in 1..n
  BY <1>1, PlacesFacts
<1>4. AnswersAt' = AnswersAt
  BY DEF AnswersAt, IsAnswer
<1> HIDE DEF n
<1>5. ASSUME NEW p \in R, NEW i \in AnswersAt, Rank(R, p) = Rank(AnswersAt, i)
      PROVE  <<out[i].kind, out[i].name>> = AnswerTo(input[p])
  <2>1. p \in RequestsAt
    BY <1>1, <1>2, <1>3, <1>5
  <2> QED
    BY <1>1, <1>2, <1>5, <2>1 DEF Matched
<1>6. ASSUME NEW p \in R, Rank(R, p) = n + 1
      PROVE  AnswerTo(input[p]) = <<"data", job'.name>>
  <2>1. p = pos + 1
    BY <1>1, <1>2, <1>3, <1>6
  <2> QED
    BY <2>1
<1> HIDE DEF R
<1>7. RequestsAt' = R
  BY DEF R
<1>8. Matched'
  <2>1. input' = input
    OBVIOUS
  <2>2. \A p \in RequestsAt', i \in AnswersAt' :
           Rank(RequestsAt', p) = Rank(AnswersAt', i) =>
               <<out'[i].kind, out'[i].name>> = AnswerTo(input'[p])
    BY <1>4, <1>5, <1>7, <2>1
  <2> QED
    BY <2>2 DEF Matched
<1>9. Level'
  BY <1>1, <1>2, <1>4, <1>6, <1>7 DEF Level, AnswerTo
<1> QED
  BY <1>8, <1>9 DEF AnswerInv

(* The first chunk is the answer the transfer's request waits for.         *)
LEMMA AnswerGrows ==
    ASSUME TypeOK, AnswerInv, ~lossy, Awaited, ~Awaited', UNCHANGED <<input, RequestsAt>>,
           AnswersAt' = AnswersAt \cup {Len(out) + 1},
           \A i \in AnswersAt : out'[i] = out[i],
           <<out'[Len(out) + 1].kind, out'[Len(out) + 1].name>> = <<"data", job.name>>
    PROVE  AnswerInv'
<1> DEFINE n == Cardinality(AnswersAt)
           A == AnswersAt \cup {Len(out) + 1}
<1>1. Matched /\ Cardinality(RequestsAt) = n + 1 /\ n \in Nat
  BY PlacesFacts DEF AnswerInv, Level
<1>2. \A p \in RequestsAt : Rank(RequestsAt, p) = n + 1 =>
         AnswerTo(input[p]) = <<"data", job.name>>
  BY <1>1 DEF AnswerInv, Level
<1>3. /\ Cardinality(A) = n + 1 /\ Rank(A, Len(out) + 1) = n + 1
      /\ \A i \in AnswersAt : Rank(A, i) = Rank(AnswersAt, i)
  BY PlacesFacts, RankGrows
<1> HIDE DEF n
<1>4. ASSUME NEW p \in RequestsAt, NEW i \in A, Rank(RequestsAt, p) = Rank(A, i)
      PROVE  <<out'[i].kind, out'[i].name>> = AnswerTo(input[p])
  <2>1. CASE i \in AnswersAt
    <3>1. <<out[i].kind, out[i].name>> = AnswerTo(input[p])
      BY <1>1, <1>3, <1>4, <2>1 DEF Matched
    <3> QED
      BY <2>1, <3>1
  <2>2. CASE i = Len(out) + 1
    BY <1>2, <1>3, <1>4, <2>2
  <2> QED
    BY <2>1, <2>2
<1> HIDE DEF A
<1>5. AnswersAt' = A
  BY DEF A
<1>6. Matched'
  <2>1. input' = input
    OBVIOUS
  <2>2. \A p \in RequestsAt', i \in AnswersAt' :
           Rank(RequestsAt', p) = Rank(AnswersAt', i) =>
               <<out'[i].kind, out'[i].name>> = AnswerTo(input'[p])
    BY <1>4, <1>5, <2>1
  <2> QED
    BY <2>2 DEF Matched
<1>7. Level'
  BY <1>1, <1>3, <1>5 DEF Level
<1> QED
  BY <1>6, <1>7 DEF AnswerInv

(* What a whole item in the stream changes, when every send works.         *)
LEMMA SentWhole ==
    ASSUME NEW m, Send(m), ~lossy'
    PROVE  ~lossy /\ out' = Append(out, m)
  BY DEF Send, SendOk, SendFails

(* Requests and answers stay level: each kind of step is one of the above. *)
LEMMA AnswersStep ==
    ASSUME TypeOK, AnswerInv, [Next]_vars, ~lossy'
    PROVE  AnswerInv'
<1>1. out \in Seq(OutItem)
  BY PlacesFacts
<1>2. CASE Silent
  <2>1. ~lossy /\ UNCHANGED <<RequestsAt, AnswersAt, input, out>>
    BY <1>2 DEF Silent, RequestsAt, AnswersAt, IsRequest, IsAnswer
  <2>2. (Awaited' <=> Awaited) /\ (Awaited => UNCHANGED job)
    BY <1>2 DEF Silent, NotSending, Awaited
  <2> QED
    BY <2>1, <2>2, AnswersSame
<1>3. ASSUME NEW m, Says(m)
      PROVE  AnswerInv'
  <2>1. ~lossy /\ out' = Append(out, m) /\ m \in OutItem /\ ~IsAnswer(m)
    BY <1>3, SentWhole DEF Says, IsAnswer
  <2>2. AnswersAt' = AnswersAt /\ \A i \in AnswersAt : out'[i] = out[i]
    BY <1>1, <2>1, AnswersGrow
  <2>3. UNCHANGED <<input, RequestsAt>> /\ ~Awaited /\ ~Awaited'
    BY <1>3 DEF Says, NotSending, Awaited, RequestsAt, IsRequest
  <2> QED
    BY <2>1, <2>2, <2>3, AnswersSame
<1>4. ASSUME NEW m, Takes(m)
      PROVE  AnswerInv'
  <2>1. RequestsAt' = RequestsAt
    BY <1>4, MessagesGrow DEF Takes
  <2>2. ~lossy /\ UNCHANGED <<input, AnswersAt, out>> /\ ~Awaited /\ ~Awaited'
    BY <1>4 DEF Takes, NotSending, Awaited, AnswersAt, IsAnswer
  <2> QED
    BY <2>1, <2>2, AnswersSame
<1>5. ASSUME NEW m, Starts(m)
      PROVE  AnswerInv'
  <2>1. RequestsAt' = RequestsAt \cup {pos + 1}
    BY <1>5, MessagesGrow DEF Starts
  <2>2. ~lossy /\ UNCHANGED <<input, out>> /\ ~Awaited /\ Awaited'
    BY <1>5 DEF Starts, Awaited
  <2>3. AnswerTo(input[pos + 1]) = <<"data", job'.name>>
    BY <1>5 DEF Starts
  <2> QED
    BY <2>1, <2>2, <2>3, RequestGrows
<1>6. ASSUME NEW m, NEW o, Answers(m, o)
      PROVE  AnswerInv'
  <2>1. RequestsAt' = RequestsAt \cup {pos + 1}
    BY <1>6, MessagesGrow DEF Answers
  <2>2. o \in OutItem /\ <<o.kind, o.name>> = AnswerTo(input[pos + 1])
    BY <1>6 DEF Answers
  <2>3. ~lossy /\ out' = Append(out, o)
    BY <1>6, SentWhole DEF Answers
  <2>4. IsAnswer(o)
    <3>1. o.kind \in {"list", "deleted", "data"}
      BY <2>2 DEF AnswerTo
    <3> QED
      BY <1>6, <3>1 DEF Answers, IsAnswer
  <2>5. /\ AnswersAt' = AnswersAt \cup {Len(out) + 1}
        /\ \A i \in AnswersAt : out'[i] = out[i]
        /\ out'[Len(out) + 1] = o
    BY <1>1, <2>2, <2>3, <2>4, AnswersGrow
  <2>6. UNCHANGED input /\ ~Awaited /\ ~Awaited'
    BY <1>6 DEF Answers, NotSending, Awaited
  <2> QED
    BY <2>1, <2>2, <2>3, <2>5, <2>6, BothGrow
<1>7. CASE SendChunk
  <2> DEFINE o == Item("data", job.name, job.next, job.total)
  <2>1. job.name \in Texts /\ job.next \in Nat /\ job.total \in Nat
    BY DEF TypeOK
  <2>2. o \in OutItem /\ o.kind = "data" /\ o.name = job.name /\ o.idx = job.next
    BY <2>1 DEF Item, OutItem
  <2>3. /\ pc = "sendFile" /\ UNCHANGED <<input, pos>>
        /\ SendOk(o)
        /\ pc' # "sendFile" \/ job' = [job EXCEPT !.next = @ + 1]
    BY <1>7 DEF SendChunk, SendFails, inVars
  <2>4. ~lossy /\ out' = Append(out, o)
    BY <2>3 DEF SendOk
  <2> HIDE DEF o
  <2>5. /\ AnswersAt' = IF IsAnswer(o) THEN AnswersAt \cup {Len(out) + 1} ELSE AnswersAt
        /\ \A i \in AnswersAt : out'[i] = out[i]
        /\ out'[Len(out) + 1] = o
    BY <1>1, <2>2, <2>4, AnswersGrow
  <2>6. UNCHANGED <<input, RequestsAt>>
    BY <2>3 DEF RequestsAt, IsRequest
  <2>7. job' = [job EXCEPT !.next = @ + 1] => job'.next = job.next + 1
    BY DEF TypeOK
  <2>8. ~Awaited'
    BY <2>1, <2>3, <2>7 DEF Awaited
  <2>9. Awaited <=> IsAnswer(o)
    BY <2>2, <2>3 DEF Awaited, IsAnswer
  <2>10. CASE Awaited
    <3>1. <<out'[Len(out) + 1].kind, out'[Len(out) + 1].name>> = <<"data", job.name>>
      BY <2>2, <2>5
    <3>2. AnswersAt' = AnswersAt \cup {Len(out) + 1}
      BY <2>5, <2>9, <2>10
    <3> QED
      BY <2>4, <2>5, <2>6, <2>8, <2>10, <3>1, <3>2, AnswerGrows
  <2>11. CASE ~Awaited
    <3>1. AnswersAt' = AnswersAt
      BY <2>5, <2>9, <2>11
    <3> QED
      BY <2>4, <2>5, <2>6, <2>8, <2>11, <3>1, AnswersSame
  <2> QED
    BY <2>10, <2>11
<1> QED
  BY <1>2, <1>3, <1>4, <1>5, <1>6, <1>7, StepKinds

(* One answer per request and in the order of the requests, as long as     *)
(* every send works: for any messages of the peer and any files.           *)
THEOREM AnswersStayInOrder == Spec => []AnswersInOrder
<1>1. Init => AnswerInv
  <2> SUFFICES ASSUME Init PROVE AnswerInv
    OBVIOUS
  <2>1. RequestsAt = {} /\ AnswersAt = {} /\ pc # "sendFile"
    BY DEF Init, RequestsAt, AnswersAt
  <2> QED
    BY <2>1 DEF AnswerInv, Matched, Level, Awaited
<1>2. TypeOK /\ AnswerInv /\ [Next]_vars => AnswerInv'
  <2>1. TypeOK /\ AnswerInv /\ [Next]_vars /\ ~lossy' => AnswerInv'
    BY AnswersStep
  <2>2. lossy' => AnswerInv'
    BY DEF AnswerInv
  <2> QED
    BY <2>1, <2>2
<1>3. AnswerInv => AnswersInOrder
  BY DEF AnswerInv, Matched, Level, Awaited, AnswersInOrder
<1> QED
  BY <1>1, <1>2, <1>3, SessionTypes, PTL DEF Spec

-----------------------------------------------------------------------------
(* The chunks of a file.  The job that is being sent goes on exactly where *)
(* the stream ends.                                                        *)

Follows(o) == Item("data", o.name, o.idx + 1, o.total)
Unfinished(o) == o.kind = "data" /\ o.idx + 1 < o.total
Ends(o) == Len(out) > 0 /\ out[Len(out)] = o

ChunkInv ==
    /\ ChunksContiguous
    /\ pc = "sendFile" =>
         /\ job.next < job.total
         /\ job.next > 0 => Ends(Item("data", job.name, job.next - 1, job.total))
    /\ ~lossy /\ Len(out) > 0 /\ Unfinished(out[Len(out)]) =>
         pc = "sendFile" /\ job.next > 0

(* An item that goes on where the stream ends, or needs no predecessor,    *)
(* keeps the chunks together; only a transfer may leave them unfinished.   *)
LEMMA ChunksGrow ==
    ASSUME ChunksContiguous, out \in Seq(OutItem), NEW o \in OutItem,
           out' = Append(out, o),
           o.kind = "data" /\ o.idx > 0 =>
               Ends(Item("data", o.name, o.idx - 1, o.total)),
           ~lossy' => ~lossy,
           ~lossy' /\ Len(out) > 0 /\ Unfinished(out[Len(out)]) =>
               o = Follows(out[Len(out)]),
           ~lossy' /\ Unfinished(o) => pc' = "sendFile"
    PROVE  ChunksContiguous'
<1>1. /\ Len(out') = Len(out) + 1 /\ Len(out) \in Nat /\ out'[Len(out) + 1] = o
      /\ \A i \in 1..Len(out) : out'[i] = out[i]
  OBVIOUS
<1>2. ASSUME NEW i \in 1..Len(out'), out'[i].kind = "data", out'[i].idx > 0
      PROVE  i > 1 /\ out'[i - 1]
                        = Item("data", out'[i].name, out'[i].idx - 1, out'[i].total)
  <2>1. CASE i \in 1..Len(out)
    <3>1. out'[i] = out[i]
      BY <1>1, <2>1
    <3>2. i > 1 /\ out[i - 1] = Item("data", out[i].name, out[i].idx - 1, out[i].total)
      BY <1>2, <2>1, <3>1 DEF ChunksContiguous
    <3>3. i - 1 \in 1..Len(out)
      BY <2>1, <3>2
    <3> QED
      BY <1>1, <3>1, <3>2, <3>3
  <2>2. CASE i = Len(out) + 1
    <3>1. Len(out) > 0 /\ out[Len(out)] = Item("data", o.name, o.idx - 1, o.total)
      BY <1>1, <1>2, <2>2 DEF Ends
    <3> QED
      BY <1>1, <2>2, <3>1
  <2> QED
    BY <1>1, <2>1, <2>2
<1>3. ASSUME NEW i \in 1..Len(out'), out'[i].kind = "data", ~lossy',
             out'[i].idx + 1 < out'[i].total
      PROVE  IF i < Len(out')
               THEN out'[i + 1] = Item("data", out'[i].name, out'[i].idx + 1, out'[i].total)
               ELSE pc' = "sendFile"
  <2>1. CASE i \in 1..(Len(out) - 1)
    <3>1. out'[i] = out[i] /\ out'[i + 1] = out[i + 1]
      BY <1>1, <2>1
    <3>2. out[i + 1] = Item("data", out[i].name, out[i].idx + 1, out[i].total)
      BY <1>1, <1>3, <2>1, <3>1 DEF ChunksContiguous
    <3> QED
      BY <1>1, <2>1, <3>1, <3>2
  <2>2. CASE i = Len(out) /\ Len(out) > 0
    <3>1. out'[i] = out[Len(out)] /\ out'[i + 1] = o
      BY <1>1, <2>2
    <3>2. o = Follows(out[Len(out)])
      BY <1>3, <2>2, <3>1 DEF Unfinished
    <3> QED
      BY <1>1, <2>2, <3>1, <3>2 DEF Follows
  <2>3. CASE i = Len(out) + 1
    BY <1>1, <1>3, <2>3 DEF Unfinished
  <2> QED
    BY <1>1, <2>1, <2>2, <2>3
<1> QED
  BY <1>2, <1>3 DEF ChunksContiguous

(* A message that is no chunk of a transfer finds no unfinished one before *)
(* it.                                                                     *)
LEMMA ChunksSaid ==
    ASSUME TypeOK, ChunkInv, NEW m \in OutItem, Send(m), NotSending,
           m.kind = "data" => m.idx = 0 /\ m.total = 0
    PROVE  ChunkInv'
<1>1. PICK o \in OutItem : /\ out' \in {out, Append(out, o)}
                           /\ ~lossy' => ~lossy /\ out' = Append(out, o)
                           /\ o.kind = "data" => o.idx = 0 /\ o.total = 0
  <2> DEFINE t == [m EXCEPT !.whole = FALSE]
  <2>1. /\ t \in OutItem /\ t.kind = m.kind /\ t.idx = m.idx /\ t.total = m.total
    BY DEF OutItem
  <2>2. CASE SendOk(m)
    BY <2>2 DEF SendOk
  <2>3. CASE SendFails(m)
    BY <2>1, <2>3 DEF SendFails
  <2> QED
    BY <2>2, <2>3 DEF Send
<1>2. out \in Seq(OutItem)
  BY PlacesFacts
<1>3. ~Unfinished(o)
  BY <1>1 DEF Unfinished
<1>4. pc # "sendFile" /\ pc' # "sendFile"
  BY DEF NotSending
<1>5. ~lossy' => ~(Len(out) > 0 /\ Unfinished(out[Len(out)]))
  BY <1>1, <1>4 DEF ChunkInv
<1>6. CASE out' = Append(out, o)
  <2>1. ChunksContiguous'
    <3>1. ~(o.kind = "data" /\ o.idx > 0)
      BY <1>1
    <3> QED
      BY <1>1, <1>2, <1>3, <1>5, <1>6, <3>1, ChunksGrow DEF ChunkInv
  <2>2. out'[Len(out')] = o
    BY <1>2, <1>6
  <2> QED
    BY <1>3, <1>4, <2>1, <2>2 DEF ChunkInv, Unfinished
<1>7. CASE out' = out
  <2>1. lossy'
    <3>1. Append(out, o) # out
      BY <1>2
    <3> QED
      BY <1>1, <1>7, <3>1
  <2>2. ChunksContiguous'
    BY <1>7, <2>1 DEF ChunkInv, ChunksContiguous
  <2> QED
    BY <1>4, <2>1, <2>2 DEF ChunkInv
<1> QED
  BY <1>1, <1>6, <1>7

(* Steps that write nothing.                                               *)
LEMMA ChunksSame ==
    ASSUME ChunkInv, UNCHANGED <<out, lossy>>,
           UNCHANGED <<pc, job>> \/ (pc # "sendFile" /\
               (pc' = "sendFile" => job'.next = 0 /\ job'.total \in Nat \ {0}))
    PROVE  ChunkInv'
<1>1. CASE UNCHANGED <<pc, job>>
  BY <1>1 DEF ChunkInv, ChunksContiguous, Unfinished, Ends
<1>2. CASE pc # "sendFile" /\
           (pc' = "sendFile" => job'.next = 0 /\ job'.total \in Nat \ {0})
  <2>1. ~(~lossy /\ Len(out) > 0 /\ Unfinished(out[Len(out)]))
    BY <1>2 DEF ChunkInv
  <2>2. ChunksContiguous'
    <3>1. ASSUME NEW i \in 1..Len(out), out[i].kind = "data", ~lossy,
                 out[i].idx + 1 < out[i].total
          PROVE  i < Len(out) /\
                 out[i + 1] = Item("data", out[i].name, out[i].idx + 1, out[i].total)
      BY <1>2, <3>1 DEF ChunkInv, ChunksContiguous
    <3>2. ASSUME NEW i \in 1..Len(out), out[i].kind = "data", out[i].idx > 0
          PROVE  i > 1 /\ out[i - 1]
                            = Item("data", out[i].name, out[i].idx - 1, out[i].total)
      BY <3>2 DEF ChunkInv, ChunksContiguous
    <3> QED
      BY <3>1, <3>2 DEF ChunksContiguous
  <2>3. pc' = "sendFile" => job'.next < job'.total /\ ~(job'.next > 0)
    BY <1>2
  <2> QED
    BY <2>1, <2>2, <2>3 DEF ChunkInv, Unfinished
<1> QED
  BY <1>1, <1>2

(* One turn of sendFile's loop.                                            *)
LEMMA ChunkSent ==
    ASSUME TypeOK, ChunkInv, SendChunk
    PROVE  ChunkInv'
<1> DEFINE m == Item("data", job.name, job.next, job.total)
           t == [m EXCEPT !.whole = FALSE]
<1>1. job.name \in Texts /\ job.next \in Nat /\ job.total \in Nat
  BY DEF TypeOK
<1>2. /\ m \in OutItem /\ t \in OutItem
      /\ m.kind = "data" /\ m.name = job.name /\ m.idx = job.next /\ m.total = job.total
      /\ t.kind = "data" /\ t.name = job.name /\ t.idx = job.next /\ t.total = job.total
  BY <1>1 DEF Item, OutItem
<1>3. /\ pc = "sendFile" /\ job.next < job.total /\ out \in Seq(OutItem)
      /\ job.next > 0 => Ends(Item("data", job.name, job.next - 1, job.total))
      /\ ChunksContiguous
  BY PlacesFacts DEF SendChunk, ChunkInv
<1>4. \/ /\ SendOk(m)
         /\ IF job.next + 1 = job.total
              THEN pc' = "dispatch"
              ELSE job' = [job EXCEPT !.next = @ + 1] /\ UNCHANGED pc
      \/ SendFails(m) /\ pc' = "dispatch"
  BY DEF SendChunk
<1>5. ~lossy /\ Len(out) > 0 /\ Unfinished(out[Len(out)]) => m = Follows(out[Len(out)])
  <2> SUFFICES ASSUME ~lossy, Len(out) > 0, Unfinished(out[Len(out)])
               PROVE  m = Follows(out[Len(out)])
    OBVIOUS
  <2>1. out[Len(out)] = Item("data", job.name, job.next - 1, job.total)
    BY <1>3 DEF ChunkInv, Ends
  <2>2. /\ out[Len(out)].name = job.name /\ out[Len(out)].idx = job.next - 1
        /\ out[Len(out)].total = job.total
    BY <2>1 DEF Item
  <2> QED
    BY <1>1, <2>2 DEF Follows
<1> HIDE DEF m, t
<1>6. CASE SendFails(m) /\ pc' = "dispatch"
  <2>1. lossy' /\ out' \in {out, Append(out, t)}
    BY <1>6 DEF SendFails, t
  <2>2. CASE out' = out
    BY <1>3, <1>6, <2>1, <2>2 DEF ChunkInv, ChunksContiguous
  <2>3. CASE out' = Append(out, t)
    <3>1. ChunksContiguous'
      BY <1>2, <1>3, <2>1, <2>3, ChunksGrow
    <3> QED
      BY <1>6, <2>1, <3>1 DEF ChunkInv
  <2> QED
    BY <2>1, <2>2, <2>3
<1>7. CASE SendOk(m) /\ IF job.next + 1 = job.total
                          THEN pc' = "dispatch"
                          ELSE job' = [job EXCEPT !.next = @ + 1] /\ UNCHANGED pc
  <2>1. out' = Append(out, m) /\ (lossy' <=> lossy)
    BY <1>7 DEF SendOk
  <2>2. Unfinished(m) <=> job.next + 1 # job.total
    BY <1>1, <1>2, <1>3 DEF Unfinished
  <2>3. ChunksContiguous'
    <3>1. Unfinished(m) => pc' = "sendFile"
      BY <1>3, <1>7, <2>2
    <3> QED
      BY <1>2, <1>3, <1>5, <2>1, <3>1, ChunksGrow
  <2>4. Len(out') > 0 /\ out'[Len(out')] = m
    BY <1>2, <1>3, <2>1
  <2>5. CASE job.next + 1 = job.total
    <3>1. pc' = "dispatch" /\ ~Unfinished(m)
      BY <1>7, <2>2, <2>5
    <3> QED
      BY <2>3, <2>4, <3>1 DEF ChunkInv, Unfinished
  <2>6. CASE job.next + 1 # job.total
    <3>1. /\ pc' = "sendFile" /\ job'.next = job.next + 1
          /\ job'.name = job.name /\ job'.total = job.total
      BY <1>3, <1>7, <2>6 DEF TypeOK
    <3>2. job'.next < job'.total /\ job'.next > 0 /\ job'.next - 1 = job.next
      BY <1>1, <1>3, <2>6, <3>1
    <3>3. Ends(Item("data", job.name, job.next - 1, job.total))'
          <=> (Len(out') > 0 /\ out'[Len(out')]
                 = Item("data", job'.name, job'.next - 1, job'.total))
      BY DEF Ends, Item
    <3>4. out'[Len(out')] = Item("data", job'.name, job'.next - 1, job'.total)
      BY <2>4, <3>1, <3>2 DEF m
    <3> QED
      BY <2>3, <2>4, <3>1, <3>2, <3>3, <3>4 DEF ChunkInv
  <2> QED
    BY <2>5, <2>6
<1> QED
  BY <1>4, <1>6, <1>7

(* Every other step leaves the stream alone or says something else.        *)
LEMMA ChunkStep ==
    ASSUME TypeOK, ChunkInv, [Next]_vars
    PROVE  ChunkInv'
<1>1. CASE Silent
  BY <1>1, ChunksSame DEF Silent, NotSending
<1>2. ASSUME NEW m, Takes(m)
      PROVE  ChunkInv'
  BY <1>2, ChunksSame DEF Takes, NotSending
<1>3. ASSUME NEW m, Starts(m)
      PROVE  ChunkInv'
  BY <1>3, ChunksSame DEF Starts
<1>4. ASSUME NEW m, Says(m)
      PROVE  ChunkInv'
  BY <1>4, ChunksSaid DEF Says
<1>5. ASSUME NEW m, NEW o, Answers(m, o)
      PROVE  ChunkInv'
  BY <1>5, ChunksSaid DEF Answers
<1> QED
  BY <1>1, <1>2, <1>3, <1>4, <1>5, ChunkSent, StepKinds

(* A file's chunks come without a gap and with nothing in between, and a   *)
(* transfer that loses no chunk is finished, whatever else happens.        *)
THEOREM ChunksStayTogether == Spec => []ChunksContiguous
<1>1. Init => ChunkInv
  BY DEF Init, ChunkInv, ChunksContiguous
<1>2. TypeOK /\ ChunkInv /\ [Next]_vars => ChunkInv'
  BY ChunkStep
<1>3. ChunkInv => ChunksContiguous
  BY DEF ChunkInv
<1> QED
  BY <1>1, <1>2, <1>3, SessionTypes, PTL DEF Spec

-----------------------------------------------------------------------------
(* What is safety in StopIsHonoured and UnauthenticatedIsDropped.  A       *)
(* session that was asked to stop, or whose time for a HELLO is over, has  *)
(* so much left to do: the places of run() it still passes, before them    *)
(* the messages in its buffer, before those the chunks of a transfer.      *)
MustEnd == stop \/ (~authed /\ expired)

Place(p) ==
    CASE p = "closed" -> 0 [] p = "loop" -> 1 [] p = "push" -> 2
      [] p \in {"dispatch", "sendFile"} -> 3 [] p = "greet" -> 4
      [] OTHER -> 5
Unread == got - pos
Unsent == job.total - job.next

(* Triples of naturals in lexicographic order: no descent is infinite.     *)
Nearer ==
    \/ Place(pc') < Place(pc)
    \/ Place(pc') = Place(pc) /\ Unread' < Unread
    \/ Place(pc') = Place(pc) /\ Unread' = Unread /\ Unsent' < Unsent

(* Every step of the session leaves less to do, and nobody else's adds to  *)
(* it.  Only a HELLO that is in the buffer already lifts the deadline.     *)
EndsInTurn ==
    MustEnd =>
        /\ MustEnd' \/ (~authed /\ authed')
        /\ Session => Nearer
        /\ ~Session => UNCHANGED <<pc, got, pos, job>>

(* Between transfers there is none, and in one a chunk is left.            *)
JobInv ==
    /\ Unread \in Nat /\ Unsent \in Nat
    /\ pc = "sendFile" => job.next < job.total

(* JobInv is inductive: a transfer starts with a chunk and ends after its  *)
(* last.                                                                   *)
LEMMA JobStep == TypeOK /\ JobInv /\ [Next]_vars => JobInv'
<1> SUFFICES ASSUME TypeOK, JobInv, [Next]_vars PROVE JobInv'
  OBVIOUS
<1>1. TypeOK'
  BY TypeStep
<1>2. Unread' \in Nat
  <2>1. Len(input') \in Nat /\ got' \in 0..Len(input') /\ pos' \in 0..got'
    BY <1>1 DEF TypeOK
  <2>2. got' \in Nat
    BY <2>1
  <2>3. pos' \in Nat /\ pos' <= got'
    BY <2>1, <2>2
  <2>4. \A a, b \in Nat : b <= a => a - b \in Nat
    OBVIOUS
  <2>5. got' - pos' \in Nat
    BY <2>2, <2>3, <2>4
  <2> QED BY <2>5 DEF Unread
<1>3. job.next \in Nat /\ job.total \in Nat
  BY DEF TypeOK
<1>4. ASSUME UNCHANGED job, pc' # "sendFile" \/ pc' = pc PROVE JobInv'
  BY <1>2, <1>4 DEF JobInv, Unsent
<1>5. ASSUME ~Get, ~SendChunk PROVE JobInv'
  <2>1. UNCHANGED job /\ (pc' # "sendFile" \/ pc' = pc)
    BY <1>5 DEF Next, Session, Dispatch, Surroundings, Closed, Handshake,
       HandshakeFails, SendHello, Leave, Idle, Disconnected, Receive, Close,
       NeedMore, BadHeader, Reject, Ignore, Forward, List, Snapshot, Delete,
       NotDue, PushFrame, Publish, TimePasses, RequestStop, PeerLeaves,
       OtherFileUse, sessionVars, vars
  <2> QED BY <1>4, <2>1
<1>6. CASE Get
  <2>1. files \subseteq Names
    BY DEF TypeOK
  <2> DEFINE total == IF Current.name \in files THEN Chunks[Current.name] ELSE 0
  <2>2. total \in Nat
    BY <2>1, ChunksAssumption
  <2>3. \/ UNCHANGED <<pc, job>>
        \/ total # 0 /\ job' = [name |-> Current.name, total |-> total, next |-> 0]
    BY <1>6 DEF Get
  <2> HIDE DEF total
  <2>4. CASE UNCHANGED <<pc, job>>
    BY <1>4, <2>4
  <2>5. CASE /\ total # 0
             /\ job' = [name |-> Current.name, total |-> total, next |-> 0]
    <3>1. job'.total = total /\ job'.next = 0
      BY <2>5
    <3> QED BY <1>2, <2>2, <2>5, <3>1 DEF JobInv, Unsent
  <2> QED BY <2>3, <2>4, <2>5
<1>7. CASE SendChunk
  <2>1. pc = "sendFile" /\ job.next < job.total
    BY <1>7 DEF SendChunk, JobInv
  <2>2. CASE job' = NoJob /\ pc' = "dispatch"
    <3>1. job'.total = 0 /\ job'.next = 0
      BY <2>2 DEF NoJob
    <3> QED BY <1>2, <2>2, <3>1 DEF JobInv, Unsent
  <2>3. CASE job.next + 1 # job.total /\ job' = [job EXCEPT !.next = @ + 1]
    <3>1. job'.total = job.total /\ job'.next = job.next + 1
      BY <2>3 DEF TypeOK
    <3> QED BY <1>2, <1>3, <2>1, <2>3, <3>1 DEF JobInv, Unsent
  <2> QED BY <1>7, <2>2, <2>3 DEF SendChunk
<1> QED BY <1>5, <1>6, <1>7

(* A handler has one message less before it; a transfer it starts counts   *)
(* for less than that.                                                     *)
LEMMA HandlerIsNearer ==
    ASSUME TypeOK, NEW kinds, Handling(kinds), pc' \in {"sendFile", pc}
    PROVE  Nearer
<1>1. pc = "dispatch" /\ got' = got /\ pos' = pos + 1
  BY HandlingFacts DEF Handling
<1>2. got \in Nat /\ pos \in Nat
  BY DEF TypeOK
<1> QED BY <1>1, <1>2 DEF Nearer, Place, Unread

(* A turn of sendFile's loop sends one chunk, or is the last.              *)
LEMMA ChunkIsNearer ==
    ASSUME TypeOK, JobInv, SendChunk
    PROVE  Nearer
<1>1. pc = "sendFile" /\ Unread' = Unread /\ job.next < job.total
  BY DEF SendChunk, JobInv, Unread, inVars
<1>2. job.next \in Nat /\ job.total \in Nat
  BY DEF TypeOK
<1>3. CASE job' = NoJob /\ pc' = "dispatch"
  <2>1. Unsent' = 0
    BY <1>3 DEF NoJob, Unsent
  <2> QED BY <1>1, <1>2, <1>3, <2>1 DEF Nearer, Place, Unsent
<1>4. CASE job' = [job EXCEPT !.next = @ + 1] /\ pc' = pc
  <2>1. job'.total = job.total /\ job'.next = job.next + 1
    BY <1>4 DEF TypeOK
  <2> QED BY <1>1, <1>2, <1>4, <2>1 DEF Nearer, Unsent
<1> QED BY <1>3, <1>4 DEF SendChunk

(* Whatever a session that must end is doing, it is on its way to the end. *)
LEMMA EndStep == TypeOK /\ JobInv /\ [Next]_vars => EndsInTurn
<1> SUFFICES ASSUME TypeOK, JobInv, [Next]_vars, MustEnd
             PROVE  /\ MustEnd' \/ (~authed /\ authed')
                    /\ Session => Nearer
                    /\ ~Session => UNCHANGED <<pc, got, pos, job>>
  BY DEF EndsInTurn
<1>1. MustEnd' \/ (~authed /\ authed')
  <2>1. stop => stop'
    BY DEF TypeOK, Next, Session, Dispatch, Surroundings, Closed, Handshake,
       HandshakeFails, SendHello, Leave, Idle, Disconnected, Receive, Close,
       NeedMore, BadHeader, Reject, Ignore, Forward, List, Snapshot, Delete,
       Get, SendChunk, NotDue, PushFrame, Publish, TimePasses, RequestStop,
       PeerLeaves, OtherFileUse, Handling, envVars, vars
  <2>2. expired => expired'
    BY DEF TypeOK, Next, Session, Dispatch, Surroundings, Closed, Handshake,
       HandshakeFails, SendHello, Leave, Idle, Disconnected, Receive, Close,
       NeedMore, BadHeader, Reject, Ignore, Forward, List, Snapshot, Delete,
       Get, SendChunk, NotDue, PushFrame, Publish, TimePasses, RequestStop,
       PeerLeaves, OtherFileUse, Handling, envVars, vars
  <2>3. CASE stop
    BY <2>1, <2>3 DEF MustEnd
  <2>4. CASE ~authed /\ expired
    BY <2>2, <2>4 DEF MustEnd
  <2> QED BY <2>3, <2>4 DEF MustEnd
<1>2. ASSUME Session PROVE Nearer
  <2>1. ~Proceeds
    BY DEF MustEnd, Proceeds
  <2>2. ~(Idle \/ Disconnected \/ Receive)
    BY <2>1 DEF Idle, Disconnected, Receive
  <2>3. CASE Handshake \/ HandshakeFails \/ SendHello \/ Leave \/ NeedMore
             \/ BadHeader \/ Reject \/ NotDue \/ PushFrame
    BY <2>3 DEF Handshake, HandshakeFails, SendHello, Leave, NeedMore,
       BadHeader, Reject, NotDue, PushFrame, Close, Nearer, Place
  <2>4. CASE Ignore \/ Forward \/ List \/ Snapshot \/ Delete \/ Get
    <3>1. PICK kinds : Handling(kinds)
      BY <2>4 DEF Ignore, Forward, List, Snapshot, Delete, Get
    <3>2. pc' \in {"sendFile", pc}
      BY <2>4 DEF Ignore, Forward, List, Snapshot, Delete, Get
    <3> QED BY <3>1, <3>2, HandlerIsNearer
  <2>5. CASE SendChunk
    BY <2>5, ChunkIsNearer
  <2> QED BY <1>2, <2>2, <2>3, <2>4, <2>5 DEF Session, Dispatch
<1>3. ASSUME ~Session PROVE UNCHANGED <<pc, got, pos, job>>
  BY <1>3 DEF Next, Surroundings, Closed, Publish, TimePasses, RequestStop,
     PeerLeaves, OtherFileUse, sessionVars, inVars, vars
<1> QED BY <1>1, <1>2, <1>3

(* A session that must end does so after finitely many steps of its own,   *)
(* whatever the peer, the clock and the other threads do meanwhile.        *)
THEOREM EndIsNear == Spec => [][EndsInTurn]_vars
<1>1. Init => JobInv
  BY DEF Init, JobInv, Unread, Unsent, NoJob
<1>2. TypeOK /\ JobInv /\ [Next]_vars => [EndsInTurn]_vars
  BY EndStep
<1> QED BY <1>1, <1>2, JobStep, SessionTypes, PTL DEF Spec

=============================================================================
