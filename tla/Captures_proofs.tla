--------------------------- MODULE Captures_proofs ---------------------------
(***************************************************************************)
(* The capture directory for any number of threads, pictures, parts of a   *)
(* picture and milliseconds: the mutex keeps its calls apart, every call   *)
(* takes effect at one moment (CaptureStore), and names tell pictures      *)
(* apart unless the two clocks disagree.                                   *)
(*                                                                         *)
(* The argument: what a thread has asked for fits the place it is at       *)
(* (CallInv); the file being written is the writer's own, and the one      *)
(* being read stays as it was when it was opened (HeldInv); a file without *)
(* a picture is no file (FileInv).                                         *)
(***************************************************************************)
EXTENDS Captures, TLAPS

Ops == {"snapshot", "read", "remove", "list"}

CallType == [op : {"none", "snapshot", "read", "remove", "list"},
             name : Names \cup {NoName}, pic : 0..MaxPics,
             second : 0..Second(MaxTime), size : 0..Parts]
ReplyType == [is : {"none", "failed", "saved", "file", "removed", "list"},
              names : SUBSET Names, file : Store!File]

(* What a thread has asked for, at each place of the call.                 *)
CallAt(c) ==
    /\ pc[c] = "idle" => call[c] = NoCall
    /\ pc[c] # "idle" => call[c].op \in Ops /\ reply[c] = Store!NoReply
    /\ pc[c] = "named" => call[c].op = "snapshot" /\ call[c].name = NoName
    /\ pc[c] = "writing" => call[c].op = "snapshot"
    /\ pc[c] = "reading" => call[c].op = "read"
    /\ pc[c] \in {"enter", "writing", "reading"} =>
          IF call[c].op = "list" THEN call[c].name = NoName
                                 ELSE call[c].name \in Names
    /\ call[c].op = "snapshot" => call[c].pic > 0

CallInv == \A c \in Callers : CallAt(c)

(* The file a thread has open.                                             *)
HeldAt(c) ==
    /\ pc[c] = "writing" => disk[call[c].name].pic = call[c].pic
    /\ pc[c] = "reading" =>
          /\ There(call[c].name)
          /\ call[c].size = disk[call[c].name].parts

HeldInv == \A c \in Callers : HeldAt(c)

FileInv ==
    /\ \A n \in Names : disk[n].pic = 0 => disk[n] = Nothing
    /\ old.pic = 0 => old = Nothing

(* A name is the second that was read and the milliseconds of the moment   *)
(* it was made.                                                            *)
NameInv == \A t \in taken : t.name = <<t.second, t.at % Ms>>

IInv == TypeOK /\ CallInv /\ HeldInv /\ FileInv /\ NameInv

-----------------------------------------------------------------------------
(* Arithmetic of the two clocks.                                           *)

(* Division with a remainder.                                              *)
LEMMA DivMod ==
    ASSUME NEW d \in Nat \ {0}, NEW t \in Nat
    PROVE  /\ t \div d \in Nat /\ t % d \in 0..(d - 1)
           /\ t = d * (t \div d) + (t % d)
OBVIOUS

(* More of it divides no less.                                             *)
LEMMA DivMonotone ==
    ASSUME NEW d \in Nat \ {0}, NEW s \in Nat, NEW t \in Nat, s <= t
    PROVE  s \div d <= t \div d
OBVIOUS

(* A second of the time watched is one that names are made of.             *)
LEMMA SecondType == \A t \in 0..MaxTime : Second(t) \in 0..Second(MaxTime)
BY DivMonotone, DivMod, ClockAssumption, BoundsAssumption DEF Second

(* One more of it is a whole d more.                                       *)
LEMMA Times ==
    ASSUME NEW d \in Nat \ {0}, NEW a \in Nat, NEW b \in Nat, a < b
    PROVE  d * a + d <= d * b
OBVIOUS

(* The second and the milliseconds of the steady clock tell any two        *)
(* moments apart, wherever in the steady clock's second the wall clock's   *)
(* begins.                                                                 *)
LEMMA ClocksTell ==
    ASSUME NEW s \in Nat, NEW t \in Nat,
           Second(s) = Second(t), s % Ms = t % Ms
    PROVE  s = t
<1> DEFINE us == s + Ms - Phase
           ut == t + Ms - Phase
<1>1. Ms \in Nat \ {0} /\ Phase \in 0..(Ms - 1) /\ us \in Nat /\ ut \in Nat
  BY ClockAssumption
<1>2. /\ us = Ms * (us \div Ms) + (us % Ms)
      /\ ut = Ms * (ut \div Ms) + (ut % Ms)
  BY <1>1, DivMod
<1>3. us \div Ms = ut \div Ms
  BY DEF Second
<1>4. us % Ms \in 0..(Ms - 1) /\ ut % Ms \in 0..(Ms - 1) /\ us \div Ms \in Nat
  BY <1>1, DivMod
<1>5. s - t < Ms /\ t - s < Ms
  <2>1. Ms * (us \div Ms) \in Int
    BY <1>1, <1>4
  <2> HIDE DEF us, ut
  <2>2. us - ut = (us % Ms) - (ut % Ms)
    BY <1>1, <1>2, <1>3, <1>4, <2>1
  <2>3. us - ut < Ms /\ ut - us < Ms
    BY <1>1, <1>4, <2>2
  <2> QED BY <1>1, <2>3 DEF us, ut
<1> HIDE DEF us, ut
<1>6. s = Ms * (s \div Ms) + (s % Ms) /\ s \div Ms \in Nat /\ s % Ms \in Nat
  <2>1. /\ s \div Ms \in Nat /\ s % Ms \in 0..(Ms - 1)
        /\ s = Ms * (s \div Ms) + (s % Ms)
    BY <1>1, DivMod
  <2> QED BY <1>1, <2>1
<1>7. t = Ms * (t \div Ms) + (s % Ms) /\ t \div Ms \in Nat
  <2>1. t \div Ms \in Nat /\ t = Ms * (t \div Ms) + (t % Ms)
    BY <1>1, DivMod
  <2> QED BY <2>1
<1>8. ~(s \div Ms < t \div Ms) /\ ~(t \div Ms < s \div Ms)
  <2>1. Ms * (s \div Ms) \in Nat /\ Ms * (t \div Ms) \in Nat
    BY <1>1, <1>6, <1>7
  <2>2. s \div Ms < t \div Ms => Ms * (s \div Ms) + Ms <= Ms * (t \div Ms)
    BY <1>1, <1>6, <1>7, Times
  <2>3. t \div Ms < s \div Ms => Ms * (t \div Ms) + Ms <= Ms * (s \div Ms)
    BY <1>1, <1>6, <1>7, Times
  <2> QED BY <1>1, <1>5, <1>6, <1>7, <2>1, <2>2, <2>3
<1> QED BY <1>6, <1>7, <1>8

-----------------------------------------------------------------------------
(* The types.                                                              *)

LEMMA TypeParts ==
    TypeOK <=>
        /\ disk \in [Names -> OnDisk]
        /\ mutex \in Callers \cup {NoCaller}
        /\ pc \in [Callers -> {"idle", "named", "enter", "writing", "reading"}]
        /\ call \in [Callers -> CallType]
        /\ reply \in [Callers -> ReplyType]
        /\ \A c \in Callers : mutex = c <=> pc[c] \in {"writing", "reading"}
        /\ now \in 0..MaxTime /\ pics \in 0..MaxPics
        /\ taken \subseteq [name : Names, pic : 1..MaxPics, at : 0..MaxTime,
                            second : 0..Second(MaxTime)]
        /\ old \in OnDisk
BY DEF TypeOK, CallType, ReplyType

(* The values that stand for nothing.                                      *)
LEMMA NothingType ==
    /\ NoCall \in CallType /\ Store!NoReply \in ReplyType
    /\ Store!NoFile \in Store!File /\ Nothing \in OnDisk
<1>1. 0 \in 0..Second(MaxTime)
  <2>1. Second(MaxTime) \in Nat
    BY SecondType, BoundsAssumption, DivMod, ClockAssumption DEF Second
  <2> QED BY <2>1
<1>2. 0 \in 0..MaxPics /\ 0 \in 0..Parts
  BY BoundsAssumption
<1>3. NoCall \in CallType
  BY <1>1, <1>2 DEF NoCall, CallType
<1>4. Store!NoFile \in Store!File
  BY <1>2 DEF Store!NoFile, Store!File
<1>5. Store!NoReply \in ReplyType
  BY <1>4 DEF Store!NoReply, ReplyType
<1>6. Nothing \in OnDisk
  BY <1>2 DEF Nothing, OnDisk
<1> QED BY <1>3, <1>4, <1>5, <1>6

(* A thread asks for something.                                            *)
LEMMA CallsStep ==
    ASSUME TypeOK, NEW c \in Callers, NEW op \in Ops,
           NEW n \in Names \cup {NoName}, NEW pic \in 0..MaxPics,
           Calls(c, op, n, pic)
    PROVE  /\ call' \in [Callers -> CallType]
           /\ reply' \in [Callers -> ReplyType]
           /\ call'[c].op = op /\ call'[c].name = n /\ call'[c].pic = pic
           /\ reply'[c] = Store!NoReply
           /\ \A d \in Callers \ {c} :
                 call'[d] = call[d] /\ reply'[d] = reply[d]
<1> DEFINE r == [op |-> op, name |-> n, pic |-> pic, second |-> Second(now),
                 size |-> 0]
<1>1. r \in CallType
  <2>1. Second(now) \in 0..Second(MaxTime) /\ 0 \in 0..Parts
    BY SecondType, BoundsAssumption DEF TypeOK
  <2> QED BY <2>1 DEF CallType, Ops
<1>2. /\ call' = [call EXCEPT ![c] = r]
      /\ reply' = [reply EXCEPT ![c] = Store!NoReply]
  BY DEF Calls
<1>3. r.op = op /\ r.name = n /\ r.pic = pic
  OBVIOUS
<1> HIDE DEF r
<1>4. call \in [Callers -> CallType] /\ reply \in [Callers -> ReplyType]
  BY TypeParts
<1> QED BY <1>1, <1>2, <1>3, <1>4, NothingType

(* What a call that is over leaves: its thread idle with the reply, and    *)
(* every other thread where it was.                                        *)
CallOver(c, is, names, file) ==
    /\ pc' \in [Callers -> {"idle", "named", "enter", "writing", "reading"}]
    /\ call' \in [Callers -> CallType]
    /\ reply' \in [Callers -> ReplyType]
    /\ pc'[c] = "idle" /\ call'[c] = NoCall
    /\ reply'[c] = [is |-> is, names |-> names, file |-> file]
    /\ \A d \in Callers \ {c} :
          pc'[d] = pc[d] /\ call'[d] = call[d] /\ reply'[d] = reply[d]

(* A call is over.                                                         *)
LEMMA ReturnsStep ==
    ASSUME TypeOK, NEW c \in Callers,
           NEW is \in {"failed", "saved", "file", "removed", "list"},
           NEW names \in SUBSET Names, NEW file \in Store!File,
           Returns(c, is, names, file)
    PROVE  CallOver(c, is, names, file)
<1> DEFINE r == [is |-> is, names |-> names, file |-> file]
<1>1. r \in ReplyType
  BY DEF ReplyType
<1>2. /\ pc' = [pc EXCEPT ![c] = "idle"] /\ call' = [call EXCEPT ![c] = NoCall]
      /\ reply' = [reply EXCEPT ![c] = r]
  BY DEF Returns, Goes
<1> HIDE DEF r
<1>3. /\ pc \in [Callers -> {"idle", "named", "enter", "writing", "reading"}]
      /\ call \in [Callers -> CallType] /\ reply \in [Callers -> ReplyType]
  BY TypeParts
<1>4. /\ pc' \in [Callers ->
                    {"idle", "named", "enter", "writing", "reading"}]
      /\ pc'[c] = "idle" /\ \A d \in Callers \ {c} : pc'[d] = pc[d]
  BY <1>2, <1>3
<1>5. /\ call' \in [Callers -> CallType] /\ call'[c] = NoCall
      /\ \A d \in Callers \ {c} : call'[d] = call[d]
  BY <1>2, <1>3, NothingType
<1>6. /\ reply' \in [Callers -> ReplyType] /\ reply'[c] = r
      /\ \A d \in Callers \ {c} : reply'[d] = reply[d]
  BY <1>1, <1>2, <1>3
<1> QED BY <1>4, <1>5, <1>6 DEF r, CallOver

(* A thread goes on.                                                       *)
LEMMA GoesStep ==
    ASSUME TypeOK, NEW c \in Callers,
           NEW place \in {"named", "enter", "writing", "reading"},
           Goes(c, place)
    PROVE  /\ pc' \in [Callers ->
                         {"idle", "named", "enter", "writing", "reading"}]
           /\ pc'[c] = place /\ \A d \in Callers \ {c} : pc'[d] = pc[d]
BY TypeParts DEF Goes

(* The mutex keeps threads from having files open at the same time.        *)
LEMMA Alone ==
    ASSUME TypeOK, NEW c \in Callers,
           mutex = NoCaller \/ pc[c] \in {"writing", "reading"}
    PROVE  /\ \A d \in Callers \ {c} : pc[d] \notin {"writing", "reading"}
           /\ mutex # NoCaller => mutex = c
           /\ mutex = NoCaller => pc[c] \notin {"writing", "reading"}
BY CallersAssumption DEF TypeOK

(* Another thread's call is not disturbed by a step of c.                  *)
LEMMA OthersKeep ==
    ASSUME TypeOK, CallInv, HeldInv, NEW c \in Callers,
           \A d \in Callers \ {c} :
               pc'[d] = pc[d] /\ call'[d] = call[d] /\ reply'[d] = reply[d],
           \/ disk' = disk
           \/ mutex = NoCaller \/ pc[c] \in {"writing", "reading"},
           CallAt(c)', HeldAt(c)'
    PROVE  CallInv' /\ HeldInv'
<1>1. CallInv'
  <2> SUFFICES ASSUME NEW d \in Callers, d # c
               PROVE  CallAt(d)'
    BY DEF CallInv
  <2>1. CallAt(d)
    BY DEF CallInv
  <2> QED BY <2>1 DEF CallAt
<1>2. HeldInv'
  <2> SUFFICES ASSUME NEW d \in Callers, d # c
               PROVE  HeldAt(d)'
    BY DEF HeldInv
  <2>1. HeldAt(d)
    BY DEF HeldInv
  <2>2. CASE disk' = disk
    BY <2>1, <2>2 DEF HeldAt, There
  <2>3. CASE mutex = NoCaller \/ pc[c] \in {"writing", "reading"}
    <3>1. pc[d] \notin {"writing", "reading"}
      BY <2>3, Alone
    <3> QED BY <3>1 DEF HeldAt
  <2> QED BY <2>2, <2>3
<1> QED BY <1>1, <1>2

(* A call that only returns, without the mutex.                            *)
LEMMA ReturnsInv ==
    ASSUME IInv, NEW c \in Callers, pc[c] \notin {"writing", "reading"},
           NEW is \in {"failed", "saved", "file", "removed", "list"},
           NEW names \in SUBSET Names, NEW file \in Store!File,
           Returns(c, is, names, file),
           UNCHANGED <<disk, mutex, now, pics, taken, old>>
    PROVE  IInv'
<1>1. TypeOK /\ CallInv /\ HeldInv /\ FileInv /\ NameInv
  BY DEF IInv
<1>2. /\ pc' \in [Callers ->
                    {"idle", "named", "enter", "writing", "reading"}]
      /\ call' \in [Callers -> CallType] /\ reply' \in [Callers -> ReplyType]
      /\ pc'[c] = "idle" /\ call'[c] = NoCall
      /\ \A d \in Callers \ {c} :
            pc'[d] = pc[d] /\ call'[d] = call[d] /\ reply'[d] = reply[d]
  <2>1. CallOver(c, is, names, file)
    BY <1>1, ReturnsStep
  <2> QED BY <2>1 DEF CallOver
<1>3. TypeOK'
  <2>1. \A d \in Callers : mutex' = d <=> pc'[d] \in {"writing", "reading"}
    BY <1>1, <1>2 DEF TypeOK
  <2> QED BY <1>1, <1>2, <2>1 DEF TypeOK, CallType, ReplyType
<1>4. CallAt(c)' /\ HeldAt(c)'
  BY <1>2 DEF CallAt, HeldAt, NoCall
<1>5. CallInv' /\ HeldInv'
  BY <1>1, <1>2, <1>4, OthersKeep
<1>6. FileInv' /\ NameInv'
  BY <1>1 DEF FileInv, NameInv
<1> QED BY <1>3, <1>5, <1>6 DEF IInv

(* A call that returns and releases the mutex.                             *)
LEMMA ReleasesInv ==
    ASSUME IInv, NEW c \in Callers, pc[c] \in {"writing", "reading"},
           NEW is \in {"failed", "saved", "file", "removed", "list"},
           NEW names \in SUBSET Names, NEW file \in Store!File,
           Returns(c, is, names, file), Unlocks,
           UNCHANGED <<disk, now, pics, taken>>
    PROVE  IInv'
<1>1. TypeOK /\ CallInv /\ HeldInv /\ FileInv /\ NameInv
  BY DEF IInv
<1>2. /\ pc' \in [Callers ->
                    {"idle", "named", "enter", "writing", "reading"}]
      /\ call' \in [Callers -> CallType] /\ reply' \in [Callers -> ReplyType]
      /\ pc'[c] = "idle" /\ call'[c] = NoCall
      /\ \A d \in Callers \ {c} :
            pc'[d] = pc[d] /\ call'[d] = call[d] /\ reply'[d] = reply[d]
  <2>1. CallOver(c, is, names, file)
    BY <1>1, ReturnsStep
  <2> QED BY <2>1 DEF CallOver
<1>3. TypeOK'
  <2>1. \A d \in Callers : pc'[d] \notin {"writing", "reading"}
    BY <1>1, <1>2, Alone
  <2>2. mutex' = NoCaller /\ old' = Nothing /\ old' \in OnDisk
    BY NothingType DEF Unlocks
  <2>3. \A d \in Callers : mutex' = d <=> pc'[d] \in {"writing", "reading"}
    BY <2>1, <2>2, CallersAssumption
  <2> QED BY <1>1, <1>2, <2>2, <2>3 DEF TypeOK, CallType, ReplyType
<1>4. CallAt(c)' /\ HeldAt(c)'
  BY <1>2 DEF CallAt, HeldAt, NoCall
<1>5. CallInv' /\ HeldInv'
  BY <1>1, <1>2, <1>4, OthersKeep
<1>6. FileInv' /\ NameInv'
  BY <1>1 DEF FileInv, NameInv, Unlocks
<1> QED BY <1>3, <1>5, <1>6 DEF IInv

(* A thread asks for something.                                            *)
LEMMA AsksInv ==
    ASSUME IInv, NEW c \in Callers, pc[c] = "idle",
           NEW op \in Ops, NEW n \in Names \cup {NoName},
           NEW pic \in 0..MaxPics, Calls(c, op, n, pic),
           \/ op = "snapshot" /\ n = NoName /\ pic > 0 /\ Goes(c, "named")
           \/ op \in {"read", "remove"} /\ n \in Names /\ Goes(c, "enter")
           \/ op = "list" /\ n = NoName /\ Goes(c, "enter"),
           pics' \in 0..MaxPics,
           UNCHANGED <<disk, mutex, now, taken, old>>
    PROVE  IInv'
<1>1. TypeOK /\ CallInv /\ HeldInv /\ FileInv /\ NameInv
  BY DEF IInv
<1>2. /\ call' \in [Callers -> CallType] /\ reply' \in [Callers -> ReplyType]
      /\ call'[c].op = op /\ call'[c].name = n /\ call'[c].pic = pic
      /\ reply'[c] = Store!NoReply
      /\ \A d \in Callers \ {c} : call'[d] = call[d] /\ reply'[d] = reply[d]
  BY <1>1, CallsStep
<1>3. /\ pc' \in [Callers ->
                    {"idle", "named", "enter", "writing", "reading"}]
      /\ pc'[c] = (IF op = "snapshot" THEN "named" ELSE "enter")
      /\ \A d \in Callers \ {c} : pc'[d] = pc[d]
  BY <1>1, GoesStep
<1>4. TypeOK'
  <2>1. \A d \in Callers : mutex' = d <=> pc'[d] \in {"writing", "reading"}
    BY <1>1, <1>3 DEF TypeOK
  <2> QED BY <1>1, <1>2, <1>3, <2>1 DEF TypeOK, CallType, ReplyType
<1>5. CallAt(c)' /\ HeldAt(c)'
  BY <1>2, <1>3 DEF CallAt, HeldAt
<1>6. CallInv' /\ HeldInv'
  BY <1>1, <1>2, <1>3, <1>5, OthersKeep
<1>7. FileInv' /\ NameInv'
  BY <1>1 DEF FileInv, NameInv
<1> QED BY <1>4, <1>6, <1>7 DEF IInv

(* The name is made of the milliseconds; the call goes on to the mutex.    *)
LEMMA MakesNameInv ==
    ASSUME IInv, NEW c \in Callers, MakesName(c)
    PROVE  IInv'
<1>1. TypeOK /\ CallInv /\ HeldInv /\ FileInv /\ NameInv
  BY DEF IInv
<1> DEFINE n == NameOf(c)
           r == [call[c] EXCEPT !.name = n]
           t == [name |-> n, pic |-> call[c].pic, at |-> now,
                 second |-> call[c].second]
<1>2. /\ pc[c] = "named" /\ Goes(c, "enter") /\ call' = [call EXCEPT ![c] = r]
      /\ taken' = taken \cup {t}
      /\ UNCHANGED <<disk, mutex, reply, now, pics, old>>
  BY DEF MakesName
<1>3. /\ call \in [Callers -> CallType] /\ call[c] \in CallType
      /\ call[c].op = "snapshot" /\ call[c].pic > 0 /\ reply[c] = Store!NoReply
  BY <1>1, <1>2, TypeParts DEF CallInv, CallAt
<1>4. n \in Names /\ n = <<call[c].second, now % Ms>>
  <2>1. now \in Nat /\ now % Ms \in 0..(Ms - 1)
    BY <1>1, DivMod, ClockAssumption, BoundsAssumption DEF TypeOK
  <2>2. call[c].second \in 0..Second(MaxTime)
    BY <1>3 DEF CallType
  <2> QED BY <2>1, <2>2 DEF NameOf, Names
<1> HIDE DEF n
<1>5. r \in CallType /\ r.op = "snapshot" /\ r.name = n /\ r.pic = call[c].pic
  <2>1. r \in CallType
    BY <1>3, <1>4 DEF CallType
  <2> QED BY <1>3, <2>1 DEF CallType
<1>6. t \in [name : Names, pic : 1..MaxPics, at : 0..MaxTime,
             second : 0..Second(MaxTime)]
  <2>1. call[c].pic \in 1..MaxPics /\ call[c].second \in 0..Second(MaxTime)
    BY <1>3, BoundsAssumption DEF CallType
  <2>2. now \in 0..MaxTime
    BY <1>1 DEF TypeOK
  <2> QED BY <1>4, <2>1, <2>2
<1>7. t.name = <<t.second, t.at % Ms>>
  BY <1>4
<1> HIDE DEF r, t
<1>8. /\ pc' \in [Callers ->
                    {"idle", "named", "enter", "writing", "reading"}]
      /\ pc'[c] = "enter" /\ \A d \in Callers \ {c} : pc'[d] = pc[d]
  BY <1>1, <1>2, GoesStep
<1>9. /\ call' \in [Callers -> CallType] /\ call'[c] = r
      /\ \A d \in Callers \ {c} : call'[d] = call[d]
  BY <1>2, <1>3, <1>5
<1>10. TypeOK'
  <2>1. \A d \in Callers : mutex' = d <=> pc'[d] \in {"writing", "reading"}
    BY <1>1, <1>2, <1>8 DEF TypeOK
  <2>2. taken' \subseteq [name : Names, pic : 1..MaxPics, at : 0..MaxTime,
                          second : 0..Second(MaxTime)]
    BY <1>1, <1>2, <1>6 DEF TypeOK
  <2> QED BY <1>1, <1>2, <1>8, <1>9, <2>1, <2>2 DEF TypeOK, CallType
<1>11. CallAt(c)' /\ HeldAt(c)'
  BY <1>2, <1>3, <1>4, <1>5, <1>8, <1>9 DEF CallAt, HeldAt, Ops
<1>12. CallInv' /\ HeldInv'
  BY <1>1, <1>2, <1>8, <1>9, <1>11, OthersKeep
<1>13. FileInv' /\ NameInv'
  BY <1>1, <1>2, <1>7 DEF FileInv, NameInv
<1> QED BY <1>10, <1>12, <1>13 DEF IInv

(* A thread that is to write a file, and one that is writing it.           *)
LEMMA WriterHas ==
    ASSUME IInv, NEW c \in Callers,
           \/ pc[c] = "enter" /\ call[c].op = "snapshot"
           \/ pc[c] = "writing"
    PROVE  /\ call[c] \in CallType /\ call[c].name \in Names
           /\ call[c].pic \in 1..MaxPics /\ call[c].op = "snapshot"
           /\ reply[c] = Store!NoReply /\ disk[call[c].name] \in OnDisk
           /\ disk[call[c].name].parts \in 0..Parts
<1>1. call[c] \in CallType /\ disk \in [Names -> OnDisk]
  BY TypeParts DEF IInv
<1>2. CallAt(c)
  BY DEF IInv, CallInv
<1>3. /\ call[c].name \in Names /\ call[c].op = "snapshot" /\ call[c].pic > 0
      /\ reply[c] = Store!NoReply
  BY <1>2 DEF CallAt
<1>4. call[c].pic \in 1..MaxPics
  BY <1>1, <1>3, BoundsAssumption DEF CallType
<1>5. disk[call[c].name] \in OnDisk
  BY <1>1, <1>3
<1> QED BY <1>1, <1>3, <1>4, <1>5 DEF OnDisk

(* imwrite() empties the file.                                             *)
LEMMA OpensInv ==
    ASSUME IInv, NEW c \in Callers, imwriteOpens(c)
    PROVE  IInv'
<1>1. TypeOK /\ CallInv /\ HeldInv /\ FileInv /\ NameInv
  BY DEF IInv
<1> DEFINE n == call[c].name
           f == [pic |-> call[c].pic, parts |-> 0]
<1>2. /\ pc[c] = "enter" /\ mutex = NoCaller /\ mutex' = c
      /\ Goes(c, "writing") /\ old' = disk[n] /\ disk' = [disk EXCEPT ![n] = f]
      /\ UNCHANGED <<call, reply, now, pics, taken>>
  BY DEF imwriteOpens, Enters
<1>3. /\ n \in Names /\ call[c].pic \in 1..MaxPics /\ call[c].op = "snapshot"
      /\ reply[c] = Store!NoReply /\ disk[n] \in OnDisk
  BY WriterHas DEF imwriteOpens, Enters
<1>4. f \in OnDisk /\ f.pic = call[c].pic /\ f.pic > 0
  BY <1>3, BoundsAssumption DEF OnDisk
<1> HIDE DEF n, f
<1>5. /\ pc' \in [Callers ->
                    {"idle", "named", "enter", "writing", "reading"}]
      /\ pc'[c] = "writing" /\ \A d \in Callers \ {c} : pc'[d] = pc[d]
  BY <1>1, <1>2, GoesStep
<1>6. /\ disk' \in [Names -> OnDisk] /\ disk'[n] = f
      /\ \A m \in Names \ {n} : disk'[m] = disk[m]
  BY <1>1, <1>2, <1>3, <1>4 DEF TypeOK
<1>7. TypeOK'
  <2>1. \A d \in Callers : mutex' = d <=> pc'[d] \in {"writing", "reading"}
    <3>1. \A d \in Callers \ {c} : pc[d] \notin {"writing", "reading"}
      BY <1>1, <1>2, Alone
    <3> QED BY <1>2, <1>5, <3>1
  <2> QED BY <1>1, <1>2, <1>3, <1>5, <1>6, <2>1 DEF TypeOK
<1>8. CallAt(c)' /\ HeldAt(c)'
  <2>1. CallAt(c)
    BY <1>1 DEF CallInv
  <2>2. CallAt(c)'
    BY <1>2, <1>3, <1>5, <2>1 DEF CallAt, n
  <2>3. HeldAt(c)'
    BY <1>2, <1>4, <1>5, <1>6 DEF HeldAt, n
  <2> QED BY <2>2, <2>3
<1>9. CallInv' /\ HeldInv'
  BY <1>1, <1>2, <1>5, <1>8, OthersKeep
<1>10. FileInv' /\ NameInv'
  BY <1>1, <1>2, <1>3, <1>4, <1>6 DEF FileInv, NameInv
<1> QED BY <1>7, <1>9, <1>10 DEF IInv

(* One more part is there.                                                 *)
LEMMA WritesInv ==
    ASSUME IInv, NEW c \in Callers, imwriteWrites(c)
    PROVE  IInv'
<1>1. TypeOK /\ CallInv /\ HeldInv /\ FileInv /\ NameInv
  BY DEF IInv
<1> DEFINE n == call[c].name
           f == [disk[n] EXCEPT !.parts = @ + 1]
<1>2. /\ pc[c] = "writing" /\ disk[n].parts < Parts
      /\ disk' = [disk EXCEPT ![n] = f]
      /\ UNCHANGED <<mutex, pc, call, reply, now, pics, taken, old>>
  BY DEF imwriteWrites
<1>3. /\ n \in Names /\ call[c].pic \in 1..MaxPics /\ call[c].op = "snapshot"
      /\ reply[c] = Store!NoReply /\ disk[n] \in OnDisk
      /\ disk[n].parts \in 0..Parts
  BY <1>2, WriterHas
<1>4. f \in OnDisk /\ f.pic = disk[n].pic
  BY <1>2, <1>3, BoundsAssumption DEF OnDisk
<1>5. disk[n].pic = call[c].pic
  BY <1>1, <1>2 DEF HeldInv, HeldAt
<1> HIDE DEF n, f
<1>6. /\ disk' \in [Names -> OnDisk] /\ disk'[n] = f
      /\ \A m \in Names \ {n} : disk'[m] = disk[m]
  BY <1>1, <1>2, <1>3, <1>4 DEF TypeOK
<1>7. TypeOK'
  BY <1>1, <1>2, <1>6 DEF TypeOK
<1>8. CallAt(c)' /\ HeldAt(c)'
  <2>1. CallAt(c)
    BY <1>1 DEF CallInv
  <2>2. CallAt(c)'
    BY <1>2, <2>1 DEF CallAt
  <2>3. HeldAt(c)'
    BY <1>2, <1>4, <1>5, <1>6 DEF HeldAt, n
  <2> QED BY <2>2, <2>3
<1>9. CallInv' /\ HeldInv'
  BY <1>1, <1>2, <1>8, OthersKeep
<1>10. FileInv' /\ NameInv'
  BY <1>1, <1>2, <1>3, <1>4, <1>5, <1>6 DEF FileInv, NameInv
<1> QED BY <1>7, <1>9, <1>10 DEF IInv

(* A file is removed, or was not there.                                    *)
LEMMA RemovesInv ==
    ASSUME IInv, NEW c \in Callers, Removes(c)
    PROVE  IInv'
<1>1. TypeOK /\ CallInv /\ HeldInv /\ FileInv /\ NameInv
  BY DEF IInv
<1> DEFINE n == call[c].name
           is == IF There(n) THEN "removed" ELSE "failed"
<1>2. /\ pc[c] = "enter" /\ call[c].op = "remove" /\ mutex = NoCaller
      /\ disk' = [disk EXCEPT ![n] = Nothing]
      /\ Returns(c, is, {}, Store!NoFile)
      /\ UNCHANGED <<mutex, now, pics, taken, old>>
  BY DEF Removes, Enters, ReturnsOnly
<1>3. n \in Names
  BY <1>1, <1>2 DEF CallInv, CallAt
<1>4. is \in {"failed", "saved", "file", "removed", "list"}
  OBVIOUS
<1> HIDE DEF n, is
<1>5. /\ pc' \in [Callers ->
                    {"idle", "named", "enter", "writing", "reading"}]
      /\ call' \in [Callers -> CallType] /\ reply' \in [Callers -> ReplyType]
      /\ pc'[c] = "idle" /\ call'[c] = NoCall
      /\ \A d \in Callers \ {c} :
            pc'[d] = pc[d] /\ call'[d] = call[d] /\ reply'[d] = reply[d]
  <2>1. CallOver(c, is, {}, Store!NoFile)
    BY <1>1, <1>2, <1>4, ReturnsStep, NothingType
  <2> QED BY <2>1 DEF CallOver
<1>6. /\ disk' \in [Names -> OnDisk] /\ disk'[n] = Nothing
      /\ \A m \in Names \ {n} : disk'[m] = disk[m]
  BY <1>1, <1>2, <1>3, NothingType DEF TypeOK
<1>7. TypeOK'
  <2>1. \A d \in Callers : mutex' = d <=> pc'[d] \in {"writing", "reading"}
    BY <1>1, <1>2, <1>5 DEF TypeOK
  <2> QED BY <1>1, <1>2, <1>5, <1>6, <2>1 DEF TypeOK, CallType, ReplyType
<1>8. CallAt(c)' /\ HeldAt(c)'
  BY <1>5 DEF CallAt, HeldAt, NoCall
<1>9. CallInv' /\ HeldInv'
  BY <1>1, <1>2, <1>5, <1>8, OthersKeep
<1>10. FileInv' /\ NameInv'
  BY <1>1, <1>2, <1>3, <1>6 DEF FileInv, NameInv
<1> QED BY <1>7, <1>9, <1>10 DEF IInv

(* A file that is there is opened, its size is read.                       *)
LEMMA ReadOpensInv ==
    ASSUME IInv, NEW c \in Callers, ReadOpens(c)
    PROVE  IInv'
<1>1. TypeOK /\ CallInv /\ HeldInv /\ FileInv /\ NameInv
  BY DEF IInv
<1>2. pc[c] = "enter" /\ call[c].op = "read" /\ mutex = NoCaller
  BY DEF ReadOpens, Enters
<1>3. CASE ~There(call[c].name)
  <2>1. /\ Returns(c, "failed", {}, Store!NoFile)
        /\ UNCHANGED <<disk, mutex, now, pics, taken, old>>
    BY <1>3 DEF ReadOpens, ReturnsOnly
  <2> QED BY <1>2, <2>1, ReturnsInv, NothingType
<1>4. CASE There(call[c].name)
  <2> DEFINE n == call[c].name
             r == [call[c] EXCEPT !.size = disk[n].parts]
  <2>1. /\ mutex' = c /\ Goes(c, "reading") /\ call' = [call EXCEPT ![c] = r]
        /\ UNCHANGED <<reply, disk, now, pics, taken, old>>
    BY <1>4 DEF ReadOpens
  <2>2. /\ call \in [Callers -> CallType] /\ call[c] \in CallType
        /\ n \in Names /\ reply[c] = Store!NoReply
    BY <1>1, <1>2, TypeParts DEF CallInv, CallAt
  <2>3. disk[n].parts \in 0..Parts
    BY <1>1, <2>2 DEF TypeOK, OnDisk
  <2>4. /\ r \in CallType /\ r.op = call[c].op /\ r.name = n
        /\ r.pic = call[c].pic /\ r.size = disk[n].parts
    <3>1. r \in CallType
      BY <2>2, <2>3 DEF CallType
    <3> QED BY <2>2, <3>1 DEF CallType
  <2> HIDE DEF r, n
  <2>5. /\ pc' \in [Callers ->
                      {"idle", "named", "enter", "writing", "reading"}]
        /\ pc'[c] = "reading" /\ \A d \in Callers \ {c} : pc'[d] = pc[d]
    BY <1>1, <2>1, GoesStep
  <2>6. /\ call' \in [Callers -> CallType] /\ call'[c] = r
        /\ \A d \in Callers \ {c} : call'[d] = call[d]
    BY <2>1, <2>2, <2>4
  <2>7. TypeOK'
    <3>1. \A d \in Callers : mutex' = d <=> pc'[d] \in {"writing", "reading"}
      <4>1. \A d \in Callers \ {c} : pc[d] \notin {"writing", "reading"}
        BY <1>1, <1>2, Alone
      <4> QED BY <2>1, <2>5, <4>1
    <3> QED BY <1>1, <2>1, <2>5, <2>6, <3>1 DEF TypeOK, CallType
  <2>8. CallAt(c)'
    <3>1. CallAt(c)
      BY <1>1 DEF CallInv
    <3> QED BY <1>2, <2>1, <2>2, <2>4, <2>5, <2>6, <3>1 DEF CallAt, n
  <2>9. HeldAt(c)'
    BY <1>4, <2>1, <2>4, <2>5, <2>6 DEF HeldAt, There, n
  <2>10. CallInv' /\ HeldInv'
    BY <1>1, <2>1, <2>5, <2>6, <2>8, <2>9, OthersKeep
  <2>11. FileInv' /\ NameInv'
    BY <1>1, <2>1 DEF FileInv, NameInv
  <2> QED BY <2>7, <2>10, <2>11 DEF IInv
<1> QED BY <1>3, <1>4

(* What a reader has read is a file of the store.                          *)
LEMMA ReaderHas ==
    ASSUME IInv, NEW c \in Callers, pc[c] = "reading"
    PROVE  /\ call[c].name \in Names /\ call[c].op = "read"
           /\ disk[call[c].name].pic \in 1..MaxPics
           /\ call[c].size = disk[call[c].name].parts
<1>1. call[c].name \in Names /\ call[c].op = "read"
  BY DEF IInv, CallInv, CallAt
<1>2. There(call[c].name) /\ call[c].size = disk[call[c].name].parts
  BY DEF IInv, HeldInv, HeldAt
<1>3. disk[call[c].name] \in OnDisk
  BY <1>1 DEF IInv, TypeOK
<1>4. disk[call[c].name].pic # 0
  BY <1>1, <1>2 DEF IInv, FileInv, There
<1> QED BY <1>1, <1>2, <1>3, <1>4, BoundsAssumption DEF OnDisk

(* A refused request is answered, another one goes to the mutex.           *)
LEMMA RequestsInv ==
    ASSUME IInv, NEW c \in Callers, Requests(c)
    PROVE  IInv'
<1>1. TypeOK
  BY DEF IInv
<1>2. pc[c] = "idle" /\ UNCHANGED <<disk, mutex, now, pics, taken, old>>
  BY DEF Requests
<1>3. pics' \in 0..MaxPics /\ 0 \in 0..MaxPics
  BY <1>1, <1>2, BoundsAssumption DEF TypeOK
<1>4. CASE \E op \in {"read", "remove"}, n \in {t.name : t \in taken} :
              Calls(c, op, n, 0) /\ Goes(c, "enter")
  <2>1. PICK op \in {"read", "remove"}, n \in {t.name : t \in taken} :
              Calls(c, op, n, 0) /\ Goes(c, "enter")
    BY <1>4
  <2>2. n \in Names
    BY <1>1 DEF TypeOK
  <2> QED BY <1>2, <1>3, <2>1, <2>2, AsksInv DEF Ops
<1>5. CASE Calls(c, "list", NoName, 0) /\ Goes(c, "enter")
  BY <1>2, <1>3, <1>5, AsksInv DEF Ops
<1>6. CASE ReturnsOnly(c, "failed")
  BY <1>2, <1>6, ReturnsInv, NothingType DEF ReturnsOnly
<1> QED BY <1>4, <1>5, <1>6 DEF Requests

LEMMA InitInv == Init => IInv
<1> SUFFICES ASSUME Init PROVE IInv
  OBVIOUS
<1> USE DEF Init
<1>1. TypeOK
  BY TypeParts, NothingType, CallersAssumption, BoundsAssumption
<1>2. CallInv /\ HeldInv
  BY DEF CallInv, CallAt, HeldInv, HeldAt, NoCall
<1>3. FileInv /\ NameInv
  BY DEF FileInv, NameInv, Nothing
<1> QED BY <1>1, <1>2, <1>3 DEF IInv

(* Every step of every thread, the clock and the end of the process.       *)
LEMMA StepInv == IInv /\ [Next]_vars => IInv'
<1> SUFFICES ASSUME IInv, [Next]_vars
             PROVE  IInv'
  OBVIOUS
<1>0. TypeOK /\ CallInv /\ HeldInv /\ FileInv /\ NameInv
  BY DEF IInv
<1>1. ASSUME NEW c \in Callers, ReadsWallClock(c)
      PROVE  IInv'
  <2>1. /\ pc[c] = "idle" /\ pics < MaxPics /\ pics' = pics + 1
        /\ Calls(c, "snapshot", NoName, pics + 1) /\ Goes(c, "named")
        /\ UNCHANGED <<disk, mutex, now, taken, old>>
    BY <1>1 DEF ReadsWallClock
  <2>2. pics + 1 \in 0..MaxPics /\ pics + 1 > 0
    BY <1>0, <2>1, BoundsAssumption DEF TypeOK
  <2> QED BY <2>1, <2>2, AsksInv DEF Ops
<1>2. ASSUME NEW c \in Callers, Requests(c)
      PROVE  IInv'
  BY <1>2, RequestsInv
<1>3. ASSUME NEW c \in Callers, Step(c)
      PROVE  IInv'
  <2>1. CASE MakesName(c)
    BY <2>1, MakesNameInv
  <2>2. CASE imwriteOpens(c)
    BY <2>2, OpensInv
  <2>3. CASE imwriteCannotOpen(c)
    <3>1. /\ pc[c] = "enter" /\ Returns(c, "failed", {}, Store!NoFile)
          /\ UNCHANGED <<disk, mutex, now, pics, taken, old>>
      BY <2>3 DEF imwriteCannotOpen, Enters, ReturnsOnly
    <3> QED BY <3>1, ReturnsInv, NothingType
  <2>4. CASE imwriteWrites(c)
    BY <2>4, WritesInv
  <2>5. CASE imwriteFails(c)
    <3>1. /\ pc[c] = "writing" /\ Returns(c, "failed", {}, Store!NoFile)
          /\ Unlocks /\ UNCHANGED <<disk, now, pics, taken>>
      BY <2>5 DEF imwriteFails, ReturnsOnly
    <3> QED BY <3>1, ReleasesInv, NothingType
  <2>6. CASE snapshotReturns(c)
    <3>1. /\ pc[c] = "writing" /\ Returns(c, "saved", {}, Store!NoFile)
          /\ Unlocks /\ UNCHANGED <<disk, now, pics, taken>>
      BY <2>6 DEF snapshotReturns, ReturnsOnly
    <3> QED BY <3>1, ReleasesInv, NothingType
  <2>7. CASE Lists(c)
    <3>1. /\ pc[c] = "enter"
          /\ Returns(c, "list", {n \in Names : There(n)}, Store!NoFile)
          /\ UNCHANGED <<disk, mutex, now, pics, taken, old>>
      BY <2>7 DEF Lists, Enters
    <3>2. {n \in Names : There(n)} \in SUBSET Names
      OBVIOUS
    <3> QED BY <3>1, <3>2, ReturnsInv, NothingType
  <2>8. CASE Removes(c)
    BY <2>8, RemovesInv
  <2>9. CASE ReadOpens(c)
    BY <2>9, ReadOpensInv
  <2>10. CASE ReadReturns(c)
    <3> DEFINE f == [pic |-> disk[call[c].name].pic,
                     whole |-> call[c].size = Parts]
    <3>1. /\ pc[c] = "reading" /\ Returns(c, "file", {}, f)
          /\ Unlocks /\ UNCHANGED <<disk, now, pics, taken>>
      BY <2>10 DEF ReadReturns
    <3>2. f \in Store!File
      BY <3>1, ReaderHas, BoundsAssumption DEF Store!File
    <3> HIDE DEF f
    <3> QED BY <3>1, <3>2, ReleasesInv
  <2>11. CASE ReadFails(c)
    <3>1. /\ pc[c] = "reading" /\ Returns(c, "failed", {}, Store!NoFile)
          /\ Unlocks /\ UNCHANGED <<disk, now, pics, taken>>
      BY <2>11 DEF ReadFails, ReturnsOnly
    <3> QED BY <3>1, ReleasesInv, NothingType
  <2> QED BY <1>3, <2>1, <2>2, <2>3, <2>4, <2>5, <2>6, <2>7, <2>8, <2>9,
             <2>10, <2>11 DEF Step
<1>4. CASE TimePasses
  <2>1. TypeOK'
    BY <1>0, <1>4, BoundsAssumption DEF TypeOK, TimePasses
  <2>2. CallInv' /\ HeldInv'
    BY <1>0, <1>4 DEF CallInv, CallAt, HeldInv, HeldAt, There, TimePasses
  <2>3. FileInv' /\ NameInv'
    BY <1>0, <1>4 DEF FileInv, NameInv, TimePasses
  <2> QED BY <2>1, <2>2, <2>3 DEF IInv
<1>5. CASE Restart
  <2>1. TypeOK'
    <3>1. /\ call' \in [Callers -> CallType]
          /\ reply' \in [Callers -> ReplyType] /\ old' \in OnDisk
      BY <1>5, NothingType DEF Restart
    <3>2. /\ pc' \in [Callers ->
                        {"idle", "named", "enter", "writing", "reading"}]
          /\ mutex' = NoCaller
          /\ \A d \in Callers :
                mutex' = d <=> pc'[d] \in {"writing", "reading"}
      BY <1>5, CallersAssumption DEF Restart
    <3> QED BY <1>0, <1>5, <3>1, <3>2 DEF TypeOK, Restart, CallType, ReplyType
  <2>2. CallInv' /\ HeldInv'
    BY <1>5 DEF CallInv, CallAt, HeldInv, HeldAt, NoCall, Restart
  <2>3. FileInv' /\ NameInv'
    BY <1>0, <1>5 DEF FileInv, NameInv, Restart
  <2> QED BY <2>1, <2>2, <2>3 DEF IInv
<1>6. CASE UNCHANGED vars
  <2>1. TypeOK'
    BY <1>0, <1>6 DEF TypeOK, vars
  <2>2. CallInv' /\ HeldInv'
    BY <1>0, <1>6 DEF CallInv, CallAt, HeldInv, HeldAt, There, vars
  <2>3. FileInv' /\ NameInv'
    BY <1>0, <1>6 DEF FileInv, NameInv, vars
  <2> QED BY <2>1, <2>2, <2>3 DEF IInv
<1> QED BY <1>1, <1>2, <1>3, <1>4, <1>5, <1>6 DEF Next

(* The inductive invariant holds in every state.                           *)
LEMMA Inductive == Spec => []IInv
BY InitInv, StepInv, PTL DEF Spec

(* For any number of threads, pictures and moments, the variables have     *)
(* their types, and a thread owns the mutex exactly while it has a file of *)
(* the directory open (FileManager.cpp:57, :70, :93, :110).                *)
THEOREM CapturesTypes == Spec => []TypeOK
<1>1. IInv => TypeOK
  BY DEF IInv
<1> QED BY <1>1, Inductive, PTL

(* Whatever the length of a second and wherever in the steady clock's it   *)
(* begins, two pictures get the same name only in the same millisecond, or *)
(* if a second began between the two readings of snapshot()                *)
(* (FileManager.cpp:50).                                                   *)
THEOREM NamesTellApart == Spec => []NamesApart
<1>1. IInv => NamesApart
  <2> SUFFICES ASSUME IInv, NEW p \in taken, NEW q \in taken,
                      p.name = q.name,
                      p.second = Second(p.at), q.second = Second(q.at)
               PROVE  p.at = q.at
    BY DEF NamesApart
  <2>1. p.at \in Nat /\ q.at \in Nat
    BY BoundsAssumption DEF IInv, TypeOK
  <2>2. p.name = <<p.second, p.at % Ms>> /\ q.name = <<q.second, q.at % Ms>>
    BY DEF IInv, NameInv
  <2>3. Second(p.at) = Second(q.at) /\ p.at % Ms = q.at % Ms
    <3> DEFINE mp == p.at % Ms
               mq == q.at % Ms
    <3>1. p.name = <<p.second, mp>> /\ q.name = <<q.second, mq>>
      BY <2>2
    <3> HIDE DEF mp, mq
    <3>2. <<p.second, mp>> = <<q.second, mq>>
      BY <3>1
    <3>3. p.second = q.second /\ mp = mq
      BY ONLY <3>2
    <3> QED BY <3>3 DEF mp, mq
  <2> QED BY <2>1, <2>3, ClocksTell
<1> QED BY <1>1, Inductive, PTL

-----------------------------------------------------------------------------
(* The directory implements the store.                                     *)

(* No file under a name is no picture.                                     *)
LEMMA PictureIs ==
    ASSUME NEW f \in OnDisk, f.pic = 0 => f = Nothing
    PROVE  /\ Picture(f) = Store!NoFile <=> f = Nothing
           /\ f # Nothing => f.pic > 0
<1>1. f.pic \in Nat
  BY BoundsAssumption DEF OnDisk
<1>2. Picture(f).pic = f.pic /\ Store!NoFile.pic = 0 /\ Nothing.pic = 0
  BY DEF Picture, Store!NoFile, Nothing
<1>3. f = Nothing => Picture(f) = Store!NoFile
  <2>1. (0 > 0 /\ Nothing.parts = Parts) = FALSE
    OBVIOUS
  <2>2. Nothing.pic = 0
    BY DEF Nothing
  <2>3. Picture(Nothing) = [pic |-> 0, whole |-> FALSE]
    BY <2>1, <2>2 DEF Picture
  <2> QED BY <2>3 DEF Store!NoFile
<1> QED BY <1>1, <1>2, <1>3

(* Nobody writes: what is on the disk is what callers see.                 *)
LEMMA NotWriting ==
    /\ (mutex # NoCaller => pc[mutex] # "writing") =>
          Stored = [n \in Names |-> Picture(disk[n])]
    /\ (mutex' # NoCaller => pc'[mutex'] # "writing") =>
          Stored' = [n \in Names |-> Picture(disk'[n])]
BY DEF Stored, Visible

(* c writes: callers see what was there.                                   *)
LEMMA IsWriting ==
    ASSUME NEW c \in Callers
    PROVE  /\ mutex = c /\ pc[c] = "writing" =>
                 Stored = [n \in Names |-> IF n = call[c].name
                                           THEN Picture(old)
                                           ELSE Picture(disk[n])]
           /\ mutex' = c /\ pc'[c] = "writing" =>
                 Stored' = [n \in Names |-> IF n = call'[c].name
                                            THEN Picture(old')
                                            ELSE Picture(disk'[n])]
BY CallersAssumption DEF Stored, Visible

(* A step of a thread without the mutex that touches no file shows nothing.*)
LEMMA StoredKept ==
    ASSUME TypeOK, NEW c \in Callers, pc[c] \notin {"writing", "reading"},
           \A d \in Callers \ {c} : pc'[d] = pc[d] /\ call'[d] = call[d],
           UNCHANGED <<disk, mutex, old>>
    PROVE  Stored' = Stored
<1>1. mutex # NoCaller => mutex \in Callers \ {c}
  BY DEF TypeOK
<1>2. \A n \in Names : Visible(n)' = Visible(n)
  BY <1>1 DEF Visible
<1> QED BY <1>2 DEF Stored, Picture

(* What the others ask for stays.                                          *)
LEMMA AskedChange ==
    ASSUME NEW c \in Callers,
           \A d \in Callers \ {c} : pc'[d] = pc[d] /\ call'[d] = call[d]
    PROVE  Asked' = [Asked EXCEPT ![c] = AskedBy(c)']
<1>1. \A d \in Callers \ {c} : AskedBy(d)' = AskedBy(d)
  BY DEF AskedBy
<1>2. Asked' = [d \in Callers |-> AskedBy(d)']
  BY DEF Asked
<1> QED BY <1>1, <1>2 DEF Asked

(* A call that is over is over in the store.                               *)
LEMMA ReturnMaps ==
    ASSUME TypeOK, NEW c \in Callers,
           NEW is \in {"failed", "saved", "file", "removed", "list"},
           NEW names \in SUBSET Names, NEW file \in Store!File,
           Returns(c, is, names, file)
    PROVE  Store!Return(c, is, names, file)
<1>1. /\ pc'[c] = "idle" /\ call'[c] = NoCall
      /\ \A d \in Callers \ {c} : pc'[d] = pc[d] /\ call'[d] = call[d]
  <2>1. CallOver(c, is, names, file)
    BY ReturnsStep
  <2> QED BY <2>1 DEF CallOver
<1>2. AskedBy(c)' = Store!NoCall
  BY <1>1 DEF AskedBy, Store!NoCall, NoName
<1>3. Asked' = [Asked EXCEPT ![c] = Store!NoCall]
  BY <1>1, <1>2, AskedChange
<1> QED BY <1>3 DEF Store!Return, Returns

(* What a thread asks for.                                                 *)
LEMMA AskedIs ==
    ASSUME NEW c \in Callers, IInv
    PROVE  /\ pc[c] = "idle" => Asked[c] = Store!NoCall
           /\ pc[c] # "idle" =>
                 /\ Asked[c].op = call[c].op /\ Asked[c].pic = call[c].pic
                 /\ call[c].op # "snapshot" => Asked[c].name = call[c].name
BY DEF Asked, AskedBy, Store!NoCall, NoName

(* A thread asks for something.                                            *)
LEMMA AskMaps ==
    ASSUME IInv, NEW c \in Callers, pc[c] = "idle",
           NEW op \in Ops, NEW n \in Names \cup {NoName},
           NEW pic \in 0..MaxPics, Calls(c, op, n, pic),
           op = "snapshot" => n = NoName,
           NEW place \in {"named", "enter"}, Goes(c, place),
           UNCHANGED <<disk, mutex, old>>
    PROVE  Store!StoreNext
<1> DEFINE r == [op |-> op, name |-> n, pic |-> pic]
<1>0. TypeOK
  BY DEF IInv
<1>1. /\ call' \in [Callers -> CallType]
      /\ call'[c].op = op /\ call'[c].name = n /\ call'[c].pic = pic
      /\ \A d \in Callers \ {c} : call'[d] = call[d]
  BY <1>0, CallsStep
<1>2. pc'[c] = place /\ \A d \in Callers \ {c} : pc'[d] = pc[d]
  BY <1>0, GoesStep
<1>3. AskedBy(c)' = r
  BY <1>1, <1>2 DEF AskedBy
<1>4. Asked' = [Asked EXCEPT ![c] = r]
  BY <1>1, <1>2, <1>3, AskedChange
<1>5. Stored' = Stored
  BY <1>0, <1>1, <1>2, StoredKept
<1>6. reply' = [reply EXCEPT ![c] = Store!NoReply]
  BY DEF Calls
<1>7. r \in Store!Call
  BY DEF Store!Call, Ops, NoName
<1> HIDE DEF r
<1>8. Store!Ask(c, r)
  BY <1>4, <1>5, <1>6, AskedIs DEF Store!Ask
<1> QED BY <1>7, <1>8 DEF Store!StoreNext

(* When its writer lets a file go, callers see it, whole or in part.       *)
LEMMA WrittenShows ==
    ASSUME IInv, NEW c \in Callers, pc[c] = "writing",
           mutex' = NoCaller, disk' = disk
    PROVE  LET n == call[c].name
           IN  /\ n \in Names /\ Asked[c].op = "snapshot"
               /\ Stored' = [Stored EXCEPT ![n] =
                                [pic |-> Asked[c].pic,
                                 whole |-> disk[n].parts = Parts]]
<1> DEFINE n == call[c].name
           f == [pic |-> Asked[c].pic, whole |-> disk[n].parts = Parts]
<1>1. n \in Names /\ call[c].op = "snapshot" /\ call[c].pic \in 1..MaxPics
  BY WriterHas
<1>2. disk[n].pic = call[c].pic
  BY DEF IInv, HeldInv, HeldAt
<1>3. Asked[c].op = "snapshot" /\ Asked[c].pic = call[c].pic
  BY <1>1, AskedIs
<1>4. Picture(disk[n]) = f
  <2>1. disk[n].pic > 0
    BY <1>1, <1>2, BoundsAssumption
  <2>2. (disk[n].pic > 0 /\ disk[n].parts = Parts) = (disk[n].parts = Parts)
    BY <2>1
  <2> QED BY <1>2, <1>3, <2>2 DEF Picture
<1>5. mutex = c
  BY DEF IInv, TypeOK
<1>6. Stored = [m \in Names |-> IF m = n THEN Picture(old)
                                         ELSE Picture(disk[m])]
  BY <1>5, IsWriting
<1>7. Stored' = [m \in Names |-> Picture(disk[m])]
  BY NotWriting
<1> HIDE DEF f, n
<1>8. Stored' = [Stored EXCEPT ![n] = f]
  BY <1>1, <1>4, <1>6, <1>7
<1> QED BY <1>1, <1>3, <1>8 DEF f, n

(* The end of a write saves the picture, or leaves what was written.       *)
LEMMA SaveMaps ==
    ASSUME IInv, NEW c \in Callers, pc[c] = "writing",
           NEW is \in {"saved", "failed"},
           is = "saved" <=> disk[call[c].name].parts = Parts,
           Returns(c, is, {}, Store!NoFile), Unlocks, disk' = disk
    PROVE  Store!StoreNext
<1> DEFINE n == call[c].name
           whole == disk[n].parts = Parts
<1>1. /\ n \in Names /\ Asked[c].op = "snapshot"
      /\ Stored' = [Stored EXCEPT ![n] = [pic |-> Asked[c].pic,
                                          whole |-> whole]]
  BY WrittenShows DEF Unlocks
<1>2. TypeOK /\ {} \in SUBSET Names /\ whole \in BOOLEAN
  BY DEF IInv
<1>3. Store!Return(c, is, {}, Store!NoFile)
  BY <1>2, ReturnMaps, NothingType
<1>4. is = IF whole THEN "saved" ELSE "failed"
  OBVIOUS
<1> HIDE DEF n, whole
<1>5. Store!Save(c)
  BY <1>1, <1>2, <1>3, <1>4 DEF Store!Save
<1> QED BY <1>5 DEF Store!StoreNext

(* A call that fails without having touched a file.                        *)
LEMMA FailMaps ==
    ASSUME IInv, NEW c \in Callers,
           \/ Asked[c].op = "snapshot" \/ Asked[c].op = "read"
           \/ Asked[c].op = "remove" /\ Stored[Asked[c].name] = Store!NoFile,
           Returns(c, "failed", {}, Store!NoFile), Stored' = Stored
    PROVE  Store!StoreNext
<1>1. TypeOK /\ {} \in SUBSET Names
  BY DEF IInv
<1>2. Store!Return(c, "failed", {}, Store!NoFile)
  BY <1>1, ReturnMaps, NothingType
<1>3. Store!Fails(c)
  BY <1>2 DEF Store!Fails
<1> QED BY <1>3 DEF Store!StoreNext

(* The mutex is free: callers see the disk.                                *)
LEMMA FreeShows ==
    ASSUME IInv, NEW n \in Names,
           mutex = NoCaller \/ pc[mutex] = "reading"
    PROVE  /\ Stored = [m \in Names |-> Picture(disk[m])]
           /\ Stored[n] = Picture(disk[n])
           /\ Stored[n] = Store!NoFile <=> ~There(n)
<1>1. Stored = [m \in Names |-> Picture(disk[m])]
  BY NotWriting
<1>2. disk[n] \in OnDisk /\ (disk[n].pic = 0 => disk[n] = Nothing)
  BY DEF IInv, TypeOK, FileInv
<1> QED BY <1>1, <1>2, PictureIs DEF There

(* A deletion, of a file that is there or is not.                          *)
LEMMA RemoveMaps ==
    ASSUME IInv, NEW c \in Callers, Removes(c)
    PROVE  Store!StoreNext
<1> DEFINE n == call[c].name
<1>1. /\ pc[c] = "enter" /\ call[c].op = "remove" /\ mutex = NoCaller
      /\ disk' = [disk EXCEPT ![n] = Nothing] /\ mutex' = mutex
      /\ ReturnsOnly(c, IF There(n) THEN "removed" ELSE "failed")
  BY DEF Removes, Enters
<1>2. n \in Names
  BY <1>1 DEF IInv, CallInv, CallAt
<1>3. Asked[c].op = "remove" /\ Asked[c].name = n
  BY <1>1, AskedIs
<1>4. /\ Stored = [m \in Names |-> Picture(disk[m])]
      /\ Stored[n] = Store!NoFile <=> ~There(n)
  BY <1>1, <1>2, FreeShows
<1>5. Stored' = [m \in Names |-> Picture(disk'[m])]
  BY <1>1, NotWriting
<1>6. TypeOK /\ {} \in SUBSET Names /\ disk \in [Names -> OnDisk]
  BY DEF IInv, TypeOK
<1>7. Picture(Nothing) = Store!NoFile
  BY NothingType, PictureIs
<1> HIDE DEF n
<1>8. Stored' = [Stored EXCEPT ![n] = Store!NoFile]
  BY <1>1, <1>2, <1>4, <1>5, <1>6, <1>7
<1>9. CASE There(n)
  <2>1. Returns(c, "removed", {}, Store!NoFile)
    BY <1>1, <1>9 DEF ReturnsOnly
  <2>2. Store!Return(c, "removed", {}, Store!NoFile)
    BY <1>6, <2>1, ReturnMaps, NothingType
  <2>3. Store!Remove(c)
    BY <1>3, <1>4, <1>8, <1>9, <2>2 DEF Store!Remove
  <2> QED BY <2>3 DEF Store!StoreNext
<1>10. CASE ~There(n)
  <2>1. Returns(c, "failed", {}, Store!NoFile)
    BY <1>1, <1>10 DEF ReturnsOnly
  <2>2. Stored' = Stored
    BY <1>2, <1>4, <1>8, <1>10
  <2> QED BY <1>3, <1>4, <1>10, <2>1, <2>2, FailMaps
<1> QED BY <1>9, <1>10

(* Until the picture is written, nothing of a snapshot is seen: making the *)
(* name, emptying the file, each part.                                     *)
LEMMA WriterHides ==
    ASSUME IInv, NEW c \in Callers,
           MakesName(c) \/ imwriteOpens(c) \/ imwriteWrites(c)
    PROVE  UNCHANGED Store!storeVars
<1> SUFFICES Stored' = Stored /\ Asked' = Asked /\ reply' = reply
  BY DEF Store!storeVars
<1>0. TypeOK /\ call \in [Callers -> CallType] /\ disk \in [Names -> OnDisk]
  BY TypeParts DEF IInv
<1>1. CASE MakesName(c)
  <2>1. /\ pc[c] = "named" /\ Goes(c, "enter")
        /\ call' = [call EXCEPT ![c] = [call[c] EXCEPT !.name = NameOf(c)]]
        /\ UNCHANGED <<disk, mutex, reply, old>>
    BY <1>1 DEF MakesName
  <2>2. call[c].op = "snapshot" /\ call[c] \in CallType
    BY <1>0, <2>1 DEF IInv, CallInv, CallAt
  <2>3. /\ pc'[c] = "enter"
        /\ \A d \in Callers \ {c} : pc'[d] = pc[d] /\ call'[d] = call[d]
    BY <1>0, <2>1, GoesStep
  <2>4. call'[c].op = "snapshot" /\ call'[c].pic = call[c].pic
    BY <1>0, <2>1, <2>2 DEF CallType
  <2>5. AskedBy(c)' = AskedBy(c)
    BY <2>1, <2>2, <2>3, <2>4 DEF AskedBy
  <2>6. Asked' = Asked
    BY <2>3, <2>5, AskedChange DEF Asked
  <2> QED BY <1>0, <2>1, <2>3, <2>6, StoredKept
<1>2. CASE imwriteOpens(c)
  <2> DEFINE n == call[c].name
             f == [pic |-> call[c].pic, parts |-> 0]
  <2>1. /\ pc[c] = "enter" /\ mutex = NoCaller /\ mutex' = c
        /\ Goes(c, "writing") /\ old' = disk[n]
        /\ disk' = [disk EXCEPT ![n] = f] /\ UNCHANGED <<call, reply>>
    BY <1>2 DEF imwriteOpens, Enters
  <2>2. n \in Names
    BY <1>2, WriterHas DEF imwriteOpens, Enters
  <2> HIDE DEF n, f
  <2>3. pc'[c] = "writing" /\ \A d \in Callers \ {c} : pc'[d] = pc[d]
    BY <1>0, <2>1, GoesStep
  <2>4. AskedBy(c)' = AskedBy(c)
    BY <2>1, <2>3 DEF AskedBy
  <2>5. Asked' = Asked
    BY <2>1, <2>3, <2>4, AskedChange DEF Asked
  <2>6. Stored = [m \in Names |-> Picture(disk[m])]
    BY <2>1, NotWriting
  <2>7. Stored' = [m \in Names |-> IF m = n THEN Picture(old')
                                            ELSE Picture(disk'[m])]
    BY <2>1, <2>3, IsWriting DEF n
  <2>8. Stored' = Stored
    BY <1>0, <2>1, <2>2, <2>6, <2>7
  <2> QED BY <2>1, <2>5, <2>8
<1>3. CASE imwriteWrites(c)
  <2> DEFINE n == call[c].name
             f == [disk[n] EXCEPT !.parts = @ + 1]
  <2>1. /\ pc[c] = "writing" /\ disk' = [disk EXCEPT ![n] = f]
        /\ UNCHANGED <<mutex, pc, call, reply, old>>
    BY <1>3 DEF imwriteWrites
  <2>2. n \in Names
    BY <2>1, WriterHas
  <2>3. mutex = c
    BY <1>0, <2>1 DEF TypeOK
  <2> HIDE DEF n, f
  <2>4. Stored = [m \in Names |-> IF m = n THEN Picture(old)
                                           ELSE Picture(disk[m])]
    BY <2>1, <2>3, IsWriting DEF n
  <2>5. Stored' = [m \in Names |-> IF m = n THEN Picture(old')
                                            ELSE Picture(disk'[m])]
    BY <2>1, <2>3, IsWriting DEF n
  <2>6. Stored' = Stored
    BY <1>0, <2>1, <2>2, <2>4, <2>5
  <2> QED BY <2>1, <2>6 DEF Asked, AskedBy
<1> QED BY <1>1, <1>2, <1>3

(* A read: its opening is not seen, its end returns what callers see.      *)
LEMMA ReadMaps ==
    ASSUME IInv, NEW c \in Callers,
           ReadOpens(c) \/ ReadReturns(c) \/ ReadFails(c)
    PROVE  Store!StoreNext \/ UNCHANGED Store!storeVars
<1>0. /\ TypeOK /\ call \in [Callers -> CallType] /\ disk \in [Names -> OnDisk]
      /\ {} \in SUBSET Names
  BY TypeParts DEF IInv
<1>1. CASE ReadOpens(c)
  <2>1. pc[c] = "enter" /\ call[c].op = "read" /\ mutex = NoCaller
    BY <1>1 DEF ReadOpens, Enters
  <2>2. Asked[c].op = "read"
    BY <2>1, AskedIs
  <2>3. CASE ~There(call[c].name)
    <3>1. /\ Returns(c, "failed", {}, Store!NoFile)
          /\ UNCHANGED <<disk, mutex, old>>
      BY <1>1, <2>3 DEF ReadOpens, ReturnsOnly
    <3>2. \A d \in Callers \ {c} : pc'[d] = pc[d] /\ call'[d] = call[d]
      <4>1. CallOver(c, "failed", {}, Store!NoFile)
        BY <1>0, <3>1, ReturnsStep, NothingType
      <4> QED BY <4>1 DEF CallOver
    <3>3. Stored' = Stored
      BY <1>0, <2>1, <3>1, <3>2, StoredKept
    <3>4. Store!StoreNext
      BY <2>2, <3>1, <3>3, FailMaps
    <3> QED BY <3>4
  <2>4. CASE There(call[c].name)
    <3> DEFINE r == [call[c] EXCEPT !.size = disk[call[c].name].parts]
    <3>1. /\ Goes(c, "reading") /\ mutex' = c /\ call' = [call EXCEPT ![c] = r]
          /\ UNCHANGED <<reply, disk, old>>
      BY <1>1, <2>4 DEF ReadOpens
    <3>2. r.op = call[c].op /\ r.pic = call[c].pic /\ r.name = call[c].name
      BY <1>0 DEF CallType
    <3> HIDE DEF r
    <3>3. pc'[c] = "reading" /\ \A d \in Callers \ {c} : pc'[d] = pc[d]
      BY <1>0, <3>1, GoesStep
    <3>4. call'[c] = r /\ \A d \in Callers \ {c} : call'[d] = call[d]
      BY <1>0, <3>1
    <3>5. AskedBy(c)' = AskedBy(c)
      BY <2>1, <3>2, <3>3, <3>4 DEF AskedBy
    <3>6. Asked' = Asked
      BY <3>3, <3>4, <3>5, AskedChange DEF Asked
    <3>7. Stored = [m \in Names |-> Picture(disk[m])]
      BY <2>1, NotWriting
    <3>8. Stored' = [m \in Names |-> Picture(disk'[m])]
      BY <3>1, <3>3, NotWriting
    <3> QED BY <3>1, <3>6, <3>7, <3>8 DEF Store!storeVars
  <2> QED BY <2>3, <2>4
<1>2. ASSUME pc[c] = "reading", Unlocks, disk' = disk
      PROVE  /\ mutex = c /\ Asked[c].op = "read" /\ call[c].name \in Names
             /\ Asked[c].name = call[c].name /\ Stored' = Stored
  <2>1. mutex = c
    BY <1>0, <1>2 DEF TypeOK
  <2>2. call[c].name \in Names /\ call[c].op = "read"
    BY <1>2, ReaderHas
  <2>3. Asked[c].op = "read" /\ Asked[c].name = call[c].name
    BY <1>2, <2>2, AskedIs
  <2>4. Stored = [m \in Names |-> Picture(disk[m])]
    BY <1>2, <2>1, NotWriting
  <2>5. Stored' = [m \in Names |-> Picture(disk'[m])]
    BY <1>2, NotWriting DEF Unlocks
  <2> QED BY <1>2, <2>1, <2>2, <2>3, <2>4, <2>5
<1>3. CASE ReadReturns(c)
  <2> DEFINE n == call[c].name
             f == [pic |-> disk[n].pic, whole |-> call[c].size = Parts]
  <2>1. /\ pc[c] = "reading" /\ Returns(c, "file", {}, f) /\ Unlocks
        /\ disk' = disk
    BY <1>3 DEF ReadReturns
  <2>2. /\ mutex = c /\ Asked[c].op = "read" /\ n \in Names
        /\ Asked[c].name = n /\ Stored' = Stored
    BY <1>2, <2>1
  <2>3. disk[n].pic \in 1..MaxPics /\ call[c].size = disk[n].parts
    BY <2>1, ReaderHas
  <2>4. f = Picture(disk[n])
    <3>1. disk[n].pic > 0
      BY <2>3, BoundsAssumption
    <3>2. (disk[n].pic > 0 /\ disk[n].parts = Parts) = (call[c].size = Parts)
      BY <2>3, <3>1
    <3> QED BY <3>2 DEF Picture
  <2>5. f \in Store!File
    BY <2>3, BoundsAssumption DEF Store!File
  <2>6. Stored[n] = Picture(disk[n]) /\ Stored[n] # Store!NoFile
    <3>1. There(n)
      BY <2>1 DEF IInv, HeldInv, HeldAt
    <3> QED BY <2>1, <2>2, <3>1, FreeShows
  <2> HIDE DEF f, n
  <2>7. Store!Return(c, "file", {}, f)
    BY <1>0, <2>1, <2>5, ReturnMaps
  <2>8. Store!ReadFile(c)
    BY <2>2, <2>4, <2>6, <2>7 DEF Store!ReadFile
  <2> QED BY <2>8 DEF Store!StoreNext
<1>4. CASE ReadFails(c)
  <2>1. /\ pc[c] = "reading" /\ Returns(c, "failed", {}, Store!NoFile)
        /\ Unlocks /\ disk' = disk
    BY <1>4 DEF ReadFails, ReturnsOnly
  <2>2. Asked[c].op = "read" /\ Stored' = Stored
    BY <1>2, <2>1
  <2>3. Store!StoreNext
    BY <2>1, <2>2, FailMaps
  <2> QED BY <2>3
<1> QED BY <1>1, <1>3, <1>4

(* A list, which waits for the writer.                                     *)
LEMMA ListMaps ==
    ASSUME IInv, NEW c \in Callers, Lists(c)
    PROVE  Store!StoreNext
<1> DEFINE names == {n \in Names : There(n)}
<1>1. /\ pc[c] = "enter" /\ call[c].op = "list" /\ mutex = NoCaller
      /\ Returns(c, "list", names, Store!NoFile)
      /\ UNCHANGED <<disk, mutex, old>>
  BY DEF Lists, Enters
<1>2. /\ names = {n \in Names : Stored[n] # Store!NoFile}
      /\ names \in SUBSET Names
  BY <1>1, FreeShows
<1> HIDE DEF names
<1>3. TypeOK
  BY DEF IInv
<1>4. Store!Return(c, "list", names, Store!NoFile)
  BY <1>1, <1>2, <1>3, ReturnMaps, NothingType
<1>5. \A d \in Callers \ {c} : pc'[d] = pc[d] /\ call'[d] = call[d]
  <2>1. CallOver(c, "list", names, Store!NoFile)
    BY <1>1, <1>2, <1>3, ReturnsStep, NothingType
  <2> QED BY <2>1 DEF CallOver
<1>6. Stored' = Stored
  BY <1>1, <1>3, <1>5, StoredKept
<1>7. Asked[c].op = "list"
  BY <1>1, AskedIs
<1>8. Store!List(c)
  BY <1>2, <1>4, <1>6, <1>7 DEF Store!List
<1> QED BY <1>8 DEF Store!StoreNext

(* A request is asked of the store, a name that is refused answered.       *)
LEMMA RequestMaps ==
    ASSUME IInv, NEW c \in Callers, Requests(c)
    PROVE  Store!StoreNext
<1>1. TypeOK /\ {} \in SUBSET Names /\ 0 \in 0..MaxPics
  BY BoundsAssumption DEF IInv
<1>2. pc[c] = "idle" /\ UNCHANGED <<disk, mutex, old>>
  BY DEF Requests
<1>3. CASE \E op \in {"read", "remove"}, n \in {t.name : t \in taken} :
              Calls(c, op, n, 0) /\ Goes(c, "enter")
  <2>1. PICK op \in {"read", "remove"}, n \in {t.name : t \in taken} :
              Calls(c, op, n, 0) /\ Goes(c, "enter")
    BY <1>3
  <2>2. n \in Names
    BY <1>1 DEF TypeOK
  <2> QED BY <1>1, <1>2, <2>1, <2>2, AskMaps DEF Ops
<1>4. CASE Calls(c, "list", NoName, 0) /\ Goes(c, "enter")
  BY <1>1, <1>2, <1>4, AskMaps DEF Ops
<1>5. CASE ReturnsOnly(c, "failed")
  <2>1. Returns(c, "failed", {}, Store!NoFile)
    BY <1>5 DEF ReturnsOnly
  <2>2. Store!Return(c, "failed", {}, Store!NoFile)
    BY <1>1, <2>1, ReturnMaps, NothingType
  <2>3. \A d \in Callers \ {c} : pc'[d] = pc[d] /\ call'[d] = call[d]
    <3>1. CallOver(c, "failed", {}, Store!NoFile)
      BY <1>1, <2>1, ReturnsStep, NothingType
    <3> QED BY <3>1 DEF CallOver
  <2>4. Stored' = Stored
    BY <1>1, <1>2, <2>3, StoredKept
  <2>5. Asked[c] = Store!NoCall
    BY <1>2, AskedIs
  <2>6. Store!Refuse(c)
    BY <2>2, <2>4, <2>5 DEF Store!Refuse
  <2> QED BY <2>6 DEF Store!StoreNext
<1> QED BY <1>3, <1>4, <1>5 DEF Requests

(* The process ends: a picture that is being written stays in part.        *)
LEMMA RestartMaps ==
    ASSUME IInv, Restart
    PROVE  Store!StoreNext
<1>1. /\ pc' = [c \in Callers |-> "idle"] /\ mutex' = NoCaller
      /\ reply' = [c \in Callers |-> Store!NoReply] /\ disk' = disk
  BY DEF Restart
<1>2. Asked' = [c \in Callers |-> Store!NoCall]
  BY <1>1 DEF Asked, AskedBy, Store!NoCall, NoName
<1>3. CASE mutex # NoCaller /\ pc[mutex] = "writing"
  <2>1. mutex \in Callers
    BY <1>3 DEF IInv, TypeOK
  <2> DEFINE n == call[mutex].name
             whole == disk[n].parts = Parts
  <2>2. /\ n \in Names /\ Asked[mutex].op = "snapshot"
        /\ Stored' = [Stored EXCEPT ![n] = [pic |-> Asked[mutex].pic,
                                            whole |-> whole]]
    BY <1>1, <1>3, <2>1, WrittenShows
  <2>3. whole \in BOOLEAN
    OBVIOUS
  <2> HIDE DEF n, whole
  <2>4. Store!End
    BY <1>1, <1>2, <2>1, <2>2, <2>3 DEF Store!End
  <2> QED BY <2>4 DEF Store!StoreNext
<1>4. CASE ~(mutex # NoCaller /\ pc[mutex] = "writing")
  <2>1. Stored = [n \in Names |-> Picture(disk[n])]
    BY <1>4, NotWriting
  <2>2. Stored' = [n \in Names |-> Picture(disk'[n])]
    BY <1>1, NotWriting
  <2>3. Stored' = Stored
    BY <1>1, <2>1, <2>2
  <2>4. Store!End
    BY <1>1, <1>2, <2>3 DEF Store!End
  <2> QED BY <2>4 DEF Store!StoreNext
<1> QED BY <1>3, <1>4

(* The empty directory is an empty store.                                  *)
LEMMA InitMaps == Init => Store!StoreInit
<1> SUFFICES ASSUME Init PROVE Store!StoreInit
  OBVIOUS
<1>1. Picture(Nothing) = Store!NoFile
  BY NothingType, PictureIs
<1>2. Stored = [n \in Names |-> Store!NoFile]
  BY <1>1, NotWriting DEF Init
<1>3. Asked = [c \in Callers |-> Store!NoCall]
  BY DEF Init, Asked, AskedBy, Store!NoCall, NoName
<1> QED BY <1>2, <1>3 DEF Init, Store!StoreInit

(* Each step of the directory is one of the store, or is not seen.         *)
LEMMA StepMaps ==
    IInv /\ [Next]_vars => [Store!StoreNext]_(Store!storeVars)
<1> SUFFICES ASSUME IInv, [Next]_vars
             PROVE  Store!StoreNext \/ UNCHANGED Store!storeVars
  OBVIOUS
<1>1. ASSUME NEW c \in Callers, ReadsWallClock(c)
      PROVE  Store!StoreNext
  <2>1. /\ pc[c] = "idle" /\ pics < MaxPics
        /\ Calls(c, "snapshot", NoName, pics + 1) /\ Goes(c, "named")
        /\ UNCHANGED <<disk, mutex, old>>
    BY <1>1 DEF ReadsWallClock
  <2>2. pics + 1 \in 0..MaxPics
    BY <2>1, BoundsAssumption DEF IInv, TypeOK
  <2> QED BY <2>1, <2>2, AskMaps DEF Ops
<1>2. ASSUME NEW c \in Callers, Requests(c)
      PROVE  Store!StoreNext
  BY <1>2, RequestMaps
<1>3. ASSUME NEW c \in Callers, Step(c)
      PROVE  Store!StoreNext \/ UNCHANGED Store!storeVars
  <2>1. CASE MakesName(c) \/ imwriteOpens(c) \/ imwriteWrites(c)
    BY <2>1, WriterHides
  <2>2. CASE imwriteCannotOpen(c)
    <3>1. /\ pc[c] = "enter" /\ call[c].op = "snapshot"
          /\ Returns(c, "failed", {}, Store!NoFile)
          /\ UNCHANGED <<disk, mutex, old>>
      BY <2>2 DEF imwriteCannotOpen, Enters, ReturnsOnly
    <3>2. TypeOK /\ {} \in SUBSET Names
      BY DEF IInv
    <3>3. \A d \in Callers \ {c} : pc'[d] = pc[d] /\ call'[d] = call[d]
      <4>1. CallOver(c, "failed", {}, Store!NoFile)
        BY <3>1, <3>2, ReturnsStep, NothingType
      <4> QED BY <4>1 DEF CallOver
    <3>4. Stored' = Stored
      BY <3>1, <3>2, <3>3, StoredKept
    <3>5. Asked[c].op = "snapshot"
      BY <3>1, AskedIs
    <3>6. Store!StoreNext
      BY <3>1, <3>4, <3>5, FailMaps
    <3> QED BY <3>6
  <2>3. CASE imwriteFails(c)
    <3>1. /\ pc[c] = "writing" /\ disk[call[c].name].parts < Parts
          /\ Returns(c, "failed", {}, Store!NoFile) /\ Unlocks /\ disk' = disk
      BY <2>3 DEF imwriteFails, ReturnsOnly
    <3>2. ~(disk[call[c].name].parts = Parts)
      BY <3>1, WriterHas, BoundsAssumption
    <3>3. Store!StoreNext
      BY <3>1, <3>2, SaveMaps
    <3> QED BY <3>3
  <2>4. CASE snapshotReturns(c)
    <3>1. /\ pc[c] = "writing" /\ disk[call[c].name].parts = Parts
          /\ Returns(c, "saved", {}, Store!NoFile) /\ Unlocks /\ disk' = disk
      BY <2>4 DEF snapshotReturns, ReturnsOnly
    <3>2. Store!StoreNext
      BY <3>1, SaveMaps
    <3> QED BY <3>2
  <2>5. CASE Lists(c)
    BY <2>5, ListMaps
  <2>6. CASE Removes(c)
    BY <2>6, RemoveMaps
  <2>7. CASE ReadOpens(c) \/ ReadReturns(c) \/ ReadFails(c)
    BY <2>7, ReadMaps
  <2> QED BY <1>3, <2>1, <2>2, <2>3, <2>4, <2>5, <2>6, <2>7 DEF Step
<1>4. CASE TimePasses
  BY <1>4 DEF TimePasses, Store!storeVars, Stored, Visible, Asked, AskedBy
<1>5. CASE Restart
  BY <1>5, RestartMaps
<1>6. CASE UNCHANGED vars
  BY <1>6 DEF vars, Store!storeVars, Stored, Visible, Asked, AskedBy
<1> QED BY <1>1, <1>2, <1>3, <1>4, <1>5, <1>6 DEF Next

(* Whatever any number of threads do, every call of the directory takes    *)
(* effect at one moment (FileManager.cpp:57, :70, :93, :110).              *)
THEOREM CallsAreAtomic == Spec => ImplementsStore
<1>1. Spec => Store!StoreInit /\ [][Store!StoreNext]_(Store!storeVars)
  BY InitMaps, StepMaps, Inductive, PTL DEF Spec
<1> QED BY <1>1 DEF ImplementsStore, Store!StoreSpec
=============================================================================
