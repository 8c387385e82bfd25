---------------------------- MODULE Gimbal_proofs ----------------------------
(***************************************************************************)
(* Proofs about the gimbal loop, for any limits, gains, commands, places   *)
(* of the face and number of sessions, and about the servo driver.         *)
(***************************************************************************)
EXTENDS Gimbal, ServoPwm, TLAPS

-----------------------------------------------------------------------------
(* The tracker's operators.                                                *)

(* std::clamp over integers: within the bounds if they are in order.       *)
LEMMA ClampRange ==
    ASSUME NEW x \in Int, NEW lo \in Int, NEW hi \in Int, lo <= hi
    PROVE  Clamp(x, lo, hi) \in Int /\ lo <= Clamp(x, lo, hi) /\ Clamp(x, lo, hi) <= hi
  BY DEF Clamp

(* A clamped step from inside the bounds is no longer than the step.       *)
LEMMA ClampedStep ==
    ASSUME NEW y \in Int, NEW d \in Int, NEW lo \in Int, NEW hi \in Int,
           NEW m \in Nat, lo <= y, y <= hi, Abs(d) <= m
    PROVE  Abs(Clamp(y + d, lo, hi) - y) <= m
  BY DEF Clamp, Abs

(* Within keeps every axis in its range.                                   *)
LEMMA WithinRange ==
    ASSUME NEW at \in Angles
    PROVE  Within(at) \in Angles /\ InRange(Within(at))
<1>1. \A a \in Axes : /\ Clamp(at[a], Lo[a], Hi[a]) \in Int
                      /\ Lo[a] <= Clamp(at[a], Lo[a], Hi[a])
                      /\ Clamp(at[a], Lo[a], Hi[a]) <= Hi[a]
  <2> TAKE a \in Axes
  <2>1. at[a] \in Int /\ Lo[a] \in Int /\ Hi[a] \in Int /\ Home[a] \in Int
    BY RangeAssumption DEF Angles
  <2>2. Lo[a] <= Hi[a]
    BY <2>1, RangeAssumption
  <2>3. QED
    BY <2>1, <2>2, ClampRange
<1>2. QED
  BY <1>1 DEF Within, InRange, Angles

(* A correction is at most one step.                                       *)
LEMMA CorrectionBound ==
    ASSUME NEW e \in Angles, NEW a \in Axes
    PROVE  Correction(e, a) \in Int /\ Abs(Correction(e, a)) <= MaxStep
<1>1. e[a] \in Int /\ Sign[a] \in Int /\ Gain[a] \in Int /\ MaxStep \in Nat
  BY TrackerAssumption DEF Angles
<1>2. Sign[a] * Gain[a] * e[a] \in Int
  BY <1>1
<1> DEFINE d == Sign[a] * Gain[a] * e[a]
<1>3. /\ Clamp(d, -MaxStep, MaxStep) \in Int
      /\ -MaxStep <= Clamp(d, -MaxStep, MaxStep)
      /\ Clamp(d, -MaxStep, MaxStep) <= MaxStep
  <2> HIDE DEF d
  <2>1. d \in Int
    BY <1>2 DEF d
  <2>2. -MaxStep \in Int /\ MaxStep \in Int /\ -MaxStep <= MaxStep
    BY <1>1
  <2>3. QED
    BY <2>1, <2>2, ClampRange
<1> DEFINE c == Clamp(d, -MaxStep, MaxStep)
<1>4. Correction(e, a) = c \/ Correction(e, a) = 0
  BY DEF Correction
<1> HIDE DEF c, d
<1>5. QED
  BY <1>1, <1>3, <1>4 DEF Abs, c

(* An automatic update stays in range and close to where it was.           *)
LEMMA CorrectedNear ==
    ASSUME angles \in Angles, InRange(angles), NEW e \in Angles \cup {Nowhere}
    PROVE  /\ Corrected(e) \in Angles
           /\ InRange(Corrected(e))
           /\ Near(Corrected(e), angles, MaxStep)
<1> DEFINE at == [a \in Axes |-> angles[a] + Correction(e, a)]
<1>1. CASE e = Nowhere
  <2>1. \A a \in Axes : angles[a] \in Int /\ angles[a] - angles[a] = 0
    BY DEF Angles
  <2>2. QED
    BY <1>1, <2>1, TrackerAssumption DEF Corrected, Near, Abs
<1>2. CASE e # Nowhere
  <2>1. e \in Angles
    BY <1>2
  <2>2. at \in Angles
    BY <2>1, CorrectionBound DEF Angles
  <2>3. Corrected(e) = Within(at)
    BY <1>2 DEF Corrected
  <2>4. ASSUME NEW a \in Axes
        PROVE  Abs(Within(at)[a] - angles[a]) <= MaxStep
    <3>1. /\ angles[a] \in Int /\ Lo[a] \in Int /\ Hi[a] \in Int /\ MaxStep \in Nat
          /\ Lo[a] <= angles[a] /\ angles[a] <= Hi[a]
      BY RangeAssumption, TrackerAssumption DEF Angles, InRange
    <3>2. Correction(e, a) \in Int /\ Abs(Correction(e, a)) <= MaxStep
      BY <2>1, CorrectionBound
    <3>3. Within(at)[a] = Clamp(at[a], Lo[a], Hi[a]) /\ at[a] = angles[a] + Correction(e, a)
      BY DEF Within
    <3>4. Within(at)[a] = Clamp(angles[a] + Correction(e, a), Lo[a], Hi[a])
      BY <3>3
    <3>5. Abs(Clamp(angles[a] + Correction(e, a), Lo[a], Hi[a]) - angles[a]) <= MaxStep
      BY <3>1, <3>2, ClampedStep
    <3>6. QED
      BY <3>4, <3>5
  <2>5. QED
    BY <2>2, <2>3, <2>4, WithinRange DEF Near
<1>3. QED
  BY <1>1, <1>2

-----------------------------------------------------------------------------
(* Types.                                                                  *)

(* What the camera shows is an error per axis or nothing.                  *)
LEMMA SeenType ==
    ASSUME face \in Places \cup {Nowhere}, servo \in Angles
    PROVE  Seen \in Angles \cup {Nowhere}
<1>1. ASSUME face \in Angles, NEW a \in Axes
      PROVE  Sign[a] * InPixels(face[a] - servo[a]) \in Int
  <2>1. /\ Sign[a] \in Int /\ face[a] \in Int /\ servo[a] \in Int
        /\ Pixel \in Nat \ {0}
    BY <1>1, TrackerAssumption, ViewAssumption DEF Angles
  <2>2. \A d \in Int : d \div Pixel \in Int
    BY <2>1
  <2>3. \A d \in Int : InPixels(d) \in Int
    BY <2>2 DEF InPixels
  <2>4. face[a] - servo[a] \in Int
    BY <2>1
  <2>5. InPixels(face[a] - servo[a]) \in Int
    BY <2>3, <2>4
  <2>6. QED
    BY <2>1, <2>5
<1>2. face # Nowhere => Offset(servo, face) \in Angles
  BY <1>1, ViewAssumption DEF Offset, Angles
<1>3. QED
  BY <1>2 DEF Seen

(* What the queue holds.                                                   *)
LEMMA EntryAt ==
    ASSUME queue \in Seq(Entry), NEW i \in 1..Len(queue)
    PROVE  /\ queue[i] \in Entry /\ queue[i].num \in Nat
           /\ queue[i].by \in Sessions /\ queue[i].order \in Order
<1>1. queue[i] \in Entry
  OBVIOUS
<1>2. QED
  BY <1>1 DEF Entry

(* The head of the queue is an entry, and taking it leaves entries.        *)
LEMMA TakeType ==
    ASSUME TypeOK, NEW kind, Take(kind)
    PROVE  /\ Head(queue) \in Entry /\ queue' = Tail(queue)
           /\ queue' \in Seq(Entry)
           /\ Head(queue).order \in Order /\ Head(queue).by \in Sessions
           /\ Head(queue).order.to \in Angles /\ Head(queue).order.auto \in BOOLEAN
           /\ bpc = "drain"
           /\ UNCHANGED <<viewVars, visionVars, age, sent, bpc, auto, servo, status, stop>>
<1>1. queue \in Seq(Entry) /\ queue # << >>
  BY DEF TypeOK, Take
<1>2. Head(queue) \in Entry /\ Tail(queue) \in Seq(Entry)
  BY <1>1
<1>3. QED
  BY <1>2 DEF Take, Entry, Order

(* The part of the state that says which commands are queued and done.     *)
QueueInv ==
    /\ \A i \in 1..Len(queue) :
         /\ queue[i].by \in Sessions
         /\ done[queue[i].by] < queue[i].num
         /\ queue[i].num <= sent[queue[i].by]
    /\ \A s \in Sessions :
         /\ done[s] <= sent[s]
         /\ \A n \in (done[s] + 1)..sent[s] :
              \E i \in 1..Len(queue) : queue[i].by = s /\ queue[i].num = n
    /\ \A i, j \in 1..Len(queue) :
         i < j /\ queue[i].by = queue[j].by => queue[i].num < queue[j].num

(* The head is its session's oldest command that has not taken effect.     *)
LEMMA HeadIsNext ==
    ASSUME TypeOK, QueueInv, queue # << >>
    PROVE  Head(queue).num = done[Head(queue).by] + 1
<1> DEFINE s == queue[1].by
<1>1. queue \in Seq(Entry) /\ Len(queue) \in Nat /\ Len(queue) >= 1
  BY DEF TypeOK
<1>2. queue[1] \in Entry /\ s \in Sessions /\ queue[1].num \in Nat /\ Head(queue) = queue[1]
  BY <1>1, EntryAt
<1>3. done[s] \in Nat /\ sent[s] \in Nat
  BY <1>2, CommandAssumption DEF TypeOK
<1>4. done[s] < queue[1].num /\ queue[1].num <= sent[s]
  BY <1>1 DEF QueueInv
<1>5. ASSUME queue[1].num # done[s] + 1 PROVE FALSE
  <2>1. done[s] + 1 \in (done[s] + 1)..sent[s] /\ done[s] + 1 < queue[1].num
    BY <1>2, <1>3, <1>4, <1>5
  <2>2. PICK i \in 1..Len(queue) : queue[i].by = s /\ queue[i].num = done[s] + 1
    BY <1>2, <2>1 DEF QueueInv
  <2>3. 1 \in 1..Len(queue) /\ i # 1 /\ 1 < i
    BY <1>1, <2>1, <2>2
  <2>4. queue[1].num < queue[i].num
    BY <2>2, <2>3 DEF QueueInv
  <2>5. QED
    BY <1>2, <1>3, <2>1, <2>2, <2>4
<1>6. QED
  BY <1>2, <1>5

(* Pushing keeps the queue in turn.                                        *)
LEMMA PushQueue ==
    ASSUME TypeOK, QueueInv, NEW s \in Sessions, NEW o \in Orders, Push(s, o)
    PROVE  /\ QueueInv' /\ queue' \in Seq(Entry)
           /\ sent' \in [Sessions -> 0..MaxSent]
<1> DEFINE e == Item(s, o)
<1>1. /\ queue \in Seq(Entry) /\ Len(queue) \in Nat
      /\ sent[s] \in Nat /\ sent[s] < MaxSent /\ MaxSent \in Nat
      /\ queue' = Append(queue, e) /\ done' = done
      /\ sent' = [sent EXCEPT ![s] = @ + 1]
  BY CommandAssumption DEF TypeOK, Push, Item
<1>2. e \in Entry /\ e.by = s /\ e.num = sent[s] + 1
  BY <1>1, CommandAssumption DEF Item, Entry
<1> HIDE DEF e
<1>3. /\ queue' \in Seq(Entry) /\ Len(queue') = Len(queue) + 1
      /\ \A i \in 1..Len(queue) : queue'[i] = queue[i]
      /\ queue'[Len(queue) + 1] = e
  BY <1>1, <1>2
<1>4. /\ sent' \in [Sessions -> 0..MaxSent]
      /\ sent'[s] = sent[s] + 1
      /\ \A r \in Sessions : r # s => sent'[r] = sent[r]
      /\ \A r \in Sessions : sent[r] \in Nat /\ done[r] \in Nat
  BY <1>1, CommandAssumption DEF TypeOK
<1>5. \A i \in 1..Len(queue) : queue[i] \in Entry /\ queue[i].num \in Nat
  BY <1>1, EntryAt
<1>6. ASSUME NEW i \in 1..Len(queue')
      PROVE  /\ queue'[i].by \in Sessions
             /\ done'[queue'[i].by] < queue'[i].num
             /\ queue'[i].num <= sent'[queue'[i].by]
  <2>1. CASE i \in 1..Len(queue)
    BY <1>1, <1>3, <1>4, <1>5, <2>1 DEF QueueInv
  <2>2. CASE i = Len(queue) + 1
    <3>1. done[s] <= sent[s]
      BY DEF QueueInv
    <3>2. QED
      BY <1>1, <1>2, <1>3, <1>4, <2>2, <3>1
  <2>3. QED
    BY <1>1, <1>3, <2>1, <2>2
<1>7. ASSUME NEW r \in Sessions
      PROVE  /\ done'[r] <= sent'[r]
             /\ \A n \in (done'[r] + 1)..sent'[r] :
                  \E i \in 1..Len(queue') : queue'[i].by = r /\ queue'[i].num = n
  <2>1. done[r] <= sent[r]
    BY DEF QueueInv
  <2>2. done'[r] <= sent'[r]
    BY <1>1, <1>4, <2>1
  <2>3. ASSUME NEW n \in (done'[r] + 1)..sent'[r]
        PROVE  \E i \in 1..Len(queue') : queue'[i].by = r /\ queue'[i].num = n
    <3>1. CASE n \in (done[r] + 1)..sent[r]
      <4>1. PICK i \in 1..Len(queue) : queue[i].by = r /\ queue[i].num = n
        BY <3>1 DEF QueueInv
      <4>2. i \in 1..Len(queue') /\ queue'[i] = queue[i]
        BY <1>1, <1>3
      <4>3. QED
        BY <4>1, <4>2
    <3>2. CASE r = s /\ n = sent[s] + 1
      <4>1. Len(queue) + 1 \in 1..Len(queue')
        BY <1>1, <1>3
      <4>2. QED
        BY <1>2, <1>3, <3>2, <4>1
    <3>3. QED
      BY <1>1, <1>4, <3>1, <3>2
  <2>4. QED
    BY <2>2, <2>3
<1>8. ASSUME NEW i \in 1..Len(queue'), NEW j \in 1..Len(queue'),
             i < j, queue'[i].by = queue'[j].by
      PROVE  queue'[i].num < queue'[j].num
  <2>1. i \in 1..Len(queue) /\ queue'[i] = queue[i]
    BY <1>1, <1>3, <1>8
  <2>2. CASE j \in 1..Len(queue)
    BY <1>3, <1>8, <2>1, <2>2 DEF QueueInv
  <2>3. CASE j = Len(queue) + 1
    <3>1. queue[i].by = s /\ queue[i].num <= sent[s] /\ queue[i].num \in Nat
      BY <1>2, <1>3, <1>5, <1>8, <2>1, <2>3 DEF QueueInv
    <3>2. QED
      BY <1>1, <1>2, <1>3, <2>1, <2>3, <3>1
  <2>4. QED
    BY <1>1, <1>3, <2>2, <2>3
<1>9. QED
  BY <1>3, <1>4, <1>6, <1>7, <1>8 DEF QueueInv

(* Taking the head keeps the queue in turn.                                *)
LEMMA TakeQueue ==
    ASSUME TypeOK, QueueInv, NEW kind, Take(kind)
    PROVE  QueueInv' /\ done' \in [Sessions -> 0..MaxSent]
<1> DEFINE s == Head(queue).by
<1>1. /\ queue \in Seq(Entry) /\ Len(queue) \in Nat /\ Len(queue) >= 1
      /\ queue # << >> /\ queue' = Tail(queue) /\ sent' = sent
      /\ done' = [done EXCEPT ![s] = @ + 1]
      /\ s \in Sessions /\ Head(queue) = queue[1]
  BY TakeType DEF TypeOK, Take
<1>2. Head(queue).num = done[s] + 1
  BY <1>1, HeadIsNext
<1>3. /\ Len(queue') = Len(queue) - 1
      /\ \A i \in 1..Len(queue') : queue'[i] = queue[i + 1]
  BY <1>1
<1>4. /\ \A r \in Sessions : sent[r] \in 0..MaxSent /\ done[r] \in 0..MaxSent
      /\ \A r \in Sessions : done'[r] = IF r = s THEN done[r] + 1 ELSE done[r]
      /\ MaxSent \in Nat
  BY <1>1, CommandAssumption DEF TypeOK
<1>5. done[s] < queue[1].num /\ queue[1].num <= sent[s]
  BY <1>1 DEF QueueInv
<1>6. done' \in [Sessions -> 0..MaxSent]
  <2>1. done[s] + 1 <= sent[s] /\ done[s] + 1 \in 0..MaxSent
    BY <1>1, <1>2, <1>4, <1>5
  <2>2. QED
    BY <1>1, <2>1 DEF TypeOK
<1>7. ASSUME NEW i \in 1..Len(queue')
      PROVE  /\ queue'[i].by \in Sessions
             /\ done'[queue'[i].by] < queue'[i].num
             /\ queue'[i].num <= sent'[queue'[i].by]
  <2>1. i + 1 \in 1..Len(queue) /\ 1 \in 1..Len(queue) /\ 1 < i + 1
    BY <1>1, <1>3
  <2>2. /\ queue[i + 1].by \in Sessions /\ queue[i + 1].num \in Nat
        /\ done[queue[i + 1].by] < queue[i + 1].num
        /\ queue[i + 1].num <= sent[queue[i + 1].by]
    BY <1>1, <2>1, EntryAt DEF QueueInv
  <2>3. queue[i + 1].by = s => done[s] + 1 < queue[i + 1].num
    <3>1. queue[1].by = queue[i + 1].by => queue[1].num < queue[i + 1].num
      BY <2>1 DEF QueueInv
    <3>2. queue[1].by = s /\ queue[1].num = done[s] + 1
      BY <1>1, <1>2
    <3> QED BY <3>1, <3>2
  <2>4. QED
    BY <1>1, <1>3, <1>4, <2>2, <2>3
<1>8. ASSUME NEW r \in Sessions
      PROVE  /\ done'[r] <= sent'[r]
             /\ \A n \in (done'[r] + 1)..sent'[r] :
                  \E i \in 1..Len(queue') : queue'[i].by = r /\ queue'[i].num = n
  <2>1. done[r] <= sent[r]
    BY DEF QueueInv
  <2>2. done'[r] <= sent'[r]
    BY <1>1, <1>2, <1>4, <1>5, <2>1
  <2>3. ASSUME NEW n \in (done'[r] + 1)..sent'[r]
        PROVE  \E i \in 1..Len(queue') : queue'[i].by = r /\ queue'[i].num = n
    <3>1. n \in (done[r] + 1)..sent[r] /\ (r = s => n # done[s] + 1)
      BY <1>1, <1>4
    <3>2. PICK k \in 1..Len(queue) : queue[k].by = r /\ queue[k].num = n
      BY <3>1 DEF QueueInv
    <3>3. k # 1
      BY <1>1, <1>2, <3>1, <3>2
    <3>4. k - 1 \in 1..Len(queue') /\ queue'[k - 1] = queue[k]
      BY <1>1, <1>3, <3>3
    <3>5. QED
      BY <3>2, <3>4
  <2>4. QED
    BY <2>2, <2>3
<1>9. ASSUME NEW i \in 1..Len(queue'), NEW j \in 1..Len(queue'),
             i < j, queue'[i].by = queue'[j].by
      PROVE  queue'[i].num < queue'[j].num
  <2>1. i + 1 \in 1..Len(queue) /\ j + 1 \in 1..Len(queue) /\ i + 1 < j + 1
    BY <1>1, <1>3, <1>9
  <2>2. QED
    BY <1>3, <1>9, <2>1 DEF QueueInv
<1>10. QED
  BY <1>6, <1>7, <1>8, <1>9 DEF QueueInv
-----------------------------------------------------------------------------
(* The inductive invariant.                                                *)

(* The override and the quiet time are complementary.                      *)
TimeInv == hold + quiet = Override

LimitInv == StaysInLimits

(* How far the tracker is ahead of the servo, and why.                     *)
HandInv ==
    /\ bpc \in {"drain", "update"} /\ ~byHand => angles = servo
    /\ bpc \in {"report", "sleep", "stopped"} => angles = servo /\ ~byHand
    /\ bpc = "write" /\ ~byHand =>
         /\ Near(angles, servo, MaxStep)
         /\ angles # servo => auto /\ quiet = Override

(* effectiveAuto is what the mode and the override say.                    *)
ModeInv ==
    /\ bpc \in {"write", "report"} => (auto => mode /\ hold = 0)
    /\ bpc \in {"sleep", "stopped"} =>
         /\ status.at = servo
         /\ status.auto => mode /\ hold = 0

IInv == TypeOK /\ QueueInv /\ LimitInv /\ TimeInv /\ HandInv /\ ModeInv

(* Nothing is queued, and everything points home.                          *)
LEMMA InitInv == Init => IInv
<1> SUFFICES ASSUME Init PROVE IInv
  OBVIOUS
<1>1. TypeOK
  <2> USE DEF Init
  <2>1. /\ queue \in Seq(Entry) /\ bpc \in BPC /\ 0 \in 0..Blind
        /\ 0 \in 0..Override /\ Override \in 0..Override
    BY CommandAssumption, ViewAssumption DEF BPC, Blind
  <2>2. sent \in [Sessions -> 0..MaxSent] /\ done \in [Sessions -> 0..MaxSent]
    BY CommandAssumption
  <2>3. angles \in Angles /\ servo \in Angles /\ status \in [auto : BOOLEAN, at : Angles]
    BY RangeAssumption
  <2>4. QED
    BY <2>1, <2>2, <2>3 DEF TypeOK
<1>2. QueueInv
  BY DEF Init, QueueInv
<1>3. LimitInv
  BY RangeAssumption DEF Init, LimitInv, StaysInLimits, InRange
<1>4. TimeInv /\ HandInv /\ ModeInv
  BY CommandAssumption DEF Init, TimeInv, HandInv, ModeInv
<1>5. QED
  BY <1>1, <1>2, <1>3, <1>4 DEF IInv

(* Every step keeps the types.                                             *)
LEMMA TypeStep == IInv /\ [Next]_vars => TypeOK'
<1> SUFFICES ASSUME IInv, [Next]_vars PROVE TypeOK'
  OBVIOUS
<1> USE DEF vars, viewVars, visionVars, clientVars, loopVars
<1>1. /\ TypeOK /\ QueueInv /\ InRange(angles)
      /\ Override \in Nat /\ TicksPerFrame \in Nat \ {0} /\ Blind \in Nat /\ Blind > TicksPerFrame + 1
  BY CommandAssumption, ViewAssumption DEF IInv, LimitInv, StaysInLimits, Blind
<1>2. CASE World
  <2>1. CASE FaceMoves
    BY <1>1, <2>1 DEF FaceMoves, TypeOK
  <2>2. CASE CameraChanges
    <3>1. camera' \in BOOLEAN
      BY <2>2 DEF CameraChanges
    <3>2. QED
      BY <1>1, <2>2, <3>1 DEF CameraChanges, TypeOK
  <2>3. CASE TimePasses
    <3>1. hold' \in 0..Override /\ quiet' \in 0..Override
      BY <1>1, <2>3 DEF TimePasses, TypeOK
    <3>2. QED
      BY <1>1, <2>3, <3>1 DEF TimePasses, TypeOK
  <2>4. CASE Stop
    BY <1>1, <2>4 DEF Stop, TypeOK
  <2>5. QED
    BY <1>2, <2>1, <2>2, <2>3, <2>4 DEF World
<1>3. CASE Vision
  <2>1. Seen \in Angles \cup {Nowhere}
    BY <1>1, SeenType DEF TypeOK
  <2>2. QED
    BY <1>1, <1>3, <2>1 DEF Vision, Grab, GrabFails, Detect, TypeOK
<1>4. CASE TakeManual
  <2>1. PICK kind \in {"step", "abs"} :
          /\ Take(kind)
          /\ \/ angles' = Nudged(Head(queue).order.to)
             \/ angles' = Within(Head(queue).order.to)
    BY <1>4 DEF TakeManual
  <2>2. Head(queue).order.to \in Angles
    BY <1>1, <2>1, TakeType
  <2>3. [a \in Axes |-> angles[a] + Head(queue).order.to[a]] \in Angles
    BY <1>1, <2>2 DEF TypeOK, Angles
  <2>4. angles' \in Angles
    BY <2>1, <2>2, <2>3, WithinRange DEF Nudged
  <2>5. queue' \in Seq(Entry) /\ done' \in [Sessions -> 0..MaxSent]
    BY <1>1, <2>1, TakeType, TakeQueue
  <2>6. UNCHANGED <<viewVars, visionVars, age, sent, bpc, auto, servo, status, stop>>
    BY <2>1 DEF Take
  <2>7. QED
    BY <1>1, <1>4, <2>4, <2>5, <2>6 DEF TakeManual, TypeOK
<1>5. CASE TakeMode
  <2>1. Take("mode")
    BY <1>5 DEF TakeMode
  <2>2. /\ queue' \in Seq(Entry) /\ done' \in [Sessions -> 0..MaxSent]
        /\ mode' \in BOOLEAN
    BY <1>1, <1>5, <2>1, TakeType, TakeQueue DEF TakeMode
  <2>3. UNCHANGED <<viewVars, visionVars, age, sent, bpc, auto, servo, status, stop>>
    BY <2>1 DEF Take
  <2>4. hold' \in 0..Override /\ quiet' \in 0..Override
    BY <1>1, <1>5 DEF TakeMode, TypeOK
  <2>5. QED
    BY <1>1, <1>5, <2>2, <2>3, <2>4 DEF TakeMode, TypeOK
<1>6. CASE Update
  <2>1. angles' \in Angles
    BY <1>1, <1>6, CorrectedNear DEF Update, TypeOK
  <2>2. age' \in 0..Blind
    BY <1>1, <1>6 DEF Update, TypeOK
  <2>3. auto' \in BOOLEAN
    BY <1>1, <1>6 DEF Update, EffectiveAuto, TypeOK
  <2>4. QED
    BY <1>1, <1>6, <2>1, <2>2, <2>3 DEF Update, TypeOK, BPC
<1>7. CASE Drained \/ SetAngles \/ Report \/ Wake
  <2>1. CASE Drained
    BY <1>1, <2>1 DEF Drained, TypeOK, BPC
  <2>2. CASE SetAngles
    BY <1>1, <2>2 DEF SetAngles, TypeOK, BPC
  <2>3. CASE Report
    <3>1. status' \in [auto : BOOLEAN, at : Angles]
      BY <1>1, <2>3 DEF Report, TypeOK
    <3>2. QED
      BY <1>1, <2>3, <3>1 DEF Report, TypeOK, BPC
  <2>4. CASE Wake
    BY <1>1, <2>4 DEF Wake, TypeOK, BPC
  <2>5. QED
    BY <1>7, <2>1, <2>2, <2>3, <2>4
<1>8. CASE \E s \in Sessions, o \in Orders : Push(s, o)
  <2>1. PICK s \in Sessions, o \in Orders : Push(s, o)
    BY <1>8
  <2>2. queue' \in Seq(Entry) /\ sent' \in [Sessions -> 0..MaxSent]
    BY <1>1, <2>1, PushQueue
  <2>3. QED
    BY <1>1, <2>1, <2>2 DEF Push, TypeOK
<1>9. CASE UNCHANGED vars
  BY <1>1, <1>9 DEF TypeOK
<1>10. QED
  BY <1>2, <1>3, <1>4, <1>5, <1>6, <1>7, <1>8, <1>9 DEF Next, Business

(* Only a push and a take change the queue and what is counted.            *)
LEMMA QueueStep == IInv /\ [Next]_vars => QueueInv'
<1> SUFFICES ASSUME IInv, [Next]_vars PROVE QueueInv'
  OBVIOUS
<1>1. TypeOK /\ QueueInv
  BY DEF IInv
<1>2. CASE UNCHANGED <<queue, sent, done>>
  BY <1>1, <1>2 DEF QueueInv
<1>3. CASE \E kind : Take(kind)
  BY <1>1, <1>3, TakeQueue
<1>4. CASE \E s \in Sessions, o \in Orders : Push(s, o)
  BY <1>1, <1>4, PushQueue
<1>5. World \/ Vision \/ Drained \/ Update \/ SetAngles \/ Report \/ Wake \/ UNCHANGED vars
        => UNCHANGED <<queue, sent, done>>
  BY DEF World, FaceMoves, CameraChanges, TimePasses, Stop, Vision, Grab,
         GrabFails, Detect, Drained, Update, SetAngles, Report, Wake, vars, clientVars
<1>6. TakeManual \/ TakeMode => \E kind : Take(kind)
  BY DEF TakeManual, TakeMode
<1>7. QED
  BY <1>2, <1>3, <1>4, <1>5, <1>6 DEF Next, Business

(* The tracker clamps in every operation; the servo and the status only    *)
(* repeat its angles.                                                      *)
LEMMA LimitStep == IInv /\ [Next]_vars => LimitInv'
<1> SUFFICES ASSUME IInv, [Next]_vars PROVE LimitInv'
  OBVIOUS
<1> USE DEF vars, viewVars, visionVars, clientVars, loopVars
<1>1. TypeOK /\ InRange(angles) /\ InRange(servo) /\ InRange(status.at)
  BY DEF IInv, LimitInv, StaysInLimits
<1>2. CASE TakeManual
  <2>1. PICK kind \in {"step", "abs"} :
          /\ Take(kind)
          /\ \/ angles' = Nudged(Head(queue).order.to)
             \/ angles' = Within(Head(queue).order.to)
    BY <1>2 DEF TakeManual
  <2>2. Head(queue).order.to \in Angles
    BY <1>1, <2>1, TakeType
  <2>3. [a \in Axes |-> angles[a] + Head(queue).order.to[a]] \in Angles
    BY <1>1, <2>2 DEF TypeOK, Angles
  <2>4. InRange(angles')
    BY <2>1, <2>2, <2>3, WithinRange DEF Nudged
  <2>5. servo' = servo /\ status' = status
    BY <2>1 DEF Take
  <2>6. QED
    BY <1>1, <2>4, <2>5 DEF LimitInv, StaysInLimits, InRange
<1>3. CASE Update
  <2>1. InRange(angles') /\ servo' = servo /\ status' = status
    BY <1>1, <1>3, CorrectedNear DEF Update, TypeOK
  <2>2. QED
    BY <1>1, <2>1 DEF LimitInv, StaysInLimits, InRange
<1>4. CASE SetAngles \/ Report
  BY <1>1, <1>4 DEF SetAngles, Report, LimitInv, StaysInLimits, InRange
<1>5. World \/ Vision => UNCHANGED <<angles, servo, status>>
  BY DEF World, FaceMoves, CameraChanges, TimePasses, Stop, Vision, Grab,
         GrabFails, Detect
<1>6. TakeMode \/ Drained \/ Wake => UNCHANGED <<angles, servo, status>>
  BY DEF TakeMode, Take, Drained, Wake
<1>7. ASSUME NEW s \in Sessions, NEW o \in Orders, Push(s, o)
      PROVE  UNCHANGED <<angles, servo, status>>
  BY <1>7 DEF Push
<1>8. UNCHANGED vars => UNCHANGED <<angles, servo, status>>
  OBVIOUS
<1>9. UNCHANGED <<angles, servo, status>> => LimitInv'
  BY <1>1 DEF LimitInv, StaysInLimits, InRange
<1>10. QED
  BY <1>2, <1>3, <1>4, <1>5, <1>6, <1>7, <1>8, <1>9 DEF Next, Business

(* Time, the business thread's steps and what they leave between servo and *)
(* tracker.                                                                *)
LEMMA LoopStep == IInv /\ [Next]_vars => TimeInv' /\ HandInv' /\ ModeInv'
<1> SUFFICES ASSUME IInv, [Next]_vars PROVE TimeInv' /\ HandInv' /\ ModeInv'
  OBVIOUS
<1> USE DEF vars, viewVars, visionVars, clientVars, loopVars
<1>1. /\ TypeOK /\ TimeInv /\ HandInv /\ ModeInv /\ InRange(angles)
      /\ Override \in Nat /\ hold \in Int /\ quiet \in Int /\ 0 <= hold /\ 0 <= quiet
      /\ angles \in Angles /\ servo \in Angles /\ track \in Angles \cup {Nowhere}
  BY CommandAssumption DEF IInv, LimitInv, StaysInLimits, TypeOK
<1>2. CASE TimePasses
  BY <1>1, <1>2 DEF TimePasses, TimeInv, HandInv, ModeInv, Near
<1>3. CASE TakeManual
  <2>1. bpc = "drain" /\ bpc' = "drain"
    BY <1>3 DEF TakeManual, Take
  <2>2. QED
    BY <1>1, <1>3, <2>1 DEF TakeManual, TimeInv, HandInv, ModeInv
<1>4. CASE TakeMode
  <2>1. bpc = "drain" /\ bpc' = "drain" /\ UNCHANGED <<servo, angles, byHand>>
    BY <1>4 DEF TakeMode, Take
  <2>2. hold' + quiet' = Override
    BY <1>1, <1>4 DEF TakeMode, TimeInv
  <2>3. QED
    BY <1>1, <2>1, <2>2 DEF TimeInv, HandInv, ModeInv
<1>5. CASE Update
  <2>1. /\ bpc = "update" /\ bpc' = "write"
        /\ UNCHANGED <<servo, byHand, mode, hold, quiet>>
        /\ auto' = EffectiveAuto
        /\ angles' = IF auto' THEN Corrected(track) ELSE angles
    BY <1>5 DEF Update
  <2>2. auto' => mode /\ hold = 0 /\ quiet = Override
    <3>1. auto' => mode /\ hold = 0
      BY <2>1 DEF EffectiveAuto
    <3>2. hold = 0 => quiet = Override
      BY <1>1 DEF TimeInv
    <3>3. QED
      BY <3>1, <3>2
  <2>3. \A a \in Axes : Abs(angles[a] - angles[a]) <= MaxStep
    BY <1>1, TrackerAssumption DEF Angles, Abs
  <2>4. Near(angles', angles, MaxStep)
    BY <1>1, <2>1, <2>3, CorrectedNear DEF Near
  <2>5. ~byHand => angles = servo
    BY <1>1, <2>1 DEF HandInv
  <2>6. HandInv'
    BY <2>1, <2>2, <2>4, <2>5 DEF HandInv, Near
  <2>7. QED
    BY <1>1, <2>1, <2>2, <2>6 DEF TimeInv, ModeInv
<1>6. CASE SetAngles \/ Report \/ Drained
  BY <1>1, <1>6 DEF SetAngles, Report, Drained, TimeInv, HandInv, ModeInv
<1>7. CASE Wake
  BY <1>1, <1>7 DEF Wake, TimeInv, HandInv, ModeInv
<1> DEFINE Idle == UNCHANGED <<bpc, mode, auto, hold, quiet, byHand, angles, servo, status>>
<1>8. FaceMoves \/ CameraChanges \/ Stop \/ Vision \/ UNCHANGED vars => Idle
  BY DEF FaceMoves, CameraChanges, Stop, Vision, Grab, GrabFails, Detect
<1>9. ASSUME NEW s \in Sessions, NEW o \in Orders, Push(s, o)
      PROVE  Idle
  BY <1>9 DEF Push
<1>10. Idle => TimeInv' /\ HandInv' /\ ModeInv'
  BY <1>1 DEF TimeInv, HandInv, ModeInv, Near
<1> HIDE DEF Idle
<1>11. QED
  BY <1>2, <1>3, <1>4, <1>5, <1>6, <1>7, <1>8, <1>9, <1>10 DEF Next, World, Business

(* The invariant holds in every reachable state.                           *)
THEOREM Invariant == Spec => []IInv
<1>1. IInv /\ [Next]_vars => IInv'
  BY TypeStep, QueueStep, LimitStep, LoopStep DEF IInv
<1>2. QED
  BY InitInv, <1>1, PTL DEF Spec

-----------------------------------------------------------------------------
(* Type correctness of the gimbal loop.                                    *)
THEOREM GimbalTypes == Spec => []TypeOK
<1>1. IInv => TypeOK
  BY DEF IInv
<1>2. QED
  BY Invariant, <1>1, PTL

(* For any commands and any detections the servo stays within the limits   *)
(* of Config.                                                              *)
THEOREM LimitsHold == Spec => []StaysInLimits
<1>1. IInv => StaysInLimits
  BY DEF IInv, LimitInv
<1>2. QED
  BY Invariant, <1>1, PTL

(* The queue holds exactly the commands that have not taken effect, each   *)
(* session's in the order in which it sent them.                           *)
THEOREM QueueInTurn == Spec => []CommandsInTurn
<1>1. IInv => CommandsInTurn
  <2> SUFFICES ASSUME IInv PROVE CommandsInTurn
    OBVIOUS
  <2>1. /\ queue \in Seq(Entry) /\ QueueInv /\ MaxSent \in Nat
        /\ \A s \in Sessions : sent[s] \in 0..MaxSent /\ done[s] \in 0..MaxSent
    BY CommandAssumption DEF IInv, TypeOK
  <2>2. ASSUME NEW s \in Sessions, NEW n \in 1..MaxSent
        PROVE  (done[s] < n /\ n <= sent[s]) <=>
                 (\E i \in 1..Len(queue) : queue[i].by = s /\ queue[i].num = n)
    <3>1. ASSUME done[s] < n, n <= sent[s]
          PROVE  \E i \in 1..Len(queue) : queue[i].by = s /\ queue[i].num = n
      <4>1. n \in (done[s] + 1)..sent[s]
        BY <2>1, <3>1
      <4>2. QED
        BY <2>1, <4>1 DEF QueueInv
    <3>2. ASSUME NEW i \in 1..Len(queue), queue[i].by = s, queue[i].num = n
          PROVE  done[s] < n /\ n <= sent[s]
      BY <2>1, <3>2 DEF QueueInv
    <3>3. QED
      BY <3>1, <3>2
  <2>3. QED
    BY <2>1, <2>2 DEF CommandsInTurn, QueueInv
<1>2. QED
  BY Invariant, <1>1, PTL

(* What the overlay shows after a tick is what the loop did.               *)
THEOREM StatusHolds == Spec => []StatusIsTrue
<1>1. IInv => StatusIsTrue
  BY DEF IInv, ModeInv, StatusIsTrue
<1>2. QED
  BY Invariant, <1>1, PTL

(* Only a tick's write moves the servo.                                    *)
LEMMA ServoMoves == [Next]_vars => servo' = servo \/ SetAngles
  BY DEF Next, World, FaceMoves, CameraChanges, TimePasses, Stop, Vision, Grab,
         GrabFails, Detect, Business, TakeManual, TakeMode, Take, Drained,
         Update, Report, Wake, Push, vars, loopVars

(* Tracking leaves the servo alone for the whole override time after a     *)
(* manual command.                                                         *)
THEOREM OverrideRespected == Spec => AutoKeepsOut
<1>1. IInv /\ [Next]_vars => [servo' # servo /\ ~byHand => auto /\ quiet = Override]_servo
  BY ServoMoves DEF IInv, HandInv, SetAngles
<1>2. QED
  BY Invariant, <1>1, PTL DEF Spec, AutoKeepsOut

(* An automatic move of the servo is at most one step on each axis.        *)
THEOREM GentleMotion == Spec => AutoMovesGently
<1>1. IInv /\ [Next]_vars => [~byHand => Near(servo', servo, MaxStep)]_servo
  BY ServoMoves DEF IInv, HandInv, SetAngles
<1>2. QED
  BY Invariant, <1>1, PTL DEF Spec, AutoMovesGently

(* After the override time, or when tracking is switched on, the next tick *)
(* is automatic.                                                           *)
THEOREM OverrideIsOver == Spec => OverrideEnds
<1>1. IInv /\ [Next]_vars => [bpc = "update" /\ mode /\ quiet = Override => auto']_bpc
  <2> SUFFICES ASSUME IInv, [Next]_vars, bpc' # bpc, bpc = "update", mode, quiet = Override
               PROVE  auto'
    OBVIOUS
  <2>1. Update
    BY DEF Next, World, FaceMoves, CameraChanges, TimePasses, Stop, Vision, Grab,
           GrabFails, Detect, Business, TakeManual, TakeMode, Take, Drained,
           SetAngles, Report, Wake, Push, vars
  <2>2. hold = 0
    BY CommandAssumption DEF IInv, TimeInv, TypeOK
  <2>3. QED
    BY <2>1, <2>2 DEF Update, EffectiveAuto
<1>2. QED
  BY Invariant, <1>1, PTL DEF Spec, OverrideEnds

-----------------------------------------------------------------------------
(* What is safety in LoopStops.  Places of the loop before its end, and    *)
(* within the drain the commands before it.                                *)
LoopLeft ==
    CASE bpc = "drain" -> 5 [] bpc = "update" -> 4 [] bpc = "write" -> 3
      [] bpc = "report" -> 2 [] bpc = "sleep" -> 1 [] OTHER -> 0

LoopIsNearer ==
    \/ LoopLeft' < LoopLeft
    \/ LoopLeft' = LoopLeft /\ Len(queue') < Len(queue)

(* Once the loop is asked to stop, every step of it brings it nearer to    *)
(* its end, at most one more tick moves the gimbal, and nobody else moves  *)
(* it: only a session that pushes while the queue is drained gives it more *)
(* to do.                                                                  *)
LoopEndsInTurn ==
    stop =>
        /\ stop'
        /\ Business => LoopIsNearer
        /\ ~Business => UNCHANGED bpc /\ Len(queue) <= Len(queue')

(* BusinessThread::run drains, ticks and tests running() without going     *)
(* back.                                                                   *)
THEOREM LoopEndIsNear == Spec => [][LoopEndsInTurn]_vars
<1>1. ASSUME IInv, [Next]_vars, stop
      PROVE  /\ stop'
             /\ Business => LoopIsNearer
             /\ ~Business => UNCHANGED bpc /\ Len(queue) <= Len(queue')
  <2>1. queue \in Seq(Entry)
    BY <1>1 DEF IInv, TypeOK
  <2>2. stop'
    BY <1>1 DEF Next, World, FaceMoves, CameraChanges, TimePasses, Stop, Vision,
       Grab, GrabFails, Detect, Business, TakeManual, TakeMode, Take, Drained,
       Update, SetAngles, Report, Wake, Push, vars
  <2>3. ASSUME NEW kind, Take(kind) PROVE LoopIsNearer
    <3>1. Len(Tail(queue)) < Len(queue)
      BY <2>1, <2>3 DEF Take
    <3>2. queue' = Tail(queue) /\ bpc' = bpc
      BY <2>3 DEF Take
    <3> QED BY <3>1, <3>2 DEF LoopIsNearer, LoopLeft
  <2>4. ASSUME Drained \/ Update \/ SetAngles \/ Report \/ Wake
        PROVE  LoopIsNearer
    <3>1. \/ bpc = "drain" /\ bpc' = "update"
          \/ bpc = "update" /\ bpc' = "write"
          \/ bpc = "write" /\ bpc' = "report"
          \/ bpc = "report" /\ bpc' = "sleep"
          \/ bpc = "sleep" /\ bpc' = "stopped"
      BY <1>1, <2>4 DEF Drained, Update, SetAngles, Report, Wake
    <3>2. /\ bpc = "drain" => LoopLeft = 5
          /\ bpc = "update" => LoopLeft = 4
          /\ bpc = "write" => LoopLeft = 3
          /\ bpc = "report" => LoopLeft = 2
          /\ bpc = "sleep" => LoopLeft = 1
      BY DEF LoopLeft
    <3>3. /\ bpc' = "update" => LoopLeft' = 4
          /\ bpc' = "write" => LoopLeft' = 3
          /\ bpc' = "report" => LoopLeft' = 2
          /\ bpc' = "sleep" => LoopLeft' = 1
          /\ bpc' = "stopped" => LoopLeft' = 0
      BY DEF LoopLeft
    <3>4. LoopLeft' < LoopLeft
      BY <3>1, <3>2, <3>3
    <3> QED BY <3>4 DEF LoopIsNearer
  <2>5. ASSUME ~Business PROVE UNCHANGED bpc /\ Len(queue) <= Len(queue')
    <3>1. ASSUME NEW s \in Sessions, NEW o \in Orders, Push(s, o)
          PROVE  UNCHANGED bpc /\ Len(queue) <= Len(queue')
      <4>1. queue' = Append(queue, Item(s, o)) /\ bpc' = bpc
        BY <3>1 DEF Push
      <4>2. Len(Append(queue, Item(s, o))) = Len(queue) + 1
        BY <2>1
      <4>3. Len(queue) \in Nat
        BY <2>1
      <4> QED BY <4>1, <4>2, <4>3
    <3>2. CASE World \/ Vision \/ UNCHANGED vars
      <4>1. UNCHANGED <<bpc, queue>>
        BY <3>2 DEF World, FaceMoves, CameraChanges, TimePasses, Stop, Vision,
           Grab, GrabFails, Detect, clientVars, vars
      <4>2. Len(queue) \in Nat
        BY <2>1
      <4> QED BY <4>1, <4>2
    <3> QED BY <1>1, <2>5, <3>1, <3>2 DEF Next
  <2>6. ASSUME Business PROVE LoopIsNearer
    BY <2>3, <2>4, <2>6 DEF Business, TakeManual, TakeMode
  <2> QED BY <2>2, <2>5, <2>6
<1>2. IInv /\ [Next]_vars => [LoopEndsInTurn]_vars
  BY <1>1 DEF LoopEndsInTurn
<1> QED BY <1>2, Invariant, PTL DEF Spec

-----------------------------------------------------------------------------
(* What is arithmetic in Settles.                                          *)

(* An error in pixels, times a gain of at most a pixel's angle, is no more *)
(* than the error.                                                         *)
LEMMA PixelsBelow ==
    ASSUME NEW d \in Nat, NEW g \in 1..Pixel
    PROVE  /\ d \div Pixel \in Nat
           /\ g * (d \div Pixel) \in 0..d
           /\ d \div Pixel > 0 => g * (d \div Pixel) > 0
<1>1. Pixel \in Nat /\ Pixel > 0 /\ g \in Nat /\ g > 0 /\ g <= Pixel
  BY ViewAssumption
<1>2. PICK q \in Nat : q = d \div Pixel
  BY <1>1
<1>3. Pixel * q <= d
  BY <1>1, <1>2
<1>4. \A x, y, n \in Nat : x <= y => x * n <= y * n
  <2> TAKE x, y, n \in Nat
  <2> HAVE x <= y
  <2>1. PICK z \in Nat : y = x + z
    <3>1. y - x \in Nat /\ y = x + (y - x)
      OBVIOUS
    <3> QED BY <3>1
  <2>2. y * n = x * n + z * n /\ z * n \in Nat /\ x * n \in Nat
    BY <2>1
  <2> QED BY <2>2
<1>5. g * q <= Pixel * q /\ g * q \in Nat
  BY <1>1, <1>4
<1>6. q > 0 => g * q > 0
  BY <1>1
<1>7. g * q <= d
  BY <1>1, <1>3, <1>5
<1> QED BY <1>2, <1>5, <1>6, <1>7

(* The same in both directions.                                            *)
LEMMA PixelsToward ==
    ASSUME NEW d \in Int, NEW g \in 1..Pixel
    PROVE  /\ InPixels(d) \in Int /\ g * InPixels(d) \in Int
           /\ d >= 0 => 0 <= g * InPixels(d) /\ g * InPixels(d) <= d
           /\ d <= 0 => d <= g * InPixels(d) /\ g * InPixels(d) <= 0
           /\ InPixels(d) # 0 => g * InPixels(d) # 0
<1>1. g \in Nat
  BY ViewAssumption
<1>2. CASE d >= 0
  <2>1. InPixels(d) = d \div Pixel
    BY <1>2 DEF InPixels
  <2>2. /\ d \div Pixel \in Nat /\ g * (d \div Pixel) \in 0..d
        /\ d \div Pixel > 0 => g * (d \div Pixel) > 0
    BY <1>2, PixelsBelow
  <2> DEFINE q == d \div Pixel
  <2> HIDE DEF q
  <2>3. /\ InPixels(d) = q /\ q \in Nat /\ g * q \in 0..d
        /\ q > 0 => g * q > 0
    BY <2>1, <2>2 DEF q
  <2> QED BY <1>2, <2>3
<1>3. CASE d < 0
  <2>1. InPixels(d) = -((-d) \div Pixel)
    BY <1>3 DEF InPixels
  <2> DEFINE q == (-d) \div Pixel
  <2>2. -d \in Nat
    BY <1>3
  <2>3. q \in Nat /\ g * q \in 0..(-d) /\ (q > 0 => g * q > 0)
    BY <2>2, PixelsBelow
  <2>4. InPixels(d) = -q
    BY <2>1
  <2> HIDE DEF q
  <2>5. g * (-q) = -(g * q)
    BY <1>1, <2>3
  <2> QED BY <1>3, <2>3, <2>4, <2>5
<1> QED BY <1>2, <1>3

(* x is where a step c from y toward p leads, clamped to m and to lo..hi.  *)
StepsTo(y, p, c, m, lo, hi, x) ==
    /\ y \in Int /\ p \in Int /\ c \in Int /\ m \in Nat \ {0}
    /\ lo \in Int /\ hi \in Int /\ lo <= y /\ y <= hi
    /\ p >= y => 0 <= c /\ c <= p - y
    /\ p <= y => p - y <= c /\ c <= 0
    /\ x = Clamp(y + Clamp(c, -m, m), lo, hi)

(* x is between y and p, and nearer to p unless nothing was asked for or   *)
(* the limit forbids it.                                                   *)
Approaches(y, p, c, lo, hi, x) ==
    /\ (y <= x /\ x <= p) \/ (p <= x /\ x <= y)
    /\ c = 0 \/ Abs(p - x) < Abs(p - y)
         \/ (y = hi /\ p > hi) \/ (y = lo /\ p < lo)

(* A clamped step toward p does not pass it, and is a step unless it is    *)
(* stopped by the limits.                                                  *)
LEMMA StepToward ==
    ASSUME NEW y, NEW p, NEW c, NEW m, NEW lo, NEW hi, NEW x,
           StepsTo(y, p, c, m, lo, hi, x)
    PROVE  Approaches(y, p, c, lo, hi, x)
<1> USE DEF StepsTo
<1> DEFINE k == Clamp(c, -m, m)
<1>0. /\ x = Clamp(y + k, lo, hi)
      /\ y \in Int /\ p \in Int /\ c \in Int /\ lo \in Int /\ hi \in Int
      /\ lo <= y /\ y <= hi
      /\ p >= y => 0 <= c /\ c <= p - y
      /\ p <= y => p - y <= c /\ c <= 0
  OBVIOUS
<1>1. /\ k \in Int
      /\ c >= 0 => 0 <= k /\ k <= c
      /\ c <= 0 => c <= k /\ k <= 0
      /\ c # 0 => k # 0
  BY DEF Clamp
<1> HIDE DEF k, StepsTo
<1>2. /\ x \in Int
      /\ k >= 0 => y <= x /\ x <= y + k
      /\ k <= 0 => y + k <= x /\ x <= y
      /\ k > 0 => x > y \/ y = hi
      /\ k < 0 => x < y \/ y = lo
  BY <1>0, <1>1 DEF Clamp
<1>3. (y <= x /\ x <= p) \/ (p <= x /\ x <= y)
  BY <1>0, <1>1, <1>2
<1>4. c = 0 \/ Abs(p - x) < Abs(p - y) \/ (y = hi /\ p > hi) \/ (y = lo /\ p < lo)
  BY <1>0, <1>1, <1>2, <1>3 DEF Abs
<1> QED BY <1>3, <1>4 DEF Approaches

(* The axis looks at p as well as it can: the error is in the deadzone, or *)
(* p is beyond the limit the axis is at.                                   *)
AxisSettled(at, p, a) ==
    \/ Abs(Offset(at, p)[a]) <= Deadzone
    \/ at[a] = Hi[a] /\ p[a] > Hi[a]
    \/ at[a] = Lo[a] /\ p[a] < Lo[a]

(* new is between at and p, and nearer to p than at was.                   *)
Between(at, new, p, a) ==
    (at[a] <= new[a] /\ new[a] <= p[a]) \/ (p[a] <= new[a] /\ new[a] <= at[a])
Closer(at, new, p, a) == Abs(p[a] - new[a]) < Abs(p[a] - at[a])

(* A correction by what the camera sees of p from here: the signs of the   *)
(* axis, the gain, the clamps and the limits work together, so that it is  *)
(* a step toward p and never past it, until the axis is settled.           *)
LEMMA CorrectionApproaches ==
    ASSUME angles \in Angles, InRange(angles), NEW p \in Angles, NEW a \in Axes,
           Sign[a] \in {-1, 1}, Gain[a] \in 1..Pixel, MaxStep > 0
    PROVE  LET new == Corrected(Offset(angles, p))
           IN  /\ new[a] = angles[a] \/ Between(angles, new, p, a)
               /\ AxisSettled(angles, p, a) \/ Closer(angles, new, p, a)
<1> DEFINE e == Offset(angles, p)
           y == angles[a]
           q == InPixels(p[a] - y)
           new == Corrected(e)
<1>1. /\ y \in Int /\ p[a] \in Int /\ Lo[a] \in Int /\ Hi[a] \in Int
      /\ Lo[a] <= y /\ y <= Hi[a]
      /\ Deadzone \in Nat /\ MaxStep \in Nat \ {0}
  BY RangeAssumption, TrackerAssumption DEF Angles, InRange
<1>2. e \in Angles /\ e # Nowhere
  <2>1. \A b \in Axes : Sign[b] * InPixels(p[b] - angles[b]) \in Int
    <3> TAKE b \in Axes
    <3>1. Sign[b] \in Int /\ p[b] - angles[b] \in Int /\ Pixel \in Nat \ {0}
      BY TrackerAssumption, ViewAssumption DEF Angles
    <3>2. \A d \in Int : d \div Pixel \in Int
      BY <3>1
    <3>3. \A d \in Int : InPixels(d) \in Int
      BY <3>2 DEF InPixels
    <3> QED BY <3>1, <3>3
  <2>2. e \in Angles
    BY <2>1 DEF Offset, Angles
  <2> QED BY <2>2, ViewAssumption
<1>3. e[a] = Sign[a] * q
  BY DEF Offset
<1>4. /\ q \in Int /\ Gain[a] * q \in Int
      /\ p[a] >= y => 0 <= Gain[a] * q /\ Gain[a] * q <= p[a] - y
      /\ p[a] <= y => p[a] - y <= Gain[a] * q /\ Gain[a] * q <= 0
      /\ q # 0 => Gain[a] * q # 0
  <2>1. p[a] - y \in Int /\ (p[a] >= y <=> p[a] - y >= 0)
        /\ (p[a] <= y <=> p[a] - y <= 0)
    BY <1>1
  <2> QED BY <2>1, PixelsToward
<1>5. Sign[a] * Gain[a] * e[a] = Gain[a] * q
  <2>1. Gain[a] \in Int
    BY TrackerAssumption DEF Angles
  <2>2. CASE Sign[a] = 1
    BY <1>3, <1>4, <2>1, <2>2
  <2>3. CASE Sign[a] = -1
    BY <1>3, <1>4, <2>1, <2>3
  <2> QED BY <2>2, <2>3
<1>6. new[a] = Clamp(y + Correction(e, a), Lo[a], Hi[a])
  BY <1>2 DEF Corrected, Within
<1>7. CASE Abs(e[a]) <= Deadzone
  <2>1. Correction(e, a) = 0
    <3>1. e[a] \in Int
      BY <1>2 DEF Angles
    <3>2. Abs(e[a]) \in Int
      BY <3>1 DEF Abs
    <3>3. ~(Abs(e[a]) > Deadzone)
      BY <1>1, <1>7, <3>2
    <3> QED BY <3>3 DEF Correction
  <2>2. new[a] = y
    <3>1. Clamp(y + 0, Lo[a], Hi[a]) = y
      BY <1>1 DEF Clamp
    <3> QED BY <1>6, <2>1, <3>1
  <2> QED BY <1>7, <2>2 DEF AxisSettled
<1>8. CASE ~(Abs(e[a]) <= Deadzone)
  <2>1. Abs(e[a]) > Deadzone /\ e[a] # 0
    <3>1. e[a] \in Int
      BY <1>2 DEF Angles
    <3> QED BY <1>1, <1>8, <3>1 DEF Abs
  <2>2. q # 0
    <3>1. q = 0 => e[a] = 0
      BY <1>3
    <3> QED BY <2>1, <3>1
  <2>3. Correction(e, a) = Clamp(Gain[a] * q, -MaxStep, MaxStep)
    BY <1>5, <2>1 DEF Correction
  <2> HIDE DEF q, y, new, e
  <2> DEFINE c == Gain[a] * q
  <2>4. /\ c \in Int /\ c # 0
        /\ p[a] >= y => 0 <= c /\ c <= p[a] - y
        /\ p[a] <= y => p[a] - y <= c /\ c <= 0
    BY <1>4, <2>2
  <2>5. new[a] = Clamp(y + Clamp(c, -MaxStep, MaxStep), Lo[a], Hi[a])
    BY <1>6, <2>3
  <2> HIDE DEF c
  <2>6. StepsTo(y, p[a], c, MaxStep, Lo[a], Hi[a], new[a])
    BY <1>1, <2>4, <2>5 DEF StepsTo
  <2>7. Approaches(y, p[a], c, Lo[a], Hi[a], new[a])
    BY <2>6, StepToward
  <2> QED
    BY <2>4, <2>7 DEF y, new, e, Approaches, Between, Closer, AxisSettled
<1> QED BY <1>7, <1>8

(* A tick of automatic tracking with a detection that is still true.       *)
TracksToward ==
    \A p \in Places :
        bpc = "update" /\ bpc' = "write" /\ auto' /\ track = Offset(angles, p) =>
            \A a \in Axes :
                /\ angles'[a] = angles[a] \/ Between(angles, angles', p, a)
                /\ AxisSettled(angles, p, a) \/ Closer(angles, angles', p, a)

(* With a gain of at most the angle of a pixel, every automatic tick       *)
(* brings an axis that is not settled nearer to the face the camera shows, *)
(* whatever mix of manual commands came before (PanTiltTracker.cpp,        *)
(* updateAuto).                                                            *)
THEOREM TrackingApproaches ==
    ASSUME \A a \in Axes : Sign[a] \in {-1, 1} /\ Gain[a] \in 1..Pixel,
           MaxStep > 0
    PROVE  Spec => [][TracksToward]_vars
<1>1. ASSUME IInv, [Next]_vars,
             NEW p \in Places, bpc = "update", bpc' = "write", auto',
             track = Offset(angles, p), NEW a \in Axes
      PROVE  /\ angles'[a] = angles[a] \/ Between(angles, angles', p, a)
             /\ AxisSettled(angles, p, a) \/ Closer(angles, angles', p, a)
  <2>1. Update
    BY <1>1 DEF Next, World, FaceMoves, CameraChanges, TimePasses, Stop, Vision,
       Grab, GrabFails, Detect, Business, TakeManual, TakeMode, Take, Drained,
       SetAngles, Report, Wake, Push, vars
  <2>2. angles' = Corrected(Offset(angles, p))
    BY <1>1, <2>1 DEF Update
  <2>3. angles \in Angles /\ InRange(angles) /\ p \in Angles
    BY <1>1, ViewAssumption DEF IInv, TypeOK, LimitInv, StaysInLimits
  <2> QED BY <2>2, <2>3, CorrectionApproaches
<1>2. IInv /\ [Next]_vars => [TracksToward]_vars
  BY <1>1 DEF TracksToward
<1> QED BY <1>2, Invariant, PTL DEF Spec
-----------------------------------------------------------------------------
(***************************************************************************)
(* The servo driver below the loop, for every period, pulse range, target  *)
(* and leftover setting: the types, and that a ready driver drives both    *)
(* servos.                                                                 *)
(***************************************************************************)
(* Where the configuration of a channel begins in InitSteps.             *)
ZeroAt(c) == IF c = Pan THEN 3 ELSE 7

(* A channel whose files cannot be written has no period yet, so that    *)
(* nothing is left over that the unnoticed first write would have cleared.*)
ClosedInv == \A c \in Channels : ~openable[c] => period[c] = 0

Configured(c) == openable[c] /\ period[c] = Period

(* How far init() has come with a channel.                               *)
ProgressInv ==
    stage = "init" =>
        /\ step >= 1 /\ ~ready /\ ~wasReady
        /\ \A c \in Channels :
              /\ step = ZeroAt(c) + 1 => duty[c] = 0
              /\ step >= ZeroAt(c) + 2 => Configured(c)
              /\ step >= ZeroAt(c) + 3 => duty[c] \in MinDuty..MaxDuty
              /\ step >= ZeroAt(c) + 4 => enabled[c]

(* What holds from init() on.                                            *)
EndInv ==
    /\ stage \in {"run", "release"} => step \in 0..1 /\ (wasReady <=> ready)
    /\ stage = "run" /\ ready => \A c \in Channels : openable[c] /\ Driven(c)
    /\ stage = "release" =>
          /\ ready
          /\ \A c \in Channels : Configured(c)
          /\ step = 1 => ~enabled[Pan]
    /\ stage = "done" /\ wasReady => \A c \in Channels : ~enabled[c]

DriverInv == DriverTypeOK /\ ClosedInv /\ ProgressInv /\ EndInv

-----------------------------------------------------------------------------
(* What init() does, step by step.                                       *)

(* init() does ten things.                                               *)
LEMMA StepsLen == Len(InitSteps) = 10
BY DEF InitSteps, Config

(* Pan is exported and configured before tilt is configured.             *)
LEMMA StepsAre ==
    /\ InitSteps[1] = <<"export", Pan>> /\ InitSteps[2] = <<"export", Tilt>>
    /\ InitSteps[3] = <<"zero", Pan>> /\ InitSteps[4] = <<"period", Pan>>
    /\ InitSteps[5] = <<"centre", Pan>> /\ InitSteps[6] = <<"enable", Pan>>
    /\ InitSteps[7] = <<"zero", Tilt>> /\ InitSteps[8] = <<"period", Tilt>>
    /\ InitSteps[9] = <<"centre", Tilt>> /\ InitSteps[10] = <<"enable", Tilt>>
BY DEF InitSteps, Config

(* A step of init() of a given kind is at its place in the order.        *)
LEMMA AtStepIs ==
    ASSUME NEW c \in Channels, step \in 1..11
    PROVE  /\ AtStep("export", c) => step \in 1..2
           /\ AtStep("zero", c) => step = ZeroAt(c)
           /\ AtStep("period", c) => step = ZeroAt(c) + 1
           /\ AtStep("centre", c) => step = ZeroAt(c) + 2
           /\ AtStep("enable", c) => step = ZeroAt(c) + 3
<1> SUFFICES ASSUME step <= Len(InitSteps)
             PROVE  /\ InitSteps[step] = <<"export", c>> => step \in 1..2
                    /\ InitSteps[step] = <<"zero", c>> => step = ZeroAt(c)
                    /\ InitSteps[step] = <<"period", c>> => step = ZeroAt(c) + 1
                    /\ InitSteps[step] = <<"centre", c>> => step = ZeroAt(c) + 2
                    /\ InitSteps[step] = <<"enable", c>> => step = ZeroAt(c) + 3
  BY DEF AtStep
<1>1. step \in {1, 2, 3, 4, 5, 6, 7, 8, 9, 10}
  BY StepsLen
<1>2. CASE step \in {1, 2}
  BY <1>2, StepsAre
<1>3. CASE step \in {3, 4, 5, 6}
  BY <1>3, StepsAre DEF ZeroAt
<1>4. CASE step \in {7, 8, 9, 10}
  BY <1>4, StepsAre, ChannelsAssumption DEF ZeroAt
<1> QED BY <1>1, <1>2, <1>3, <1>4

(* Whatever angle is asked for, the pulse is within the servo's range.   *)
LEMMA DutyInRange ==
    ASSUME NEW angle \in Int
    PROVE  angleToDutyNs(angle) \in MinDuty..MaxDuty
<1> DEFINE a == IF angle < 0 THEN 0 ELSE IF angle > 180 THEN 180 ELSE angle
<1> DEFINE d == MaxDuty - MinDuty
<1>1. a \in 0..180 /\ d \in Nat
  BY DutyAssumption
<1>2. a * d \in Nat /\ a * d <= 180 * d
  <2> HIDE DEF a, d
  <2> QED BY <1>1
<1>3. \A x \in Nat : x <= 180 * d => (x \div 180) \in 0..d
  <2> HIDE DEF a, d
  <2> QED BY <1>1
<1>4. (a * d) \div 180 \in 0..d
  BY <1>2, <1>3
<1> QED BY <1>1, <1>4, DutyAssumption DEF angleToDutyNs

-----------------------------------------------------------------------------
(* The two halves of DriverTypeOK.                                             *)
KernelOK ==
    /\ exported \in [Channels -> BOOLEAN]
    /\ openable \in [Channels -> BOOLEAN]
    /\ period \in [Channels -> Leftovers \cup {0, Period}]
    /\ duty \in [Channels -> Nat]
    /\ enabled \in [Channels -> BOOLEAN]
    /\ KernelRules
    /\ \A c \in Channels : openable[c] => exported[c]

ProcessOK ==
    /\ stage \in {"off", "init", "run", "release", "done"}
    /\ step \in 0..11
    /\ ready \in BOOLEAN /\ wasReady \in BOOLEAN
    /\ ready => stage \in {"run", "release"}
    /\ target \in Targets \X Targets

(* DriverTypeOK is its halves, before and after a step.                        *)
LEMMA DriverTypeParts ==
    /\ DriverTypeOK <=> KernelOK /\ ProcessOK
    /\ DriverTypeOK' <=> KernelOK' /\ ProcessOK'
<1>1. DriverTypeOK <=> KernelOK /\ ProcessOK
  BY StepsLen DEF DriverTypeOK, KernelOK, ProcessOK
<1>2. DriverTypeOK' <=> KernelOK' /\ ProcessOK'
  BY StepsLen DEF DriverTypeOK, KernelOK, ProcessOK
<1> QED BY <1>1, <1>2

(* A step that writes no file keeps the kernel's half.                   *)
LEMMA KernelKept == KernelOK /\ UNCHANGED kernelVars => KernelOK'
BY DEF KernelOK, KernelRules, kernelVars

(* Whatever period is set or left over is a number.                      *)
LEMMA PeriodsAreNat == KernelOK => \A c \in Channels : period[c] \in Nat
<1>1. Period \in Nat
  BY DutyAssumption
<1>2. \A x \in Leftovers \cup {0, Period} : x \in Nat
  BY <1>1, TargetsAssumption
<1> QED BY <1>2 DEF KernelOK

(* What other users leave obeys the kernel's rules, and nothing is claimed*)
(* of a driver that is off.                                              *)
LEMMA DriverInitInv == DriverInit => DriverInv
<1> SUFFICES ASSUME DriverInit PROVE DriverInv
  OBVIOUS
<1>1. KernelOK
  <2>1. \A c \in Channels : period[c] \in Leftovers \cup {0, Period} /\ duty[c] \in Nat
    <3>1. \A x \in {0} \cup Leftovers : x \in Nat
      BY TargetsAssumption
    <3>2. \A c \in Channels : period[c] \in Leftovers \cup {0}
      BY DEF DriverInit
    <3>3. \A c \in Channels : duty[c] \in {0} \cup Leftovers
      BY DEF DriverInit
    <3> QED BY <3>1, <3>2, <3>3
  <2>2. period \in [Channels -> Leftovers \cup {0, Period}] /\ duty \in [Channels -> Nat]
    BY <2>1 DEF DriverInit
  <2> QED BY <2>2 DEF DriverInit, KernelOK, KernelRules
<1>2. ProcessOK
  <2>1. ready \in BOOLEAN /\ wasReady \in BOOLEAN /\ ~ready
    BY Zenon DEF DriverInit
  <2> QED BY <2>1 DEF DriverInit, ProcessOK
<1>3. DriverTypeOK
  BY <1>1, <1>2, DriverTypeParts
<1> QED BY <1>3 DEF DriverInv, DriverInit, KernelRules, ClosedInv, ProgressInv, EndInv

(* A pulse within the range is accepted once the period is set.          *)
LEMMA WriteDutyKeeps ==
    ASSUME DriverTypeOK, ClosedInv, NEW c \in Channels, NEW d \in Nat,
           WriteDuty(c, d)
    PROVE  /\ duty' \in [Channels -> Nat] /\ KernelRules'
           /\ \A e \in Channels : e # c => duty'[e] = duty[e]
           /\ openable[c] /\ d <= period[c] /\ period[c] > 0 => duty'[c] = d
           /\ UNCHANGED <<exported, openable, period, enabled>>
BY DEF DriverTypeOK, KernelRules, WriteDuty, AcceptsDuty

(* When init() returns false nothing is claimed of the channels.         *)
LEMMA GivesUp ==
    ASSUME ProgressInv, stage = "init", InitFails, DriverTypeOK', ClosedInv'
    PROVE  DriverInv'
<1>1. ~ready' /\ ~wasReady' /\ stage' = "run" /\ step' = 0
  BY DEF ProgressInv, InitFails
<1>2. ProgressInv' /\ EndInv'
  BY <1>1 DEF ProgressInv, EndInv
<1> QED BY <1>2 DEF DriverInv

(* Every write, failure and crash keeps the invariant.                   *)
LEMMA DriverStepInv == DriverInv /\ [DriverNext]_driverVars => DriverInv'
<1> SUFFICES ASSUME DriverInv, [DriverNext]_driverVars PROVE DriverInv'
  OBVIOUS
<1> USE DutyAssumption
<1>0. /\ DriverTypeOK /\ ClosedInv /\ ProgressInv /\ EndInv
      /\ step \in 0..11 /\ (stage = "init" => step \in 1..11)
      /\ Pan \in Channels /\ Tilt \in Channels /\ Pan # Tilt
      /\ \A c \in Channels : ZeroAt(c) \in {3, 7}
  BY StepsLen, ChannelsAssumption DEF DriverInv, DriverTypeOK, ProgressInv, Channels, ZeroAt
<1>1. CASE Starts
  <2>2. KernelOK'
    BY <1>0, <1>1, DriverTypeParts, KernelKept DEF Starts
  <2>3. ready' \in BOOLEAN /\ wasReady' \in BOOLEAN /\ ~ready'
    BY <1>1, Zenon DEF Starts
  <2>4. ProcessOK'
    BY <1>0, <1>1, <2>3, DriverTypeParts DEF ProcessOK, Starts
  <2>1. DriverTypeOK'
    BY <2>2, <2>4, DriverTypeParts
  <2> QED BY <1>0, <1>1, <2>1 DEF DriverInv, Starts, kernelVars, ClosedInv,
             ProgressInv, EndInv, ZeroAt, Configured
<1>2. CASE InitDone
  <2>1. DriverTypeOK'
    BY <1>0, <1>2, StepsLen DEF DriverTypeOK, KernelRules, InitDone, kernelVars
  <2>2. \A c \in Channels : openable[c] /\ Driven(c)
    BY <1>0, <1>2, StepsLen DEF InitDone, ProgressInv, ZeroAt, Driven, Configured
  <2> QED BY <1>0, <1>2, <2>1, <2>2 DEF DriverInv, InitDone, kernelVars, ClosedInv,
             ProgressInv, EndInv, Driven
<1>3. CASE setAngles
  <2>1. angleToDutyNs(target'[1]) \in MinDuty..MaxDuty
    BY <1>3, DutyInRange, TargetsAssumption DEF setAngles
  <2>2. openable[Pan] /\ Driven(Pan)
    BY <1>0, <1>3 DEF setAngles, EndInv
  <2>3. /\ duty' \in [Channels -> Nat] /\ KernelRules'
        /\ duty'[Tilt] = duty[Tilt]
        /\ duty'[Pan] = angleToDutyNs(target'[1])
        /\ UNCHANGED <<exported, openable, period, enabled>>
    BY <1>0, <1>3, <2>1, <2>2, WriteDutyKeeps DEF setAngles, Driven
  <2>4. DriverTypeOK'
    BY <1>0, <1>3, <2>3, StepsLen DEF DriverTypeOK, setAngles
  <2> QED BY <1>0, <1>3, <2>1, <2>3, <2>4 DEF DriverInv, setAngles, ClosedInv,
             ProgressInv, EndInv, Driven, Channels
<1>4. CASE setTilt
  <2>1. angleToDutyNs(target[2]) \in MinDuty..MaxDuty
    BY <1>0, DutyInRange, TargetsAssumption DEF DriverTypeOK
  <2>3. /\ duty' \in [Channels -> Nat] /\ KernelRules'
        /\ duty'[Pan] = duty[Pan]
        /\ openable[Tilt] /\ Driven(Tilt) => duty'[Tilt] \in MinDuty..MaxDuty
        /\ UNCHANGED <<exported, openable, period, enabled>>
    BY <1>0, <1>4, <2>1, WriteDutyKeeps DEF setTilt, Driven
  <2>4. DriverTypeOK'
    BY <1>0, <1>4, <2>3, StepsLen DEF DriverTypeOK, setTilt
  <2> QED BY <1>0, <1>4, <2>3, <2>4 DEF DriverInv, setTilt, ClosedInv,
             ProgressInv, EndInv, Driven, Channels
<1>5. CASE release
  <2>1. DriverTypeOK'
    BY <1>0, <1>5, StepsLen DEF DriverTypeOK, KernelRules, release, kernelVars
  <2> QED BY <1>0, <1>5, <2>1 DEF DriverInv, release, kernelVars, ClosedInv,
             ProgressInv, EndInv, Driven, Configured
<1>6. CASE ReleasePan
  <2>1. DriverTypeOK'
    BY <1>0, <1>6, StepsLen DEF DriverTypeOK, KernelRules, ReleasePan, WriteEnable,
       AcceptsEnable
  <2>2. ~enabled'[Pan]
    BY <1>0, <1>6 DEF DriverTypeOK, EndInv, ReleasePan, WriteEnable, AcceptsEnable,
       Configured
  <2> QED BY <1>0, <1>6, <2>1, <2>2 DEF DriverInv, ReleasePan, WriteEnable, ClosedInv,
             ProgressInv, EndInv, Configured
<1>7. CASE ReleaseTilt
  <2>3. KernelOK'
    BY <1>0, <1>7, DriverTypeParts DEF KernelOK, KernelRules, ReleaseTilt, WriteEnable,
       AcceptsEnable
  <2>5. ready' \in BOOLEAN /\ ~ready'
    BY <1>7, Zenon DEF ReleaseTilt
  <2>4. ProcessOK'
    BY <1>0, <1>7, <2>5, DriverTypeParts DEF ProcessOK, ReleaseTilt
  <2>1. DriverTypeOK'
    BY <2>3, <2>4, DriverTypeParts
  <2>2. ~enabled'[Tilt] /\ ~enabled'[Pan]
    BY <1>0, <1>7 DEF DriverTypeOK, EndInv, ReleaseTilt, WriteEnable, AcceptsEnable,
       Configured
  <2> QED BY <1>0, <1>7, <2>1, <2>2 DEF DriverInv, ReleaseTilt, WriteEnable, ClosedInv,
             ProgressInv, EndInv, Channels
<1>8. CASE Crash
  <2>2. KernelOK'
    BY <1>0, <1>8, DriverTypeParts, KernelKept DEF Crash
  <2>3. ready' \in BOOLEAN /\ wasReady' \in BOOLEAN /\ ~ready'
    BY <1>8, Zenon DEF Crash
  <2>4. ProcessOK'
    BY <1>0, <1>8, <2>3, DriverTypeParts DEF ProcessOK, Crash
  <2>1. DriverTypeOK'
    BY <2>2, <2>4, DriverTypeParts
  <2> QED BY <1>0, <1>8, <2>1 DEF DriverInv, Crash, kernelVars, ClosedInv,
             ProgressInv, EndInv
<1>9. CASE UdevGrants
  <2>1. PICK c \in Channels : /\ exported[c] /\ ~openable[c]
                              /\ openable' = [openable EXCEPT ![c] = TRUE]
    BY <1>9 DEF UdevGrants
  <2>2. DriverTypeOK'
    BY <1>0, <1>9, <2>1, StepsLen DEF DriverTypeOK, KernelRules, UdevGrants, processVars
  <2>3. \A e \in Channels : openable[e] => openable'[e]
    BY <1>0, <2>1 DEF DriverTypeOK
  <2>4. ClosedInv'
    BY <1>0, <1>9, <2>3 DEF ClosedInv, UdevGrants
  <2> QED BY <1>0, <1>9, <2>2, <2>3, <2>4 DEF DriverInv, UdevGrants, processVars,
             ProgressInv, EndInv, Driven, Configured
<1>10. ASSUME NEW c \in Channels, exportChannel(c) PROVE DriverInv'
  <2>1. stage = "init" /\ step \in 1..2
    BY <1>0, <1>10, AtStepIs DEF exportChannel, AtStep
  <2>2. CASE Continues /\ UNCHANGED kernelVars
    <3>1. DriverTypeOK'
      BY <1>0, <2>1, <2>2, StepsLen DEF DriverTypeOK, KernelRules, Continues, kernelVars
    <3> QED BY <1>0, <2>1, <2>2, <3>1 DEF DriverInv, Continues, kernelVars, ClosedInv,
               ProgressInv, EndInv, ZeroAt
  <2>3. CASE InitFails /\ UNCHANGED kernelVars
    <3>1. DriverTypeOK'
      BY <1>0, <2>1, <2>3, StepsLen DEF DriverTypeOK, KernelRules, InitFails, kernelVars
    <3>2. ClosedInv'
      BY <1>0, <2>3 DEF ClosedInv, kernelVars
    <3> QED BY <1>0, <2>1, <2>3, <3>1, <3>2, GivesUp
  <2>4. CASE /\ ~exported[c]
             /\ exported' = [exported EXCEPT ![c] = TRUE]
             /\ openable' \in {openable, [openable EXCEPT ![c] = TRUE]}
             /\ Continues \/ InitFails
             /\ UNCHANGED <<period, duty, enabled>>
    <3>5. KernelOK'
      BY <1>0, <2>4, DriverTypeParts DEF KernelOK, KernelRules
    <3>6. ProcessOK'
      BY <1>0, <2>1, <2>4, DriverTypeParts DEF ProcessOK, Continues, InitFails
    <3>1. DriverTypeOK'
      BY <3>5, <3>6, DriverTypeParts
    <3>2. ClosedInv'
      BY <1>0, <2>4 DEF DriverTypeOK, ClosedInv
    <3>3. CASE Continues
      BY <1>0, <2>1, <2>4, <3>1, <3>2, <3>3 DEF DriverInv, Continues, ProgressInv,
         EndInv, ZeroAt
    <3>4. CASE InitFails
      BY <1>0, <2>1, <3>1, <3>2, <3>4, GivesUp
    <3> QED BY <2>4, <3>3, <3>4
  <2> QED BY <1>10, <2>2, <2>3, <2>4 DEF exportChannel
<1>11. ASSUME NEW c \in Channels, ZeroDuty(c) PROVE DriverInv'
  <2>1. stage = "init" /\ step = ZeroAt(c) /\ step \in 1..10
    BY <1>0, <1>11, AtStepIs, StepsLen DEF ZeroDuty, AtStep
  <2>2. /\ duty' \in [Channels -> Nat] /\ KernelRules'
        /\ \A e \in Channels : e # c => duty'[e] = duty[e]
        /\ openable[c] /\ period[c] > 0 => duty'[c] = 0
        /\ UNCHANGED <<exported, openable, period, enabled>>
    <3>1. WriteDuty(c, 0) /\ 0 \in Nat
      BY <1>11 DEF ZeroDuty
    <3>2. period[c] \in Nat
      BY <1>0, DriverTypeParts, PeriodsAreNat
    <3> HIDE <1>11
    <3> QED BY <1>0, <3>1, <3>2, WriteDutyKeeps
  <2>3. duty'[c] = 0
    <3>1. period[c] \in Nat /\ duty[c] \in Nat /\ duty[c] <= period[c]
      BY <1>0, DriverTypeParts, PeriodsAreNat DEF KernelOK, KernelRules
    <3>2. CASE openable[c] /\ period[c] > 0
      BY <2>2, <3>2
    <3>3. CASE period[c] = 0
      <4>1. duty'[c] <= period'[c] /\ duty'[c] \in Nat /\ period'[c] = 0
        BY <2>2, <3>3 DEF KernelRules
      <4> QED BY <4>1
    <3> QED BY <1>0, <3>1, <3>2, <3>3 DEF ClosedInv
  <2>4. DriverTypeOK'
    BY <1>0, <1>11, <2>1, <2>2, StepsLen DEF DriverTypeOK, ZeroDuty, Continues
  <2>5. ProgressInv'
    BY <1>0, <1>11, <2>1, <2>2, <2>3 DEF ProgressInv, ZeroDuty, Continues, ZeroAt,
       Channels, Configured
  <2> QED BY <1>0, <1>11, <2>1, <2>2, <2>4, <2>5 DEF DriverInv, ZeroDuty, Continues,
             ClosedInv, EndInv
<1>12. ASSUME NEW c \in Channels, SetPeriod(c) PROVE DriverInv'
  <2>1. stage = "init" /\ step = ZeroAt(c) + 1 /\ step \in 1..10
    BY <1>0, <1>12, AtStepIs, StepsLen DEF SetPeriod, AtStep
  <2>2. CASE openable[c] /\ WritePeriod(c) /\ Continues
    <3>1. duty[c] = 0
      BY <1>0, <2>1 DEF ProgressInv
    <3>2. period' = [period EXCEPT ![c] = Period]
      BY <2>2, <3>1 DEF WritePeriod, AcceptsPeriod
    <3>3. DriverTypeOK'
      BY <1>0, <2>1, <2>2, <3>1, <3>2, StepsLen DEF DriverTypeOK, KernelRules,
         WritePeriod, Continues
    <3>4. period'[c] = Period /\ \A e \in Channels : e # c => period'[e] = period[e]
      BY <1>0, <3>2 DEF DriverTypeOK
    <3>5. ClosedInv'
      BY <1>0, <2>2, <3>4 DEF ClosedInv, WritePeriod
    <3>6. ProgressInv'
      BY <1>0, <2>1, <2>2, <3>4 DEF ProgressInv, WritePeriod, Continues, ZeroAt,
         Channels, Configured
    <3> QED BY <1>0, <2>1, <2>2, <3>3, <3>5, <3>6 DEF DriverInv, WritePeriod,
               Continues, EndInv
  <2>3. CASE InitFails /\ UNCHANGED kernelVars
    <3>1. DriverTypeOK'
      BY <1>0, <2>1, <2>3, StepsLen DEF DriverTypeOK, KernelRules, InitFails, kernelVars
    <3>2. ClosedInv'
      BY <1>0, <2>3 DEF ClosedInv, kernelVars
    <3> QED BY <1>0, <2>1, <2>3, <3>1, <3>2, GivesUp
  <2> QED BY <1>12, <2>2, <2>3 DEF SetPeriod
<1>13. ASSUME NEW c \in Channels, Centre(c) PROVE DriverInv'
  <2>1. stage = "init" /\ step = ZeroAt(c) + 2 /\ step \in 1..10
    BY <1>0, <1>13, AtStepIs, StepsLen DEF Centre, AtStep
  <2>2. Configured(c) /\ angleToDutyNs(90) \in MinDuty..MaxDuty
    BY <1>0, <2>1, DutyInRange DEF ProgressInv
  <2>3. /\ duty' \in [Channels -> Nat] /\ KernelRules'
        /\ \A e \in Channels : e # c => duty'[e] = duty[e]
        /\ duty'[c] \in MinDuty..MaxDuty
        /\ UNCHANGED <<exported, openable, period, enabled>>
    BY <1>0, <1>13, <2>2, WriteDutyKeeps DEF Centre, Configured
  <2>4. DriverTypeOK'
    BY <1>0, <1>13, <2>1, <2>3, StepsLen DEF DriverTypeOK, Centre, Continues
  <2>5. ProgressInv'
    BY <1>0, <1>13, <2>1, <2>2, <2>3 DEF ProgressInv, Centre, Continues, ZeroAt,
       Channels, Configured
  <2> QED BY <1>0, <1>13, <2>1, <2>3, <2>4, <2>5 DEF DriverInv, Centre, Continues,
             ClosedInv, EndInv
<1>14. ASSUME NEW c \in Channels, Enable(c) PROVE DriverInv'
  <2>1. stage = "init" /\ step = ZeroAt(c) + 3 /\ step \in 1..10
    BY <1>0, <1>14, AtStepIs, StepsLen DEF Enable, AtStep
  <2>2. Configured(c) /\ duty[c] \in MinDuty..MaxDuty
    BY <1>0, <2>1 DEF ProgressInv
  <2>3. CASE openable[c] /\ WriteEnable(c, TRUE) /\ Continues
    <3>1. enabled' = [enabled EXCEPT ![c] = TRUE]
      BY <2>2, <2>3 DEF WriteEnable, AcceptsEnable, Configured
    <3>2. DriverTypeOK'
      BY <1>0, <2>1, <2>2, <2>3, <3>1, StepsLen DEF DriverTypeOK, KernelRules,
         WriteEnable, Continues, Configured
    <3>3. enabled'[c] /\ \A e \in Channels : e # c => enabled'[e] = enabled[e]
      BY <1>0, <3>1 DEF DriverTypeOK
    <3>4. ProgressInv'
      BY <1>0, <2>1, <2>2, <2>3, <3>3 DEF ProgressInv, WriteEnable, Continues,
         ZeroAt, Channels, Configured
    <3> QED BY <1>0, <2>1, <2>3, <3>2, <3>4 DEF DriverInv, WriteEnable, Continues,
               ClosedInv, EndInv
  <2>4. CASE InitFails /\ UNCHANGED kernelVars
    <3>1. DriverTypeOK'
      BY <1>0, <2>1, <2>4, StepsLen DEF DriverTypeOK, KernelRules, InitFails, kernelVars
    <3>2. ClosedInv'
      BY <1>0, <2>4 DEF ClosedInv, kernelVars
    <3> QED BY <1>0, <2>1, <2>4, <3>1, <3>2, GivesUp
  <2> QED BY <1>14, <2>3, <2>4 DEF Enable
<1>15. CASE UNCHANGED driverVars
  <2>1. DriverTypeOK'
    BY <1>0, <1>15, StepsLen DEF DriverTypeOK, KernelRules, driverVars, kernelVars, processVars
  <2> QED BY <1>0, <1>15, <2>1 DEF DriverInv, driverVars, kernelVars, processVars, ClosedInv,
             ProgressInv, EndInv, Driven, Configured
<1> QED BY <1>1, <1>2, <1>3, <1>4, <1>5, <1>6, <1>7, <1>8, <1>9, <1>10, <1>11,
           <1>12, <1>13, <1>14, <1>15 DEF DriverNext

(* Hence it always holds.                                                *)
LEMMA DriverInductive == DriverSpec => []DriverInv
BY DriverInitInv, DriverStepInv, PTL DEF DriverSpec

(* The files and the driver's state have their types, and the kernel's   *)
(* rules hold, for every period, range of pulses and leftover.           *)
THEOREM ServoTypes == DriverSpec => []DriverTypeOK
<1>1. DriverInv => DriverTypeOK
  BY DEF DriverInv
<1> QED BY <1>1, DriverInductive, PTL

(* A driver that init() reports ready drives both servos with the period *)
(* of the configuration and a pulse within the range, from whatever state*)
(* of the PWM files it started; after release() neither is driven        *)
(* (ServoController::init, setAngles, release).                          *)
THEOREM ReadyMeansDriven == DriverSpec => []ReadyIsDriven
<1>1. DriverInv => ReadyIsDriven
  BY DEF DriverInv, EndInv, ReadyIsDriven
<1> QED BY <1>1, DriverInductive, PTL
=============================================================================
