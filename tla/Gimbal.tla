------------------------------- MODULE Gimbal -------------------------------
(***************************************************************************)
(* The gimbal control loop of the terminal.  Client sessions push commands *)
(* on the CommandQueue; the vision thread (app/VisionThread.cpp) writes    *)
(* each detection to TrackingState; the business thread                    *)
(* (app/BusinessThread.cpp) drains the queue, corrects the angles kept by  *)
(* PanTiltTracker, drives the servo and publishes its status.              *)
(*                                                                         *)
(* The camera sits on the gimbal, so what the vision thread sees depends   *)
(* on where the servo points; the face moves as it likes.  Angles and      *)
(* errors are integers of a fine enough unit.  Time is kept as what is     *)
(* left of a manual override, in units of one clock step.                  *)
(*                                                                         *)
(* Definitions named Mut... are variants with a plausible mistake that no  *)
(* specification uses.                                                     *)
(***************************************************************************)
EXTENDS Integers, Sequences

CONSTANTS
    Axes,          \* pan and tilt
    Lo, Hi, Home,  \* Config::panMinAngle, panMaxAngle, panHome and tilt's
    Sign, Gain,    \* Config::panSign, trackGainPan and tilt's
    Deadzone,      \* Config::trackDeadzonePx
    MaxStep,       \* Config::trackMaxStepDeg
    Override,      \* Config::manualOverrideMs
    Sessions,      \* client sessions
    Orders,        \* the commands a client may send
    Places,        \* where the face may be, as angles of the gimbal
    Nowhere,       \* no face
    Pixel,         \* angle between two pixels of the camera
    HalfFrame,     \* pixels from the centre of the frame to its edge
    MaxSent,       \* bound: commands one session sends while we look
    TicksPerFrame  \* bound: control ticks while a frame is being processed

Angles == [Axes -> Int]

(* A command: "step" and "abs" carry angles, "mode" carries autoTrack.     *)
Order == [kind : {"step", "abs", "mode"}, to : Angles, auto : BOOLEAN]

ASSUME RangeAssumption ==
    /\ Lo \in Angles /\ Hi \in Angles /\ Home \in Angles
    /\ \A a \in Axes : Lo[a] <= Home[a] /\ Home[a] <= Hi[a]
ASSUME TrackerAssumption ==
    /\ Sign \in Angles /\ Gain \in Angles
    /\ Deadzone \in Nat /\ MaxStep \in Nat
ASSUME CommandAssumption ==
    /\ Override \in Nat
    /\ Orders \subseteq Order
    /\ MaxSent \in Nat
ASSUME ViewAssumption ==
    /\ Places \subseteq Angles /\ Nowhere \notin Angles
    /\ Pixel \in Nat \ {0} /\ HalfFrame \in Nat
    /\ TicksPerFrame \in Nat \ {0}

VARIABLES
    face,     \* where the face is
    camera,   \* grab() succeeds
    vpc,      \* where the vision thread is
    shot,     \* the detection in the frame being processed
    track,    \* TrackingState::s_: the last detection's error, or Nowhere
    age,      \* control ticks since the last frame, and see Blind
    queue,    \* CommandQueue::q_
    sent,     \* number of commands each session has pushed
    done,     \* number of commands of each session that took effect
    bpc,      \* where the business thread is
    mode,     \* autoEnabled
    hold,     \* what is left until manualUntil; 0: it has passed
    angles,   \* PanTiltTracker::pan_, tilt_
    auto,     \* effectiveAuto of this tick
    servo,    \* the angles last given to the servo
    status,   \* StatusBoard::autoTrack, panAngle, tiltAngle
    stop,     \* ~running() of the business thread
    byHand,   \* history: a manual command since the last servo write
    quiet     \* history: time since the last manual command, at most Override

viewVars == <<face, camera>>
visionVars == <<vpc, shot, track>>
clientVars == <<queue, sent>>
loopVars == <<mode, angles, auto, servo, status>>
vars == <<viewVars, visionVars, age, clientVars, done, bpc, loopVars, hold,
          stop, byHand, quiet>>

(* While frames arrive, at most TicksPerFrame control ticks go by between   *)
(* two of them.  A failed grab() lifts age over that; at Blind, more than   *)
(* TicksPerFrame ticks have gone by since then.                             *)
Blind == 2 * TicksPerFrame + 2

BPC == {"drain", "update", "write", "report", "sleep", "stopped"}
Entry == [order : Order, by : Sessions, num : Nat]

TypeOK ==
    /\ face \in Places \cup {Nowhere} /\ camera \in BOOLEAN
    /\ vpc \in {"grab", "detect"}
    /\ shot \in Angles \cup {Nowhere} /\ track \in Angles \cup {Nowhere}
    /\ age \in 0..Blind
    /\ queue \in Seq(Entry)
    /\ sent \in [Sessions -> 0..MaxSent] /\ done \in [Sessions -> 0..MaxSent]
    /\ bpc \in BPC
    /\ mode \in BOOLEAN /\ auto \in BOOLEAN /\ stop \in BOOLEAN
    /\ hold \in 0..Override /\ quiet \in 0..Override
    /\ angles \in Angles /\ servo \in Angles
    /\ status \in [auto : BOOLEAN, at : Angles]
    /\ byHand \in BOOLEAN

Init ==
    /\ face \in Places \cup {Nowhere} /\ camera = TRUE
    /\ vpc = "grab" /\ shot = Nowhere /\ track = Nowhere /\ age = 0
    /\ queue = << >>
    /\ sent = [s \in Sessions |-> 0] /\ done = [s \in Sessions |-> 0]
    /\ bpc = "drain" /\ mode = TRUE /\ hold = 0
    /\ angles = Home /\ auto = TRUE /\ servo = Home
    /\ status = [auto |-> TRUE, at |-> Home]
    /\ stop = FALSE /\ byHand = FALSE /\ quiet = Override

-----------------------------------------------------------------------------
(* The world: the face, the camera, the clock and main.                    *)

FaceMoves ==
    /\ face' \in (Places \cup {Nowhere}) \ {face}
    /\ UNCHANGED <<camera, visionVars, age, clientVars, done, bpc, loopVars,
                   hold, stop, byHand, quiet>>

CameraChanges ==
    /\ camera' = ~camera
    /\ UNCHANGED <<face, visionVars, age, clientVars, done, bpc, loopVars,
                   hold, stop, byHand, quiet>>

TimePasses ==
    /\ hold > 0 \/ quiet < Override
    /\ hold' = IF hold > 0 THEN hold - 1 ELSE 0
    /\ quiet' = IF quiet < Override THEN quiet + 1 ELSE Override
    /\ UNCHANGED <<viewVars, visionVars, age, clientVars, done, bpc, loopVars,
                   stop, byHand>>

Stop ==
    /\ ~stop
    /\ stop' = TRUE
    /\ UNCHANGED <<viewVars, visionVars, age, clientVars, done, bpc, loopVars,
                   hold, byHand, quiet>>

-----------------------------------------------------------------------------
(* The vision thread.                                                      *)

Abs(x) == IF x < 0 THEN -x ELSE x
InPixels(d) == IF d < 0 THEN -((-d) \div Pixel) ELSE d \div Pixel

(* What the camera shows: the face's offset from the centre of the frame.  *)
Offset(at, p) == [a \in Axes |-> Sign[a] * InPixels(p[a] - at[a])]
InFrame(e) == \A a \in Axes : Abs(e[a]) <= HalfFrame
Seen == IF face = Nowhere \/ ~InFrame(Offset(servo, face))
          THEN Nowhere ELSE Offset(servo, face)

Grab ==
    /\ vpc = "grab" /\ camera
    /\ shot' = Seen
    /\ age' = 0
    /\ vpc' = "detect"
    /\ UNCHANGED <<viewVars, track, clientVars, done, bpc, loopVars, hold,
                   stop, byHand, quiet>>

(* A failed grab(): the loop sleeps and tries again; the last detection    *)
(* stays.                                                                  *)
GrabFails ==
    /\ vpc = "grab" /\ ~camera
    /\ age' = IF age <= TicksPerFrame THEN TicksPerFrame + 1 ELSE age
    /\ UNCHANGED <<viewVars, visionVars, clientVars, done, bpc, loopVars, hold,
                   stop, byHand, quiet>>

(* detect() has looked at the frame: TrackingState::update.                *)
Detect ==
    /\ vpc = "detect"
    /\ track' = shot
    /\ vpc' = "grab"
    /\ UNCHANGED <<viewVars, shot, age, clientVars, done, bpc, loopVars, hold,
                   stop, byHand, quiet>>

-----------------------------------------------------------------------------
(* Client sessions: CommandQueue::push.                                    *)

Item(s, o) == [order |-> o, by |-> s, num |-> sent[s] + 1]

MutPush(s, o) ==  \* newest command first
    /\ sent[s] < MaxSent
    /\ queue' = <<Item(s, o)>> \o queue
    /\ sent' = [sent EXCEPT ![s] = @ + 1]
    /\ UNCHANGED <<viewVars, visionVars, age, done, bpc, loopVars, hold, stop,
                   byHand, quiet>>

Push(s, o) ==
    /\ sent[s] < MaxSent
    /\ queue' = Append(queue, Item(s, o))
    /\ sent' = [sent EXCEPT ![s] = @ + 1]
    /\ UNCHANGED <<viewVars, visionVars, age, done, bpc, loopVars, hold, stop,
                   byHand, quiet>>

-----------------------------------------------------------------------------
(* PanTiltTracker.                                                         *)

Clamp(x, lo, hi) == IF x < lo THEN lo ELSE IF x > hi THEN hi ELSE x

MutWithin(at) == [a \in Axes |-> IF at[a] < Lo[a] THEN Lo[a] ELSE at[a]]

Within(at) == [a \in Axes |-> Clamp(at[a], Lo[a], Hi[a])]

Nudged(by) == Within([a \in Axes |-> angles[a] + by[a]])

MutTowards(e, a) ==   \* a whole step towards the face, however near it is
    IF Abs(e[a]) > Deadzone
      THEN Sign[a] * (IF e[a] > 0 THEN MaxStep ELSE -MaxStep)
      ELSE 0

Correction(e, a) ==
    IF Abs(e[a]) > Deadzone
      THEN Clamp(Sign[a] * Gain[a] * e[a], -MaxStep, MaxStep)
      ELSE 0

(* updateAuto(): without a face the position is held.                      *)
Corrected(e) ==
    IF e = Nowhere THEN angles
    ELSE Within([a \in Axes |-> angles[a] + Correction(e, a)])

-----------------------------------------------------------------------------
(* The business thread.                                                    *)

(* tryPop() returns a command and the switch applies it.                   *)
Take(kind) ==
    /\ bpc = "drain" /\ queue # << >>
    /\ Head(queue).order.kind = kind
    /\ queue' = Tail(queue)
    /\ done' = [done EXCEPT ![Head(queue).by] = @ + 1]
    /\ UNCHANGED <<viewVars, visionVars, age, sent, bpc, auto, servo, status, stop>>

MutTakeManual ==  \* an absolute set does not start an override
    \/ /\ Take("step")
       /\ angles' = Nudged(Head(queue).order.to)
       /\ hold' = Override /\ quiet' = 0 /\ byHand' = TRUE
       /\ UNCHANGED mode
    \/ /\ Take("abs")
       /\ angles' = Within(Head(queue).order.to)
       /\ quiet' = 0 /\ byHand' = TRUE
       /\ UNCHANGED <<mode, hold>>

TakeManual ==
    /\ \/ Take("step") /\ angles' = Nudged(Head(queue).order.to)
       \/ Take("abs") /\ angles' = Within(Head(queue).order.to)
    /\ hold' = Override
    /\ quiet' = 0 /\ byHand' = TRUE
    /\ UNCHANGED mode

MutTakeMode ==  \* an override is left to run out
    /\ Take("mode")
    /\ mode' = Head(queue).order.auto
    /\ quiet' = IF mode' THEN Override ELSE quiet
    /\ UNCHANGED <<hold, angles, byHand>>

(* Switching tracking on cancels an override.                              *)
TakeMode ==
    /\ Take("mode")
    /\ mode' = Head(queue).order.auto
    /\ IF mode' THEN hold' = 0 /\ quiet' = Override
                ELSE UNCHANGED <<hold, quiet>>
    /\ UNCHANGED <<angles, byHand>>

MutDrained == FALSE  \* a pop that waits for a command

(* tryPop() finds the queue empty.                                         *)
Drained ==
    /\ bpc = "drain" /\ queue = << >>
    /\ bpc' = "update"
    /\ UNCHANGED <<viewVars, visionVars, age, clientVars, done, loopVars, hold,
                   stop, byHand, quiet>>

MutEffectiveAuto == auto /\ mode /\ hold = 0   \* once manual, always manual

EffectiveAuto == mode /\ hold = 0

(* The override is checked and the latest detection applied.               *)
Update ==
    /\ bpc = "update"
    /\ age # TicksPerFrame
    /\ auto' = EffectiveAuto
    /\ angles' = IF auto' THEN Corrected(track) ELSE angles
    /\ age' = IF age < Blind THEN age + 1 ELSE age
    /\ bpc' = "write"
    /\ UNCHANGED <<viewVars, visionVars, clientVars, done, mode, servo, status,
                   hold, stop, byHand, quiet>>

SetAngles ==
    /\ bpc = "write"
    /\ servo' = angles
    /\ byHand' = FALSE
    /\ bpc' = "report"
    /\ UNCHANGED <<viewVars, visionVars, age, clientVars, done, mode, angles,
                   auto, status, hold, stop, quiet>>

(* The three stores to the status board; only the overlay reads them.      *)
Report ==
    /\ bpc = "report"
    /\ status' = [auto |-> auto, at |-> angles]
    /\ bpc' = "sleep"
    /\ UNCHANGED <<viewVars, visionVars, age, clientVars, done, mode, angles,
                   auto, servo, hold, stop, byHand, quiet>>

(* The head of the loop: running().                                        *)
Wake ==
    /\ bpc = "sleep"
    /\ bpc' = IF stop THEN "stopped" ELSE "drain"
    /\ UNCHANGED <<viewVars, visionVars, age, clientVars, done, loopVars, hold,
                   stop, byHand, quiet>>

Business ==
    TakeManual \/ TakeMode \/ Drained \/ Update \/ SetAngles \/ Report \/ Wake
Vision == Grab \/ GrabFails \/ Detect
World == FaceMoves \/ CameraChanges \/ TimePasses \/ Stop

Next ==
    \/ World \/ Vision \/ Business
    \/ \E s \in Sessions, o \in Orders : Push(s, o)

Spec == Init /\ [][Next]_vars

(* Both threads loop with bounded sleeps, and the clock runs.              *)
FairSpec ==
    /\ Spec
    /\ WF_vars(Business)
    /\ WF_vars(Vision)
    /\ WF_vars(TimePasses)

-----------------------------------------------------------------------------
InRange(at) == \A a \in Axes : Lo[a] <= at[a] /\ at[a] <= Hi[a]
Near(at1, at2, d) == \A a \in Axes : Abs(at1[a] - at2[a]) <= d

(* Whatever clients send and the camera sees, the servo and the tracker    *)
(* stay within the mechanical limits of Config (PanTiltTracker.cpp clamps  *)
(* in every operation).                                                    *)
StaysInLimits == InRange(angles) /\ InRange(servo) /\ InRange(status.at)

(* The queue loses, repeats and reorders nothing: of every session it      *)
(* holds exactly the commands that have not taken effect, in the order in  *)
(* which the session sent them (CommandQueue, BusinessThread's drain).     *)
CommandsInTurn ==
    /\ \A s \in Sessions :
         \A n \in 1..MaxSent :
            (done[s] < n /\ n <= sent[s]) <=>
                (\E i \in 1..Len(queue) : queue[i].by = s /\ queue[i].num = n)
    /\ \A i, j \in 1..Len(queue) :
         i < j /\ queue[i].by = queue[j].by => queue[i].num < queue[j].num

(* The servo moves without a manual command only when the tracker is on    *)
(* and no manual command took effect during the override time before, and  *)
(* then by no more than MaxStep (BusinessThread.cpp:44, PanTiltTracker's   *)
(* step clamp).                                                            *)
AutoKeepsOut ==
    [][servo' # servo /\ ~byHand => auto /\ quiet = Override]_servo
AutoMovesGently ==
    [][~byHand => Near(servo', servo, MaxStep)]_servo

(* An override lasts no longer than the override time, and switching       *)
(* tracking on ends it at once (BusinessThread.cpp:39 and :44).            *)
OverrideEnds ==
    [][bpc = "update" /\ mode /\ quiet = Override => auto']_bpc

(* What the overlay shows after a tick is what the loop did: the angles    *)
(* are the servo's, and AUTO is not shown while tracking is switched off   *)
(* or overridden (BusinessThread.cpp:49).                                  *)
StatusIsTrue ==
    bpc \in {"sleep", "stopped"} =>
        /\ status.at = servo
        /\ status.auto => mode
        /\ status.auto => hold = 0

(* "then auto-tracking resumes": unless tracking is switched off, a manual *)
(* override ends, and the overlay says so.                                 *)
AutoResumes == (mode /\ hold > 0) ~> (status.auto \/ ~mode \/ stop)

(* A stopped loop ends, whatever is queued (StoppableThread::join in main).*)
LoopStops == stop ~> (bpc = "stopped")

(* The corrections lead to the face: once it stands still in view of a     *)
(* working camera and tracking is on, the error stays in the deadzone or   *)
(* the axis is at its limit.  It holds only while the gain times the ticks *)
(* that apply one detection stay below what a pixel is worth               *)
(* (BusinessThread.cpp:45 applies a detection until the next one comes):   *)
(* beyond that the gimbal swings around the face for ever.                 *)
Settled(p) ==
    \A a \in Axes :
        \/ Abs(Offset(servo, p)[a]) <= Deadzone
        \/ servo[a] = Hi[a] /\ p[a] > Hi[a]
        \/ servo[a] = Lo[a] /\ p[a] < Lo[a]
Settles ==
    \A p \in Places :
        <>[](face = p /\ Seen # Nowhere /\ camera /\ mode /\ ~stop)
            => <>[]Settled(p)

(* "Holds position when no face is present" (PanTiltTracker.h:3): when the *)
(* camera has been failing for longer than a frame takes and no face is    *)
(* there, tracking does not move the gimbal.                               *)
HoldsWithoutFace ==
    [][bpc = "update" /\ face = Nowhere /\ age = Blind
         => angles' = angles]_angles
=============================================================================
