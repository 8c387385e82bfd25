------------------------------ MODULE ServoPwm ------------------------------
(***************************************************************************)
(* The servo driver (servo/ServoController.cpp) over the PWM files of      *)
(* sysfs, as main() uses it: init() at the start, setAngles() from the     *)
(* business loop, release() at the end, or a crash anywhere in between.    *)
(* The kernel keeps what was written to it when the process is gone, and a *)
(* new run of the program finds it there.                                  *)
(*                                                                         *)
(* stdio buffers what writeStr() writes: a value that the kernel refuses   *)
(* is refused in fclose(), whose result nobody looks at.  writeStr() fails *)
(* only if the file cannot be opened.                                      *)
(*                                                                         *)
(* MutConfig is a variant with a plausible mistake that no specification   *)
(* uses.                                                                   *)
(***************************************************************************)
EXTENDS Integers, Sequences

CONSTANTS
    Pan, Tilt,  \* the two channels
    Period,     \* periodNs_
    MinDuty,    \* minDutyNs_: pulse at 0 degrees
    MaxDuty,    \* maxDutyNs_: pulse at 180 degrees
    Targets,    \* angles the tracker asks for, in degrees
    Leftovers   \* periods other programs, or other settings, have left

Channels == {Pan, Tilt}

ASSUME ChannelsAssumption == Pan # Tilt
ASSUME DutyAssumption ==
    /\ {Period, MinDuty, MaxDuty} \subseteq Nat
    /\ 0 < MinDuty /\ MinDuty <= MaxDuty /\ MaxDuty <= Period
ASSUME TargetsAssumption == Targets \subseteq Int /\ Leftovers \subseteq Nat

VARIABLES
    exported, \* exported[c]: pwm<c> exists
    openable, \* openable[c]: its files may be opened for writing
    period,   \* period[c], 0 until it is set
    duty,     \* duty[c]
    enabled,  \* enabled[c]
    stage,    \* "off", "init", "run", "release", "done" (an orderly end)
    step,     \* the next entry of InitSteps, or of the current pair of writes
    ready,    \* ServoController::ready_
    target,   \* the angles of the setAngles() under way
    wasReady  \* history: this run of the program had ready_ set

kernelVars == <<exported, openable, period, duty, enabled>>
processVars == <<stage, step, ready, target, wasReady>>
driverVars == <<kernelVars, processVars>>

(* What the kernel makes sure of.                                          *)
KernelRules ==
    \A c \in Channels :
        /\ duty[c] <= period[c]
        /\ enabled[c] => exported[c] /\ period[c] > 0
        /\ ~exported[c] => period[c] = 0

(* A channel nobody has exported is as the kernel set it up; an exported   *)
(* one is as its last user left it.                                        *)
DriverInit ==
    /\ exported \in [Channels -> BOOLEAN]
    /\ openable = exported
    /\ period \in [Channels -> Leftovers \cup {0}]
    /\ duty \in [Channels -> {0} \cup Leftovers]
    /\ enabled \in [Channels -> BOOLEAN]
    /\ KernelRules
    /\ stage = "off" /\ step = 0
    /\ ready = FALSE /\ wasReady = FALSE
    /\ target \in Targets \X Targets

-----------------------------------------------------------------------------
(* The kernel.                                                             *)

AcceptsDuty(c, d) == period[c] > 0 /\ d <= period[c]
AcceptsPeriod(c, p) == p > 0 /\ duty[c] <= p
AcceptsEnable(c) == period[c] > 0

WriteDuty(c, d) ==
    /\ duty' = IF openable[c] /\ AcceptsDuty(c, d)
               THEN [duty EXCEPT ![c] = d] ELSE duty
    /\ UNCHANGED <<exported, openable, period, enabled>>

WritePeriod(c) ==
    /\ period' = IF AcceptsPeriod(c, Period)
                 THEN [period EXCEPT ![c] = Period] ELSE period
    /\ UNCHANGED <<exported, openable, duty, enabled>>

WriteEnable(c, on) ==
    /\ enabled' = IF openable[c] /\ AcceptsEnable(c)
                  THEN [enabled EXCEPT ![c] = on] ELSE enabled
    /\ UNCHANGED <<exported, openable, period, duty>>

(* udev makes the files of a new channel writable some time after they     *)
(* appear.                                                                 *)
UdevGrants ==
    /\ \E c \in Channels :
          /\ exported[c] /\ ~openable[c]
          /\ openable' = [openable EXCEPT ![c] = TRUE]
    /\ UNCHANGED <<exported, period, duty, enabled, processVars>>

-----------------------------------------------------------------------------
(* init().                                                                 *)

angleToDutyNs(angle) ==
    LET a == IF angle < 0 THEN 0 ELSE IF angle > 180 THEN 180 ELSE angle
    IN  MinDuty + (a * (MaxDuty - MinDuty)) \div 180

MutConfig(c) == << <<"period", c>>, <<"centre", c>>, <<"enable", c>> >>
Config(c) == << <<"zero", c>>, <<"period", c>>, <<"centre", c>>, <<"enable", c>> >>

InitSteps ==
    << <<"export", Pan>>, <<"export", Tilt>> >> \o Config(Pan) \o Config(Tilt)

Starts ==
    /\ stage \in {"off", "done"}
    /\ stage' = "init" /\ step' = 1
    /\ ready' = FALSE /\ wasReady' = FALSE
    /\ UNCHANGED <<kernelVars, target>>

(* The step of init() that comes next, if it is of this kind.              *)
AtStep(what, c) ==
    stage = "init" /\ step <= Len(InitSteps) /\ InitSteps[step] = <<what, c>>

Continues == step' = step + 1 /\ UNCHANGED <<stage, ready, target, wasReady>>

(* init() returns false; main() logs it and goes on without the gimbal.    *)
InitFails ==
    /\ stage' = "run" /\ step' = 0
    /\ UNCHANGED <<ready, target, wasReady>>

(* The directory may appear late, or not in the 200 ms it is waited for.   *)
exportChannel(c) ==
    /\ AtStep("export", c)
    /\ \/ exported[c] /\ Continues /\ UNCHANGED kernelVars
       \/ /\ ~exported[c]
          /\ exported' = [exported EXCEPT ![c] = TRUE]
          /\ openable' \in {openable, [openable EXCEPT ![c] = TRUE]}
          /\ Continues \/ InitFails
          /\ UNCHANGED <<period, duty, enabled>>
       \/ /\ ~exported[c]   \* the chip is not there
          /\ InitFails
          /\ UNCHANGED kernelVars

(* The results of these two writes are not looked at.                      *)
ZeroDuty(c) == AtStep("zero", c) /\ WriteDuty(c, 0) /\ Continues
Centre(c) == AtStep("centre", c) /\ WriteDuty(c, angleToDutyNs(90)) /\ Continues

SetPeriod(c) ==
    /\ AtStep("period", c)
    /\ \/ openable[c] /\ WritePeriod(c) /\ Continues
       \/ ~openable[c] /\ InitFails /\ UNCHANGED kernelVars

Enable(c) ==
    /\ AtStep("enable", c)
    /\ \/ openable[c] /\ WriteEnable(c, TRUE) /\ Continues
       \/ ~openable[c] /\ InitFails /\ UNCHANGED kernelVars

InitDone ==
    /\ stage = "init" /\ step = Len(InitSteps) + 1
    /\ stage' = "run" /\ step' = 0
    /\ ready' = TRUE /\ wasReady' = TRUE
    /\ UNCHANGED <<kernelVars, target>>

-----------------------------------------------------------------------------
(* setAngles(): pan, then tilt.                                            *)
setAngles ==
    /\ stage = "run" /\ ready /\ step = 0
    /\ target' \in Targets \X Targets
    /\ WriteDuty(Pan, angleToDutyNs(target'[1]))
    /\ step' = 1
    /\ UNCHANGED <<stage, ready, wasReady>>

setTilt ==
    /\ stage = "run" /\ step = 1
    /\ WriteDuty(Tilt, angleToDutyNs(target[2]))
    /\ step' = 0
    /\ UNCHANGED <<stage, ready, target, wasReady>>

-----------------------------------------------------------------------------
(* The orderly end, of main() or of a start that fails for another reason: *)
(* release(), which has nothing to do unless ready_.                       *)
release ==
    /\ stage = "run" /\ step = 0
    /\ IF ready THEN stage' = "release" ELSE stage' = "done"
    /\ step' = 0
    /\ UNCHANGED <<kernelVars, ready, target, wasReady>>

ReleasePan ==
    /\ stage = "release" /\ step = 0
    /\ WriteEnable(Pan, FALSE)
    /\ step' = 1
    /\ UNCHANGED <<stage, ready, target, wasReady>>

ReleaseTilt ==
    /\ stage = "release" /\ step = 1
    /\ WriteEnable(Tilt, FALSE)
    /\ stage' = "done" /\ step' = 0 /\ ready' = FALSE
    /\ UNCHANGED <<target, wasReady>>

(* The process is killed, or crashes.                                      *)
Crash ==
    /\ stage \in {"init", "run", "release"}
    /\ stage' = "off" /\ step' = 0 /\ ready' = FALSE /\ wasReady' = FALSE
    /\ UNCHANGED <<kernelVars, target>>

DriverNext ==
    \/ Starts \/ InitDone \/ setAngles \/ setTilt
    \/ release \/ ReleasePan \/ ReleaseTilt \/ Crash \/ UdevGrants
    \/ \E c \in Channels :
          exportChannel(c) \/ ZeroDuty(c) \/ SetPeriod(c) \/ Centre(c) \/ Enable(c)

DriverSpec == DriverInit /\ [][DriverNext]_driverVars

-----------------------------------------------------------------------------
(* The state has its types, the kernel's files obey its rules, and ready_  *)
(* is set from the end of init() to the end of release() only              *)
(* (ServoController::ready_).                                              *)
DriverTypeOK ==
    /\ exported \in [Channels -> BOOLEAN]
    /\ openable \in [Channels -> BOOLEAN]
    /\ period \in [Channels -> Leftovers \cup {0, Period}]
    /\ duty \in [Channels -> Nat]
    /\ enabled \in [Channels -> BOOLEAN]
    /\ KernelRules
    /\ \A c \in Channels : openable[c] => exported[c]
    /\ stage \in {"off", "init", "run", "release", "done"}
    /\ step \in 0..(Len(InitSteps) + 1)
    /\ ready \in BOOLEAN /\ wasReady \in BOOLEAN
    /\ ready => stage \in {"run", "release"}
    /\ target \in Targets \X Targets

Driven(c) ==
    /\ enabled[c] /\ period[c] = Period
    /\ duty[c] \in MinDuty..MaxDuty

(* What the driver believes is what the hardware does, though it learns of *)
(* no value the kernel refuses: while ready_ is set both servos get pulses *)
(* of the right length and period, whatever an earlier run or another      *)
(* program has left behind, and after an orderly end of a run that was     *)
(* ready none does (ServoController::configChannel, release).              *)
ReadyIsDriven ==
    /\ stage = "run" /\ ready => \A c \in Channels : Driven(c)
    /\ stage = "done" /\ wasReady => \A c \in Channels : ~enabled[c]
=============================================================================
