------------------------------ MODULE Captures ------------------------------
(***************************************************************************)
(* The capture directory (file/FileManager.cpp): snapshots, lists, reads   *)
(* and deletions by sessions and by the detached threads of automatic      *)
(* snapshots, under one mutex; the two clocks a snapshot's name is made    *)
(* of; failing writes and a process that ends in the middle of one.        *)
(* imwrite() opens the file, which empties it, and writes it part by part. *)
(* Definitions named Mut... are variants with a plausible mistake that no  *)
(* specification uses.                                                     *)
(***************************************************************************)
EXTENDS Integers

CONSTANTS
    Callers,  \* threads that use the directory
    NoCaller, \* the mutex is free
    Ms,       \* milliseconds in a second
    Phase,    \* the steady clock's milliseconds where a second begins
    Parts,    \* parts in which a picture is written
    MaxTime,  \* bound: milliseconds watched
    MaxPics   \* bound: pictures taken

ASSUME CallersAssumption == NoCaller \notin Callers
ASSUME ClockAssumption == Ms \in Nat \ {0} /\ Phase \in 0..(Ms - 1)
ASSUME BoundsAssumption ==
    Parts \in Nat \ {0} /\ MaxTime \in Nat /\ MaxPics \in Nat

VARIABLES
    disk,   \* disk[n]: the file under that name, with the parts that are there
    mutex,  \* m_: its owner
    pc,     \* pc[c]: "idle", "named", "enter", "writing", "reading"
    call,   \* call[c]: the call under way
    reply,  \* reply[c]: what its last call returned, if it is idle
    now,    \* milliseconds
    pics,   \* pictures taken
    taken,  \* history: the names that were made, and when
    old     \* history: what the file being written has replaced

vars == <<disk, mutex, pc, call, reply, now, pics, taken, old>>

(* A name is the second of the wall clock and the steady clock's           *)
(* milliseconds.                                                           *)
Second(t) == (t + Ms - Phase) \div Ms
Names == (0..Second(MaxTime)) \X (0..(Ms - 1))
NoName == << >>

OnDisk == [pic : 0..MaxPics, parts : 0..Parts]
Nothing == [pic |-> 0, parts |-> 0]
There(n) == disk[n] # Nothing
NoCall == [op |-> "none", name |-> NoName, pic |-> 0, second |-> 0, size |-> 0]

(* What the callers see of it: a file that is being written is not there   *)
(* yet, and the name of a snapshot is not theirs to know.                  *)
Picture(f) == [pic |-> f.pic, whole |-> f.pic > 0 /\ f.parts = Parts]
Visible(n) ==
    IF mutex # NoCaller /\ pc[mutex] = "writing" /\ call[mutex].name = n
    THEN old ELSE disk[n]
Stored == [n \in Names |-> Picture(Visible(n))]
AskedBy(c) ==
    IF pc[c] = "idle" THEN [op |-> "none", name |-> NoName, pic |-> 0]
    ELSE [op |-> call[c].op, pic |-> call[c].pic,
          name |-> IF call[c].op = "snapshot" THEN NoName ELSE call[c].name]
Asked == [c \in Callers |-> AskedBy(c)]

Store == INSTANCE CaptureStore WITH store <- Stored, asked <- Asked

Init ==
    /\ disk = [n \in Names |-> Nothing]
    /\ mutex = NoCaller
    /\ pc = [c \in Callers |-> "idle"]
    /\ call = [c \in Callers |-> NoCall]
    /\ reply = [c \in Callers |-> Store!NoReply]
    /\ now = 0 /\ pics = 0
    /\ taken = {} /\ old = Nothing

-----------------------------------------------------------------------------
Goes(c, place) == pc' = [pc EXCEPT ![c] = place]
Calls(c, op, n, pic) ==
    /\ call' = [call EXCEPT ![c] = [op |-> op, name |-> n, pic |-> pic,
                                    second |-> Second(now), size |-> 0]]
    /\ reply' = [reply EXCEPT ![c] = Store!NoReply]
Returns(c, is, names, file) ==
    /\ Goes(c, "idle") /\ call' = [call EXCEPT ![c] = NoCall]
    /\ reply' = [reply EXCEPT ![c] = [is |-> is, names |-> names,
                                      file |-> file]]
ReturnsOnly(c, is) == Returns(c, is, {}, Store!NoFile)

(* snapshot(): the wall clock is read, then the steady one.                *)
ReadsWallClock(c) ==
    /\ pc[c] = "idle" /\ pics < MaxPics
    /\ pics' = pics + 1
    /\ Calls(c, "snapshot", NoName, pics + 1)
    /\ Goes(c, "named")
    /\ UNCHANGED <<disk, mutex, now, taken, old>>

MutNameOf(c) == <<call[c].second, 0>>  \* seconds only
NameOf(c) == <<call[c].second, now % Ms>>

MakesName(c) ==
    /\ pc[c] = "named"
    /\ call' = [call EXCEPT ![c].name = NameOf(c)]
    /\ taken' = taken \cup {[name |-> NameOf(c), pic |-> call[c].pic,
                             at |-> now, second |-> call[c].second]}
    /\ Goes(c, "enter")
    /\ UNCHANGED <<disk, mutex, reply, now, pics, old>>

MutEnters(c, op) == pc[c] = "enter" /\ call[c].op = op  \* without the mutex
Enters(c, op) == pc[c] = "enter" /\ call[c].op = op /\ mutex = NoCaller

Unlocks == mutex' = NoCaller /\ old' = Nothing

imwriteOpens(c) ==
    LET n == call[c].name
    IN  /\ Enters(c, "snapshot")
        /\ mutex' = c /\ Goes(c, "writing")
        /\ old' = disk[n]
        /\ disk' = [disk EXCEPT ![n] = [pic |-> call[c].pic, parts |-> 0]]
        /\ UNCHANGED <<call, reply, now, pics, taken>>

(* No such directory, or no file can be opened in it.                      *)
imwriteCannotOpen(c) ==
    /\ Enters(c, "snapshot")
    /\ ReturnsOnly(c, "failed")
    /\ UNCHANGED <<disk, mutex, now, pics, taken, old>>

imwriteWrites(c) ==
    LET n == call[c].name
    IN  /\ pc[c] = "writing" /\ disk[n].parts < Parts
        /\ disk' = [disk EXCEPT ![n].parts = @ + 1]
        /\ UNCHANGED <<mutex, pc, call, reply, now, pics, taken, old>>

snapshotReturns(c) ==
    /\ pc[c] = "writing" /\ disk[call[c].name].parts = Parts
    /\ Unlocks
    /\ ReturnsOnly(c, "saved")
    /\ UNCHANGED <<disk, now, pics, taken>>

(* The disk is full: what is written stays.                                *)
imwriteFails(c) ==
    /\ pc[c] = "writing" /\ disk[call[c].name].parts < Parts
    /\ Unlocks
    /\ ReturnsOnly(c, "failed")
    /\ UNCHANGED <<disk, now, pics, taken>>

-----------------------------------------------------------------------------
(* A request: for a file that is or was there (a name nobody has made      *)
(* fails like one that is no longer there), or one that resolve() refuses. *)
Requests(c) ==
    /\ pc[c] = "idle"
    /\ \/ \E op \in {"read", "remove"}, n \in {t.name : t \in taken} :
             Calls(c, op, n, 0) /\ Goes(c, "enter")
       \/ Calls(c, "list", NoName, 0) /\ Goes(c, "enter")
       \/ ReturnsOnly(c, "failed")
    /\ UNCHANGED <<disk, mutex, now, pics, taken, old>>

(* list(): the order, by the second of the last change, is left out.       *)
Lists(c) ==
    /\ Enters(c, "list")
    /\ Returns(c, "list", {n \in Names : There(n)}, Store!NoFile)
    /\ UNCHANGED <<disk, mutex, now, pics, taken, old>>

Removes(c) ==
    /\ Enters(c, "remove")
    /\ disk' = [disk EXCEPT ![call[c].name] = Nothing]
    /\ ReturnsOnly(c, IF There(call[c].name) THEN "removed" ELSE "failed")
    /\ UNCHANGED <<mutex, now, pics, taken, old>>

(* read(): the size, then as many bytes.                                   *)
ReadOpens(c) ==
    /\ Enters(c, "read")
    /\ IF There(call[c].name)
       THEN /\ mutex' = c /\ Goes(c, "reading")
            /\ call' = [call EXCEPT ![c].size = disk[call[c].name].parts]
            /\ UNCHANGED reply
       ELSE ReturnsOnly(c, "failed") /\ UNCHANGED mutex
    /\ UNCHANGED <<disk, now, pics, taken, old>>

ReadReturns(c) ==
    LET f == disk[call[c].name]
    IN  /\ pc[c] = "reading" /\ f.parts >= call[c].size
        /\ Unlocks
        /\ Returns(c, "file", {},
                   [pic |-> f.pic, whole |-> call[c].size = Parts])
        /\ UNCHANGED <<disk, now, pics, taken>>

ReadFails(c) ==
    /\ pc[c] = "reading"
    /\ Unlocks
    /\ ReturnsOnly(c, "failed")
    /\ UNCHANGED <<disk, now, pics, taken>>

-----------------------------------------------------------------------------
TimePasses ==
    /\ now < MaxTime /\ now' = now + 1
    /\ UNCHANGED <<disk, mutex, pc, call, reply, pics, taken, old>>

(* The process ends, whatever its threads are doing, and is started again. *)
Restart ==
    /\ pc' = [c \in Callers |-> "idle"]
    /\ reply' = [c \in Callers |-> Store!NoReply]
    /\ call' = [c \in Callers |-> NoCall]
    /\ mutex' = NoCaller /\ old' = Nothing
    /\ UNCHANGED <<disk, now, pics, taken>>

Step(c) ==
    \/ MakesName(c)
    \/ imwriteOpens(c) \/ imwriteCannotOpen(c) \/ imwriteWrites(c)
    \/ imwriteFails(c) \/ snapshotReturns(c)
    \/ Lists(c) \/ Removes(c)
    \/ ReadOpens(c) \/ ReadReturns(c) \/ ReadFails(c)

Next ==
    \/ \E c \in Callers : ReadsWallClock(c) \/ Requests(c) \/ Step(c)
    \/ TimePasses \/ Restart

Spec == Init /\ [][Next]_vars

-----------------------------------------------------------------------------
(* The variables have their types, and a thread owns the mutex exactly     *)
(* while it has a file of the directory open: two calls never overlap on   *)
(* the disk (FileManager.cpp:57, :70, :93, :110).                          *)
TypeOK ==
    /\ disk \in [Names -> OnDisk]
    /\ mutex \in Callers \cup {NoCaller}
    /\ pc \in [Callers -> {"idle", "named", "enter", "writing", "reading"}]
    /\ call \in
         [Callers -> [op : {"none", "snapshot", "read", "remove", "list"},
                      name : Names \cup {NoName}, pic : 0..MaxPics,
                      second : 0..Second(MaxTime), size : 0..Parts]]
    /\ reply \in
         [Callers -> [is : {"none", "failed", "saved", "file", "removed",
                            "list"},
                      names : SUBSET Names, file : Store!File]]
    /\ \A c \in Callers : mutex = c <=> pc[c] \in {"writing", "reading"}
    /\ now \in 0..MaxTime /\ pics \in 0..MaxPics
    /\ taken \subseteq [name : Names, pic : 1..MaxPics, at : 0..MaxTime,
                        second : 0..Second(MaxTime)]
    /\ old \in OnDisk

(* Whatever the threads do between them, each call takes effect at one     *)
(* moment: a list or a read never shows a picture that is being written,   *)
(* what is read is one picture, a deleted file is gone, and only the write *)
(* that fails or is cut off by the process's end damages a picture, its    *)
(* own, though two calls may have the same name (FileManager.cpp:57, :70,  *)
(* :93, :110).                                                             *)
ImplementsStore == Store!StoreSpec

(* snapshot() reads the two clocks one after the other.  Two pictures get  *)
(* the same name only if this happened in the same millisecond, or if a    *)
(* second began between the two readings of one of them.  ("so two         *)
(* snapshots within the same wall-clock second [...] don't silently        *)
(* overwrite each other", FileManager.cpp:50, says more than that.)        *)
NamesApart ==
    \A p, q \in taken :
        p.name = q.name /\ p.pic # q.pic =>
            p.at = q.at \/ p.second # Second(p.at) \/ q.second # Second(q.at)
=============================================================================
