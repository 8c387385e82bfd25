------------------------------- MODULE Vision -------------------------------
(***************************************************************************)
(* The video path inside the terminal: the camera and its V4L2 buffers     *)
(* (capture/V4L2Camera.cpp), the vision thread (app/VisionThread.cpp), the *)
(* frame hub, the display thread and the frame buffer                      *)
(* (display/Framebuffer.cpp), pictures being saved, and the part of main() *)
(* that opens and closes the devices around them.                          *)
(*                                                                         *)
(* A picture is the number the sensor gives it.  cv::Mat is a counted      *)
(* reference to a cell of the heap: assigning one shares the cell, clone() *)
(* takes a new one, and writing a picture into a Mat that has a cell of    *)
(* the right size keeps the cell.                                          *)
(* Definitions named Mut... are variants with a plausible mistake that no  *)
(* specification uses.                                                     *)
(***************************************************************************)
EXTENDS Integers, Sequences

CONSTANTS
    NBuf,      \* buffers the driver grants at most, 4
    NCells,    \* bound: pictures in memory at a time
    MaxFrames  \* bound: pictures the sensor takes

ASSUME BoundsAssumption == NBuf \in Nat \ {0} /\ {NCells, MaxFrames} \subseteq Nat

Bufs == 1..NBuf
Cells == 1..NCells
Pictures == 0..MaxFrames

VARIABLES
    stage,     \* where main() is
    fd,        \* V4L2Camera::fd_ is open
    fmt,       \* pixelFormat_
    count,     \* buffers_.size()
    mapped,    \* buffers 1..mapped are mapped
    streaming, \* V4L2Camera::streaming_
    queued,    \* buffers the driver may write into
    filled,    \* buffers with a picture for VIDIOC_DQBUF
    pixel,     \* pixel[b]: the picture in buffer b
    made,      \* pictures the sensor has put into buffers
    cur,       \* buf.index between VIDIOC_DQBUF and VIDIOC_QBUF, 0 outside
    lost,      \* history: buffers the driver did not take back
    vpc,       \* where the vision thread is
    mat,       \* the cell of run()'s local frame, 0 when it is empty
    heap,      \* heap[c]: the picture in cell c
    prevFound, \* run()'s local prevFound
    seen,      \* history: pictures published, and if a face was found in each
    hub,       \* FrameHub::latest_
    dpc,       \* where the display thread is
    dframe,    \* its local frame
    fb,        \* the frame buffer: closed, mapped, or mapped with a depth
               \* that show() does not support
    screen,    \* the picture on the screen, 0 when it is black
    writers    \* calls of FileManager::snapshot under way

deviceVars  == <<fd, fmt, count, mapped, streaming>>
bufferVars  == <<queued, filled, pixel, made, lost>>
runVars     == <<mat, prevFound, seen>>
visionVars  == <<cur, vpc, runVars>>
displayVars == <<dpc, dframe, fb, screen>>
vars == <<stage, deviceVars, bufferVars, visionVars, heap, hub, displayVars, writers>>

(* A Frame: its Mat, and the picture its JPEG was encoded from.            *)
FrameRecord == [cell : 0..NCells, img : Pictures]
NoFrame == [cell |-> 0, img |-> 0]

Opening == {"boot", "format", "request", "map", "queue"}
Serving == {"run", "vision", "display", "clients"}

DeviceTypes ==
    /\ fd \in BOOLEAN /\ streaming \in BOOLEAN
    /\ fmt \in {"none", "mjpeg", "yuyv"}
    /\ count \in 0..NBuf /\ mapped \in 0..count

BufferTypes ==
    /\ queued \subseteq Bufs /\ filled \subseteq Bufs /\ lost \subseteq Bufs
    /\ pixel \in [Bufs -> Pictures] /\ made \in Pictures

VisionTypes ==
    /\ cur \in 0..NBuf
    /\ vpc \in {"off", "grab", "decode", "requeue", "detect", "snap", "over"}
    /\ mat \in 0..NCells /\ prevFound \in BOOLEAN
    /\ seen \in Seq([img : Pictures, face : BOOLEAN])

DisplayTypes ==
    /\ dpc \in {"off", "top", "show", "over"} /\ dframe \in FrameRecord
    /\ fb \in {"closed", "mapped", "unsupported"} /\ screen \in Pictures

TypeOK ==
    /\ stage \in Opening \cup {"devices", "threads"} \cup Serving
                    \cup {"release", "failed", "exit"}
    /\ DeviceTypes /\ BufferTypes /\ VisionTypes /\ DisplayTypes
    /\ heap \in [Cells -> Pictures] /\ hub \in FrameRecord
    /\ writers \subseteq [by : {"auto", "client"}, cell : Cells, img : Pictures]

Init ==
    /\ stage = "boot"
    /\ fd = FALSE /\ fmt = "none" /\ count = 0 /\ mapped = 0 /\ streaming = FALSE
    /\ queued = {} /\ filled = {} /\ lost = {}
    /\ pixel = [b \in Bufs |-> 0] /\ made = 0
    /\ vpc = "off" /\ cur = 0 /\ mat = 0
    /\ prevFound = FALSE /\ seen = << >>
    /\ heap = [c \in Cells |-> 0] /\ hub = NoFrame
    /\ dpc = "off" /\ dframe = NoFrame /\ fb = "closed" /\ screen = 0
    /\ writers = {}

-----------------------------------------------------------------------------
(* V4L2Camera::open, called by main().  Whatever it has done when it fails *)
(* stays until close().                                                    *)

Opens(next) ==
    /\ stage' = next
    /\ UNCHANGED <<filled, pixel, made, lost, visionVars, heap, hub, displayVars, writers>>

OpenDevice ==
    /\ stage = "boot"
    /\ fd' = TRUE
    /\ UNCHANGED <<fmt, count, mapped, streaming, queued>>
    /\ Opens("format")

(* MJPEG is asked for first, then YUYV.                                    *)
InitFormat ==
    /\ stage = "format"
    /\ fmt' \in {"mjpeg", "yuyv"}
    /\ UNCHANGED <<fd, count, mapped, streaming, queued>>
    /\ Opens("request")

(* VIDIOC_REQBUFS grants another number than was asked for; one is refused.*)
RequestBuffers ==
    /\ stage = "request"
    /\ count' \in 2..NBuf
    /\ UNCHANGED <<fd, fmt, mapped, streaming, queued>>
    /\ Opens("map")

MapBuffer ==
    /\ stage = "map" /\ mapped < count
    /\ mapped' = mapped + 1
    /\ UNCHANGED <<fd, fmt, count, streaming, queued>>
    /\ Opens(IF mapped' = count THEN "queue" ELSE "map")

(* startStreaming().                                                       *)
QueueBuffer ==
    /\ stage = "queue"
    /\ \E b \in 1..count :
          /\ queued = 1..(b - 1)
          /\ queued' = queued \cup {b}
    /\ UNCHANGED deviceVars
    /\ Opens("queue")

StreamOn ==
    /\ stage = "queue" /\ queued = 1..count
    /\ streaming' = TRUE
    /\ UNCHANGED <<fd, fmt, count, mapped, queued>>
    /\ Opens("devices")

(* open(), or an ioctl or mmap behind it: main() returns 1.                *)
CameraFails ==
    /\ stage \in Opening
    /\ UNCHANGED <<deviceVars, queued>>
    /\ Opens("failed")

(* Mutant: close() as if a camera that does not stream held nothing.       *)
MutCloseCamera ==
    IF streaming
      THEN /\ fd' = FALSE /\ streaming' = FALSE /\ mapped' = 0 /\ count' = 0
           /\ queued' = {} /\ filled' = {}
           /\ UNCHANGED fmt
      ELSE UNCHANGED <<deviceVars, queued, filled>>

(* V4L2Camera::close: VIDIOC_STREAMOFF takes the buffers from the driver.  *)
CloseCamera ==
    /\ fd' = FALSE /\ streaming' = FALSE /\ mapped' = 0 /\ count' = 0
    /\ queued' = {} /\ filled' = {}
    /\ UNCHANGED fmt

-----------------------------------------------------------------------------
(* The driver: the sensor's next picture goes into a queued buffer (which  *)
(* one makes no difference).                                               *)
Fill ==
    /\ streaming /\ made < MaxFrames
    /\ \E b \in queued :
          /\ \A c \in queued : b <= c
          /\ queued' = queued \ {b} /\ filled' = filled \cup {b}
          /\ pixel' = [pixel EXCEPT ![b] = made + 1]
    /\ made' = made + 1
    /\ UNCHANGED <<stage, deviceVars, lost, visionVars, heap, hub, displayVars, writers>>

(* The heap.                                                               *)
Used == {mat, hub.cell, dframe.cell} \cup {w.cell : w \in writers}
Free == Cells \ Used
NewCell == CHOOSE c \in Free : TRUE

-----------------------------------------------------------------------------
(* VisionThread::run: running() is tested between two iterations.          *)
Loops == vpc' = IF stage = "run" THEN "grab" ELSE "over"

(* poll() runs out of its second or is interrupted, or VIDIOC_DQBUF fails. *)
GrabFails ==
    /\ vpc = "grab" /\ Loops
    /\ UNCHANGED <<bufferVars, cur, runVars, heap, hub, writers>>

(* Mutant: the buffer is queued again as soon as its index is known.       *)
MutDequeue ==
    /\ vpc = "grab"
    /\ cur' \in {b \in filled : \A c \in filled : pixel[b] <= pixel[c]}
    /\ filled' = filled \ {cur'} /\ queued' = queued \cup {cur'}
    /\ vpc' = "decode"
    /\ UNCHANGED <<pixel, made, lost, runVars, heap, hub, writers>>

(* VIDIOC_DQBUF gives the buffer that was filled first.                    *)
Dequeue ==
    /\ vpc = "grab"
    /\ cur' \in {b \in filled : \A c \in filled : pixel[b] <= pixel[c]}
    /\ filled' = filled \ {cur'}
    /\ vpc' = "decode"
    /\ UNCHANGED <<queued, pixel, made, lost, runVars, heap, hub, writers>>

(* cvtColor() writes into the Mat it is given, imdecode() returns another. *)
Decode ==
    /\ vpc = "decode"
    /\ IF fmt = "yuyv" /\ mat # 0
         THEN mat' = mat
         ELSE Free # {} /\ mat' = NewCell
    /\ heap' = [heap EXCEPT ![mat'] = pixel[cur]]
    /\ vpc' = "requeue"
    /\ UNCHANGED <<bufferVars, cur, prevFound, seen, hub, writers>>

(* Mutant: grab() returns as soon as the picture turns out to be broken.   *)
MutDecodeFails ==
    /\ vpc = "decode" /\ fmt = "mjpeg"
    /\ mat' = 0 /\ cur' = 0
    /\ Loops
    /\ UNCHANGED <<bufferVars, prevFound, seen, heap, hub, writers>>

(* A broken JPEG: imdecode() returns an empty Mat.                         *)
DecodeFails ==
    /\ vpc = "decode" /\ fmt = "mjpeg"
    /\ mat' = 0
    /\ vpc' = "requeue"
    /\ UNCHANGED <<bufferVars, cur, prevFound, seen, heap, hub, writers>>

(* The end of grab(), which does not mind a buffer that is not taken back. *)
Requeue ==
    /\ vpc = "requeue"
    /\ \/ queued' = queued \cup {cur} /\ UNCHANGED lost
       \/ lost' = lost \cup {cur} /\ UNCHANGED queued
    /\ cur' = 0
    /\ IF mat = 0 THEN Loops ELSE vpc' = "detect"
    /\ UNCHANGED <<filled, pixel, made, runVars, heap, hub, writers>>

(* Mutant: the published frame shares run()'s Mat.                         *)
MutPublish ==
    /\ vpc = "detect"
    /\ hub' = [cell |-> mat, img |-> heap[mat]]
    /\ UNCHANGED heap
    /\ \E face \in BOOLEAN : seen' = Append(seen, [img |-> heap[mat], face |-> face])
    /\ vpc' = "snap"
    /\ UNCHANGED <<bufferVars, cur, mat, prevFound, writers>>

(* Detection and overlay, then one Frame for everybody: a clone of the Mat *)
(* and a JPEG of it.                                                       *)
Publish ==
    /\ vpc = "detect" /\ Free # {}
    /\ hub' = [cell |-> NewCell, img |-> heap[mat]]
    /\ heap' = [heap EXCEPT ![NewCell] = heap[mat]]
    /\ \E face \in BOOLEAN : seen' = Append(seen, [img |-> heap[mat], face |-> face])
    /\ vpc' = "snap"
    /\ UNCHANGED <<bufferVars, cur, mat, prevFound, writers>>

(* The automatic snapshot: a face where there was none in the frame before *)
(* (and the interval since the last one is over, which is left open).  The *)
(* detached thread owns a clone.                                           *)
Appeared == seen[Len(seen)].face /\ ~prevFound

(* Mutant: the detached thread takes run()'s Mat along.                    *)
MutSnapshot ==
    /\ vpc = "snap" /\ Appeared
    /\ writers' = writers \cup {[by |-> "auto", cell |-> mat, img |-> heap[mat]]}
    /\ prevFound' = TRUE
    /\ Loops
    /\ UNCHANGED <<bufferVars, cur, mat, seen, heap, hub>>

Snapshot ==
    /\ vpc = "snap" /\ Appeared /\ Free # {}
    /\ heap' = [heap EXCEPT ![NewCell] = heap[mat]]
    /\ writers' = writers \cup {[by |-> "auto", cell |-> NewCell, img |-> heap[mat]]}
    /\ prevFound' = TRUE
    /\ Loops
    /\ UNCHANGED <<bufferVars, cur, mat, seen, hub>>

NoSnapshot ==
    /\ vpc = "snap"
    /\ prevFound' = seen[Len(seen)].face
    /\ Loops
    /\ UNCHANGED <<bufferVars, cur, mat, seen, heap, hub, writers>>

-----------------------------------------------------------------------------
(* FileManager::snapshot: a session passes the Mat of the hub's frame,     *)
(* which it shares.  Main waits for sessions, not for detached threads.    *)
ClientWriters == {w \in writers : w.by = "client"}

ClientSnapshot ==
    /\ stage \in Serving
    /\ hub # NoFrame /\ ClientWriters = {}
    /\ writers' = writers \cup {[by |-> "client", cell |-> hub.cell, img |-> hub.img]}
    /\ UNCHANGED <<stage, deviceVars, bufferVars, visionVars, heap, hub, displayVars>>

SnapshotEnds ==
    /\ \E w \in writers : writers' = writers \ {w}
    /\ UNCHANGED <<stage, deviceVars, bufferVars, visionVars, heap, hub, displayVars>>

-----------------------------------------------------------------------------
(* DisplayThread::run.                                                     *)

DisplayLoops ==
    /\ dpc = "top"
    /\ \/ stage \in {"run", "vision"} /\ hub # NoFrame /\ dframe' = hub /\ dpc' = "show"
       \/ stage \notin {"run", "vision"} /\ dpc' = "over" /\ UNCHANGED dframe
    /\ UNCHANGED <<stage, deviceVars, bufferVars, visionVars, heap, hub, fb, screen, writers>>

(* The overlay is drawn on a clone; Framebuffer::show copies it row by row.*)
DisplayShows ==
    /\ dpc = "show"
    /\ screen' = IF fb = "mapped" THEN heap[dframe.cell] ELSE screen
    /\ dframe' = NoFrame /\ dpc' = "top"
    /\ UNCHANGED <<stage, deviceVars, bufferVars, visionVars, heap, hub, fb, writers>>

-----------------------------------------------------------------------------
(* main().                                                                 *)

Goes(from, to) == stage = from /\ stage' = to

OthersKeep == UNCHANGED <<deviceVars, bufferVars, visionVars, heap, hub, displayVars, writers>>

(* Framebuffer::open blackens the screen; without it the program runs on.  *)
OpenDisplay ==
    /\ Goes("devices", "threads")
    /\ fb' \in {"closed", "mapped", "unsupported"}
    /\ UNCHANGED <<deviceVars, bufferVars, visionVars, heap, hub, dpc, dframe, screen, writers>>

(* The cascade cannot be loaded, or the TCP port is taken.                 *)
StartFails == Goes("threads", "failed") /\ OthersKeep

StartThreads ==
    /\ Goes("threads", "run")
    /\ vpc' = "grab" /\ dpc' = "top"
    /\ UNCHANGED <<deviceVars, bufferVars, cur, mat, prevFound, seen, heap, hub,
                   dframe, fb, screen, writers>>

StopVision == Goes("run", "vision") /\ OthersKeep

VisionJoined == Goes("vision", "display") /\ vpc = "over" /\ OthersKeep

DisplayJoined == Goes("display", "clients") /\ dpc = "over" /\ OthersKeep

(* registry.stopAll().                                                     *)
ClientsStopped == Goes("clients", "release") /\ ClientWriters = {} /\ OthersKeep

(* The devices are closed at the end of main(), or by their destructors    *)
(* when it returns early.  Framebuffer::close leaves the screen black.     *)
Release ==
    /\ Goes("release", "exit") \/ Goes("failed", "exit")
    /\ CloseCamera
    /\ fb' = "closed" /\ screen' = IF fb = "closed" THEN screen ELSE 0
    /\ UNCHANGED <<pixel, made, lost, visionVars, heap, hub, dpc, dframe, writers>>

Exited == stage = "exit" /\ UNCHANGED vars

-----------------------------------------------------------------------------
Camera ==
    \/ OpenDevice \/ InitFormat \/ RequestBuffers \/ MapBuffer \/ QueueBuffer
    \/ StreamOn \/ CameraFails

VisionThread ==
    /\ \/ GrabFails \/ Dequeue \/ Decode \/ DecodeFails \/ Requeue
       \/ Publish \/ Snapshot \/ NoSnapshot
    /\ UNCHANGED <<stage, deviceVars, displayVars>>

DisplayThread == DisplayLoops \/ DisplayShows

Shutdown == VisionJoined \/ DisplayJoined \/ ClientsStopped \/ Release

Main == Camera \/ OpenDisplay \/ StartFails \/ StartThreads \/ StopVision \/ Shutdown

Next ==
    \/ Main \/ Fill \/ VisionThread \/ DisplayThread
    \/ ClientSnapshot \/ SnapshotEnds
    \/ Exited

Spec == Init /\ [][Next]_vars

(* The threads run (a grab() that fails is a stutter, so a waiting picture *)
(* is taken in the end); the sensor takes pictures; a write ends.          *)
FairSpec ==
    /\ Spec
    /\ WF_vars(VisionThread) /\ WF_vars(DisplayThread)
    /\ WF_vars(Fill) /\ WF_vars(SnapshotEnds) /\ WF_vars(Shutdown)

-----------------------------------------------------------------------------
(* grab() reads a mapped buffer that the driver may not write into, to the *)
(* end of the decoding and through every order of a shutdown: "must happen *)
(* after we copied/decoded it" (V4L2Camera.cpp:179).                       *)
BuffersAreOurs ==
    vpc \in {"decode", "requeue"} =>
        cur \in 1..mapped /\ streaming /\ cur \notin queued \cup filled

(* A published frame is immutable (FrameHub.h): whoever still holds it     *)
(* finds in its Mat the picture that its JPEG shows, whatever run() does   *)
(* with its own Mat meanwhile.                                             *)
FramesStayAsPublished ==
    /\ \A f \in {hub, dframe} \ {NoFrame} : heap[f.cell] = f.img
    /\ \A w \in ClientWriters : heap[w.cell] = w.img

(* What a detached thread writes is the frame in which a face appeared,    *)
(* not one that came while it was writing.                                 *)
SnapshotIsOfItsEdge ==
    \A w \in writers \ ClientWriters :
        \E j \in DOMAIN seen :
            /\ heap[w.cell] = seen[j].img /\ seen[j].face
            /\ j > 1 => ~seen[j - 1].face

(* However far open() got, and whichever way main() ended, the process     *)
(* leaves no mapping, no open device and a black screen behind, and no     *)
(* joined thread inside either device.                                     *)
NothingLeft ==
    stage = "exit" =>
        /\ ~fd /\ ~streaming /\ mapped = 0 /\ queued = {} /\ filled = {}
        /\ fb = "closed" /\ screen = 0
        /\ vpc \in {"off", "over"} /\ dpc \in {"off", "over"}

(* Every picture is taken, and the newest of those that can be decoded     *)
(* comes to the screen, unless main stops or a buffer is lost.             *)
Settled ==
    /\ made = MaxFrames /\ filled = {} /\ vpc = "grab"
    /\ fb = "mapped" => screen = hub.img

PicturesReachTheScreen ==
    stage = "run" ~> Settled \/ stage # "run" \/ lost # {}
=============================================================================
