---------------------------- MODULE Vision_proofs ----------------------------
(***************************************************************************)
(* Theorems about Vision, for any number of buffers, pictures and cells.   *)
(***************************************************************************)
EXTENDS Vision, TLAPS

-----------------------------------------------------------------------------
(* The inductive invariant.                                                *)

(* Which threads exist at each stage of main, and what main has opened.    *)
StageInv ==
    /\ stage \in Opening \cup {"devices", "threads", "failed"} =>
          vpc = "off" /\ dpc = "off"
    /\ stage \in {"display", "clients", "release", "exit"} => vpc \in {"off", "over"}
    /\ stage \in {"clients", "release", "exit"} => dpc \in {"off", "over"}
    /\ stage \in {"devices", "threads"} \cup Serving => streaming /\ mapped = count
    /\ stage \in {"boot", "format", "request"} => mapped = 0 /\ count = 0
    /\ stage = "queue" => mapped = count
    /\ stage \in Opening => filled = {} /\ ~streaming
    /\ stage \in Opening \cup {"devices"} => fb = "closed"
    /\ stage = "exit" =>
          ~fd /\ ~streaming /\ mapped = 0 /\ queued = {} /\ filled = {} /\ fb = "closed"
    /\ fb = "closed" => screen = 0

(* The driver's buffers are granted ones, and the one in use is not his.   *)
BufferInv ==
    /\ queued \subseteq 1..count /\ filled \subseteq 1..count
    /\ queued \cap filled = {}
    /\ cur = 0 <=> vpc \notin {"decode", "requeue"}
    /\ cur # 0 => cur \in 1..count /\ cur \notin queued \cup filled

(* Nobody shares a cell with run()'s frame, and nobody else's is written.  *)
HeapInv ==
    /\ hub = NoFrame \/ hub.cell \in Cells
    /\ dframe = NoFrame \/ dframe.cell \in Cells
    /\ dpc = "show" <=> dframe # NoFrame
    /\ vpc \in {"detect", "snap"} => mat # 0
    /\ mat # 0 =>
          mat \notin {hub.cell, dframe.cell} \cup {w.cell : w \in writers}
    /\ FramesStayAsPublished

(* prevFound is what was found in the frame before.                        *)
Before(k) == k > 0 /\ seen[k].face

EdgeInv ==
    /\ vpc = "snap" => seen # << >> /\ heap[mat] = seen[Len(seen)].img
    /\ prevFound <=> Before(IF vpc = "snap" THEN Len(seen) - 1 ELSE Len(seen))
    /\ SnapshotIsOfItsEdge

IInv == TypeOK /\ StageInv /\ BufferInv /\ HeapInv /\ EdgeInv

-----------------------------------------------------------------------------
(* A new cell is one that nothing refers to.                               *)
LEMMA NewCellIsFree ==
    ASSUME Free # {}
    PROVE  /\ NewCell \in Cells /\ NewCell # mat
           /\ NewCell # hub.cell /\ NewCell # dframe.cell
           /\ \A w \in writers : NewCell # w.cell
<1>1. NewCell \in Free
  <2>1. PICK c : c \in Free
    OBVIOUS
  <2> HIDE DEF Free
  <2> QED
    BY <2>1 DEF NewCell
<1> HIDE DEF NewCell
<1>2. NewCell \in Cells /\ NewCell \notin Used
  BY <1>1 DEF Free
<1> QED
  BY <1>2 DEF Used

(* Who changes what.                                                       *)
LEMMA Changes ==
    ASSUME [Next]_vars
    PROVE  /\ UNCHANGED deviceVars \/ Camera \/ Release
           /\ UNCHANGED bufferVars \/ Camera \/ Fill \/ Release
                 \/ (VisionThread /\ (Dequeue \/ Requeue))
           /\ UNCHANGED visionVars \/ VisionThread \/ StartThreads
           /\ UNCHANGED displayVars \/ DisplayThread \/ OpenDisplay \/ StartThreads
                 \/ Release
           /\ UNCHANGED <<heap, hub, writers>> \/ VisionThread \/ ClientSnapshot
                 \/ SnapshotEnds
           /\ UNCHANGED stage \/ Main
<1> USE DEF Next, Main, Shutdown, DisplayThread, vars
<1>1. UNCHANGED stage \/ Main
  BY DEF Fill, VisionThread, DisplayLoops, DisplayShows, ClientSnapshot, SnapshotEnds,
         Exited
<1> USE DEF OpenDisplay, StartFails, StartThreads, StopVision, VisionJoined,
        DisplayJoined, ClientsStopped, OthersKeep, Fill, DisplayLoops, DisplayShows,
        ClientSnapshot, SnapshotEnds, Exited
<1>2. UNCHANGED deviceVars \/ Camera \/ Release
  BY DEF VisionThread
<1>3. UNCHANGED bufferVars \/ Camera \/ Fill \/ Release
                 \/ (VisionThread /\ (Dequeue \/ Requeue))
  BY DEF VisionThread, GrabFails, Decode, DecodeFails, Publish, Snapshot, NoSnapshot
<1>4. UNCHANGED visionVars \/ VisionThread \/ StartThreads
  BY DEF Camera, OpenDevice, InitFormat, RequestBuffers, MapBuffer, QueueBuffer, StreamOn,
         CameraFails, Opens, Release
<1>5. UNCHANGED displayVars \/ DisplayThread \/ OpenDisplay \/ StartThreads \/ Release
  BY DEF Camera, OpenDevice, InitFormat, RequestBuffers, MapBuffer, QueueBuffer, StreamOn,
         CameraFails, Opens, VisionThread
<1>6. UNCHANGED <<heap, hub, writers>> \/ VisionThread \/ ClientSnapshot \/ SnapshotEnds
  BY DEF Camera, OpenDevice, InitFormat, RequestBuffers, MapBuffer, QueueBuffer, StreamOn,
         CameraFails, Opens, Release
<1> QED
  BY <1>1, <1>2, <1>3, <1>4, <1>5, <1>6

(* What open() does to the camera, in one formula for each device and      *)
(* buffer variable.                                                        *)
LEMMA CameraTypes == IInv /\ Camera => DeviceTypes' /\ BufferTypes'
<1> SUFFICES ASSUME IInv, Camera PROVE DeviceTypes' /\ BufferTypes'
  OBVIOUS
<1>1. DeviceTypes /\ BufferTypes /\ StageInv /\ NBuf \in Nat
  BY BoundsAssumption DEF IInv, TypeOK
<1>2. DeviceTypes'
  <2> USE <1>1 DEF DeviceTypes, deviceVars
  <2>1. CASE OpenDevice \/ InitFormat \/ StreamOn \/ QueueBuffer \/ CameraFails
    BY <2>1 DEF OpenDevice, InitFormat, StreamOn, QueueBuffer, CameraFails
  <2>2. CASE RequestBuffers
    BY <2>2 DEF RequestBuffers, StageInv
  <2>3. CASE MapBuffer
    BY <2>3 DEF MapBuffer
  <2> QED
    BY <2>1, <2>2, <2>3 DEF Camera
<1>3. queued' \subseteq Bufs
  <2>1. queued \subseteq Bufs /\ count \in 0..NBuf
    BY <1>1 DEF BufferTypes, DeviceTypes
  <2>2. CASE QueueBuffer
    <3>1. PICK b \in 1..count : queued' = queued \cup {b}
      BY <2>2 DEF QueueBuffer
    <3>2. b \in Bufs
      BY <1>1, <2>1 DEF Bufs
    <3> QED
      BY <2>1, <3>1, <3>2
  <2>3. CASE Camera /\ ~QueueBuffer
    <3>1. UNCHANGED queued
      BY <2>3 DEF Camera, OpenDevice, InitFormat, RequestBuffers, MapBuffer, StreamOn,
                  CameraFails
    <3> QED
      BY <2>1, <3>1
  <2> QED
    BY <2>2, <2>3
<1>4. UNCHANGED <<filled, pixel, made, lost>>
  BY DEF Camera, OpenDevice, InitFormat, RequestBuffers, MapBuffer, QueueBuffer,
         StreamOn, CameraFails, Opens
<1> QED
  BY <1>1, <1>2, <1>3, <1>4 DEF BufferTypes

(* The same for a round of the vision thread, which writes pictures only   *)
(* into cells.                                                             *)
LEMMA VisionThreadTypes ==
    IInv /\ VisionThread =>
        /\ VisionTypes'
        /\ heap' \in [Cells -> Pictures] /\ hub' \in FrameRecord
        /\ writers' \subseteq [by : {"auto", "client"}, cell : Cells, img : Pictures]
<1> SUFFICES ASSUME IInv, VisionThread
             PROVE  /\ VisionTypes'
                    /\ heap' \in [Cells -> Pictures] /\ hub' \in FrameRecord
                    /\ writers' \subseteq [by : {"auto", "client"}, cell : Cells,
                                           img : Pictures]
  OBVIOUS
<1> DEFINE Writer == [by : {"auto", "client"}, cell : Cells, img : Pictures]
           Sight == [img : Pictures, face : BOOLEAN]
<1>1. /\ VisionTypes /\ BufferTypes /\ HeapInv /\ EdgeInv /\ BufferInv
      /\ heap \in [Cells -> Pictures] /\ hub \in FrameRecord /\ writers \subseteq Writer
      /\ NBuf \in Nat /\ NCells \in Nat /\ MaxFrames \in Nat
  BY BoundsAssumption DEF IInv, TypeOK
<1>2. vpc' \in {"off", "grab", "decode", "requeue", "detect", "snap", "over"}
  BY <1>1 DEF VisionThread, GrabFails, Dequeue, Decode, DecodeFails, Requeue, Publish,
              Snapshot, NoSnapshot, Loops, VisionTypes
<1>3. cur' \in 0..NBuf
  <2>1. cur' \in {cur, 0} \cup filled
    BY DEF VisionThread, GrabFails, Dequeue, Decode, DecodeFails, Requeue, Publish,
           Snapshot, NoSnapshot
  <2>2. cur \in 0..NBuf /\ \A b \in filled : b \in 1..NBuf
    BY <1>1 DEF VisionTypes, BufferTypes, Bufs
  <2> QED
    BY <1>1, <2>1, <2>2
<1>4. mat \in 0..NCells /\ (mat # 0 => mat \in Cells /\ heap[mat] \in Pictures)
  BY <1>1 DEF VisionTypes, Cells
<1>5. Free # {} => NewCell \in Cells /\ NewCell \in 0..NCells
  BY <1>1, NewCellIsFree DEF Cells
<1>6. CASE GrabFails \/ Dequeue \/ DecodeFails \/ Requeue
  <2>1. UNCHANGED <<heap, hub, writers, prevFound, seen>> /\ mat' \in {0, mat}
    BY <1>6 DEF GrabFails, Dequeue, DecodeFails, Requeue, runVars
  <2> QED
    BY <1>1, <1>2, <1>3, <2>1 DEF VisionTypes
<1>7. CASE Decode
  <2>1. cur \in Bufs /\ pixel[cur] \in Pictures
    BY <1>1, <1>7 DEF Decode, BufferInv, VisionTypes, BufferTypes, Bufs
  <2>2. mat' \in 0..NCells
    BY <1>4, <1>5, <1>7 DEF Decode
  <2>3. heap' \in [Cells -> Pictures]
    BY <1>1, <1>7, <2>1 DEF Decode
  <2>4. UNCHANGED <<hub, writers, prevFound, seen>>
    BY <1>7 DEF Decode
  <2> QED
    BY <1>1, <1>2, <1>3, <2>2, <2>3, <2>4 DEF VisionTypes
<1>8. CASE Publish
  <2>1. mat \in Cells /\ heap[mat] \in Pictures /\ NewCell \in 0..NCells
    BY <1>1, <1>4, <1>5, <1>8 DEF Publish, HeapInv
  <2>2. heap' \in [Cells -> Pictures]
    BY <1>1, <1>8, <2>1 DEF Publish
  <2>3. hub' \in FrameRecord
    BY <1>8, <2>1 DEF Publish, FrameRecord
  <2>4. PICK face \in BOOLEAN : seen' = Append(seen, [img |-> heap[mat], face |-> face])
    BY <1>8 DEF Publish
  <2>5. [img |-> heap[mat], face |-> face] \in Sight
    BY <2>1
  <2> HIDE DEF Sight
  <2>6. seen' \in Seq(Sight)
    <3>1. seen \in Seq(Sight)
      BY <1>1 DEF VisionTypes, Sight
    <3> QED
      BY <2>4, <2>5, <3>1
  <2>7. UNCHANGED <<mat, prevFound, writers>>
    BY <1>8 DEF Publish
  <2> QED
    BY <1>1, <1>2, <1>3, <2>2, <2>3, <2>6, <2>7 DEF VisionTypes, Sight
<1>9. CASE Snapshot \/ NoSnapshot
  <2>1. mat \in Cells /\ heap[mat] \in Pictures /\ seen # << >>
    BY <1>1, <1>4, <1>9 DEF Snapshot, NoSnapshot, HeapInv, EdgeInv
  <2>2. seen[Len(seen)] \in Sight
    <3> HIDE DEF Sight
    <3>1. seen \in Seq(Sight)
      BY <1>1 DEF VisionTypes, Sight
    <3>2. Len(seen) \in 1..Len(seen)
      BY <2>1, <3>1
    <3> QED
      BY <3>1, <3>2
  <2>3. prevFound' \in BOOLEAN
    BY <1>9, <2>2 DEF Snapshot, NoSnapshot
  <2>4. heap' \in [Cells -> Pictures] /\ writers' \subseteq Writer
    BY <1>1, <1>5, <1>9, <2>1 DEF Snapshot, NoSnapshot
  <2>5. UNCHANGED <<mat, seen, hub>>
    BY <1>9 DEF Snapshot, NoSnapshot
  <2> QED
    BY <1>1, <1>2, <1>3, <2>3, <2>4, <2>5 DEF VisionTypes
<1> QED
  BY <1>6, <1>7, <1>8, <1>9 DEF VisionThread

(* Every step keeps the types.                                             *)
LEMMA TypeStep == ASSUME IInv, [Next]_vars PROVE TypeOK'
<1>1. TypeOK /\ StageInv /\ NBuf \in Nat /\ MaxFrames \in Nat
  BY BoundsAssumption DEF IInv
<1>2. DeviceTypes'
  <2>1. CASE UNCHANGED deviceVars
    BY <1>1, <2>1 DEF TypeOK, DeviceTypes, deviceVars
  <2>2. CASE Release
    <3>1. DeviceTypes
      BY <1>1 DEF TypeOK
    <3>2. /\ fd' = FALSE /\ streaming' = FALSE /\ mapped' = 0 /\ count' = 0
          /\ UNCHANGED fmt
      BY <2>2 DEF Release, CloseCamera
    <3>3. fd' \in BOOLEAN /\ streaming' \in BOOLEAN
      BY <3>2, Zenon
    <3>4. fmt' \in {"none", "mjpeg", "yuyv"}
      BY <3>1, <3>2, Zenon DEF DeviceTypes
    <3>5. count' \in 0..NBuf /\ mapped' \in 0..count'
      BY <1>1, <3>2
    <3> QED
      BY <3>3, <3>4, <3>5, Zenon DEF DeviceTypes
  <2> QED
    BY <2>1, <2>2, CameraTypes, Changes
<1>3. BufferTypes'
  <2>1. CASE UNCHANGED bufferVars
    BY <1>1, <2>1 DEF TypeOK, BufferTypes, bufferVars
  <2>2. CASE Release
    BY <1>1, <2>2 DEF Release, CloseCamera, TypeOK, BufferTypes
  <2>3. CASE Fill
    <3>1. made + 1 \in Pictures
      BY <1>1, <2>3 DEF Fill, TypeOK, BufferTypes, Pictures
    <3> QED
      BY <1>1, <2>3, <3>1 DEF Fill, TypeOK, BufferTypes
  <2>4. CASE Dequeue
    BY <1>1, <2>4 DEF Dequeue, TypeOK, BufferTypes
  <2>5. CASE Requeue
    <3>1. cur \in Bufs
      BY <1>1, <2>5 DEF Requeue, IInv, BufferInv, TypeOK, VisionTypes, Bufs
    <3> QED
      BY <1>1, <2>5, <3>1 DEF Requeue, TypeOK, BufferTypes
  <2> QED
    BY <2>1, <2>2, <2>3, <2>4, <2>5, CameraTypes, Changes
<1>4. VisionTypes'
  <2>1. CASE UNCHANGED visionVars
    BY <1>1, <2>1 DEF TypeOK, VisionTypes, visionVars, runVars
  <2>2. CASE StartThreads
    BY <1>1, <2>2 DEF StartThreads, TypeOK, VisionTypes, runVars
  <2> QED
    BY <2>1, <2>2, VisionThreadTypes, Changes
<1>5. DisplayTypes'
  <2> USE <1>1 DEF TypeOK, DisplayTypes
  <2>1. CASE UNCHANGED displayVars
    BY <2>1 DEF displayVars
  <2>2. CASE OpenDisplay \/ StartThreads
    BY <2>2 DEF OpenDisplay, StartThreads
  <2>3. CASE Release
    BY <2>3 DEF Release, Pictures
  <2>4. CASE DisplayLoops
    BY <2>4 DEF DisplayLoops
  <2>5. CASE DisplayShows
    <3>1. heap[dframe.cell] \in Pictures
      BY <2>5 DEF DisplayShows, IInv, HeapInv
    <3>2. NoFrame \in FrameRecord
      BY <1>1, BoundsAssumption DEF NoFrame, FrameRecord, Pictures
    <3> QED
      BY <2>5, <3>1, <3>2 DEF DisplayShows
  <2> QED
    BY <2>1, <2>2, <2>3, <2>4, <2>5, Changes DEF DisplayThread
<1>6. /\ heap' \in [Cells -> Pictures] /\ hub' \in FrameRecord
      /\ writers' \subseteq [by : {"auto", "client"}, cell : Cells, img : Pictures]
  <2>1. CASE UNCHANGED <<heap, hub, writers>>
    BY <1>1, <2>1 DEF TypeOK
  <2>2. CASE ClientSnapshot
    <3>1. hub.cell \in Cells /\ hub.img \in Pictures
      BY <1>1, <2>2 DEF ClientSnapshot, IInv, HeapInv, TypeOK, FrameRecord
    <3> QED
      BY <1>1, <2>2, <3>1 DEF ClientSnapshot, TypeOK
  <2>3. CASE SnapshotEnds
    BY <1>1, <2>3 DEF SnapshotEnds, TypeOK
  <2> QED
    BY <2>1, <2>2, <2>3, VisionThreadTypes, Changes
<1>7. stage' \in Opening \cup {"devices", "threads"} \cup Serving
                \cup {"release", "failed", "exit"}
  <2>1. CASE UNCHANGED stage
    BY <1>1, <2>1 DEF TypeOK
  <2>2. CASE Camera
    BY <2>2 DEF Camera, OpenDevice, InitFormat, RequestBuffers, MapBuffer, QueueBuffer,
                StreamOn, CameraFails, Opens, Opening
  <2>3. CASE Main /\ ~Camera
    BY <2>3 DEF Main, Shutdown, OpenDisplay, StartFails, StartThreads, StopVision,
                VisionJoined, DisplayJoined, ClientsStopped, Release, Goes, Serving
  <2> QED
    BY <2>1, <2>2, <2>3, Changes
<1> QED
  BY <1>2, <1>3, <1>4, <1>5, <1>6, <1>7 DEF TypeOK

(* Every step keeps main's order of opening, starting, joining and closing.*)
LEMMA StageStep == ASSUME IInv, [Next]_vars PROVE StageInv'
<1>1. StageInv /\ BufferInv /\ DisplayTypes /\ DeviceTypes
  BY DEF IInv, TypeOK
<1> USE <1>1 DEF StageInv, Opening, Serving
<1>2. CASE Camera
  <2>1. UNCHANGED <<vpc, dpc, fb, screen, filled>>
    BY <1>2 DEF Camera, OpenDevice, InitFormat, RequestBuffers, MapBuffer, QueueBuffer,
                StreamOn, CameraFails, Opens, visionVars, displayVars
  <2>2. CASE OpenDevice \/ InitFormat \/ QueueBuffer \/ StreamOn \/ CameraFails
    BY <2>1, <2>2 DEF OpenDevice, InitFormat, QueueBuffer, StreamOn, CameraFails, Opens,
                      deviceVars
  <2>3. CASE RequestBuffers
    BY <2>1, <2>3 DEF RequestBuffers, Opens
  <2>4. CASE MapBuffer
    BY <2>1, <2>4 DEF MapBuffer, Opens
  <2> QED
    BY <1>2, <2>2, <2>3, <2>4 DEF Camera
<1>3. CASE OpenDisplay \/ StartFails \/ StartThreads \/ StopVision \/ VisionJoined
           \/ DisplayJoined \/ ClientsStopped
  <2>1. UNCHANGED deviceVars /\ UNCHANGED bufferVars
    BY <1>3 DEF OpenDisplay, StartFails, StartThreads, StopVision, VisionJoined,
                DisplayJoined, ClientsStopped, OthersKeep
  <2>2. CASE OpenDisplay
    BY <2>1, <2>2 DEF OpenDisplay, Goes, deviceVars, bufferVars, visionVars
  <2>3. CASE StartThreads
    BY <2>1, <2>3 DEF StartThreads, Goes, deviceVars, bufferVars
  <2>4. CASE StartFails \/ StopVision \/ VisionJoined \/ DisplayJoined \/ ClientsStopped
    BY <2>1, <2>4 DEF StartFails, StopVision, VisionJoined, DisplayJoined, ClientsStopped,
                      OthersKeep, Goes, deviceVars, bufferVars, visionVars, displayVars
  <2> QED
    BY <1>3, <2>2, <2>3, <2>4
<1>4. CASE Release
  BY <1>4 DEF Release, CloseCamera, Goes, visionVars
<1>5. CASE VisionThread
  <2>1. vpc \notin {"off", "over"}
    BY <1>5 DEF VisionThread, GrabFails, Dequeue, Decode, DecodeFails, Requeue, Publish,
                Snapshot, NoSnapshot
  <2>2. UNCHANGED <<stage, deviceVars, displayVars>>
    BY <1>5 DEF VisionThread
  <2> QED
    BY <2>1, <2>2 DEF deviceVars, displayVars
<1>6. CASE DisplayThread
  <2>1. dpc \notin {"off", "over"} /\ (fb = "closed" => UNCHANGED screen)
    BY <1>6 DEF DisplayThread, DisplayLoops, DisplayShows
  <2>2. UNCHANGED <<stage, deviceVars, bufferVars, visionVars, fb>>
    BY <1>6 DEF DisplayThread, DisplayLoops, DisplayShows
  <2> QED
    BY <2>1, <2>2 DEF deviceVars, bufferVars, visionVars
<1>7. CASE Fill
  BY <1>7 DEF Fill, deviceVars, visionVars, displayVars
<1>8. CASE UNCHANGED <<stage, deviceVars, bufferVars, visionVars, displayVars>>
  BY <1>8 DEF deviceVars, bufferVars, visionVars, displayVars
<1>9. ClientSnapshot \/ SnapshotEnds \/ Exited \/ UNCHANGED vars =>
        UNCHANGED <<stage, deviceVars, bufferVars, visionVars, displayVars>>
  BY DEF ClientSnapshot, SnapshotEnds, Exited, vars
<1> QED
  BY <1>2, <1>3, <1>4, <1>5, <1>6, <1>7, <1>8, <1>9 DEF Next, Main, Shutdown

(* Every step keeps the buffers apart.                                     *)
LEMMA BufferStep == ASSUME IInv, [Next]_vars PROVE BufferInv'
<1>1. /\ StageInv /\ BufferInv /\ VisionTypes /\ count \in Nat
      /\ \A b \in filled \cup queued : b \in Nat \ {0}
  BY BoundsAssumption DEF IInv, TypeOK, DeviceTypes, BufferTypes, Bufs
<1> USE <1>1 DEF BufferInv
<1>2. CASE Camera
  <2>1. UNCHANGED <<vpc, cur, filled>> /\ filled = {} /\ vpc = "off" /\ cur = 0
    BY <1>2 DEF Camera, OpenDevice, InitFormat, RequestBuffers, MapBuffer, QueueBuffer,
                StreamOn, CameraFails, Opens, visionVars, StageInv, Opening
  <2>2. queued' \subseteq 1..count'
    <3>1. CASE QueueBuffer
      BY <3>1 DEF QueueBuffer, deviceVars
    <3>2. CASE RequestBuffers
      BY <3>2 DEF RequestBuffers, StageInv
    <3>3. CASE Camera /\ ~QueueBuffer /\ ~RequestBuffers
      BY <3>3 DEF Camera, OpenDevice, InitFormat, MapBuffer, StreamOn, CameraFails,
                  deviceVars
    <3> QED
      BY <1>2, <3>1, <3>2, <3>3
  <2> QED
    BY <2>1, <2>2
<1>3. CASE Release
  <2>1. vpc \in {"off", "over"} /\ UNCHANGED <<vpc, cur>>
    BY <1>3 DEF Release, Goes, visionVars, StageInv
  <2>2. queued' = {} /\ filled' = {}
    BY <1>3 DEF Release, CloseCamera
  <2> QED
    BY <2>1, <2>2
<1>4. CASE Fill
  BY <1>4 DEF Fill, deviceVars, visionVars
<1>5. CASE VisionThread
  <2>1. UNCHANGED count
    BY <1>5 DEF VisionThread, deviceVars
  <2>2. CASE Dequeue
    BY <2>1, <2>2 DEF Dequeue
  <2>3. CASE Requeue
    <3>1. vpc' \notin {"decode", "requeue"} /\ vpc \in {"decode", "requeue"}
      BY <2>3 DEF Requeue, Loops
    <3>2. cur \in 1..count /\ cur \notin filled /\ cur' = 0 /\ UNCHANGED filled
      BY <2>3, <3>1 DEF Requeue
    <3>3. queued' \in {queued, queued \cup {cur}}
      BY <2>3 DEF Requeue
    <3> QED
      BY <2>1, <3>1, <3>2, <3>3
  <2>4. CASE VisionThread /\ ~Dequeue /\ ~Requeue
    <3>1. UNCHANGED <<queued, filled, cur>>
      BY <2>4 DEF VisionThread, GrabFails, Decode, DecodeFails, Publish, Snapshot,
                  NoSnapshot, bufferVars
    <3>2. vpc' \in {"decode", "requeue"} <=> vpc \in {"decode", "requeue"}
      BY <2>4 DEF VisionThread, GrabFails, Decode, DecodeFails, Publish, Snapshot,
                  NoSnapshot, Loops
    <3> QED
      BY <2>1, <3>1, <3>2
  <2> QED
    BY <1>5, <2>2, <2>3, <2>4
<1>6. CASE StartThreads
  BY <1>6 DEF StartThreads, Goes, StageInv, deviceVars, bufferVars
<1>7. CASE UNCHANGED <<deviceVars, bufferVars, visionVars>>
  BY <1>7 DEF deviceVars, bufferVars, visionVars
<1> QED
  BY <1>2, <1>3, <1>4, <1>5, <1>6, <1>7, Changes

(* What the heap holds, whom it belongs to, and what the lemmas need.      *)
Writer == [by : {"auto", "client"}, cell : Cells, img : Pictures]
Held == {hub.cell, dframe.cell} \cup {w.cell : w \in writers}

(* The types of the heap and of who holds its cells.                       *)
LEMMA HeapTypes ==
    ASSUME IInv
    PROVE  /\ heap \in [Cells -> Pictures] /\ writers \subseteq Writer
           /\ hub \in FrameRecord /\ dframe \in FrameRecord
           /\ mat = 0 \/ mat \in Cells
           /\ 0 \notin Cells
BY BoundsAssumption DEF IInv, TypeOK, VisionTypes, DisplayTypes, Cells, Writer

(* A round of the vision thread writes at most one cell, and nobody's but  *)
(* its own.                                                                *)
LEMMA VisionWrites ==
    ASSUME IInv, VisionThread
    PROVE  \A c \in Held : c \in Cells => heap'[c] = heap[c]
<1>1. heap \in [Cells -> Pictures] /\ HeapInv /\ (mat = 0 \/ mat \in Cells)
  BY HeapTypes DEF IInv
<1>2. CASE UNCHANGED heap
  BY <1>2
<1>3. CASE \E c \in Cells : c \notin Held /\ \E p : heap' = [heap EXCEPT ![c] = p]
  BY <1>1, <1>3
<1>4. CASE Decode
  <2>1. mat # 0 => mat \in Cells /\ mat \notin Held
    BY <1>1 DEF HeapInv, Held
  <2>2. mat' \in Cells /\ mat' \notin Held
    BY <1>4, <2>1, NewCellIsFree DEF Decode, Held
  <2> QED
    BY <1>3, <1>4, <2>2 DEF Decode
<1>5. CASE Publish \/ Snapshot
  <2>1. NewCell \in Cells /\ NewCell \notin Held
    BY <1>5, NewCellIsFree DEF Publish, Snapshot, Held
  <2>2. heap' = [heap EXCEPT ![NewCell] = heap[mat]]
    BY <1>5 DEF Publish, Snapshot
  <2> QED
    BY <1>3, <2>1, <2>2
<1>6. GrabFails \/ Dequeue \/ DecodeFails \/ Requeue \/ NoSnapshot => UNCHANGED heap
  BY DEF GrabFails, Dequeue, DecodeFails, Requeue, NoSnapshot
<1> QED
  BY <1>2, <1>4, <1>5, <1>6 DEF VisionThread

(* What HeapInv says, with everybody's frame named.                        *)
Shows(f) == f = NoFrame \/ (f.cell \in Cells /\ heap[f.cell] = f.img)

HeapParts ==
    /\ Shows(hub) /\ Shows(dframe)
    /\ \A w \in writers : w.by = "client" => heap[w.cell] = w.img
    /\ dpc = "show" <=> dframe # NoFrame
    /\ vpc \in {"detect", "snap"} => mat # 0
    /\ mat # 0 => mat \notin Held

(* The parts are the invariant.                                            *)
LEMMA HeapInvParts == HeapInv <=> HeapParts
BY DEF HeapInv, HeapParts, Shows, FramesStayAsPublished, ClientWriters, Held

(* Every step keeps the pictures that have been handed out.                *)
LEMMA HeapStep == ASSUME IInv, [Next]_vars PROVE HeapInv'
<1>1. /\ heap \in [Cells -> Pictures] /\ writers \subseteq Writer
      /\ hub \in FrameRecord /\ dframe \in FrameRecord
      /\ (mat = 0 \/ mat \in Cells) /\ 0 \notin Cells
  BY HeapTypes
<1>2. HeapParts
  BY HeapInvParts DEF IInv
<1>3. SUFFICES HeapParts'
  <2>1. HeapInv' <=> HeapParts'
    BY HeapInvParts, PTL
  <2> QED
    BY <2>1
<1>4. CASE UNCHANGED <<heap, hub, writers, mat, vpc, dpc, dframe>>
  BY <1>2, <1>4 DEF HeapParts, Shows, Held
<1>5. CASE VisionThread
  <2>1. UNCHANGED <<dpc, dframe>> /\ \A c \in Held : c \in Cells => heap'[c] = heap[c]
    BY <1>5, VisionWrites DEF VisionThread, displayVars
  <2>2. Shows(dframe)'
    BY <1>2, <2>1 DEF HeapParts, Shows, Held
  <2>3. \A w \in writers : w.by = "client" => heap'[w.cell] = w.img
    BY <1>1, <1>2, <2>1 DEF HeapParts, Held, Writer
  <2>4. UNCHANGED hub => Shows(hub)'
    BY <1>2, <2>1 DEF HeapParts, Shows, Held
  <2>5. CASE GrabFails \/ Dequeue \/ DecodeFails \/ Requeue \/ NoSnapshot
    <3>1. /\ UNCHANGED <<hub, writers>> /\ mat' \in {0, mat}
          /\ vpc' \in {"detect", "snap"} => mat' # 0
      BY <2>5 DEF GrabFails, Dequeue, DecodeFails, Requeue, NoSnapshot, Loops, runVars
    <3> QED
      BY <1>2, <2>1, <2>2, <2>3, <2>4, <3>1 DEF HeapParts, Held
  <2>6. CASE Decode
    <3>1. UNCHANGED <<hub, writers>> /\ vpc' = "requeue"
      BY <2>6 DEF Decode
    <3>2. mat' \notin Held
      BY <1>2, <2>6, NewCellIsFree DEF Decode, HeapParts, Held
    <3> QED
      BY <1>2, <2>1, <2>2, <2>3, <2>4, <3>1, <3>2 DEF HeapParts, Held
  <2>7. CASE Publish
    <3>1. /\ UNCHANGED <<writers, mat>> /\ vpc' = "snap" /\ mat # 0
          /\ hub' = [cell |-> NewCell, img |-> heap[mat]]
          /\ heap' = [heap EXCEPT ![NewCell] = heap[mat]]
          /\ NewCell \in Cells /\ NewCell # mat
      BY <1>2, <2>7, NewCellIsFree DEF Publish, HeapParts
    <3>2. Shows(hub)'
      BY <1>1, <3>1 DEF Shows
    <3>3. mat' \notin Held'
      BY <1>2, <2>1, <3>1 DEF HeapParts, Held
    <3> QED
      BY <1>2, <2>1, <2>2, <2>3, <3>1, <3>2, <3>3 DEF HeapParts
  <2>8. CASE Snapshot
    <3>1. /\ UNCHANGED <<hub, mat>> /\ vpc' \notin {"detect", "snap"}
          /\ writers' = writers \cup {[by |-> "auto", cell |-> NewCell, img |-> heap[mat]]}
          /\ NewCell # mat
      BY <2>8, NewCellIsFree DEF Snapshot, Loops
    <3>2. mat' # 0 => mat' \notin Held'
      BY <1>2, <2>1, <3>1 DEF HeapParts, Held
    <3>3. \A w \in writers' : w.by = "client" => w \in writers
      BY <3>1
    <3> QED
      BY <1>2, <2>1, <2>2, <2>3, <2>4, <3>1, <3>2, <3>3 DEF HeapParts
  <2> QED
    BY <1>5, <2>5, <2>6, <2>7, <2>8 DEF VisionThread
<1>6. CASE StartThreads
  <2>1. dpc = "off"
    BY <1>6 DEF StartThreads, Goes, IInv, StageInv
  <2> QED
    BY <1>2, <1>6, <2>1 DEF StartThreads, HeapParts, Shows, Held
<1>7. CASE ClientSnapshot
  <2>1. /\ UNCHANGED <<heap, hub, mat, vpc, dpc, dframe>> /\ hub # NoFrame
        /\ writers' = writers \cup {[by |-> "client", cell |-> hub.cell, img |-> hub.img]}
    BY <1>7 DEF ClientSnapshot, visionVars, runVars, displayVars
  <2>2. Held' = Held
    BY <2>1 DEF Held
  <2>3. heap[hub.cell] = hub.img
    BY <1>2, <2>1 DEF HeapParts, Shows
  <2> QED
    BY <1>2, <2>1, <2>2, <2>3 DEF HeapParts, Shows
<1>8. CASE SnapshotEnds
  <2>1. UNCHANGED <<heap, hub, mat, vpc, dpc, dframe>> /\ \A w \in writers' : w \in writers
    BY <1>8 DEF SnapshotEnds, visionVars, runVars, displayVars
  <2> QED
    BY <1>2, <2>1 DEF HeapParts, Shows, Held
<1>9. CASE DisplayThread
  <2>1. UNCHANGED <<heap, hub, writers, mat, vpc>>
    BY <1>9 DEF DisplayThread, DisplayLoops, DisplayShows, visionVars, runVars
  <2>2. \/ dframe' = hub /\ hub # NoFrame /\ dpc' = "show"
        \/ dframe' = dframe /\ dpc # "show" /\ dpc' # "show"
        \/ dframe' = NoFrame /\ dpc' # "show"
    BY <1>9 DEF DisplayThread, DisplayLoops, DisplayShows
  <2>3. NoFrame.cell = 0
    BY DEF NoFrame
  <2> QED
    BY <1>1, <1>2, <2>1, <2>2, <2>3 DEF HeapParts, Shows, Held
<1>10. CASE UNCHANGED <<heap, hub, writers, visionVars, displayVars>>
  BY <1>4, <1>10 DEF visionVars, runVars, displayVars
<1>11. OpenDisplay \/ Release => UNCHANGED <<heap, hub, writers, mat, vpc, dpc, dframe>>
  BY DEF OpenDisplay, Release, visionVars, runVars
<1> QED
  BY <1>4, <1>5, <1>6, <1>7, <1>8, <1>9, <1>10, <1>11, Changes

(* Frames that were published stay where they are in the history.          *)
LEMMA SeenGrows ==
    ASSUME IInv, VisionThread
    PROVE  /\ seen \in Seq([img : Pictures, face : BOOLEAN])
           /\ Publish => /\ Len(seen') = Len(seen) + 1
                         /\ seen'[Len(seen')].img = heap[mat]
                         /\ \A k \in 1..Len(seen) : seen'[k] = seen[k]
           /\ Publish \/ UNCHANGED seen
<1> DEFINE Sight == [img : Pictures, face : BOOLEAN]
<1>1. seen \in Seq(Sight) /\ MaxFrames \in Nat
  BY BoundsAssumption DEF IInv, TypeOK, VisionTypes
<1>2. ASSUME Publish
      PROVE  /\ Len(seen') = Len(seen) + 1
             /\ seen'[Len(seen')].img = heap[mat]
             /\ \A k \in 1..Len(seen) : seen'[k] = seen[k]
  <2>1. PICK face \in BOOLEAN : seen' = Append(seen, [img |-> heap[mat], face |-> face])
    BY <1>2 DEF Publish
  <2> DEFINE s == [img |-> heap[mat], face |-> face]
  <2>2. s.img = heap[mat] /\ seen' = Append(seen, s)
    BY <2>1
  <2>3. mat \in Cells /\ heap \in [Cells -> Pictures]
    BY <1>2, HeapTypes DEF IInv, HeapInv, Publish
  <2>4. s \in Sight
    BY <2>3
  <2> HIDE DEF s, Sight
  <2> QED
    BY <1>1, <2>2, <2>4
<1>3. Publish \/ UNCHANGED seen
  BY DEF VisionThread, GrabFails, Dequeue, Decode, DecodeFails, Requeue, Snapshot,
         NoSnapshot, runVars
<1> QED
  BY <1>1, <1>2, <1>3

(* The frame a writer w is writing is one in which a face appeared.        *)
Edge(j) == j \in 1..Len(seen) /\ seen[j].face /\ (j > 1 => ~seen[j - 1].face)

(* Every step keeps the edges.                                             *)
LEMMA EdgeStep == ASSUME IInv, [Next]_vars PROVE EdgeInv'
<1>1. /\ heap \in [Cells -> Pictures] /\ writers \subseteq Writer
      /\ (mat = 0 \/ mat \in Cells) /\ 0 \notin Cells
  BY HeapTypes
<1>2. EdgeInv /\ HeapParts /\ seen \in Seq([img : Pictures, face : BOOLEAN])
  BY HeapInvParts DEF IInv, TypeOK, VisionTypes
<1>3. SnapshotIsOfItsEdge <=>
        \A w \in writers : w.by # "client" => \E j : Edge(j) /\ heap[w.cell] = seen[j].img
  BY <1>2 DEF SnapshotIsOfItsEdge, ClientWriters, Edge
<1>4. CASE UNCHANGED <<heap, writers, mat, vpc, prevFound, seen>>
  BY <1>2, <1>4 DEF EdgeInv, SnapshotIsOfItsEdge, ClientWriters, Before
<1>5. CASE UNCHANGED <<heap, visionVars>> /\ \A w \in writers' \ writers : w.by = "client"
  <2>1. SnapshotIsOfItsEdge'
    BY <1>2, <1>5 DEF EdgeInv, SnapshotIsOfItsEdge, ClientWriters, visionVars, runVars
  <2> QED
    BY <1>2, <1>5, <2>1 DEF EdgeInv, Before, visionVars, runVars
<1>6. CASE VisionThread
  <2>1. seen' \in Seq([img : Pictures, face : BOOLEAN]) /\ Len(seen) \in Nat
    BY <1>2, TypeStep DEF TypeOK, VisionTypes
  <2>2. SnapshotIsOfItsEdge' <=>
          \A w \in writers' : w.by # "client" =>
              \E j : Edge(j)' /\ heap'[w.cell] = seen'[j].img
    BY <2>1 DEF SnapshotIsOfItsEdge, ClientWriters, Edge
  <2>3. \A j : Edge(j) => Edge(j)' /\ seen'[j] = seen[j]
    <3>1. ASSUME NEW j, Edge(j) PROVE Edge(j)' /\ seen'[j] = seen[j]
      <4>1. j \in 1..Len(seen) /\ Len(seen') >= Len(seen) /\ Len(seen') \in Nat
        BY <1>6, <2>1, <3>1, SeenGrows DEF Edge
      <4>2. \A k \in 1..Len(seen) : seen'[k] = seen[k]
        BY <1>6, SeenGrows
      <4> QED
        BY <2>1, <3>1, <4>1, <4>2 DEF Edge
    <3> QED
      BY <3>1
  <2>4. ASSUME NEW w \in writers, w.by # "client"
        PROVE  \E j : Edge(j)' /\ heap'[w.cell] = seen'[j].img
    <3>1. PICK j : Edge(j) /\ heap[w.cell] = seen[j].img
      BY <1>2, <1>3, <2>4 DEF EdgeInv
    <3>2. heap'[w.cell] = heap[w.cell]
      BY <1>1, <1>6, VisionWrites DEF Held, Writer
    <3> QED
      BY <2>3, <3>1, <3>2
  <2>5. vpc' = "snap" =>
          /\ seen' # << >> /\ heap'[mat'] = seen'[Len(seen')].img
          /\ Publish
    <3>1. CASE Publish
      <4>1. seen' # << >> /\ seen'[Len(seen')].img = heap[mat]
        BY <1>6, <2>1, <3>1, SeenGrows
      <4>2. heap'[mat'] = heap[mat]
        BY <1>1, <1>2, <3>1, NewCellIsFree DEF Publish, HeapParts
      <4> QED
        BY <3>1, <4>1, <4>2
    <3>2. CASE ~Publish
      BY <1>6, <3>2 DEF VisionThread, GrabFails, Dequeue, Decode, DecodeFails, Requeue,
                        Snapshot, NoSnapshot, Loops
    <3> QED
      BY <3>1, <3>2
  <2>6. CASE Publish
    <3>1. UNCHANGED <<writers, prevFound>> /\ vpc = "detect" /\ vpc' = "snap"
      BY <2>6 DEF Publish
    <3>2. prevFound' <=> Before(Len(seen) - 1)'
      <4>1. Len(seen') - 1 = Len(seen)
        BY <1>6, <2>1, <2>6, SeenGrows
      <4>2. Len(seen) > 0 => seen'[Len(seen)] = seen[Len(seen)]
        BY <1>6, <2>1, <2>6, SeenGrows
      <4> QED
        BY <1>2, <3>1, <4>1, <4>2 DEF EdgeInv, Before
    <3> QED
      BY <2>2, <2>4, <2>5, <3>1, <3>2 DEF EdgeInv
  <2>7. CASE Snapshot
    <3>1. /\ vpc = "snap" /\ vpc' # "snap" /\ prevFound' /\ UNCHANGED seen
          /\ ~prevFound /\ seen[Len(seen)].face
          /\ writers' = writers \cup {[by |-> "auto", cell |-> NewCell, img |-> heap[mat]]}
          /\ heap' = [heap EXCEPT ![NewCell] = heap[mat]] /\ NewCell \in Cells
      BY <2>7, NewCellIsFree DEF Snapshot, Loops, Appeared
    <3>2. Len(seen) > 0 /\ heap[mat] = seen[Len(seen)].img
      BY <1>2, <2>1, <3>1 DEF EdgeInv
    <3>3. Edge(Len(seen))
      BY <1>2, <2>1, <3>1, <3>2 DEF EdgeInv, Before, Edge
    <3>4. Edge(Len(seen))' /\ heap'[NewCell] = seen'[Len(seen')].img
      BY <1>1, <2>3, <3>1, <3>2, <3>3
    <3>5. \A w \in writers' : w \in writers \/ w.cell = NewCell
      BY <3>1
    <3>6. SnapshotIsOfItsEdge'
      BY <2>2, <2>4, <3>1, <3>4, <3>5
    <3>7. prevFound' <=> Before(Len(seen))'
      BY <3>1, <3>2 DEF Before
    <3> QED
      BY <3>1, <3>6, <3>7 DEF EdgeInv
  <2>8. CASE VisionThread /\ ~Publish /\ ~Snapshot
    <3>1. UNCHANGED <<seen, writers>> /\ vpc' # "snap"
      BY <2>8 DEF VisionThread, GrabFails, Dequeue, Decode, DecodeFails, Requeue,
                  NoSnapshot, Loops, runVars
    <3>2. prevFound' <=> Before(Len(seen))
      <4>1. CASE NoSnapshot
        <5>1. seen # << >> /\ (prevFound' <=> seen[Len(seen)].face)
          BY <1>2, <4>1 DEF NoSnapshot, EdgeInv
        <5> QED
          BY <1>2, <2>1, <5>1 DEF Before
      <4>2. CASE ~NoSnapshot
        <5>1. UNCHANGED prevFound /\ vpc # "snap"
          BY <2>8, <4>2 DEF VisionThread, GrabFails, Dequeue, Decode, DecodeFails,
                            Requeue, runVars
        <5> QED
          BY <1>2, <5>1 DEF EdgeInv
      <4> QED
        BY <4>1, <4>2
    <3> QED
      BY <2>2, <2>4, <3>1, <3>2 DEF EdgeInv, Before
  <2> QED
    BY <1>6, <2>6, <2>7, <2>8
<1>7. CASE StartThreads
  <2>1. vpc = "off" /\ vpc' = "grab" /\ UNCHANGED <<heap, writers, mat, prevFound, seen>>
    BY <1>7 DEF StartThreads, Goes, IInv, StageInv
  <2> QED
    BY <1>2, <2>1 DEF EdgeInv, SnapshotIsOfItsEdge, ClientWriters, Before
<1>8. CASE ClientSnapshot \/ SnapshotEnds
  <2>1. UNCHANGED <<heap, visionVars>> /\ \A w \in writers' \ writers : w.by = "client"
    BY <1>8 DEF ClientSnapshot, SnapshotEnds
  <2> QED
    BY <1>5, <2>1
<1> QED
  BY <1>4, <1>6, <1>7, <1>8, Changes DEF visionVars, runVars

-----------------------------------------------------------------------------
(* The invariant holds, in every state of every run.                       *)
LEMMA Invariant == Spec => []IInv
<1>1. Init => IInv
  <2> SUFFICES ASSUME Init PROVE IInv
    OBVIOUS
  <2> USE BoundsAssumption DEF Init
  <2>1. 0 \in Pictures /\ NoFrame \in FrameRecord
    BY DEF Pictures, FrameRecord, NoFrame
  <2>2. VisionTypes
    <3>1. << >> \in Seq([img : Pictures, face : BOOLEAN])
      OBVIOUS
    <3>2. cur \in 0..NBuf /\ mat \in 0..NCells
      OBVIOUS
    <3> QED
      BY <3>1, <3>2 DEF VisionTypes
  <2>3. DeviceTypes /\ BufferTypes /\ DisplayTypes
    <3>1. fd \in BOOLEAN /\ streaming \in BOOLEAN
      BY Zenon
    <3>2. DeviceTypes
      BY <3>1 DEF DeviceTypes
    <3>3. BufferTypes
      BY <2>1 DEF BufferTypes
    <3>4. DisplayTypes
      BY <2>1 DEF DisplayTypes
    <3> QED
      BY <3>2, <3>3, <3>4
  <2>4. TypeOK
    BY <2>1, <2>2, <2>3 DEF TypeOK, Opening
  <2>5. StageInv
    BY DEF StageInv, Opening, Serving
  <2>6. BufferInv
    BY DEF BufferInv
  <2>7. HeapInv
    BY DEF HeapInv, FramesStayAsPublished, ClientWriters
  <2>8. EdgeInv
    BY DEF EdgeInv, SnapshotIsOfItsEdge, ClientWriters, Before
  <2> QED
    BY <2>4, <2>5, <2>6, <2>7, <2>8 DEF IInv
<1>2. IInv /\ [Next]_vars => IInv'
  BY TypeStep, StageStep, BufferStep, HeapStep, EdgeStep DEF IInv
<1> QED
  BY <1>1, <1>2, PTL DEF Spec

(* Every variable keeps its type: no buffer, cell or picture index leaves  *)
(* its range (V4L2Camera.cpp:89-123).                                      *)
THEOREM VisionTypesCorrect == Spec => []TypeOK
BY Invariant, PTL DEF IInv

(* grab() holds a mapped buffer that the driver may not write into for as  *)
(* long as it reads it, in every order of a shutdown (V4L2Camera.cpp:179). *)
THEOREM BuffersStayOurs == Spec => []BuffersAreOurs
<1>1. IInv => BuffersAreOurs
  BY DEF IInv, TypeOK, StageInv, BufferInv, BuffersAreOurs, Opening, Serving
<1> QED
  BY <1>1, Invariant, PTL

(* Who holds a published frame finds in it the picture its JPEG shows      *)
(* (FrameHub.h, VisionThread.cpp:58).                                      *)
THEOREM PublishedFramesStay == Spec => []FramesStayAsPublished
BY Invariant, PTL DEF IInv, HeapInv

(* An automatic snapshot shows a frame in which a face appeared            *)
(* (VisionThread.cpp:76-89).                                               *)
THEOREM SnapshotsShowTheEdge == Spec => []SnapshotIsOfItsEdge
BY Invariant, PTL DEF IInv, EdgeInv

(* Whichever way main() ends, the devices are closed after the threads     *)
(* that use them have ended (main.cpp:193-204).                            *)
THEOREM EverythingIsReleased == Spec => []NothingLeft
<1>1. IInv => NothingLeft
  BY DEF IInv, StageInv, NothingLeft
<1> QED
  BY <1>1, Invariant, PTL

-----------------------------------------------------------------------------
(* The shutdown (main.cpp:193-204): main joins the vision thread, then the *)
(* display thread, then stops the sessions.                                *)
Stopping == {"vision", "display", "clients", "release"}

(* A thread exists from the start of all to its end, and a camera that was *)
(* opened has a format.                                                    *)
OpenInv ==
    /\ stage \in Serving => vpc # "off" /\ dpc # "off"
    /\ stage \notin {"boot", "format", "failed", "exit"} => fmt # "none"

(* OpenInv is inductive.                                                   *)
LEMMA OpenStep == ASSUME IInv, OpenInv, [Next]_vars PROVE OpenInv'
<1>1. CASE Camera
  <2>1. /\ stage' \in Opening \cup {"devices", "failed"}
        /\ fmt' # "none" \/ stage' \in {"boot", "format", "failed"}
    BY <1>1 DEF OpenInv, Camera, OpenDevice, InitFormat, RequestBuffers,
       MapBuffer, QueueBuffer, StreamOn, CameraFails, Opens, Opening, deviceVars
  <2> QED BY <2>1 DEF OpenInv, Opening, Serving
<1>2. CASE StartThreads
  BY <1>2 DEF StartThreads, Goes, deviceVars, OpenInv, Serving
<1>3. CASE OpenDisplay \/ StartFails \/ Release
  BY <1>3 DEF OpenDisplay, StartFails, Release, CloseCamera, Goes, OthersKeep,
     deviceVars, OpenInv, Serving
<1>4. CASE StopVision \/ VisionJoined \/ DisplayJoined \/ ClientsStopped
  BY <1>4 DEF StopVision, VisionJoined, DisplayJoined, ClientsStopped, Goes,
     OthersKeep, deviceVars, visionVars, displayVars, OpenInv, Serving
<1>5. ASSUME UNCHANGED <<stage, fmt>>, vpc' = vpc \/ vpc' # "off",
             dpc' = dpc \/ dpc' # "off"
      PROVE  OpenInv'
  BY <1>5 DEF OpenInv
<1>6. CASE VisionThread
  <2>1. vpc' # "off"
    BY <1>6 DEF VisionThread, GrabFails, Dequeue, Decode, DecodeFails, Requeue,
       Publish, Snapshot, NoSnapshot, Loops
  <2> QED BY <1>5, <1>6, <2>1 DEF VisionThread, deviceVars, displayVars
<1>7. CASE DisplayThread
  <2>1. /\ dpc' # "off" /\ UNCHANGED <<stage, fmt, vpc>>
    BY <1>7 DEF DisplayThread, DisplayLoops, DisplayShows, deviceVars, visionVars
  <2> QED BY <1>5, <2>1
<1>8. CASE Fill \/ ClientSnapshot \/ SnapshotEnds \/ Exited \/ UNCHANGED vars
  <2>1. UNCHANGED <<stage, fmt, vpc, dpc>>
    BY <1>8 DEF Fill, ClientSnapshot, SnapshotEnds, Exited, vars, deviceVars,
       visionVars, displayVars
  <2> QED BY <1>5, <2>1
<1> QED
  BY <1>1, <1>2, <1>3, <1>4, <1>6, <1>7, <1>8 DEF Next, Main, Shutdown

(* When a thread can take a step, by the guards of its actions.            *)
VisionMoves ==
    \/ vpc \in {"grab", "requeue", "snap"}
    \/ vpc = "decode" /\ (fmt = "mjpeg" \/ mat # 0 \/ Free # {})
    \/ vpc = "detect" /\ Free # {}
DisplayMoves ==
    \/ dpc = "show"
    \/ dpc = "top" /\ (stage \notin {"run", "vision"} \/ hub # NoFrame)

(* The thread that main is joining has ended or can go on, or a picture is *)
(* being written that takes the memory it waits for.                       *)
JoinsAreNotStuck ==
    /\ stage = "vision" => vpc = "over" \/ VisionMoves \/ writers # {}
    /\ stage = "display" => dpc = "over" \/ DisplayMoves
    /\ stage = "clients" => ClientWriters = {} \/ writers # {}

(* Without writers at most three pictures are in memory.                   *)
LEMMA FourSuffice ==
    ASSUME TypeOK, NCells >= 4, writers = {}
    PROVE  Free # {}
<1>1. NCells \in Nat
  BY BoundsAssumption
<1>2. {1, 2, 3, 4} \subseteq Cells
  BY <1>1 DEF Cells
<1>3. Used = {mat, hub.cell, dframe.cell}
  BY DEF Used
<1>4. \A a, b, c : \E n \in {1, 2, 3, 4} : n \notin {a, b, c}
  OBVIOUS
<1>5. PICK n \in {1, 2, 3, 4} : n \notin {mat, hub.cell, dframe.cell}
  BY <1>4
<1> QED BY <1>2, <1>3, <1>5 DEF Free

(* In a shutdown main never waits for a thread that waits: memory for four *)
(* pictures is enough (three are not: the hub, the display and a writer    *)
(* may hold one each while the vision thread needs its own).               *)
THEOREM ShutdownIsNotStuck == NCells >= 4 /\ Spec => []JoinsAreNotStuck
<1>1. Init => OpenInv
  BY DEF Init, OpenInv, Serving
<1>2. ASSUME IInv, OpenInv, NCells >= 4 PROVE JoinsAreNotStuck
  <2>1. TypeOK
    BY <1>2 DEF IInv
  <2>2. writers # {} \/ Free # {}
    BY <1>2, <2>1, FourSuffice
  <2>3. ASSUME stage = "vision" PROVE vpc = "over" \/ VisionMoves \/ writers # {}
    BY <1>2, <2>1, <2>2, <2>3
    DEF VisionMoves, TypeOK, VisionTypes, OpenInv, Serving
  <2>4. ASSUME stage = "display" PROVE dpc = "over" \/ DisplayMoves
    BY <1>2, <2>1, <2>4 DEF DisplayMoves, TypeOK, DisplayTypes, OpenInv, Serving
  <2>5. ClientWriters = {} \/ writers # {}
    BY DEF ClientWriters
  <2> QED BY <2>3, <2>4, <2>5 DEF JoinsAreNotStuck
<1>3. IInv /\ OpenInv /\ [Next]_vars => OpenInv'
  BY OpenStep
<1>4. (NCells >= 4) => (IInv /\ OpenInv => JoinsAreNotStuck)
  BY <1>2
<1>5. CASE NCells >= 4
  <2>1. IInv /\ OpenInv => JoinsAreNotStuck
    BY <1>4, <1>5
  <2> QED BY <1>1, <1>3, <2>1, Invariant, PTL DEF Spec
<1> QED BY <1>5

(* What main, the vision thread and the display thread have still to do.   *)
StageLeft ==
    CASE stage = "vision" -> 4 [] stage = "display" -> 3
      [] stage = "clients" -> 2 [] stage = "release" -> 1 [] OTHER -> 0
VisionLeft ==
    CASE vpc = "grab" -> 5 [] vpc = "decode" -> 4 [] vpc = "requeue" -> 3
      [] vpc = "detect" -> 2 [] vpc = "snap" -> 1 [] OTHER -> 0
DisplayLeft == CASE dpc = "show" -> 2 [] dpc = "top" -> 1 [] OTHER -> 0

(* In a shutdown every step of main and of the vision thread leaves less   *)
(* to do, and the display thread's do once main has come to it; nobody     *)
(* else gives them more.  The picture being taken is still published, and  *)
(* its snapshot still made; no second one is begun.                        *)
ShutdownGoesOn ==
    stage \in Stopping =>
        /\ IF Main THEN StageLeft' < StageLeft ELSE UNCHANGED stage
        /\ IF VisionThread THEN VisionLeft' < VisionLeft ELSE UNCHANGED vpc
        /\ stage # "vision" =>
              IF DisplayThread THEN DisplayLeft' < DisplayLeft ELSE UNCHANGED dpc

(* The shutdown takes a bounded number of steps of main and of the two     *)
(* threads that it joins.                                                  *)
THEOREM ShutdownIsShort == Spec => [][ShutdownGoesOn]_vars
<1>1. ASSUME IInv, [Next]_vars, stage \in Stopping
      PROVE  /\ IF Main THEN StageLeft' < StageLeft ELSE UNCHANGED stage
             /\ IF VisionThread THEN VisionLeft' < VisionLeft ELSE UNCHANGED vpc
             /\ stage # "vision" =>
                   IF DisplayThread THEN DisplayLeft' < DisplayLeft
                                    ELSE UNCHANGED dpc
  <2>1. UNCHANGED stage \/ Main
    BY <1>1, Changes
  <2>2. ~Camera /\ ~StartThreads /\ ~OpenDisplay
    BY <1>1 DEF Stopping, Camera, OpenDevice, InitFormat, RequestBuffers,
       MapBuffer, QueueBuffer, StreamOn, CameraFails, Opening, StartThreads,
       OpenDisplay, Goes
  <2>3. ASSUME Main PROVE StageLeft' < StageLeft
    BY <1>1, <2>2, <2>3 DEF Main, Shutdown, StartFails, StopVision,
       VisionJoined, DisplayJoined, ClientsStopped, Release, Goes, Stopping,
       StageLeft
  <2>4. ASSUME VisionThread PROVE VisionLeft' < VisionLeft
    <3>1. stage # "run"
      BY <1>1 DEF Stopping
    <3>2. CASE GrabFails \/ Dequeue \/ Decode \/ DecodeFails
      BY <3>1, <3>2 DEF GrabFails, Dequeue, Decode, DecodeFails, Loops,
         VisionLeft
    <3>3. CASE Requeue \/ Publish \/ Snapshot \/ NoSnapshot
      BY <3>1, <3>3 DEF Requeue, Publish, Snapshot, NoSnapshot, Loops,
         VisionLeft
    <3> QED BY <2>4, <3>2, <3>3 DEF VisionThread
  <2>5. ASSUME ~VisionThread PROVE UNCHANGED vpc
    BY <1>1, <2>2, <2>5, Changes DEF visionVars
  <2>6. ASSUME stage # "vision", DisplayThread PROVE DisplayLeft' < DisplayLeft
    BY <1>1, <2>6 DEF Stopping, DisplayThread, DisplayLoops, DisplayShows,
       DisplayLeft
  <2>7. ASSUME ~DisplayThread PROVE UNCHANGED dpc
    BY <1>1, <2>2, <2>7, Changes DEF displayVars, Release
  <2> QED BY <2>1, <2>3, <2>4, <2>5, <2>6, <2>7
<1>2. IInv /\ [Next]_vars => [ShutdownGoesOn]_vars
  BY <1>1 DEF ShutdownGoesOn
<1> QED BY <1>2, Invariant, PTL DEF Spec

-----------------------------------------------------------------------------
(* The buffers while the camera streams: each is the driver's, holds a     *)
(* picture, is being read, or is one that the driver did not take back.    *)
AccountInv ==
    /\ stage \in Opening => lost = {}
    /\ stage \in {"map", "queue"} => count > 0
    /\ streaming =>
          /\ count > 0
          /\ queued \cup filled \cup lost \cup ({cur} \ {0}) = 1..count

(* AccountInv is inductive.                                                *)
LEMMA AccountStep == ASSUME IInv, AccountInv, [Next]_vars PROVE AccountInv'
<1>1. /\ TypeOK /\ StageInv /\ BufferInv /\ count \in Nat
      /\ queued \subseteq 1..count /\ filled \subseteq 1..count
  BY BoundsAssumption DEF IInv, TypeOK, DeviceTypes, BufferInv
<1>2. ASSUME UNCHANGED <<stage, streaming, count, lost>>,
             queued' \cup filled' \cup ({cur'} \ {0})
               = queued \cup filled \cup ({cur} \ {0})
      PROVE  AccountInv'
  <2>1. queued' \cup filled' \cup lost' \cup ({cur'} \ {0})
          = queued \cup filled \cup lost \cup ({cur} \ {0})
    BY <1>2
  <2> QED BY <1>2, <2>1 DEF AccountInv
<1>3. CASE Camera
  <2>1. stage \in Opening /\ ~streaming /\ filled = {} /\ vpc = "off" /\ cur = 0
    BY <1>1, <1>3 DEF Camera, OpenDevice, InitFormat, RequestBuffers,
       MapBuffer, QueueBuffer, StreamOn, CameraFails, StageInv, BufferInv,
       Opening
  <2>2. /\ lost = {} /\ UNCHANGED <<lost, filled, cur>>
    BY <1>3, <2>1 DEF AccountInv, Camera, OpenDevice, InitFormat,
       RequestBuffers, MapBuffer, QueueBuffer, StreamOn, CameraFails, Opens,
       visionVars
  <2>3. stage' \in {"map", "queue"} \/ StreamOn => count' > 0
    BY <1>1, <1>3, <2>1 DEF AccountInv, Camera, OpenDevice, InitFormat,
       RequestBuffers, MapBuffer, QueueBuffer, StreamOn, CameraFails, Opens,
       deviceVars, Opening
  <2>4. streaming' =>
          StreamOn /\ queued' = 1..count'
    BY <1>3, <2>1 DEF Camera, OpenDevice, InitFormat, RequestBuffers,
       MapBuffer, QueueBuffer, StreamOn, CameraFails, Opens, deviceVars
  <2> QED BY <2>1, <2>2, <2>3, <2>4 DEF AccountInv
<1>4. CASE Release
  BY <1>4 DEF Release, CloseCamera, Goes, AccountInv, Opening
<1>5. CASE Fill
  <2>1. PICK b \in queued : /\ queued' = queued \ {b}
                            /\ filled' = filled \cup {b}
    BY <1>5 DEF Fill
  <2>2. UNCHANGED <<stage, streaming, count, lost, cur>>
    BY <1>5 DEF Fill, deviceVars, visionVars
  <2> QED BY <1>2, <2>1, <2>2
<1>6. CASE VisionThread
  <2>1. UNCHANGED <<stage, streaming, count>>
    BY <1>6 DEF VisionThread, deviceVars
  <2>2. CASE Dequeue
    <3>1. cur = 0 /\ cur' \in filled /\ cur' # 0
      BY <1>1, <2>2 DEF Dequeue, BufferInv
    <3>2. filled' = filled \ {cur'} /\ UNCHANGED <<queued, lost>>
      BY <2>2 DEF Dequeue
    <3> QED BY <1>2, <2>1, <3>1, <3>2
  <2>3. CASE Requeue
    <3>1. cur # 0 /\ cur' = 0 /\ UNCHANGED filled
      BY <1>1, <2>3 DEF Requeue, BufferInv
    <3>2. queued' \cup lost' = queued \cup lost \cup {cur}
      BY <2>3 DEF Requeue
    <3>3. queued' \cup filled' \cup lost' \cup ({cur'} \ {0})
            = queued \cup filled \cup lost \cup ({cur} \ {0})
      BY <3>1, <3>2
    <3>4. vpc # "off" /\ stage \notin Opening
      BY <1>1, <2>3 DEF Requeue, StageInv
    <3> QED BY <2>1, <3>3, <3>4 DEF AccountInv, Opening
  <2>4. ASSUME ~Dequeue, ~Requeue PROVE UNCHANGED <<queued, filled, lost, cur>>
    BY <1>6, <2>4 DEF VisionThread, GrabFails, Decode, DecodeFails, Publish,
       Snapshot, NoSnapshot, bufferVars
  <2> QED BY <1>2, <2>1, <2>2, <2>3, <2>4
<1>7. ASSUME ~Camera, ~Release, ~Fill, ~VisionThread PROVE AccountInv'
  <2>1. UNCHANGED <<streaming, count, lost, queued, filled, cur>>
    BY <1>7, Changes DEF deviceVars, bufferVars, visionVars, StartThreads
  <2>2. stage' = stage \/ stage' \notin Opening
    BY <1>7, Changes DEF Main, Shutdown, OpenDisplay, StartFails,
       StartThreads, StopVision, VisionJoined, DisplayJoined, ClientsStopped,
       Goes, Opening
  <2>3. CASE stage' = stage
    BY <1>2, <2>1, <2>3
  <2>4. CASE stage' \notin Opening
    BY <2>1, <2>4 DEF AccountInv, Opening
  <2> QED BY <2>2, <2>3, <2>4
<1> QED BY <1>3, <1>4, <1>5, <1>6, <1>7

(* No buffer leaks: between two iterations of the vision thread the sensor *)
(* has a buffer to fill or a picture is waiting, all of the buffers that   *)
(* were granted still go round, unless the driver refused to take one back *)
(* (a failed VIDIOC_QBUF is only logged, V4L2Camera.cpp:180-181).          *)
NothingLeaks ==
    stage = "run" /\ lost = {} /\ vpc = "grab" =>
        queued \cup filled = 1..count /\ queued \cup filled # {}

(* The camera cannot run dry: the safety in PicturesReachTheScreen.        *)
THEOREM BuffersGoRound == Spec => []NothingLeaks
<1>1. Init => AccountInv
  BY DEF Init, AccountInv
<1>2. ASSUME IInv, AccountInv PROVE NothingLeaks
  <2>1. /\ stage = "run" => streaming
        /\ vpc = "grab" => cur = 0
        /\ count \in Nat
    BY <1>2, BoundsAssumption
    DEF IInv, TypeOK, DeviceTypes, StageInv, BufferInv, Serving
  <2>2. ASSUME stage = "run", lost = {}, vpc = "grab"
        PROVE  queued \cup filled = 1..count /\ count > 0
    BY <1>2, <2>1, <2>2 DEF AccountInv
  <2>3. count > 0 => 1 \in 1..count
    BY <2>1
  <2> QED BY <2>2, <2>3 DEF NothingLeaks
<1>3. IInv /\ AccountInv /\ [Next]_vars => AccountInv'
  BY AccountStep
<1> QED BY <1>1, <1>2, <1>3, Invariant, PTL DEF Spec

-----------------------------------------------------------------------------
(* The order of the pictures, from the sensor to the screen.  A picture p  *)
(* on its way through run() is newer than every one published and older    *)
(* than every one that waits.                                              *)
Published == {seen[i].img : i \in DOMAIN seen}

Newer(p) ==
    /\ \A b \in filled : p < pixel[b]
    /\ \A n \in Published : n < p
    /\ hub.img <= p /\ p <= made

WaitingInv ==
    /\ \A b, c \in filled : pixel[b] = pixel[c] => b = c
    /\ \A b \in filled : pixel[b] <= made /\ hub.img <= pixel[b]
    /\ \A b \in filled, n \in Published : n < pixel[b]

(* The picture that run() has in its hands: in the buffer it decodes, then *)
(* in its Mat.                                                             *)
OnItsWay(p) ==
    \/ vpc = "decode" /\ p = pixel[cur]
    \/ vpc = "requeue" /\ mat # 0 /\ p = heap[mat]
    \/ vpc = "detect" /\ p = heap[mat]

TakenInv == \A p \in Nat : OnItsWay(p) => Newer(p)

ShownInv ==
    /\ \A n \in Published : n <= made
    /\ hub.img <= made /\ dframe.img <= hub.img /\ screen <= hub.img
    /\ dpc = "show" => screen <= dframe.img

(* The frames are published in the order in which they were taken, none    *)
(* of them twice: VIDIOC_DQBUF gives the oldest buffer, and grab() decodes *)
(* it before another one is dequeued (V4L2Camera.cpp:158-182).             *)
PicturesInOrder ==
    \A i, j \in DOMAIN seen : i < j => seen[i].img < seen[j].img

OrderInv == WaitingInv /\ TakenInv /\ ShownInv /\ PicturesInOrder

(* What the order is about, and the numbers in it.                         *)
LEMMA OrderTypes ==
    ASSUME IInv
    PROVE  /\ pixel \in [Bufs -> Nat] /\ made \in Nat /\ heap \in [Cells -> Nat]
           /\ hub.img \in Nat /\ dframe.img \in Nat /\ screen \in Nat
           /\ filled \subseteq Bufs /\ queued \subseteq Bufs
           /\ cur # 0 => cur \in Bufs
           /\ mat = 0 \/ mat \in Cells
           /\ Published \subseteq Nat
<1>1. TypeOK /\ MaxFrames \in Nat
  BY BoundsAssumption DEF IInv
<1>2. Pictures \subseteq Nat
  BY <1>1 DEF Pictures
<1>3. /\ hub \in FrameRecord /\ dframe \in FrameRecord
      /\ heap \in [Cells -> Pictures] /\ (mat = 0 \/ mat \in Cells)
  BY HeapTypes
<1>4. hub.img \in Pictures /\ dframe.img \in Pictures /\ screen \in Pictures
  BY <1>1, <1>3 DEF FrameRecord, TypeOK, DisplayTypes
<1>5. /\ pixel \in [Bufs -> Pictures] /\ made \in Pictures
      /\ filled \subseteq Bufs /\ queued \subseteq Bufs
  BY <1>1 DEF TypeOK, BufferTypes
<1>6. cur # 0 => cur \in Bufs
  BY <1>1, BoundsAssumption DEF TypeOK, VisionTypes, Bufs
<1>7. Published \subseteq Pictures
  <2> DEFINE Sight == [img : Pictures, face : BOOLEAN]
  <2>1. seen \in Seq(Sight)
    BY <1>1 DEF TypeOK, VisionTypes
  <2>2. \A s \in Sight : s.img \in Pictures
    OBVIOUS
  <2> HIDE DEF Sight
  <2>3. \A i \in DOMAIN seen : seen[i] \in Sight
    BY <2>1
  <2> QED BY <2>2, <2>3 DEF Published
<1> QED BY <1>2, <1>3, <1>4, <1>5, <1>6, <1>7

(* A frame is published by appending it to the history.                    *)
LEMMA PublishedGrows ==
    ASSUME IInv, VisionThread
    PROVE  /\ Publish => Published' = Published \cup {heap[mat]}
           /\ ~Publish => UNCHANGED Published
<1>1. ASSUME Publish PROVE Published' = Published \cup {heap[mat]}
  <2>1. /\ seen \in Seq([img : Pictures, face : BOOLEAN])
        /\ Len(seen') = Len(seen) + 1 /\ seen'[Len(seen')].img = heap[mat]
        /\ \A k \in 1..Len(seen) : seen'[k] = seen[k]
    BY <1>1, SeenGrows
  <2>2. DOMAIN seen' = 1..Len(seen')
    BY <1>1, <2>1 DEF Publish
  <2>3. DOMAIN seen = 1..Len(seen) /\ Len(seen) \in Nat
    BY <2>1
  <2>4. DOMAIN seen' = DOMAIN seen \cup {Len(seen')}
    BY <2>1, <2>2, <2>3
  <2> QED BY <2>1, <2>3, <2>4 DEF Published
<1>2. ~Publish => UNCHANGED seen
  BY SeenGrows
<1>3. UNCHANGED seen => UNCHANGED Published
  BY DEF Published
<1> QED BY <1>1, <1>2, <1>3

(* A step that neither fills a buffer nor publishes keeps the order, if it *)
(* leaves the picture on its way alone or puts it aside.                   *)
LEMMA OrderKept ==
    ASSUME OrderInv,
           filled' \subseteq filled, UNCHANGED <<pixel, made, seen>>,
           hub'.img = hub.img,
           \A p \in Nat : OnItsWay(p)' => OnItsWay(p)
    PROVE  WaitingInv' /\ TakenInv' /\ PicturesInOrder'
<1>1. Published' = Published
  BY DEF Published
<1>2. PicturesInOrder'
  BY DEF OrderInv, PicturesInOrder
<1>3. WaitingInv'
  BY <1>1 DEF OrderInv, WaitingInv
<1>4. \A p \in Nat : Newer(p) => Newer(p)'
  BY <1>1 DEF Newer
<1>5. TakenInv'
  <2> SUFFICES ASSUME NEW p \in Nat, OnItsWay(p)' PROVE Newer(p)'
    BY DEF TakenInv
  <2>1. OnItsWay(p)
    OBVIOUS
  <2>2. Newer(p)
    BY <2>1 DEF OrderInv, TakenInv
  <2> QED BY <1>4, <2>2
<1> QED BY <1>2, <1>3, <1>5

(* The sensor's next picture is the newest of all.                         *)
LEMMA FillKeepsOrder ==
    ASSUME IInv, OrderInv, Fill
    PROVE  OrderInv'
<1> USE OrderTypes
<1>1. PICK b \in queued : /\ queued' = queued \ {b}
                          /\ filled' = filled \cup {b}
                          /\ pixel' = [pixel EXCEPT ![b] = made + 1]
  BY DEF Fill
<1>2. /\ made' = made + 1
      /\ UNCHANGED <<vpc, cur, mat, heap, hub, seen, dframe, dpc, screen>>
  BY DEF Fill, visionVars, runVars, displayVars
<1>3. Published' = Published
  BY <1>2 DEF Published
<1>4. b \notin filled /\ (vpc = "decode" => cur # b /\ cur # 0)
  BY <1>1 DEF IInv, BufferInv
<1>5. /\ pixel'[b] = made + 1
      /\ \A c \in Bufs : c # b => pixel'[c] = pixel[c]
  BY <1>1
<1>6. WaitingInv /\ TakenInv /\ ShownInv /\ PicturesInOrder
  BY DEF OrderInv
<1>7. WaitingInv'
  <2>1. \A c \in filled : pixel'[c] = pixel[c] /\ pixel[c] <= made
    BY <1>4, <1>5, <1>6 DEF WaitingInv
  <2>2. hub.img <= made /\ \A n \in Published : n <= made
    BY <1>6 DEF ShownInv
  <2>3. \A c, d \in filled' : pixel'[c] = pixel'[d] => c = d
    BY <1>1, <1>5, <1>6, <2>1 DEF WaitingInv
  <2>4. \A c \in filled' : pixel'[c] <= made + 1 /\ hub.img <= pixel'[c]
    BY <1>1, <1>5, <1>6, <2>1, <2>2 DEF WaitingInv
  <2>5. \A c \in filled', n \in Published : n < pixel'[c]
    BY <1>1, <1>5, <1>6, <2>1, <2>2 DEF WaitingInv
  <2> QED BY <1>2, <1>3, <2>3, <2>4, <2>5 DEF WaitingInv
<1>8. \A p \in Nat : Newer(p) => Newer(p)'
  <2> SUFFICES ASSUME NEW p \in Nat, Newer(p) PROVE Newer(p)'
    OBVIOUS
  <2>1. \A c \in filled' : p < pixel'[c]
    BY <1>1, <1>4, <1>5 DEF Newer
  <2> QED BY <1>2, <1>3, <2>1 DEF Newer
<1>9. TakenInv'
  <2> SUFFICES ASSUME NEW p \in Nat, OnItsWay(p)' PROVE Newer(p)'
    BY DEF TakenInv
  <2>1. OnItsWay(p)
    BY <1>2, <1>4, <1>5 DEF OnItsWay
  <2> QED BY <1>6, <1>8, <2>1 DEF TakenInv
<1>10. ShownInv' /\ PicturesInOrder'
  BY <1>2, <1>3, <1>6 DEF ShownInv, PicturesInOrder
<1> QED BY <1>7, <1>9, <1>10 DEF OrderInv

(* The published picture is newer than all before it.                      *)
LEMMA PublishKeepsOrder ==
    ASSUME IInv, OrderInv, VisionThread, Publish
    PROVE  OrderInv'
<1> USE OrderTypes
<1> DEFINE p == heap[mat]
<1>1. /\ UNCHANGED <<filled, pixel, made, mat, dpc, dframe, screen>>
      /\ hub'.img = p /\ vpc = "detect" /\ vpc' = "snap"
  BY DEF Publish, VisionThread, bufferVars, displayVars
<1>2. p \in Nat
  BY <1>1 DEF IInv, HeapInv
<1>3. Published' = Published \cup {p}
  BY PublishedGrows
<1>4. Newer(p) /\ WaitingInv /\ ShownInv /\ PicturesInOrder
  BY <1>1, <1>2 DEF OrderInv, TakenInv, OnItsWay
<1>5. TakenInv'
  BY <1>1 DEF TakenInv, OnItsWay
<1>6. PicturesInOrder'
  <2>1. /\ seen \in Seq([img : Pictures, face : BOOLEAN])
        /\ Len(seen') = Len(seen) + 1 /\ seen'[Len(seen')].img = p
        /\ \A k \in 1..Len(seen) : seen'[k] = seen[k]
    BY SeenGrows
  <2>2. /\ DOMAIN seen' = 1..Len(seen')
        /\ DOMAIN seen = 1..Len(seen) /\ Len(seen) \in Nat
    BY <2>1 DEF Publish
  <2>3. \A k \in 1..Len(seen) : seen[k].img < p
    BY <1>4, <2>2 DEF Newer, Published
  <2> SUFFICES ASSUME NEW i \in DOMAIN seen', NEW j \in DOMAIN seen', i < j
               PROVE  seen'[i].img < seen'[j].img
    BY DEF PicturesInOrder
  <2>4. i \in 1..Len(seen)
    BY <2>1, <2>2
  <2>5. CASE j = Len(seen')
    BY <2>1, <2>3, <2>4, <2>5
  <2>6. CASE j \in 1..Len(seen)
    BY <1>4, <2>1, <2>2, <2>4, <2>6 DEF PicturesInOrder
  <2> QED BY <2>1, <2>2, <2>5, <2>6
<1> HIDE DEF p
<1>7. WaitingInv'
  BY <1>1, <1>2, <1>3, <1>4 DEF WaitingInv, Newer
<1>8. ShownInv'
  BY <1>1, <1>2, <1>3, <1>4 DEF ShownInv, Newer
<1> QED BY <1>5, <1>6, <1>7, <1>8 DEF OrderInv

(* The oldest picture that waits is taken, and decoded.                    *)
LEMMA TakingKeepsOrder ==
    ASSUME IInv, OrderInv, VisionThread, Dequeue \/ Decode
    PROVE  WaitingInv' /\ TakenInv' /\ PicturesInOrder'
<1> USE OrderTypes
<1>1. /\ UNCHANGED <<pixel, made, hub, seen>>
      /\ filled' \subseteq filled
  BY DEF Dequeue, Decode, bufferVars, runVars
<1>2. CASE Dequeue
  <2>1. /\ cur' \in filled /\ filled' = filled \ {cur'} /\ vpc' = "decode"
        /\ \A c \in filled : pixel[cur'] <= pixel[c]
    BY <1>2 DEF Dequeue
  <2> DEFINE c == cur'
  <2> HIDE DEF c
  <2>2. /\ c \in filled /\ filled' = filled \ {c}
        /\ \A b \in filled : pixel[c] <= pixel[b]
    BY <2>1 DEF c
  <2>3. WaitingInv /\ PicturesInOrder
    BY DEF OrderInv
  <2>4. Published' = Published
    BY <1>1 DEF Published
  <2>5. \A b \in filled' : pixel[c] < pixel[b]
    BY <2>2, <2>3 DEF WaitingInv
  <2>6. \A p \in Nat : p = pixel[c] => Newer(p)'
    BY <1>1, <2>2, <2>3, <2>4, <2>5 DEF WaitingInv, Newer
  <2>7. TakenInv'
    BY <1>1, <2>1, <2>6 DEF TakenInv, OnItsWay, c
  <2>8. WaitingInv' /\ PicturesInOrder'
    BY <1>1, <2>2, <2>3, <2>4 DEF WaitingInv, PicturesInOrder
  <2> QED BY <2>7, <2>8
<1>3. CASE Decode
  <2>1. /\ vpc = "decode" /\ vpc' = "requeue" /\ UNCHANGED cur
        /\ heap' = [heap EXCEPT ![mat'] = pixel[cur]]
    BY <1>3 DEF Decode
  <2>2. mat' \in Cells
    BY <1>3, NewCellIsFree DEF Decode
  <2>3. heap'[mat'] = pixel[cur]
    BY <2>1, <2>2
  <2>4. \A p \in Nat : OnItsWay(p)' => OnItsWay(p)
    BY <2>1, <2>3 DEF OnItsWay
  <2> QED BY <1>1, <2>4, OrderKept
<1> QED BY <1>2, <1>3

(* Every step keeps the pictures in order, up to the hub.                  *)
LEMMA OrderStep ==
    ASSUME IInv, OrderInv, [Next]_vars, ~Fill, ~(VisionThread /\ Publish)
    PROVE  /\ WaitingInv' /\ TakenInv' /\ PicturesInOrder'
           /\ UNCHANGED <<hub, seen, made>>
<1>1. UNCHANGED <<pixel, made>> /\ filled' \subseteq filled
  <2>1. CASE Camera
    BY <2>1 DEF Camera, OpenDevice, InitFormat, RequestBuffers, MapBuffer,
       QueueBuffer, StreamOn, CameraFails, Opens
  <2>2. CASE Release
    BY <2>2 DEF Release, CloseCamera
  <2>3. CASE Dequeue \/ Requeue
    BY <2>3 DEF Dequeue, Requeue
  <2>4. CASE UNCHANGED bufferVars
    BY <2>4 DEF bufferVars
  <2> QED BY <2>1, <2>2, <2>3, <2>4, Changes
<1>2. UNCHANGED <<hub, seen>>
  <2>1. CASE VisionThread
    BY <2>1 DEF VisionThread, GrabFails, Dequeue, Decode, DecodeFails,
       Requeue, Snapshot, NoSnapshot, runVars
  <2>2. CASE ~VisionThread
    BY <2>2, Changes DEF visionVars, runVars, StartThreads, ClientSnapshot,
       SnapshotEnds
  <2> QED BY <2>1, <2>2
<1>3. ASSUME \A p \in Nat : OnItsWay(p)' => OnItsWay(p)
      PROVE  WaitingInv' /\ TakenInv' /\ PicturesInOrder'
  BY <1>1, <1>2, <1>3, OrderKept
<1>4. CASE VisionThread
  <2>1. CASE Dequeue \/ Decode
    BY <1>4, <2>1, <1>2, <1>1, TakingKeepsOrder
  <2>2. CASE Requeue
    <3>1. vpc = "requeue" /\ UNCHANGED <<heap, mat>> /\ (vpc' = "detect" => mat # 0)
          /\ vpc' \notin {"decode", "requeue"}
      BY <2>2 DEF Requeue, Loops, runVars
    <3>2. \A p \in Nat : OnItsWay(p)' => OnItsWay(p)
      BY <3>1 DEF OnItsWay
    <3> QED BY <1>1, <1>2, <1>3, <3>2
  <2>3. CASE GrabFails \/ DecodeFails \/ Snapshot \/ NoSnapshot
    <3>1. \/ vpc' \notin {"decode", "requeue", "detect"}
          \/ vpc' = "requeue" /\ mat' = 0
      BY <2>3 DEF GrabFails, DecodeFails, Snapshot, NoSnapshot, Loops
    <3>2. \A p \in Nat : OnItsWay(p)' => OnItsWay(p)
      BY <3>1 DEF OnItsWay
    <3> QED BY <1>1, <1>2, <1>3, <3>2
  <2> QED BY <1>4, <2>1, <2>2, <2>3 DEF VisionThread
<1>5. CASE ~VisionThread
  <2>1. UNCHANGED heap
    BY <1>5, Changes DEF ClientSnapshot, SnapshotEnds
  <2>2. UNCHANGED <<vpc, cur, mat>> \/ vpc' = "grab"
    BY <1>5, Changes DEF visionVars, runVars, StartThreads
  <2>3. \A p \in Nat : OnItsWay(p)' => OnItsWay(p)
    BY <1>1, <2>1, <2>2 DEF OnItsWay
  <2> QED BY <1>1, <1>2, <1>3, <2>3
<1> QED BY <1>4, <1>5

(* Neither the display nor the screen is ahead of the hub, and what the    *)
(* display is about to show is not older than what it shows.               *)
LEMMA ShownStep ==
    ASSUME IInv, OrderInv, [Next]_vars, ~Fill, ~(VisionThread /\ Publish)
    PROVE  ShownInv' /\ (screen' >= screen \/ fb' = "closed")
<1> USE OrderTypes
<1>1. UNCHANGED <<hub, seen, made>> /\ ShownInv
  BY OrderStep DEF OrderInv
<1>2. Published' = Published
  BY <1>1 DEF Published
<1>3. ASSUME UNCHANGED <<dpc, dframe, screen>>
      PROVE  ShownInv' /\ (screen' >= screen \/ fb' = "closed")
  BY <1>1, <1>2, <1>3 DEF ShownInv
<1>4. CASE DisplayLoops
  <2>1. /\ UNCHANGED screen
        /\ \/ dframe' = hub
           \/ UNCHANGED dframe /\ dpc' = "over"
    BY <1>4 DEF DisplayLoops
  <2> QED BY <1>1, <1>2, <2>1 DEF ShownInv
<1>5. CASE DisplayShows
  <2>1. /\ dpc = "show" /\ dpc' = "top" /\ dframe'.img = 0
        /\ screen' \in {screen, heap[dframe.cell]}
    BY <1>5 DEF DisplayShows, NoFrame
  <2>2. heap[dframe.cell] = dframe.img
    BY <2>1, HeapInvParts DEF IInv, HeapParts, Shows
  <2> QED BY <1>1, <1>2, <2>1, <2>2 DEF ShownInv
<1>6. CASE Release
  <2>1. /\ UNCHANGED <<dpc, dframe>> /\ screen' \in {screen, 0} /\ fb' = "closed"
    BY <1>6 DEF Release
  <2>2. dpc # "show"
    BY <1>6 DEF Release, Goes, IInv, StageInv, Opening
  <2> QED BY <1>1, <1>2, <2>1, <2>2 DEF ShownInv
<1>7. CASE StartThreads
  BY <1>1, <1>2, <1>7 DEF StartThreads, ShownInv
<1>8. OpenDisplay => UNCHANGED <<dpc, dframe, screen>>
  BY DEF OpenDisplay
<1>9. UNCHANGED displayVars => UNCHANGED <<dpc, dframe, screen>>
  BY DEF displayVars
<1> QED
  BY <1>3, <1>4, <1>5, <1>6, <1>7, <1>8, <1>9, Changes DEF DisplayThread

(* The order holds, in every state of every run, and with it what a step   *)
(* does to the screen.                                                     *)
LEMMA OrderInvariant == Spec => []OrderInv
<1>1. Init => OrderInv
  <2> SUFFICES ASSUME Init PROVE OrderInv
    OBVIOUS
  <2>1. Published = {} /\ hub.img = 0 /\ dframe.img = 0
    BY DEF Init, Published, NoFrame
  <2>2. PicturesInOrder
    BY DEF Init, PicturesInOrder
  <2>3. WaitingInv
    BY DEF Init, WaitingInv
  <2>4. TakenInv
    BY DEF Init, TakenInv, OnItsWay
  <2>5. ShownInv
    BY <2>1 DEF Init, ShownInv
  <2> QED BY <2>2, <2>3, <2>4, <2>5 DEF OrderInv
<1>2. IInv /\ OrderInv /\ [Next]_vars => OrderInv'
  BY FillKeepsOrder, PublishKeepsOrder, OrderStep, ShownStep DEF OrderInv
<1> QED BY <1>1, <1>2, Invariant, PTL DEF Spec

(* Every picture is published once and in its turn.                        *)
THEOREM PicturesStayInOrder == Spec => []PicturesInOrder
BY OrderInvariant, PTL DEF OrderInv

(* The screen never goes back to an older picture, though the display      *)
(* thread takes its frames from the hub at a pace of its own; only closing *)
(* the frame buffer blackens it (Framebuffer.cpp:93-99).                   *)
ScreenGoesForward == screen' >= screen \/ fb' = "closed"

(* What is shown is never replaced by something older.                     *)
THEOREM TheScreenGoesForward == Spec => [][ScreenGoesForward]_vars
<1>1. ASSUME IInv, OrderInv, [Next]_vars PROVE ScreenGoesForward
  <2>1. CASE Fill \/ (VisionThread /\ Publish)
    <3>1. UNCHANGED screen /\ screen \in Nat
      BY <1>1, <2>1, OrderTypes DEF Fill, VisionThread, displayVars
    <3> QED BY <3>1 DEF ScreenGoesForward
  <2>2. CASE ~Fill /\ ~(VisionThread /\ Publish)
    BY <1>1, <2>2, ShownStep DEF ScreenGoesForward
  <2> QED BY <2>1, <2>2
<1>2. IInv /\ OrderInv /\ [Next]_vars => [ScreenGoesForward]_vars
  BY <1>1
<1> QED BY <1>2, OrderInvariant, Invariant, PTL DEF Spec
=============================================================================
