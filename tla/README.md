# Verification of the face-tracking terminal and its clients

TLA+ models of the program in this repository, TLC configurations that check
them on small instances, and TLAPS proofs of the properties that matter most,
for every value of the constants. Everything is translated from the code; docs
and comments are used only to say what the code is meant to do.

    tlc -workers 4 -config MCGimbal_all.cfg MCGimbal        # a run
    tlapm Gimbal_proofs.tla                                 # a proof

`PROJECT.json` lists the runs, the lines of code each definition stands for,
the hazards of the code and the properties that watch them.

## 1. The system

A terminal (a small Linux board) films a face, follows it with a two-axis gimbal
and serves video, control and captured pictures to PC and mobile clients over
the SEC1 protocol, on raw TCP, WebSocket, or either of them over TLS.

| Component | State | Operations | Talks to |
|---|---|---|---|
| Main (`main.cpp`) | stage of start and shutdown, `g_stop` | start and join the threads, `stopAll`, release the devices | every thread |
| Accept threads (`net/TcpServer`) | `running_`, the connection being admitted | accept, test the cap, spawn a session, adopt it, reap | registry, sessions |
| Client registry (`core/ClientRegistry.h`) | `entries_`, mutex, published client count | `adopt`, `reapFinished`, `stopAll`, `count` | accept threads, main, status board |
| Client session (`net/ClientSession`) | `authed_`, `rx`, `lastSentSeq_`, `stop_`, `finished_` | authenticate, parse, answer, transfer a file, push video | transport, command queue, frame hub, files |
| Transports (`TcpConn.h`, `WebSocketConn`, `TlsConn`) | `rx_`, `app_`, `closed_`, OpenSSL's buffers | handshake, `recv`, `send`, `close` | session, socket |
| Command queue (`core/CommandQueue.h`) | `q_` | `push`, `tryPop` | sessions, business thread |
| Business thread and tracker (`app/BusinessThread`, `servo/PanTiltTracker`) | mode, end of the override, angles | drain, correct, drive, publish status | queue, tracking state, servo |
| Camera (`capture/V4L2Camera`) | descriptor, buffers mapped, queued and filled | `open` in five steps, `grab`, `close` | V4L2 driver, vision thread |
| Vision thread (`app/VisionThread`) | its own `Mat`, `prevFound` | grab, detect, publish, automatic snapshot on a detached thread | camera, hub, tracking state, files |
| Frame hub (`core/FrameHub.h`) | the newest `Frame` | `publish`, `latest` | vision, display, sessions |
| Display (`app/DisplayThread`, `display/Framebuffer`) | its frame, the mapping, the screen | `open`, `show`, `close` | hub, frame buffer |
| Servo driver (`servo/ServoController`) | `ready_`; the PWM files outlive it | `init`, `setAngles`, `release` | kernel |
| Capture files (`file/FileManager`) | a directory, a mutex | snapshot, list, read, remove | sessions, vision thread |
| PC client (`pc-client/`) | socket, buffer, `downloads_`, list | connect, request, assemble files, dialogs | terminal |
| Mobile client (`mobile-client/`) | socket, parser, gallery, downloads | the same | terminal |
| Codecs (`Protocol.h`, `WebSocketProto.h`, `Auth.h`) | none | headers, frames, token comparison | session, transports |
| Detector, configuration, stubs for development hosts | | | vision thread, main |

What is hard here, and what would be correct:

* *Accept threads and registry.* Up to four listeners share one registry, test
  the cap and adopt in two critical sections, and join sessions while they hold
  the mutex. No session thread may escape the registry (it uses locals of
  `main`), no live one may be erased, the cap may be overshot only by what is in
  flight, slots come back, and shutdown ends.
* *Session.* Messages arrive cut anywhere, sends fail or are cut short by a
  timeout, files change under a transfer. Nothing is served before the token;
  commands and answers keep their order; video moves forward while its counter
  wraps; `stop()` and the authentication deadline take effect.
* *Gimbal.* Commands of several sessions, the override's timer and tracking meet
  between two ticks; the control loop is faster than the camera. The gimbal
  stays in its limits, tracking keeps out of an override and comes back after
  it, and the loop settles on the face instead of swinging around it.
* *Video path.* Buffers change hands between driver and program, a `Mat` is a
  counted reference that several threads hold, and three ways of saving and
  showing a frame overlap with the next one. A picture that is read is not being
  written, a published frame stays what it is, an automatic snapshot shows the
  moment it was taken for, and after any partial `open()` everything is released.
* *Codecs.* What is announced is what is taken, and the network's cuts do not
  matter.
* *WebSocket over TLS.* Three buffers between `poll()` and the session, and only
  one of them is visible to `poll()`. Payload reaches the session once, in order
  and without waiting for more; control frames are answered.
* *Clients.* Answers are matched to requests by position and name, across
  reconnects, nested event loops and files that others replace. What is saved is
  one version of a file, whole.
* *A session's blocking calls.* Every system call has a timeout, but a handshake,
  a record and a message take many of them, and none of these looks at `stop_`.
  A client that does not authenticate must not keep its slot, a session that is
  asked to stop must end although its peer reads slowly, and the descriptor that
  three destructors close must be closed once.
* *Capture files.* Sessions and detached threads use one directory; names are made
  before the mutex is taken, and pictures are written in place. Calls must not
  see each other's halves, whatever fails or ends in the middle.
* *Servo driver.* The kernel keeps the PWM state across runs and its refusals are
  not noticed. A driver that says it is ready drives the servos.

## 2. Modules

    SessionPool          abstract: a bounded pool of sessions that closes
      ^ implemented by
    TerminalServer       accept threads, registry, session threads, main
    ClientSession        one session in full
    WebSocketConn        the transport below a session
    ConnSetup            a session's blocking calls in time, its descriptor
    Gimbal               queue, business thread, tracker, vision, camera, face
    ServoPwm             the driver below the business thread
    Vision               camera, vision thread, frame hub, display, snapshots
    CaptureStore         abstract: a directory whose calls are atomic
      ^ implemented by
    Captures             names, mutex, files written part by part
    Codec                headers, frames and tokens as functions of bytes
    TerminalPeer         a session as a remote client meets it
      ^ EXTENDS
    PcClient, MobileClient
      ^ INSTANCE
    Clients              either client on its connections

`X_proofs` holds the theorems about `X` (`Gimbal_proofs` also those about
`ServoPwm`, `WebSocketConn_proofs` those about `Codec`); `MCX` and `MCX_run.cfg`
the instances.
A definition `Mut...` stands in front of the one it is a variant of, with a
mistake somebody could make in that code. No specification uses it; put in place
of the definition it makes the property of its run fail, which shows that the
property depends on that code.

### TerminalServer, SessionPool

A connection is a recycled slot: `free`, `queued` (in a listen backlog, a set,
since the order of admission tells no property apart), `held` (accepted),
`live`, `ended` (`finished_` set), `gone` (thread function returned). An accept
thread's `lpc` walks through `acceptOne()`: `check` is the cap test, `spawn` the
thread's creation, `adopt` the registry call, `reap`/`reaping` the walk of
`reapFinished()`, which keeps the mutex while it joins one session after the
other. `stage` is main: `boot`, `run`, `net` (stopping the listeners in
`StopOrder`), `workers`, `clients`/`joining` (`stopAll()`), `release`, `done`.
The registry's mutex is `lock`; `count` is what the overlay shows. Failure of
`std::thread`'s constructor is not modelled.

Under the actual code the cap is exact only for one listener; `SessionPool` is
therefore a pool of `MaxClients + listeners - 1`, which `TerminalServer`
implements with `pool <- entries` and `closed` from the end of `net` on.

### ClientSession

`pc` is the place in `run()`. The received bytes are three numbers: `got` whole
messages, `partial` (the next header is in), `pos` messages handled, so that
input may be cut at every place the parser tells apart. `dispatch` handles the
buffered messages one by one, `sendFile` sends one chunk per step, `push` is the
due frame. A `send` may work, write nothing or write a part (`whole = FALSE`).
Others delete and add files, frames are published modulo `SeqSpace`, the
deadline passes (`expired`), main calls `requestStop()`. `lossy` is a history
variable: some send has failed. A request names a file (`Names`), has no name
(`NoName`) or one that `resolve()` refuses (`BadNames`). A refused name is answered
like a file that is not there, except that `sendFile()` returns without an answer
when a name has more than 255 bytes (`LongNames`, `ClientSession.cpp:235`).

### Gimbal

Client sessions `Push`; the business thread takes commands (`TakeManual`,
`TakeMode`, `Drained`), updates the tracker, writes the servo, reports and
sleeps; the vision thread grabs a frame, and detects what was in it later. The
face moves, the camera fails and recovers. The camera sits on the gimbal: the
error that is seen depends on where the servo points. Angles are integers of a
fine unit, the detector is reliable, the three stores of the status board are
one step, `hold` is what is left of the override. `byHand` and `quiet` are
history variables (a manual command since the last servo write; time since the
last one, at most `Override`). `age` bounds the ticks between two frames by
`TicksPerFrame` while the camera works.

### WebSocketConn

A byte is its place in what the peer sends, so a lost, repeated or reordered
byte shows. The pipeline is `sock` (what `poll()` sees), `ssl` (decrypted in
OpenSSL), `rx` (`rx_`), `app` (`app_`), `delivered`. A frame is one head byte,
for its 2 to 14 header bytes, and its payload. `Drain...` is `drainFrames()`
frame by frame, `Serve...` the copy into the session's buffer. `early` peers send
frames behind their upgrade request without waiting for the 101. Upgrade text,
SHA-1 and base64 are left out; a stalled socket is a stutter.

### ConnSetup

What `WebSocketConn` and `ClientSession` leave out, the time that passes inside a
call. `pc` is the call the session's thread is in: `accept` (`SSL_accept()`),
`upgrade` (the request), `record` (`SSL_read()` waiting for the rest of a record),
the writes of pongs (`control`), of replies (`answer`) and of a frame (`frame`),
`shutdown` (`SSL_shutdown()`). `todo` is what it may still move, `wait` the time in
the present system call, which a byte sets back (`SO_RCVTIMEO`), and which a
`send()` that has `moved` something turns into a short count, so that `sendAll()`
goes on. The peer sends and takes as it likes, or not at all. `held` and `fd` are
the stream's `fd_` and whose number that is in the kernel, which gives free
numbers away (`Reused`). All four transports are in one instance (`tls`, `ws`).
What is written is one message per pass through the loop, of each kind.

### Captures, CaptureStore

`pc` walks through a call: the wall clock is read (`named`), the name is made, the
mutex is waited for (`enter`), a file is `writing` or `reading`. A file has a
picture and the parts of it that are there; `imwrite()` (external) empties the
file first. Every write may fail, `Restart` ends the process anywhere. `Phase` is
where a second of the wall clock begins in the steady clock's milliseconds. The
order of a list, by time of change, is left out. In `CaptureStore` every call
takes effect at once: `Captures` implements it with the file being written
replaced by what it overwrites (`Stored`), and with the request a thread is in,
without the name that a snapshot gets (`Asked`).

### Codec

The bytes that the modules above count as one header. `getU16` to `decodeHeader`
are the SEC1 header, `encodeFrame` and `decodeFrame` the WebSocket frames with
the fields of `decodeFrame()` as operators of their own, `clientFrame` what a
browser sends, `constantTimeEqual` the token check. `Xor` is a constant with the
three facts of it that matter (`XorAssumption`). `MCWebSocketConn` gives it the
definition for bytes and evaluates the round trips and the cuts on small inputs;
`WebSocketConn_proofs` has them for all.

### TerminalPeer, PcClient, MobileClient, Clients

`TerminalPeer` is one connection as whole messages and the answering session of
`ClientSession`, with the files' versions: a name may be deleted and saved anew
with other content. A write of the terminal may fail, or tear a message, only
when the connection holds `MaxBacklog` messages: TCP loses nothing by itself. A
torn chunk arrives with the wrong bytes, and junk follows.

`PcClient` has `TcpClient`'s socket and buffer, `downloads_`, and `loop`, the
nested event loop of a dialog opened inside `processBuffer()`: while it runs the
connection may end, and the rest of the buffer is handled afterwards. As Qt
documents, `readyRead` is not emitted again inside its slot. `MobileClient` has
the store of `terminal.ts`. Only one connection at a time exists, as in both
programs, and the token is right.

### ServoPwm

The PWM files of two channels are the kernel's state, which survives the
process; writes are accepted by the kernel's rules (`AcceptsDuty`,
`AcceptsPeriod`, `AcceptsEnable`, external). `InitSteps` is the order of
`init()`'s writes; the process may crash before and behind each of them and start
again. `writeStr()` fails only where the file cannot be opened, as in the code,
where the result of `fclose()` is dropped.

### Vision

A picture is the number the sensor gave it, a `cv::Mat` the number of a cell of
the heap: assigning shares the cell, `clone()` and decoding into an empty `Mat`
take a free one (`NewCell`). `stage` is main: `boot`, `format`, `request`, `map`
and `queue` are `V4L2Camera::open()`, each with `CameraFails` beside it,
`devices` and `threads` the display and the threads, `run`, then the joins in
main's order (`vision`, `display`, `clients`), `release`, `exit`; `failed` is an
error on the way up. `queued` and `filled` are the driver's, `cur` is the buffer
between `VIDIOC_DQBUF` and `VIDIOC_QBUF`, `lost` those the driver refused. `vpc`
walks through `VisionThread::run()`: `Dequeue`, `Decode` or `DecodeFails`,
`Requeue`, `Publish`, `Snapshot` or `NoSnapshot`. `writers` are the calls of
`FileManager::snapshot()` under way, of sessions and of detached threads.
`DisplayShows` copies a frame to the screen if the frame buffer can. The driver,
`Fill`, and OpenCV's allocation are external. `seen` is a history variable: what
was published, and whether there was a face in it.

## 3. Runs

| Run | Asks | Instance |
|---|---|---|
| `server_all` | orphans, count, refinement of `SessionPool`, slots come back, shutdown ends | 2 listeners, 3 connections, cap 1 |
| `session_all` | token gate, order of commands and answers, chunks, video forward, failure closes, deadline, stop, newest frame | 12 inputs of up to 4 messages, 2 files of 2 and 0 chunks, a refused name and one of more than 255 bytes, 2 frames, counter modulo 4 |
| `session_stream` (violation) | is the stream clean? | file requests, no token |
| `gimbal_all` | limits, queue, override, tracking resumes, loop stops, closed loop settles | 1 axis of 7 positions with the face in the middle, 1 session with 2 of 4 commands, 2 ticks per frame |
| `gimbal_blind` (violation) | is the position held without a face? | failing camera |
| `websocket_stream` | clean stream, control frames, bytes of a waiting peer whose records and bursts fit are served; codecs | 10 streams, raw and TLS, buffers of 3 bytes, segments and records of up to 4; frames of up to 7 and of 300 bytes |
| `websocket_early` (violation) | are arrived bytes served to every peer? | 2 streams of early peers |
| `setup_time` | types, slot and stop in time, descriptor closed once | raw, TLS, WebSocket, both; timeouts of 2 ticks, units of 2 bytes |
| `captures_all` | types, names, refinement of `CaptureStore` | 2 threads, 2 pictures of 2 parts, 2 ms of 2 per second |
| `clients_files` | saved files whole, HELLO first, answers in order | 1 name, 3 versions of 2, 1, 0 chunks, 2 requests per connection, any number of connections |
| `servo_restart` | ready means driven | 3 leftover periods, any number of crashes |
| `vision_pipeline` | buffers, published frames, snapshots, release, pictures reach the screen | 2 buffers, 3 pictures, 5 cells |

Type invariants, the cap and the status are not among the runs where a theorem
has them for every instance.

Why the bounds are enough. Two listeners with room for one session are the
smallest instance in which the cap check, the adoption and a reap interleave,
and a third connection lets a slot be refused while another is reclaimed. In the
session every hazard lies within two consecutive messages or within one
transfer; four messages give one before and one behind, and the first frame, 0,
lies behind the wrap of the counter for a session that starts at 3. Two commands
do not commute already. Seven positions with the face in the middle and a pixel
worth three are the smallest instance in which a gimbal that comes from an end
sees the face off the centre, passes it and can swing back to where it sees it
off the centre again; manual targets lie beyond both ends. The WebSocket buffers
are of three bytes, so frames straddle reads, a header is cut from its payload,
and a payload of four, two payloads of two and a record of four bytes exceed the
session's buffer and that of `recv()`. In `ConnSetup` a handshake, a record
and a message take two moves each, so a timeout may fall before, between and
behind them; the watched time is longer than both bounds, which are reached. Two threads and two pictures are what it takes for a name to meet
itself; the three milliseconds watched belong to two seconds, one of which is seen
whole. Three versions let a file change
twice during one download, to fewer chunks and to none. In `MCServoPwm` leftover
periods lie below and above the configured one. Two buffers are the fewest the
camera accepts, and let one be lost and the other go on; three pictures let a
face appear, stay and be overtaken while a write is under way; five cells let
the hub, the display, two writers and the vision thread hold one each. Proofs, where there are any,
remove the bounds.

Deadlock is checked in all runs but the WebSocket ones, where a peer that sends
nothing and a session that waits for it really do stop, and those of `ConnSetup`,
whose session ends.

### Disagreements between the code and what is said of it

* `session_stream`: `IConn.h` promises a clean SEC1 byte stream. A reply cut
  short by the send timeout is not noticed and the next message is written
  behind it (`ClientSession.cpp:215`, `:268`). Video frames are safe
  (`VideoFailureCloses`, proved).
* `gimbal_blind`: `PanTiltTracker.h:3` says that it holds its position when no
  face is present. While the camera fails the last detection is applied again at
  every tick (`BusinessThread.cpp:45`, `VisionThread.cpp:34`).
* `websocket_early`: bytes that arrive in one read with the upgrade request are
  kept in `rx_` until the socket is readable again (`WebSocketConn.cpp:83`); a
  HELLO among them may meet the authentication deadline.

`main.cpp:112` and `:129` say that `maxClients` spans all transports. Two accept
threads may test the cap together and both adopt (`TcpServer.cpp:107`, `:140`):
the registry then holds one session more, never more than one per further
listener. That bound, and no tighter one, is `SessionBound`, which is proved.
`VisionThread.cpp:79` says that at most one automatic snapshot is in flight; that
holds only while a write is shorter than the interval, and `Vision` lets several
be under way. `ClientSession.cpp:22` says that a client without a valid HELLO is
dropped after `kAuthTimeoutMs`; the time is counted from behind the handshake
(`ClientSession.cpp:52`), which has no limit of its own but the size of the
request, and `SlotIsFreed` is the bound that holds. `FileManager.cpp:50` says that
milliseconds keep snapshots of one second apart; two threads may read the clocks
in one millisecond, and the two clocks do not tick together, so that the second
picture replaces the first. `NamesApart` is what does hold.

`SavedIsWhole` holds under the premise `~lossy`. Without it the PC client saves a
mix of a torn transfer and the next one of the same name, because it appends
chunks whatever their index (`TcpClient.cpp:273`); the cause is the torn reply
above. `NewestFrameIsShown` excludes one frame: a session that has sent nothing
takes the frame numbered `UINT32_MAX` for one it has sent (`ClientSession.h:51`).
`Settles` depends on the tuning: with a gain of 1 and a pixel worth 3 the
instance of `gimbal_all` settles at two ticks per frame. With `TicksPerFrame = 3`
TLC finds it swinging from one end of its range to the other, past a face that
stands still, because one detection is applied at each tick until the next one
comes. It needs gain times ticks per frame below what a pixel is worth.

`AnswersInOrder` speaks of the requests that have an answer. A FILE_GET_REQ
without a name, or for a name of more than 255 bytes, has none
(`ClientSession.cpp:171`, `:235`); a client that waits for one would take the next
answer for it. The answers of all other requests keep their order around it.

`WaitingPeerIsServed` has a premise, `RecordsFit` and `BurstFits`: no TLS record
is longer than the 8192 bytes `recv()` reads into, and the payload on its way
never exceeds the 8192 bytes the session takes at a time. The comment at
`TlsConn.cpp:113` expects it of every client, nothing enforces it, and a TLS record
may have 16384 bytes. Without either half the instance of `websocket_stream` does
violate the property: the rest of the record stays in OpenSSL, the rest of the
burst in `app_`, and `poll()` sees neither until the socket is readable again.

### Fairness

* `TerminalServer`: strong fairness for each accept thread, since it competes for
  the mutex with owners that sleep in `poll()` between two uses; weak fairness
  for sessions that were asked to stop (each of their system calls is bounded by a
  timeout of at most 5 s, and `ConnSetup` shows that their sum is bounded), for returning threads and for main's shutdown. No peer, signal
  or error is obliged to come.
* `ClientSession`: weak fairness of the thread and of the clock, strong fairness
  of pushing a due frame: the session returns to the test of the interval again
  and again, and time passes in between.
* `Gimbal`: weak fairness of both threads, whose sleeps are bounded, and of the
  clock. `LoopStops` also depends on `MaxSent`: the drain loop does not look at
  `running()`, so clients that send as fast as it drains would keep it there.
* `WebSocketConn`: weak fairness of the session thread only.
* `Vision`: weak fairness of both threads (a `grab()` that times out is a
  stutter), of the sensor, of writes to the disk and of main's joins. No signal is
  obliged to come, and the promise of `PicturesReachTheScreen` ends where main
  stops or a buffer is lost.
* `ConnSetup`: weak fairness of the thread, whose system calls return when their
  timeout is over, and of time. The peer owes nothing.
* `Captures`, `Clients` and `ServoPwm`: safety only.

## 4. Proofs

All theorems hold for every value of the constants that meets the named
assumptions, which TLC evaluates on each instance.

* **TerminalServer_proofs.** `Inv` joins `TypeOK` with `HeldInv` (a held
  connection belongs to exactly one accept thread, at the right place),
  `ThreadInv` (a thread is an entry or about to be adopted), `LockInv` (who is
  inside the registry owns its mutex, and what is still to visit) and `StageInv`
  (which listeners main has joined). Without `StageInv` a late adoption could not
  be excluded, without `HeldInv` two listeners might adopt one connection.
  `BoundInv` adds that the entries plus the threads that passed the cap check
  are within the bound, `CountInv` what the count is at each step inside the
  registry. From these: `TypeCorrect`, `SessionsBounded`, `NoOrphans`,
  `CountCorrect`, `LeaveAfterJoin`, `NoSessionAfterNet` and `PoolRefinement`,
  the refinement of `SessionPool`. `ShutdownIsNeverStuck` is what is safety in
  `ShutdownCompletes`: in every state of the shutdown main, the accept thread it
  joins, the owner of the mutex or a session that one of them joins waits for
  nobody (`SomebodyMoves`, by the guards of their actions). It needs `LockInv`,
  `StageInv` and that every session main joins was asked to stop (`AskedInv`).
  `ShutdownIsBounded` is the other half: once main has begun, every step of main,
  of an accept thread told to stop and of a session leaves it less to do
  (`MainGoesOn`, `ListenerGoesOn`, `SessionLeft`), and no other step gives it more.
* **ClientSession_proofs.** `SessionTypes`; `VideoForward` and
  `VideoFailureIsLast` from `VideoInv` (`SentInv`: no frame on the wire is newer
  than the newest published, and if that one is there `lastSent` is its number);
  `Authenticated` from `GateInv` (before authentication nothing was handled, after
  it the first message was a HELLO; a transfer under way belongs to an
  authenticated session). The order of commands and of answers is stated by
  ranks: the place of a command among the commands of the input is its place in
  the queue, and the same for requests and answers. `CommandsStayInOrder` shows
  the first; `AnswersStayInOrder`, for every set of names that are refused or too
  long to be answered, needs `AnswerInv`, that while nothing is lost the
  answers are level with the requests handled, or one behind during a transfer;
  `ChunksStayTogether` needs `ChunkInv`, which ties the last chunk written to the
  transfer under way. `NewestIsDue` is what is safety in `NewestFrameIsShown`, for
  any number of frames and wraps of the counter: `LastInv` says that `lastSent` is
  where it began or the number of a frame the peer has. `EndIsNear` is what is
  safety in `StopIsHonoured` and `UnauthenticatedIsDropped`: every step of a
  session that must end descends in the order of `Nearer` (the place in `run()`,
  messages unread, chunks unsent), nobody else's adds to it, and only a HELLO
  that is in the buffer already lifts the deadline.
* **Gimbal_proofs.** `IInv` is `TypeOK`, `QueueInv` (the queue is exactly what was
  sent and not done), `LimitInv`, `TimeInv` (`hold + quiet = Override`, so the
  code's timer is the time since the last manual command), `HandInv` (how far the
  tracker is ahead of the servo at each place of the loop, and why) and `ModeInv`
  (`effectiveAuto` is what mode and timer say). `AutoKeepsOut` needs all of the
  last three: the servo is written a step after the decision. From `IInv` follow
  the types, the limits, the queue for any number of sessions, the status and the
  three action properties. `LoopEndIsNear` is what is safety in `LoopStops`: only
  a session that pushes while the queue is drained gives a stopped loop more to
  do. `TrackingApproaches` is the arithmetic of `Settles`: with a detection that is
  still true an automatic tick never passes the face, and brings an axis outside
  the dead band nearer. It assumes a gain of at most the angle of a pixel; the
  configuration is not checked for that, and the default of 0.03 degrees fits a
  camera of 640 pixels with a view of at least 19 degrees. That a detection is
  applied at several ticks, so that the loop may oscillate (above), is outside it.
  For `ServoPwm`, `ProgressInv` says what is known of a channel after each of
  `init()`'s steps, `ClosedInv` that a channel that cannot be written has no
  period yet; with them the zero duty cycle makes the kernel accept the period.
  `DutyInRange` shows the pulse within its range for every angle.
* **WebSocketConn_proofs.** `IInv` is `TypeOK`, `PipeInv` (kernel, OpenSSL and
  `rx_` hold consecutive bytes), `FrameInv` (`rx_` begins at a frame's head) and
  `DataInv` (what is staged is the payload of what was de-framed). `CleanStream`
  alone is not inductive: it says nothing of the bytes still on their way. The
  lemmas on runs of consecutive numbers carry most of the proof. `CtrlInv` adds
  that before the 101 no head of a frame was de-framed, from which
  `ControlIsAnswered` follows. `NothingIsLeftWaiting` is what is safety in
  `WaitingPeerIsServed`: while the session sleeps in `poll()` on an empty socket,
  every payload byte of a whole frame has been delivered or is in `app_`, where
  only what the session's buffer could not take is left (`WaitInv`: nothing whole
  stays in `rx_`, and nothing in OpenSSL). It needs a peer that waits for the 101
  and the first half of the property's premise, `RecordsFit`: once a longer record
  has come (section 3) nothing is claimed. `WaitInv` carries it from step to step
  because records, once received, stay in `recEnd`. The repository's clients send
  short commands, so it takes a burst of them to break the premise.
  The module also has facts about the functions of `Codec`: `TakesWhatIsThere` and
  `VerdictComes` (the loop that drains frames ends, and a verdict comes within one
  frame of the largest size), `CutsDoNotMatter` (a verdict on a prefix is the
  verdict on the whole), and the round trips `HeaderComesBack`, `FrameComesBack`
  and `ClientFrameComesBack` for every payload, mask and form of the length;
  `TokensCompare`. They justify that `WebSocketConn` and `ClientSession` take a
  header as one step.
* **Vision_proofs.** `IInv` is `TypeOK`, `StageInv` (which threads exist at each
  stage of main, and what it has opened), `BufferInv` (the driver's buffers are
  granted ones, and the one in use is not his), `HeapInv` (run()'s `Mat` shares its
  cell with nobody, and whoever holds a frame finds its picture there) and
  `EdgeInv` (`prevFound` is what was found in the frame before). The five safety
  properties of the run follow for any number of buffers, cells and pictures.
  `AccountInv` counts the buffers (with the driver, waiting, being read, refused)
  and gives `BuffersGoRound`: none leaks, what is safety in
  `PicturesReachTheScreen`. `OrderInv` follows a picture from its buffer through
  `run()`'s `Mat` to the history, the hub and the display; the picture in `run()`'s
  hands is newer than all that were published and older than all that wait.
  `PicturesStayInOrder` and `TheScreenGoesForward` are its ends. Of the shutdown,
  `ShutdownIsNotStuck` shows that a thread main joins has ended or can go on with
  memory for four pictures (`FourSuffice`), and `ShutdownIsShort` that main and the
  thread it has come to have less to do after each step.
* **Clients_proofs.** `TypesHold`, `HelloComesFirst` and `FilesAreWhole`, of both
  clients. `SavedIsWhole` says nothing of a file that is still coming, so it is not
  inductive. `Stream` is what the messages from the client's buffer to the last
  chunk that `sendFile()` still has to write have in common: each chunk but the
  last is followed by the next one of the same version, and no transfer begins in
  its middle. `PcWhole` and `MobileWhole` add that what a client has of a file is
  exactly what its next message continues, and that it has nothing of any other
  (`PcExpected`, `MobileExpected`); both are kept although the stored files change,
  because a transfer carries its version with it. The mobile client files chunks
  by number and joins them by rank: `RankExists` finds the chunk of every rank
  with the well-foundedness of `<` on the naturals, and `InOrderWhole` shows that
  the ranks of `0..n-1` are the numbers themselves.
  `FilesAnsweredInOrder` adds the names (`Orderly`): those the client has answered,
  then those that `Stream` answers, then those that the requests on their way ask
  for are the names asked for. A request is taken by turning the first name of the
  third part into the last of the second (`Serves`), which needs that no answer
  is lost and that the first request of a connection, the HELLO, asks for no file
  (`First`). `AnswersInOrder` itself says only what is left when all is read.
* **ConnSetup_proofs.** `Spent` bounds the time in the operation under way by the
  bytes it has moved, each of which has paid for one system call: a byte that moves
  adds a timeout and sets `wait` back, so the bound never falls behind the clock. `AgeInv`, `StayInv` and
  `StopInv` add what the operations before may have taken, on every way through
  the setup (`SetupBefore`), through a pass of the loop (`PassBefore`) and to the
  end (`StopBefore`). `SlotFreed` and `StopTimely` follow for all timeouts,
  deadlines and sizes, and without the bound of time that the run has (`MaxAge` is
  any number).
* **Captures_proofs.** `CallInv` is what a thread has asked for at each place of a
  call, `HeldInv` that the file being written is the writer's and the one being
  read stays as it was opened, `FileInv` that a file without a picture is none,
  `NameInv` what a name is made of. `CallsAreAtomic`, the refinement of
  `CaptureStore`, is shown action by action: a call takes effect where its mutex is
  given back, or where the process ends, and every other step is a stutter.
  `NamesTellApart` needs only arithmetic beyond `NameInv` (`ClocksTell`): moments of
  the same second of one clock and the same millisecond of the other are one.

All safety properties of the passing runs, invariants, action properties and both
refinements, are proved. What needs fairness is only model-checked
(`SlotsAreReclaimed`, `ShutdownCompletes`, `UnauthenticatedIsDropped`,
`StopIsHonoured`, `NewestFrameIsShown`, `AutoResumes`, `LoopStops`, `Settles`,
`WaitingPeerIsServed`, `PicturesReachTheScreen`, `EndsWhenStopped`): liveness and
`ENABLED` are out of the proof system's reach. Where such a property has a safe
part, that part is proved, and fairness adds only that the step which remains
possible is taken:

| Promise | Proved for every instance |
|---|---|
| `ShutdownCompletes` | `ShutdownIsNeverStuck`, `ShutdownIsBounded` |
| `StopIsHonoured`, `UnauthenticatedIsDropped` | `EndIsNear` |
| `NewestFrameIsShown` | `NewestIsDue` |
| `AutoResumes` | `OverrideIsOver` |
| `LoopStops` | `LoopEndIsNear` |
| `Settles` | `TrackingApproaches`, for one detection |
| `WaitingPeerIsServed` | `NothingIsLeftWaiting` |
| `PicturesReachTheScreen` | `BuffersGoRound`, `PicturesStayInOrder`, `TheScreenGoesForward` |
| `EndsWhenStopped` | `SlotFreed`, `StopTimely` |

The possible steps named in these theorems are the guards of the actions, written
out, not `ENABLED`.

## 5. Not modelled

* Face detector, drawing, scaling, JPEG encoding and the overlay's text: numeric
  code and layout. Formats and rates of the camera.
* That the detached thread of an automatic snapshot may still use main's
  `FileManager` when main returns (`VisionThread.cpp:83`): no join orders the two,
  and what happens then is undefined.
* A loss of power, after which pictures that were saved may be gone because
  nothing calls `fsync()`, and a wall clock that is set back, after which names
  come again. `TerminalPeer` lets any name be taken again.
* The characters for which `FileManager::resolve()` refuses a name, the order of a
  list of files.
* The text of the upgrade request, SHA-1, base64 and MiniJson's scanning: data
  below what the properties tell apart. What OpenSSL negotiates in a handshake.
* Configuration, logging, stubs for development hosts, scripts, tests and mocks,
  client layout and rendering. The PC client's auto-track box keeps its value from
  one connection to the next (`ControlPanel.cpp:72`): nothing tells it the mode.
* Numeric subtleties of floating point, among them an angle that is not a number
  (`PanTiltTracker.cpp:31`).

## 6. Plan

Order of work: (1) `TerminalServer` with `SessionPool`, (2) `ClientSession`, (3)
`Gimbal`, (4) `WebSocketConn`, (5) `TerminalPeer` with both clients, (6)
`ServoPwm`, (7) `Vision`, (8) `Codec`, (9) `ConnSetup` and (10) `Captures`, each with
its proofs: done, as above. What is left, the most important first:

1. `MiniJson` as functions of sequences.
2. `Settles` with a detection that is applied at several ticks: that gain times
   ticks per frame below the angle of a pixel is enough for every instance.

`ClientSession` is not shown to implement the session in `TerminalPeer`, and as
they stand it does not: `TerminalPeer` reads requests one by one, writes all that
it has begun, and cuts only file data, which is all that the clients' properties
tell apart, while `ClientSession` lets any message be cut. The two share their
source lines, and `TerminalPeer`'s `lossy` stands for the answers cut.
