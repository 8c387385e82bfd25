----------------------------- MODULE ConnSetup ------------------------------
(***************************************************************************)
(* The blocking calls of one session's thread, in time: the TLS handshake  *)
(* and the upgrade before the session loop (net/TlsConn.cpp,               *)
(* net/WebSocketConn.cpp), the records that SSL_read() waits for and the   *)
(* writes inside it, the receive and send timeouts of the socket           *)
(* (net/SocketUtil.h), the deadline for the HELLO and requestStop()        *)
(* (net/ClientSession.cpp); and the descriptor, which run(), the           *)
(* connection and the stream all close.                                    *)
(*                                                                         *)
(* A timeout belongs to one system call: a recv() ends with the first     *)
(* byte, a send() that has moved something returns what it has moved.      *)
(* "Byte" stands for whatever the peer sends or takes at a time.           *)
(* Definitions named Mut... are variants with a plausible mistake that no  *)
(* specification uses.                                                     *)
(***************************************************************************)
EXTENDS Integers

CONSTANTS
    Timeout,        \* SO_RCVTIMEO and SO_SNDTIMEO, in ticks
    AuthTimeout,    \* kAuthTimeoutMs
    HandshakeBytes, \* what SSL_accept() reads at most
    MaxReq,         \* the upgrade request is read while it has no more
    RecordBytes,    \* the longest TLS record
    MessageBytes,   \* what one pass through the session loop sends at most
    MaxAge          \* bound: ticks a session is watched

ASSUME TimesAssumption == Timeout \in Nat \ {0} /\ AuthTimeout \in Nat
ASSUME SizesAssumption ==
    /\ {HandshakeBytes, RecordBytes, MessageBytes} \subseteq Nat \ {0}
    /\ MaxReq \in Nat /\ MaxAge \in Nat

VARIABLES
    tls, ws,  \* the connection's layers
    pc,       \* "accept", "upgrade"; "loop", at the loop's tests; "poll";
              \* "record", in SSL_read(); "control", "answer" and "frame",
              \* in writes;
              \* "shutdown", in SSL_shutdown(); "ended", finished_ is set;
              \* "gone", the session is destroyed
    todo,     \* bytes the operation under way may still move
    wait,     \* time in the system call under way
    moved,    \* a send() has moved something
    authed,   \* authed_
    since,    \* time since the loop began
    stop,     \* stop_
    held,     \* the stream's fd_ is not -1
    fd,       \* whose the number is: "mine", "free", "other"
    age,      \* history: time since the thread began
    stopAge   \* history: time since requestStop()

callVars == <<todo, wait, moved>>
fdVars == <<held, fd>>
clockVars == <<since, age, stopAge>>
vars == <<tls, ws, pc, callVars, authed, stop, fdVars, clockVars>>

InSetup == pc \in {"accept", "upgrade"}
Over == pc \in {"ended", "gone"}

Reading == {"accept", "upgrade", "record"}
Writing == {"control", "answer", "frame"}

(* Over TLS each byte of the request may come in a record of its own.      *)
ReqBytes == (MaxReq + 1) * (IF tls THEN RecordBytes ELSE 1)
Bytes(p) == CASE p = "accept"   -> HandshakeBytes
              [] p = "upgrade"  -> ReqBytes
              [] p = "record"   -> RecordBytes
              [] p \in Writing -> MessageBytes
              [] OTHER          -> 0

(* The variables have their types, and fd_ is -1 exactly when the number   *)
(* is no longer ours: run(), the connection and the stream all close it,   *)
(* and none of them closes one that the kernel has given to somebody else  *)
(* (TlsByteStream::close, RawByteStream::close).                           *)
TypeOK ==
    /\ tls \in BOOLEAN /\ ws \in BOOLEAN
    /\ pc \in Reading \cup Writing
             \cup {"loop", "poll", "shutdown", "ended", "gone"}
    /\ pc \in {"accept", "record", "shutdown"} => tls
    /\ pc \in {"upgrade", "control"} => ws
    /\ pc \in {"answer", "frame"} => authed
    /\ todo \in 0..Bytes(pc) /\ wait \in 0..Timeout /\ moved \in BOOLEAN
    /\ authed \in BOOLEAN /\ stop \in BOOLEAN
    /\ held \in BOOLEAN /\ fd \in {"mine", "free", "other"}
    /\ held <=> fd = "mine"
    /\ {since, age, stopAge} \subseteq 0..MaxAge

(* Without a token to ask for, a session is authenticated from the start.  *)
Init ==
    /\ tls \in BOOLEAN /\ ws \in BOOLEAN
    /\ pc = IF tls THEN "accept" ELSE IF ws THEN "upgrade" ELSE "loop"
    /\ todo = Bytes(pc) /\ wait = 0 /\ moved = FALSE
    /\ authed \in BOOLEAN /\ stop = FALSE
    /\ held = TRUE /\ fd = "mine"
    /\ since = 0 /\ age = 0 /\ stopAge = 0

-----------------------------------------------------------------------------
Enter(p) == pc' = p /\ todo' = Bytes(p) /\ wait' = 0 /\ moved' = FALSE

MutCloseFd == fd' = "free" /\ UNCHANGED held  \* fd_ keeps the number
CloseFd == IF held THEN fd' = "free" /\ held' = FALSE ELSE UNCHANGED fdVars

(* TlsByteStream::close() says good-bye first, which may have to wait for  *)
(* room in the socket.                                                     *)
Closes == IF tls THEN Enter("shutdown") /\ UNCHANGED fdVars
                 ELSE Enter("ended") /\ CloseFd

ShutdownDone ==
    /\ pc = "shutdown"
    /\ Enter("ended") /\ CloseFd
    /\ UNCHANGED <<tls, ws, authed, stop, clockVars>>

-----------------------------------------------------------------------------
(* A byte comes where the thread waits for one; "last" if the operation    *)
(* needs no more.                                                          *)
ByteComes(p) == pc = p /\ UNCHANGED <<tls, ws, stop, clockVars>>
MoreToCome ==
    /\ todo > 1
    /\ todo' = todo - 1 /\ wait' = 0
    /\ UNCHANGED <<pc, moved, authed, fdVars>>

GoesOnTo(p) == Enter(p) /\ UNCHANGED <<authed, fdVars>>
Fails == Closes /\ UNCHANGED authed

(* SSL_accept().                                                           *)
TlsHandshake ==
    /\ ByteComes("accept")
    /\ MoreToCome \/ GoesOnTo(IF ws THEN "upgrade" ELSE "loop") \/ Fails

MutUpgrade ==  \* no limit to the length of the request
    /\ ByteComes("upgrade")
    /\ \/ wait' = 0 /\ UNCHANGED <<pc, todo, moved, authed, fdVars>>
       \/ GoesOnTo("loop") \/ Fails

(* The end of the request leads to the session loop, unless there is no    *)
(* key or the write of the 101 fails; the 101 and the HELLO find an empty  *)
(* socket and do not wait.  A request that is too long is given up.        *)
Upgrade ==
    /\ ByteComes("upgrade")
    /\ MoreToCome \/ GoesOnTo("loop") \/ Fails

(* What a pass through the loop ends with.                                 *)
FrameIfDue ==
    \/ Enter("loop")
    \/ authed' /\ Enter("frame")

(* Part of a message, or messages, are handled: the HELLO with the token,  *)
(* one that is refused, or requests, which are answered.                   *)
Handled ==
    \/ /\ authed' \in {authed, TRUE} /\ UNCHANGED fdVars
       /\ \/ FrameIfDue
          \/ authed' /\ Enter("answer")
    \/ Fails

(* Pings are answered before the messages they came with are handled, and  *)
(* before the client has authenticated.                                    *)
Received ==
    \/ Handled
    \/ ws /\ GoesOnTo("control")

(* recv() on a plain socket takes what poll() has seen; SSL_read() waits   *)
(* for the record's end.                                                   *)
readAndDispatch ==
    /\ ByteComes("poll")
    /\ \/ tls /\ GoesOnTo("record")
       \/ Received

RecordByte == ByteComes("record") /\ (MoreToCome \/ Received)

(* poll() returns without input.                                           *)
PollReturns ==
    /\ pc = "poll"
    /\ UNCHANGED authed /\ FrameIfDue
    /\ UNCHANGED <<tls, ws, stop, fdVars, clockVars>>

(* All is sent, or the rest given up.                                      *)
WritesDone ==
    \/ pc = "control" /\ Handled
    \/ pc = "answer" /\ UNCHANGED <<authed, fdVars>> /\ FrameIfDue

(* The peer makes room for what is being sent.                             *)
PeerTakes ==
    /\ pc \in Writing
    /\ \/ /\ todo > 1 /\ todo' = todo - 1 /\ moved' = TRUE
          /\ UNCHANGED <<pc, wait, authed, fdVars>>
       \/ WritesDone
       \/ pc = "frame" /\ GoesOnTo("loop")
    /\ UNCHANGED <<tls, ws, stop, clockVars>>

(* The peer closes, or the network gives it up.                            *)
PeerEnds ==
    /\ pc \in Reading \cup {"poll", "frame"}
    /\ Fails
    /\ UNCHANGED <<tls, ws, stop, clockVars>>

-----------------------------------------------------------------------------
(* A system call has lasted for Timeout.                                   *)
ReadTimesOut ==
    /\ pc \in Reading /\ wait = Timeout
    /\ IF pc = "record" THEN UNCHANGED <<authed, fdVars>> /\ FrameIfDue
                        ELSE Fails
    /\ UNCHANGED <<tls, ws, stop, clockVars>>

MutWriteFails == Enter(pc) /\ UNCHANGED <<authed, fdVars>>  \* sent once more
(* A message that fails is given up for the next one, a video frame ends   *)
(* the session.                                                            *)
WriteFails ==
    \/ WritesDone
    \/ pc = "frame" /\ Fails
    \/ /\ pc # "frame" /\ todo > 1 /\ todo' = todo - 1 /\ wait' = 0
       /\ UNCHANGED <<pc, moved, authed, fdVars>>

(* sendAll() goes on behind what was sent.                                 *)
SendTimesOut ==
    /\ pc \in Writing /\ wait = Timeout
    /\ IF moved
       THEN /\ wait' = 0 /\ moved' = FALSE
            /\ UNCHANGED <<pc, todo, authed, fdVars>>
       ELSE WriteFails
    /\ UNCHANGED <<tls, ws, stop, clockVars>>

MutMustEnd == ~authed /\ since > AuthTimeout  \* stop_ is not looked at
(* The tests at the top of the loop.                                       *)
MustEnd == stop \/ (~authed /\ since > AuthTimeout)

LoopTop ==
    /\ pc = "loop"
    /\ IF MustEnd THEN Fails ELSE GoesOnTo("poll")
    /\ UNCHANGED <<tls, ws, stop, clockVars>>

requestStop ==
    /\ ~stop /\ ~Over
    /\ stop' = TRUE
    /\ UNCHANGED <<tls, ws, pc, callVars, authed, fdVars, clockVars>>

-----------------------------------------------------------------------------
Later(t) == IF t < MaxAge THEN t + 1 ELSE t

(* Time passes in system calls; poll() returns after 50 ms at most, less   *)
(* than a tick.                                                            *)
Tick ==
    /\ \/ pc = "poll" /\ ~MustEnd /\ UNCHANGED wait
       \/ /\ pc \in Reading \cup Writing \cup {"shutdown"}
          /\ wait < Timeout /\ wait' = wait + 1
    /\ age' = Later(age)
    /\ since' = IF InSetup THEN 0 ELSE Later(since)
    /\ stopAge' = IF stop THEN Later(stopAge) ELSE 0
    /\ UNCHANGED <<tls, ws, pc, todo, moved, authed, stop, fdVars>>

(* The kernel gives the number to the next connection or file.             *)
Reused ==
    /\ fd = "free" /\ fd' = "other"
    /\ UNCHANGED <<tls, ws, pc, callVars, authed, stop, held, clockVars>>

(* The registry drops the session, whose connection and stream close       *)
(* again.                                                                  *)
Destroyed ==
    /\ pc = "ended" /\ Enter("gone")
    /\ CloseFd
    /\ UNCHANGED <<tls, ws, authed, stop, clockVars>>

Thread ==
    PollReturns \/ ReadTimesOut \/ SendTimesOut \/ LoopTop \/ ShutdownDone

Next ==
    \/ TlsHandshake \/ Upgrade \/ readAndDispatch \/ RecordByte \/ PeerTakes
    \/ PeerEnds \/ Thread \/ requestStop \/ Tick \/ Reused \/ Destroyed

(* The thread's calls return and time passes; the peer owes nothing.       *)
Spec == Init /\ [][Next]_vars /\ WF_vars(Thread) /\ WF_vars(Tick)

-----------------------------------------------------------------------------
(* How long the calls before the loop may take, and those of one pass.     *)
SetupBound == Timeout * ((IF tls THEN HandshakeBytes ELSE 0)
                         + (IF ws THEN ReqBytes ELSE 0))
ReadBound == Timeout * ((IF tls THEN RecordBytes ELSE 0)
                        + (IF ws THEN MessageBytes ELSE 0))
PassBound == ReadBound + 2 * Timeout * MessageBytes
Goodbye == IF tls THEN Timeout ELSE 0

(* A client that does not authenticate frees its slot in time, however     *)
(* slowly it sends and wherever it falls silent: the limits on what is     *)
(* read before the loop and the deadline in it bound its stay, which is    *)
(* longer than the deadline of ClientSession.cpp:22 by the time before it  *)
(* (WebSocketConn::handshake, TlsByteStream::handshake and read,           *)
(* ClientSession::run).                                                    *)
SlotIsFreed ==
    ~authed /\ ~Over =>
        age <= SetupBound + AuthTimeout + 1 + ReadBound + Goodbye

(* A session that is asked to stop ends in time, whatever call it sleeps   *)
(* in and however slowly its peer sends or takes: stopAll() joins it and   *)
(* holds the registry's mutex meanwhile (ClientSession::run, sendAll,      *)
(* TlsByteStream::writeAll).                                               *)
StopIsTimely ==
    stop /\ ~Over =>
        stopAge <= (IF SetupBound > PassBound THEN SetupBound ELSE PassBound)
                   + Goodbye

(* And it does end (ISession::requestStop).                                *)
EndsWhenStopped == stop ~> Over
=============================================================================
