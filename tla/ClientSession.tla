---------------------------- MODULE ClientSession ----------------------------
(***************************************************************************)
(* One client session (net/ClientSession.cpp): the thread that serves one  *)
(* connection.  It authenticates the peer, takes SEC1 messages out of the  *)
(* received bytes, answers them, forwards gimbal commands and pushes the   *)
(* newest video frame.  Around it run the peer, the vision thread that     *)
(* publishes frames, other sessions that use the same capture directory,   *)
(* the clock and main's requestStop().                                     *)
(*                                                                         *)
(* The bytes are abstracted to what the parser tells apart: how many whole *)
(* messages have been received and whether the header of the next one has. *)
(* Definitions named Mut... are variants with a plausible mistake that no  *)
(* specification uses.                                                     *)
(***************************************************************************)
EXTENDS Integers, Sequences, FiniteSets

CONSTANTS
    Inputs,        \* the message sequences a peer may send
    Names,         \* file names that resolve() accepts
    BadNames,      \* other names: too long or with characters it refuses
    LongNames,     \* those of them with more than 255 bytes
    NoName,        \* a request without a "name" member
    Chunks,        \* Chunks[n]: number of FILE_DATA chunks of file n, 0 if empty
    TokenRequired, \* ~authToken_.empty()
    FirstSeq,      \* sequence number of the first frame this session can see
    SeqSpace,      \* 2^32, the modulus of Frame::seq
    MaxFrames      \* bound: frames published while we look

(* A message of the peer.  "garbage" has a bad magic or an oversize length *)
(* in its header; "other" is a heartbeat or an unknown type.               *)
Kinds == {"hello", "badHello", "step", "abs", "autoOn", "autoOff", "list",
          "get", "delete", "snapshot", "other", "garbage"}
Texts == Names \cup BadNames \cup {NoName}
Message == [kind : Kinds, name : Texts]

ASSUME InputsAssumption == \A i \in DOMAIN Inputs : Inputs[i] \in Seq(Message)
ASSUME NamesAssumption ==
    /\ Names \cap BadNames = {} /\ LongNames \subseteq BadNames
    /\ NoName \notin Names \cup BadNames
ASSUME ChunksAssumption == Chunks \in [Names -> Nat]
ASSUME TokenAssumption == TokenRequired \in BOOLEAN
ASSUME SeqAssumption ==
    /\ SeqSpace \in Nat \ {0, 1}
    /\ FirstSeq \in 0..(SeqSpace - 1)
    /\ MaxFrames \in Nat

VARIABLES
    pc,       \* where run() is
    authed,   \* ClientSession::authed_
    input,    \* what the peer sends, all of it
    got,      \* number of messages of input received completely
    partial,  \* the header of the next one has been received
    pos,      \* number of messages handled
    job,      \* the file sendFile() is sending
    out,      \* what has been written to the socket
    lossy,    \* history: some send() has failed
    cmds,     \* commands pushed on the CommandQueue
    files,    \* the capture directory
    lastSent, \* ClientSession::lastSentSeq_
    frames,   \* number of frames published so far
    stop,     \* ClientSession::stop_
    expired,  \* kAuthTimeoutMs have passed since startMs
    peerGone  \* the peer has closed or reset the connection

inVars  == <<input, got, partial>>
sysVars == <<cmds, files>>
envVars == <<frames, stop, expired, peerGone>>
vars == <<pc, authed, inVars, pos, job, out, lossy, sysVars, lastSent, envVars>>

NoJob == [name |-> NoName, total |-> 0, next |-> 0]

(* What a SEC1 message to the peer is about; a video frame carries its     *)
(* publication number in idx, a FILE_DATA chunk its index and total.       *)
Item(kind, name, idx, total) ==
    [kind |-> kind, name |-> name, idx |-> idx, total |-> total, whole |-> TRUE]

PC == {"handshake", "greet", "loop", "dispatch", "sendFile", "push", "closed"}

TypeOK ==
    /\ pc \in PC
    /\ authed \in BOOLEAN /\ lossy \in BOOLEAN /\ partial \in BOOLEAN
    /\ input \in Seq(Message)
    /\ got \in 0..Len(input) /\ pos \in 0..got
    /\ job \in [name : Texts, total : Nat, next : Nat]
    /\ out \in Seq([kind : {"hello", "video", "list", "data", "deleted"},
                    name : Texts, idx : Nat, total : Nat, whole : BOOLEAN])
    /\ cmds \in Seq({"step", "abs", "autoOn", "autoOff"})
    /\ files \in SUBSET Names
    /\ frames \in 0..MaxFrames
    /\ lastSent \in 0..(SeqSpace - 1)
    /\ stop \in BOOLEAN /\ expired \in BOOLEAN /\ peerGone \in BOOLEAN

Init ==
    /\ pc = "handshake"
    /\ authed = ~TokenRequired
    /\ input \in {Inputs[i] : i \in DOMAIN Inputs}
    /\ got = 0 /\ partial = FALSE /\ pos = 0
    /\ job = NoJob
    /\ out = << >> /\ lossy = FALSE
    /\ cmds = << >> /\ files \in SUBSET Names
    /\ lastSent = SeqSpace - 1
    /\ frames = 0
    /\ stop = FALSE /\ expired = FALSE /\ peerGone = FALSE

-----------------------------------------------------------------------------
(* IConn::send of one message.  A failed send (peer gone, or the 5 s       *)
(* SO_SNDTIMEO of a peer that does not read) may leave a part of the       *)
(* message in the stream.                                                  *)
SendOk(m) ==
    /\ out' = Append(out, m)
    /\ UNCHANGED lossy

SendFails(m) ==
    /\ out' \in {out, Append(out, [m EXCEPT !.whole = FALSE])}
    /\ lossy' = TRUE

(* sendJson and the last chunk of a file: the result is not looked at.     *)
Send(m) == SendOk(m) \/ SendFails(m)

Close ==
    /\ pc' = "closed"
    /\ UNCHANGED <<authed, inVars, pos, job, out, lossy, sysVars, lastSent, envVars>>

-----------------------------------------------------------------------------
(* run(): the connection is set up (nothing to do on TCP, the HTTP upgrade *)
(* on WebSocket, the TLS handshake below either), then HELLO is sent.      *)
Handshake ==
    /\ pc = "handshake"
    /\ pc' = "greet"
    /\ UNCHANGED <<authed, inVars, pos, job, out, lossy, sysVars, lastSent, envVars>>

HandshakeFails == pc = "handshake" /\ Close

SendHello ==
    /\ pc = "greet"
    /\ Send(Item("hello", NoName, 0, 0))
    /\ pc' = "loop"
    /\ UNCHANGED <<authed, inVars, pos, job, sysVars, lastSent, envVars>>

-----------------------------------------------------------------------------
(* The head of the loop: stop_, then the authentication deadline, then     *)
(* poll().                                                                 *)
MutProceedsAuth == ~stop   \* no deadline for the HELLO
MutProceedsStop == authed \/ ~expired   \* stop_ not looked at

Proceeds == ~stop /\ (authed \/ ~expired)

Leave ==
    /\ pc = "loop" /\ ~Proceeds
    /\ Close

(* poll() times out, is interrupted before the push or reports a spurious  *)
(* wake-up (recv: EAGAIN).                                                 *)
Idle ==
    /\ pc = "loop" /\ Proceeds
    /\ pc' = "push"
    /\ UNCHANGED <<authed, inVars, pos, job, out, lossy, sysVars, lastSent, envVars>>

(* POLLERR, POLLHUP or recv() = 0.                                         *)
Disconnected ==
    /\ pc = "loop" /\ Proceeds /\ peerGone
    /\ Close

(* recv() returns bytes: some messages become complete, perhaps a part of  *)
(* the next one.                                                           *)
Receive ==
    /\ pc = "loop" /\ Proceeds
    /\ got' \in got..Len(input)
    /\ partial' \in BOOLEAN
    /\ partial' => got' < Len(input)
    /\ got' = got => partial' /\ ~partial
    /\ pc' = "dispatch"
    /\ UNCHANGED <<authed, input, pos, job, out, lossy, sysVars, lastSent, envVars>>

-----------------------------------------------------------------------------
(* readAndDispatch(): handle every complete message in the buffer.         *)

Current == input[pos + 1]
HeaderHere == pos < got \/ partial

Complete == pos < got

NeedMore ==
    /\ pc = "dispatch" /\ ~Complete
    /\ HeaderHere => Current.kind # "garbage"
    /\ pc' = "push"
    /\ UNCHANGED <<authed, inVars, pos, job, out, lossy, sysVars, lastSent, envVars>>

BadHeader ==
    /\ pc = "dispatch" /\ HeaderHere
    /\ Current.kind = "garbage"
    /\ Close

MutAdmissible == authed \/ Current.kind # "badHello"  \* any other type passes

(* Before authentication nothing but a HELLO with the token is accepted.   *)
Admissible == authed \/ Current.kind = "hello"

Reject ==
    /\ pc = "dispatch" /\ Complete
    /\ Current.kind # "garbage"
    /\ ~Admissible
    /\ Close

(* handleMessage is about to see a complete, admissible message of one of  *)
(* the given kinds; the handler's message counts as handled.               *)
Handling(kinds) ==
    /\ pc = "dispatch" /\ Complete
    /\ Current.kind \in kinds
    /\ Admissible
    /\ authed' = TRUE
    /\ pos' = pos + 1
    /\ UNCHANGED <<inVars, lastSent, envVars>>

(* sendFile() returns without an answer: the name's length does not fit in *)
(* the one byte FILE_DATA has for it.                                      *)
TooLong(name) == name \in LongNames

(* HELLO after authentication, HEARTBEAT, unknown types, and FILE_GET_REQ  *)
(* without a name or for a name that is too long: nothing happens.         *)
Ignore ==
    /\ \/ Handling({"hello", "badHello", "other"})
       \/ Handling({"get"}) /\ (Current.name = NoName \/ TooLong(Current.name))
    /\ UNCHANGED <<pc, job, out, lossy, sysVars>>

MutForward ==  \* a missing break: SERVO_CMD falls through to MODE_CMD
    /\ Handling({"step", "abs", "autoOn", "autoOff"})
    /\ cmds' = IF Current.kind \in {"step", "abs"}
                 THEN cmds \o <<Current.kind, "autoOn">>
                 ELSE Append(cmds, Current.kind)
    /\ UNCHANGED <<pc, job, out, lossy, files>>

(* SERVO_CMD and MODE_CMD become commands for the business thread.         *)
Forward ==
    /\ Handling({"step", "abs", "autoOn", "autoOff"})
    /\ cmds' = Append(cmds, Current.kind)
    /\ UNCHANGED <<pc, job, out, lossy, files>>

List ==
    /\ Handling({"list"})
    /\ Send(Item("list", NoName, 0, 0))
    /\ UNCHANGED <<pc, job, sysVars>>

MutSnapshot ==  \* the list only if an image was saved
    /\ Handling({"snapshot"})
    /\ \/ UNCHANGED <<files, out, lossy>>
       \/ /\ frames > 0 /\ \E n \in Names \ files : files' = files \cup {n}
          /\ Send(Item("list", NoName, 0, 0))
    /\ UNCHANGED <<pc, job, cmds>>

(* FileManager::snapshot under a fresh name, if there is a frame and the   *)
(* image can be written; the list is sent in any case.                     *)
Snapshot ==
    /\ Handling({"snapshot"})
    /\ \/ UNCHANGED files
       \/ frames > 0 /\ \E n \in Names \ files : files' = files \cup {n}
    /\ Send(Item("list", NoName, 0, 0))
    /\ UNCHANGED <<pc, job, cmds>>

(* idx 1 stands for "ok":true.  remove() may fail on an existing file, and *)
(* a name that resolve() refuses is answered like a file that is not there. *)
Delete ==
    /\ Handling({"delete"})
    /\ \/ /\ Current.name \in files
          /\ files' = files \ {Current.name}
          /\ Send(Item("deleted", Current.name, 1, 0))
       \/ /\ UNCHANGED files
          /\ Send(Item("deleted", Current.name, 0, 0))
    /\ UNCHANGED <<pc, job, cmds>>

(* sendFile(): the whole file is read at once; its size decides the number *)
(* of chunks.  A missing or empty file, and a name that resolve() refuses, *)
(* is announced by one empty chunk.                                        *)
Get ==
    /\ Handling({"get"})
    /\ Current.name # NoName /\ ~TooLong(Current.name)
    /\ LET total == IF Current.name \in files THEN Chunks[Current.name] ELSE 0
       IN  IF total = 0
             THEN /\ Send(Item("data", Current.name, 0, 0))
                  /\ UNCHANGED <<pc, job>>
             ELSE /\ job' = [name |-> Current.name, total |-> total, next |-> 0]
                  /\ pc' = "sendFile"
                  /\ UNCHANGED <<out, lossy>>
    /\ UNCHANGED sysVars

MutSendChunk ==  \* a failed chunk is skipped instead of ending the transfer
    /\ pc = "sendFile"
    /\ Send(Item("data", job.name, job.next, job.total))
    /\ IF job.next + 1 < job.total
         THEN job' = [job EXCEPT !.next = @ + 1] /\ UNCHANGED pc
         ELSE job' = NoJob /\ pc' = "dispatch"
    /\ UNCHANGED <<authed, inVars, pos, sysVars, lastSent, envVars>>

(* One turn of sendFile's loop; it gives up when a chunk is not sent.      *)
SendChunk ==
    /\ pc = "sendFile"
    /\ LET chunk == Item("data", job.name, job.next, job.total)
           last  == job.next + 1 = job.total
       IN  \/ /\ SendOk(chunk)
              /\ IF last THEN job' = NoJob /\ pc' = "dispatch"
                         ELSE job' = [job EXCEPT !.next = @ + 1] /\ UNCHANGED pc
           \/ /\ SendFails(chunk)
              /\ job' = NoJob /\ pc' = "dispatch"
    /\ UNCHANGED <<authed, inVars, pos, sysVars, lastSent, envVars>>

-----------------------------------------------------------------------------
(* The end of the loop: sendFrameIfNew().                                  *)

SeqOf(n) == (FirstSeq + n - 1) % SeqSpace

NotDue ==
    /\ pc = "push"
    /\ pc' = "loop"
    /\ UNCHANGED <<authed, inVars, pos, job, out, lossy, sysVars, lastSent, envVars>>

MutNewFrame == frames > 0   \* lastSentSeq_ not compared
MutLaterFrame == frames > 0 /\ SeqOf(frames) > lastSent

NewFrame == frames > 0 /\ SeqOf(frames) # lastSent

MutPushFrame ==  \* the result of the send is ignored
    /\ pc = "push" /\ authed
    /\ NewFrame
    /\ Send(Item("video", NoName, frames, 0))
    /\ lastSent' = SeqOf(frames)
    /\ pc' = "loop"
    /\ UNCHANGED <<authed, inVars, pos, job, sysVars, envVars>>

PushFrame ==
    /\ pc = "push" /\ authed
    /\ NewFrame
    /\ LET frame == Item("video", NoName, frames, 0)
       IN  \/ SendOk(frame) /\ pc' = "loop"
           \/ SendFails(frame) /\ pc' = "closed"
    /\ lastSent' = SeqOf(frames)
    /\ UNCHANGED <<authed, inVars, pos, job, sysVars, envVars>>

-----------------------------------------------------------------------------
(* The surroundings.                                                       *)

sessionVars == <<pc, authed, inVars, pos, job, out, lossy, cmds, lastSent>>

Publish ==
    /\ frames < MaxFrames
    /\ frames' = frames + 1
    /\ UNCHANGED <<sessionVars, files, stop, expired, peerGone>>

(* startMs is taken after the handshake and the HELLO.                     *)
TimePasses ==
    /\ pc \notin {"handshake", "greet", "closed"} /\ ~expired
    /\ expired' = TRUE
    /\ UNCHANGED <<sessionVars, files, frames, stop, peerGone>>

RequestStop ==
    /\ ~stop
    /\ stop' = TRUE
    /\ UNCHANGED <<sessionVars, files, frames, expired, peerGone>>

PeerLeaves ==
    /\ ~peerGone
    /\ peerGone' = TRUE
    /\ UNCHANGED <<sessionVars, files, frames, stop, expired>>

(* Another session, or the automatic snapshot, changes the directory.      *)
OtherFileUse ==
    /\ \E n \in Names : files' \in {files \cup {n}, files \ {n}}
    /\ UNCHANGED <<sessionVars, envVars>>

Closed == pc = "closed" /\ UNCHANGED vars

-----------------------------------------------------------------------------
Dispatch ==
    \/ NeedMore \/ BadHeader \/ Reject \/ Ignore \/ Forward \/ List
    \/ Snapshot \/ Delete \/ Get \/ SendChunk

Session ==
    \/ Handshake \/ HandshakeFails \/ SendHello
    \/ Leave \/ Idle \/ Disconnected \/ Receive
    \/ Dispatch
    \/ NotDue \/ PushFrame

Surroundings == Publish \/ TimePasses \/ RequestStop \/ PeerLeaves \/ OtherFileUse

Next == Session \/ Surroundings \/ Closed

Spec == Init /\ [][Next]_vars

(* The session thread keeps running, none of its waits is unbounded, and   *)
(* time passes.  A frame is due again and again, so a session that returns *)
(* to the push often enough pushes.  Peers, main and the camera owe        *)
(* nothing.                                                                *)
Fairness ==
    /\ WF_vars(Session)
    /\ SF_vars(PushFrame)
    /\ WF_vars(TimePasses)

FairSpec == Spec /\ Fairness

-----------------------------------------------------------------------------
(* Properties.                                                             *)

IsCommand(m) == m.kind \in {"step", "abs", "autoOn", "autoOff"}
IsRequest(m) == \/ m.kind \in {"list", "snapshot", "delete"}
                \/ m.kind = "get" /\ m.name # NoName /\ ~TooLong(m.name)
AnswerTo(m) ==
    IF m.kind = "get" THEN <<"data", m.name>>
    ELSE IF m.kind = "delete" THEN <<"deleted", m.name>>
    ELSE <<"list", NoName>>
IsAnswer(o) == o.kind \in {"list", "deleted"} \/ (o.kind = "data" /\ o.idx = 0)

(* Where in its sequence they are.                                         *)
CommandsAt == {p \in 1..pos : IsCommand(input[p])}
RequestsAt == {p \in 1..pos : IsRequest(input[p])}
AnswersAt  == {i \in 1..Len(out) : IsAnswer(out[i])}

(* A place p of P is the Rank(P, p)-th.                                    *)
Rank(P, p) == Cardinality({q \in P : q <= p})

(* "before the terminal sends any video or accepts any control/file        *)
(* message" a HELLO with the token has been handled, however the messages  *)
(* are batched; and it was the first message.                              *)
AuthGate ==
    /\ ~authed => /\ pos = 0 /\ cmds = << >>
                  /\ \A i \in 1..Len(out) : out[i].kind = "hello"
    /\ authed /\ TokenRequired => pos > 0 /\ input[1].kind = "hello"

(* The business thread gets exactly the peer's commands, once each, in     *)
(* order, wherever the byte stream was cut.                                *)
CommandsInOrder ==
    /\ Len(cmds) = Cardinality(CommandsAt)
    /\ \A p \in CommandsAt : cmds[Rank(CommandsAt, p)] = input[p].kind

(* As long as every send works, each request is answered once, in order:   *)
(* clients match answers to requests by position.  FILE_GET_REQ without a  *)
(* name or for one of more than 255 bytes is no request in this sense: it  *)
(* has no answer (ClientSession.cpp:171 and :235), the answers of the      *)
(* others do not shift, and a client that waits for it takes the next      *)
(* answer for it.                                                          *)
AnswersInOrder ==
    ~lossy /\ pc # "sendFile" =>
        /\ Cardinality(AnswersAt) = Cardinality(RequestsAt)
        /\ \A p \in RequestsAt, i \in AnswersAt :
              Rank(RequestsAt, p) = Rank(AnswersAt, i) =>
                  <<out[i].kind, out[i].name>> = AnswerTo(input[p])

(* A file's chunks follow each other without a gap and with nothing in     *)
(* between, and a transfer that loses no chunk reaches the last one.       *)
ChunksContiguous ==
    \A i \in 1..Len(out) : out[i].kind = "data" =>
        /\ out[i].idx > 0 =>
             i > 1 /\ out[i - 1] = Item("data", out[i].name, out[i].idx - 1, out[i].total)
        /\ ~lossy /\ out[i].idx + 1 < out[i].total =>
             IF i < Len(out)
               THEN out[i + 1] = Item("data", out[i].name, out[i].idx + 1, out[i].total)
               ELSE pc = "sendFile"

(* The peer never gets a frame twice or out of order, wrap-around included. *)
VideoMovesForward ==
    \A i, j \in 1..Len(out) :
        (i < j /\ out[i].kind = "video" /\ out[j].kind = "video")
            => out[i].idx < out[j].idx

(* A frame that could not be sent whole is the last thing in the stream.   *)
VideoFailureCloses ==
    \A i \in 1..Len(out) : out[i].kind = "video" /\ ~out[i].whole =>
        i = Len(out) /\ pc = "closed"

(* IConn.h: "callers send and receive a clean SEC1 byte stream"; nothing   *)
(* is written behind a message that was cut short.                         *)
CleanStream == \A i \in 1..(Len(out) - 1) : out[i].whole

(* A peer that does not authenticate cannot keep its slot.                 *)
UnauthenticatedIsDropped ==
    (pc = "loop" /\ ~authed) ~> (authed \/ pc = "closed")

(* requestStop() ends the session whatever it is doing.                    *)
StopIsHonoured == stop ~> pc = "closed"

Shown(n) == \E i \in 1..Len(out) : out[i].kind = "video" /\ out[i].idx = n

(* lastSentSeq_ starts at UINT32_MAX, so a session that has sent nothing   *)
(* takes a frame with that number for one it has sent.                     *)
Masked(n) == SeqOf(n) = SeqSpace - 1 /\ \A i \in 1..n : ~Shown(i)

(* The newest frame reaches an authenticated peer unless a newer one       *)
(* replaces it or the session ends.                                        *)
NewestFrameIsShown ==
    \A n \in 1..MaxFrames :
        (authed /\ pc = "loop" /\ frames = n /\ ~Masked(n))
            ~> (Shown(n) \/ frames # n \/ pc = "closed")
=============================================================================
