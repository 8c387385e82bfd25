------------------------------ MODULE PcClient ------------------------------
(***************************************************************************)
(* The Qt client (pc-client/src/net/TcpClient.cpp, ui/MainWindow.cpp,      *)
(* ui/FileBrowser.cpp, ui/ControlPanel.cpp).  Everything runs in the event *)
(* loop of one thread; processBuffer() hands message after message to the  *)
(* window, whose slots open modal dialogs, and a modal dialog runs a loop  *)
(* of its own in which the connection may go away.  Qt does not emit       *)
(* readyRead() again while its slot runs.                                  *)
(* Definitions named Mut... are variants with a plausible mistake that no  *)
(* specification uses.                                                     *)
(***************************************************************************)
EXTENDS TerminalPeer

VARIABLES
    sock,      \* QSslSocket: "off", "connecting", "tcp" (connected, not yet
               \* encrypted), "up", "closing"
    tls,       \* TcpClient::tls_
    pin,       \* pinnedCert_: none, the terminal's, or another
    rx,        \* TcpClient::rx_
    off,       \* processBuffer(): messages of rx handled
    loop,      \* "idle": main event loop, "busy": in processBuffer(),
               \* "dialog": in a dialog opened from there
    downloads, \* TcpClient::downloads_, total 0 where there is no entry
    connected, \* MainWindow::connected_
    list,      \* the names FileBrowser shows
    video,     \* VideoWidget shows a frame
    first,     \* history: type of the first message of this connection
    answered,  \* history: files that fileDownloaded() named, in order
    saved      \* history: the parts of the file last downloaded

qtVars == <<sock, tls, pin>>
readVars == <<rx, off, loop>>
uiVars == <<connected, list, video>>
pcVars == <<qtVars, readVars, downloads, uiVars, first, answered, saved>>
vars == <<peerVars, pcVars>>

NoDownload == [total |-> 0, received |-> 0, bytes |-> << >>]
Part == (0..Len(Chunks)) \X Nat

PcTypeOK ==
    /\ sock \in {"off", "connecting", "tcp", "up", "closing"}
    /\ tls \in BOOLEAN /\ pin \in {"none", "right", "wrong"}
    /\ rx \in Seq(Message) /\ off \in 0..Len(rx)
    /\ loop \in {"idle", "busy", "dialog"}
    /\ loop = "idle" => off = 0
    /\ downloads \in [Names -> [total : Nat, received : Nat, bytes : Seq(Part)]]
    /\ \A n \in Names : downloads[n].total > 0 =>
          /\ downloads[n].received = Len(downloads[n].bytes)
          /\ downloads[n].received < downloads[n].total
    /\ connected \in BOOLEAN /\ list \subseteq Names /\ video \in BOOLEAN
    /\ first \in {"none", "hello", "list", "get", "delete", "snapshot", "command"}
    /\ answered \in Seq(Names)
    /\ saved \in Seq(Part)

TypeOK == PeerTypeOK /\ PcTypeOK

Init ==
    /\ PeerInit
    /\ sock = "off" /\ tls = FALSE /\ pin = "none"
    /\ rx = << >> /\ off = 0 /\ loop = "idle"
    /\ downloads = [n \in Names |-> NoDownload]
    /\ connected = FALSE /\ list = {} /\ video = FALSE
    /\ first = "none" /\ answered = << >> /\ saved = << >>

-----------------------------------------------------------------------------
(* Connecting.                                                             *)

isConnected == sock \in {"tcp", "up"}

(* MainWindow::onDisconnected().                                           *)
onDisconnected == connected' = FALSE /\ list' = {} /\ video' = FALSE

MutCleared == rx' = << >> /\ UNCHANGED downloads  \* unfinished downloads stay
Cleared == rx' = << >> /\ downloads' = [n \in Names |-> NoDownload]

(* The button says Connect while there is no connection, and also while    *)
(* one is being set up.                                                    *)
ConnectClicked == loop = "idle" /\ ~connected

(* abort() tells of a connection that it ends.                             *)
connectToTerminal ==
    /\ ConnectClicked
    /\ Cleared
    /\ IF isConnected THEN onDisconnected ELSE UNCHANGED uiVars
    /\ \/ /\ tls' \in BOOLEAN
          /\ pin' \in IF tls' THEN {"none", "right", "wrong"} ELSE {"none"}
          /\ sock' = "connecting"
       \/ /\ tls' = TRUE /\ pin' = "none"   \* no TLS in Qt, or no certificate
          /\ sock' = "off"
    /\ Anew
    /\ first' = "none" /\ answered' = << >> /\ saved' = << >>
    /\ UNCHANGED <<off, loop>>

ConnectFails ==
    /\ loop = "idle" /\ sock = "connecting"
    /\ sock' = "off"
    /\ UNCHANGED <<peerVars, tls, pin, readVars, downloads, uiVars, first,
                   answered, saved>>

(* sendHello() emits connected(), and MainWindow::onConnected() asks for   *)
(* the list before it returns.                                             *)
MutHelloAndList == <<Req("list"), Req("hello")>>  \* connected() emitted first
HelloAndList == <<Req("hello"), Req("list")>>

sendHello ==
    /\ Sends(HelloAndList) /\ UNCHANGED <<outbox, asked, clicks>>
    /\ first' = HelloAndList[1].type
    /\ connected' = TRUE
    /\ UNCHANGED <<list, video, tls, pin, readVars, downloads, answered, saved>>

onConnected ==
    /\ loop = "idle" /\ sock = "connecting"
    /\ IF tls
       THEN /\ sock' = "tcp"
            /\ UNCHANGED <<peerVars, tls, pin, readVars, downloads, uiVars,
                           first, answered, saved>>
       ELSE sock' = "up" /\ sendHello

onEncrypted ==
    /\ loop = "idle" /\ sock = "tcp" /\ pin # "wrong"
    /\ sock' = "up"
    /\ sendHello

(* onSslErrors(): the certificate is not the pinned one.                   *)
PinRefused ==
    /\ loop = "idle" /\ sock = "tcp" /\ pin = "wrong"
    /\ sock' = "off"
    /\ onDisconnected
    /\ UNCHANGED <<peerVars, tls, pin, readVars, downloads, first, answered,
                   saved>>

disconnectFromTerminal ==
    /\ loop = "idle" /\ connected /\ sock = "up"
    /\ sock' = "closing"
    /\ UNCHANGED <<peerVars, tls, pin, readVars, downloads, uiVars, first,
                   answered, saved>>

(* The socket is closed by either side or by the network; what has not     *)
(* been read is gone.  A dialog's event loop delivers it as well.          *)
Disconnected ==
    /\ loop # "busy" /\ sock \in {"tcp", "up", "closing"}
    /\ sock' = "off"
    /\ onDisconnected
    /\ UNCHANGED <<peerVars, tls, pin, readVars, downloads, first, answered,
                   saved>>

-----------------------------------------------------------------------------
(* Reading.                                                                *)

onReadyRead ==
    /\ loop = "idle" /\ sock \in {"up", "closing"} /\ outbox # << >>
    /\ \E k \in 1..Len(outbox) :
          /\ rx' = rx \o SubSeq(outbox, 1, k)
          /\ outbox' = SubSeq(outbox, k + 1, Len(outbox))
    /\ loop' = "busy"
    /\ UNCHANGED <<store, made, auth, inbox, sending, cut, lossy, asked, clicks,
                   off, qtVars, downloads, uiVars, first, answered, saved>>

Current == rx[off + 1]

Handling(type) ==
    /\ loop = "busy" /\ off < Len(rx) /\ Current.type = type
    /\ UNCHANGED <<rx, tls, pin, first>>

(* The slots go on to the next message, or wait for the user's answer.     *)
Returns == loop' = "busy" /\ off' = off + 1
OpensDialog == loop' = "dialog" /\ off' = off

(* A bad magic number.                                                     *)
ProtocolError ==
    /\ Handling("junk")
    /\ IF sock = "off" THEN UNCHANGED <<sock, uiVars>>
                       ELSE sock' = "off" /\ onDisconnected
    /\ loop' = "idle" /\ off' = 0
    /\ UNCHANGED <<peerVars, downloads, answered, saved>>

handleVideoFrame ==
    /\ Handling("video")
    /\ video' = TRUE
    /\ Returns
    /\ UNCHANGED <<peerVars, sock, connected, list, downloads, answered, saved>>

setFiles(names) == list' = names

handleFileList ==
    /\ Handling("list")
    /\ setFiles(Current.names)
    /\ Returns
    /\ UNCHANGED <<peerVars, sock, connected, video, downloads, answered, saved>>

handleHello ==
    /\ Handling("hello")
    /\ Returns
    /\ UNCHANGED <<peerVars, sock, uiVars, downloads, answered, saved>>

(* A file that is deleted is taken off the list by asking for a new one;   *)
(* a failure is shown in a message box.                                    *)
handleFileDeleteResp ==
    /\ Handling("deleted")
    /\ IF Current.ok
       THEN /\ Returns
            /\ IF isConnected THEN Sends(<<Req("list")>>)
                              ELSE UNCHANGED <<inbox, store, made, auth,
                                               sending, cut, lossy>>
       ELSE OpensDialog /\ UNCHANGED <<inbox, store, made, auth, sending, cut,
                                       lossy>>
    /\ UNCHANGED <<outbox, asked, clicks, sock, uiVars, downloads, answered,
                   saved>>

Received(d, m) ==
    [total |-> IF d.total = 0 THEN m.total ELSE d.total,
     received |-> d.received + 1,
     bytes |-> Append(d.bytes, <<m.version, m.idx>>)]

NotFound ==
    /\ Handling("data") /\ Current.total = 0
    /\ downloads' = [downloads EXCEPT ![Current.name] = NoDownload]
    /\ answered' = Append(answered, Current.name)
    /\ OpensDialog
    /\ UNCHANGED <<peerVars, sock, uiVars, saved>>

(* The last chunk opens the Save dialog; the entry goes when it closes,    *)
(* and nothing looks at it before.                                         *)
ReceiveChunk ==
    LET n == Current.name
        d == Received(downloads[n], Current)
    IN  /\ Handling("data") /\ Current.total > 0
        /\ IF d.received >= d.total
           THEN /\ downloads' = [downloads EXCEPT ![n] = NoDownload]
                /\ answered' = Append(answered, n)
                /\ saved' = d.bytes
                /\ OpensDialog
           ELSE /\ downloads' = [downloads EXCEPT ![n] = d]
                /\ Returns
                /\ UNCHANGED <<answered, saved>>
        /\ UNCHANGED <<peerVars, sock, uiVars>>

DialogCloses ==
    /\ loop = "dialog"
    /\ Returns
    /\ UNCHANGED <<peerVars, qtVars, rx, downloads, uiVars, first, answered,
                   saved>>

BufferDone ==
    /\ loop = "busy" /\ off = Len(rx)
    /\ rx' = << >> /\ off' = 0 /\ loop' = "idle"
    /\ UNCHANGED <<peerVars, qtVars, downloads, uiVars, first, answered, saved>>

-----------------------------------------------------------------------------
(* The buttons, enabled while connected; Download and Delete are for the   *)
(* selected name.                                                          *)
Enabled == loop = "idle" /\ connected
Offered == {r \in Request : /\ r.type # "hello"
                            /\ r.type \in {"get", "delete"} <=> r.name \in list
                            /\ r.name \in list \cup {NoName}}

(* A message for a socket that is closing is dropped.                      *)
Click ==
    /\ Enabled /\ clicks < MaxAsked
    /\ \E r \in Offered :
          /\ IF isConnected
             THEN /\ Sends(<<r>>)
                  /\ asked' = IF r.type = "get" THEN Append(asked, r.name)
                                                ELSE asked
             ELSE UNCHANGED <<inbox, store, made, auth, sending, cut, lossy,
                              asked>>
    /\ clicks' = clicks + 1
    /\ UNCHANGED <<outbox, pcVars>>

Next ==
    \/ PeerNext /\ UNCHANGED pcVars
    \/ connectToTerminal \/ ConnectFails \/ onConnected \/ onEncrypted
    \/ PinRefused \/ disconnectFromTerminal \/ Disconnected
    \/ onReadyRead \/ ProtocolError \/ handleVideoFrame \/ handleFileList
    \/ handleHello \/ handleFileDeleteResp \/ NotFound \/ ReceiveChunk
    \/ DialogCloses \/ BufferDone \/ Click

Spec == Init /\ [][Next]_vars

-----------------------------------------------------------------------------
(* A file offered for saving is one version of it, whole: no chunk twice,  *)
(* none missing, nothing of another version or of another transfer, unless *)
(* a write of the terminal's failed on this connection                     *)
(* (TcpClient::handleFileData).                                            *)
SavedIsWhole == saved # << >> /\ ~lossy => Whole(saved)

(* HELLO is the first message of every connection, on TLS too: the         *)
(* terminal drops a connection that starts otherwise, and the window asks  *)
(* for the file list as soon as it hears of the connection                 *)
(* (TcpClient::sendHello, MainWindow::onConnected).                        *)
HelloFirst == first \in {"none", "hello"}

(* Every file asked for is answered, in the order of the requests, each    *)
(* time it is asked for: when nothing is on its way any more and no write  *)
(* has failed, nothing is left unanswered (ClientSession::sendFile,        *)
(* TcpClient::handleFileData).                                             *)
AnswersInOrder ==
    ~lossy =>
        /\ Len(answered) <= Len(asked)
        /\ answered = SubSeq(asked, 1, Len(answered))
        /\ auth = "yes" /\ Quiet /\ rx = << >> /\ sock \in {"up", "closing"} =>
              answered = asked
=============================================================================
