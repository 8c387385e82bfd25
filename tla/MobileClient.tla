---------------------------- MODULE MobileClient ----------------------------
(***************************************************************************)
(* The mobile client (mobile-client/src/stores/terminal.ts and the         *)
(* components that enable its operations).  Each handler of the WebSocket  *)
(* runs to its end; a message is a whole SEC1 frame.                       *)
(***************************************************************************)
EXTENDS TerminalPeer, FiniteSets

VARIABLES
    ws,         \* the current WebSocket: "null", "connecting", "open",
                \* "closed" while its onclose has not been dispatched
    status,     \* the store's status
    files,      \* names in the gallery
    frame,      \* frameUrl is set
    mDownloads, \* downloads: [total, parts]; total 0 where there is no entry
    mFirst,     \* history: type of the first message of this connection
    mAnswered,  \* history: files saved or reported missing, in order
    mSaved      \* history: the parts of the file last saved

storeVars == <<ws, status, files, frame, mDownloads>>
mobileVars == <<storeVars, mFirst, mAnswered, mSaved>>
vars == <<peerVars, mobileVars>>

(* parts[i] is the version of chunk i, for the chunks that have come.      *)
NoEntry == [total |-> 0, parts |-> << >>]

MobileTypeOK ==
    /\ ws \in {"null", "connecting", "open", "closed"}
    /\ status \in {"disconnected", "connecting", "connected"}
    /\ status = "disconnected" <=> ws = "null"
    /\ status = "connecting" => ws \in {"connecting", "closed"}
    /\ status = "connected" => ws \in {"open", "closed"}
    /\ files \subseteq Names /\ frame \in BOOLEAN
    /\ \A n \in Names :
          LET d == mDownloads[n]
          IN  /\ d.total \in Nat /\ DOMAIN d.parts \subseteq Nat
              /\ d.total > 0 => Cardinality(DOMAIN d.parts) < d.total
              /\ \A i \in DOMAIN d.parts : d.parts[i] \in 0..Len(Chunks)
    /\ mFirst \in {"none", "hello", "list", "get", "delete", "snapshot", "command"}
    /\ mAnswered \in Seq(Names)
    /\ mSaved \in Seq((0..Len(Chunks)) \X Nat)

TypeOK == PeerTypeOK /\ MobileTypeOK

Init ==
    /\ PeerInit
    /\ ws = "null" /\ status = "disconnected"
    /\ files = {} /\ frame = FALSE
    /\ mDownloads = [n \in Names |-> NoEntry]
    /\ mFirst = "none" /\ mAnswered = << >> /\ mSaved = << >>

-----------------------------------------------------------------------------
(* disconnect(): the handlers of the old socket are taken off, so that it  *)
(* is not heard of again.  The gallery keeps its names.                    *)
Dropped ==
    /\ frame' = FALSE
    /\ mDownloads' = [n \in Names |-> NoEntry]
    /\ UNCHANGED files

disconnect ==
    /\ status # "disconnected"
    /\ ws' = "null" /\ status' = "disconnected"
    /\ Dropped
    /\ UNCHANGED <<peerVars, mFirst, mAnswered, mSaved>>

(* new WebSocket() may refuse the URL.                                     *)
connect ==
    /\ status = "disconnected"
    /\ Dropped
    /\ \/ ws' = "connecting" /\ status' = "connecting"
       \/ ws' = "null" /\ status' = "disconnected"
    /\ Anew
    /\ mFirst' = "none" /\ mAnswered' = << >> /\ mSaved' = << >>

Opening == <<Req("hello"), Req("list")>>

onopen ==
    /\ ws = "connecting"
    /\ ws' = "open" /\ status' = "connected"
    /\ Sends(Opening) /\ UNCHANGED <<outbox, asked, clicks>>
    /\ mFirst' = Opening[1].type
    /\ UNCHANGED <<files, frame, mDownloads, mAnswered, mSaved>>

(* The socket fails or is closed; onclose() is a task that comes later.    *)
SocketEnds ==
    /\ ws \in {"connecting", "open"}
    /\ ws' = "closed"
    /\ UNCHANGED <<peerVars, status, files, frame, mDownloads, mFirst,
                   mAnswered, mSaved>>

onclose ==
    /\ ws = "closed"
    /\ ws' = "null" /\ status' = "disconnected"
    /\ UNCHANGED <<peerVars, files, frame, mDownloads, mFirst, mAnswered,
                   mSaved>>

-----------------------------------------------------------------------------
Arrives(type) ==
    /\ ws = "open" /\ outbox # << >> /\ Head(outbox).type = type
    /\ outbox' = Tail(outbox)
    /\ UNCHANGED <<store, made, auth, sending, cut, lossy, asked, clicks,
                   status, mFirst>>

Arrived == Head(outbox)
send(requests) == inbox' = IF ws = "open" THEN inbox \o requests ELSE inbox

(* What does not parse as a frame of the WebSocket ends it.                *)
BadFrame ==
    /\ Arrives("junk")
    /\ ws' = "closed"
    /\ UNCHANGED <<inbox, files, frame, mDownloads, mAnswered, mSaved>>

onVideo ==
    /\ Arrives("video")
    /\ frame' = TRUE
    /\ UNCHANGED <<inbox, ws, files, mDownloads, mAnswered, mSaved>>

onFileList ==
    /\ Arrives("list")
    /\ files' = Arrived.names
    /\ UNCHANGED <<inbox, ws, frame, mDownloads, mAnswered, mSaved>>

onHello ==
    /\ Arrives("hello")
    /\ UNCHANGED <<inbox, ws, files, frame, mDownloads, mAnswered, mSaved>>

onFileDeleteResp ==
    /\ Arrives("deleted")
    /\ IF Arrived.ok THEN send(<<Req("list")>>) ELSE UNCHANGED inbox
    /\ UNCHANGED <<ws, files, frame, mDownloads, mAnswered, mSaved>>

FileNotFound ==
    /\ Arrives("data") /\ Arrived.total = 0
    /\ mDownloads' = [mDownloads EXCEPT ![Arrived.name] = NoEntry]
    /\ mAnswered' = Append(mAnswered, Arrived.name)
    /\ UNCHANGED <<inbox, ws, files, frame, mSaved>>

(* A chunk that has come before is ignored.                                *)
Entry(d, m) ==
    [total |-> IF d.total = 0 THEN m.total ELSE d.total,
     parts |-> IF m.idx \in DOMAIN d.parts THEN d.parts
               ELSE [i \in DOMAIN d.parts \cup {m.idx} |->
                        IF i = m.idx THEN m.version ELSE d.parts[i]]]

(* The parts from 0 to total - 1 that there are, in this order.            *)
InOrder(d) ==
    LET there == DOMAIN d.parts \cap 0..(d.total - 1)
        part(k) == CHOOSE i \in there :
                       Cardinality({j \in there : j < i}) = k - 1
    IN  [k \in 1..Cardinality(there) |-> <<d.parts[part(k)], part(k)>>]

Complete(d) == Cardinality(DOMAIN d.parts) >= d.total

onFileData ==
    LET n == Arrived.name
        d == Entry(mDownloads[n], Arrived)
    IN  /\ Arrives("data") /\ Arrived.total > 0
        /\ IF Complete(d)
           THEN /\ mDownloads' = [mDownloads EXCEPT ![n] = NoEntry]
                /\ mAnswered' = Append(mAnswered, n)
                /\ mSaved' = InOrder(d)
           ELSE /\ mDownloads' = [mDownloads EXCEPT ![n] = d]
                /\ UNCHANGED <<mAnswered, mSaved>>
        /\ UNCHANGED <<inbox, ws, files, frame>>

-----------------------------------------------------------------------------
(* The user.  The gallery and the pad are disabled unless connected.       *)
mOffered == {r \in Request : /\ r.type # "hello"
                             /\ r.type \in {"get", "delete"} <=> r.name \in files
                             /\ r.name \in files \cup {NoName}}

MobileClick ==
    /\ status = "connected" /\ clicks < MaxAsked
    /\ \E r \in mOffered :
          /\ send(<<r>>)
          /\ asked' = IF r.type = "get" /\ ws = "open"
                      THEN Append(asked, r.name) ELSE asked
    /\ clicks' = clicks + 1
    /\ UNCHANGED <<store, made, auth, sending, outbox, cut, lossy, mobileVars>>

Next ==
    \/ PeerNext /\ UNCHANGED mobileVars
    \/ connect \/ disconnect \/ onopen \/ SocketEnds \/ onclose
    \/ BadFrame \/ onVideo \/ onFileList \/ onHello \/ onFileDeleteResp
    \/ FileNotFound \/ onFileData \/ MobileClick

Spec == Init /\ [][Next]_vars

-----------------------------------------------------------------------------
(* A saved file is one version of it, whole, unless a write of the         *)
(* terminal's failed on this connection (terminal.ts, onFileData).         *)
SavedIsWhole == mSaved # << >> /\ ~lossy => Whole(mSaved)

(* HELLO is the first message of every connection, before the request for  *)
(* the file list (terminal.ts, onopen).                                    *)
HelloFirst == mFirst \in {"none", "hello"}

(* Every file asked for is answered, in the order of the requests; when    *)
(* nothing is on its way and no write has failed, none is left             *)
(* (ClientSession::sendFile; terminal.ts, onFileData).                     *)
AnswersInOrder ==
    ~lossy =>
        /\ Len(mAnswered) <= Len(asked)
        /\ mAnswered = SubSeq(asked, 1, Len(mAnswered))
        /\ auth = "yes" /\ Quiet /\ ws = "open" => mAnswered = asked
=============================================================================
