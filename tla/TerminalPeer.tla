---------------------------- MODULE TerminalPeer ----------------------------
(***************************************************************************)
(* What a remote client talks to: one connection to the terminal, seen as  *)
(* whole SEC1 messages, and the session thread that answers on it          *)
(* (net/ClientSession.cpp).  ClientSession.tla has the session in full;    *)
(* here are the answers and the ways in which they go missing.  PcClient   *)
(* and MobileClient extend this module.                                    *)
(*                                                                         *)
(* A file's content is the number of the version that was saved, and a     *)
(* chunk's bytes are named by that version and the chunk's index.          *)
(* MutFileData is a variant with a plausible mistake that no specification *)
(* uses.                                                                   *)
(***************************************************************************)
EXTENDS Integers, Sequences

CONSTANTS
    Names,      \* names of captures
    NoName,     \* the name in a request that has none
    Chunks,     \* Chunks[v]: FILE_DATA chunks of the v-th version saved
    MaxBacklog, \* bound: messages between the two sides
    MaxAsked    \* bound: messages the user causes on one connection

ASSUME ChunksAssumption == Chunks \in Seq(Nat)
ASSUME NamesAssumption == NoName \notin Names
ASSUME BoundsAssumption == MaxBacklog \in Nat \ {0} /\ MaxAsked \in Nat

VARIABLES
    store,   \* store[n]: version of file n on the disk, 0 if there is none
    made,    \* versions saved so far
    auth,    \* the session has seen a HELLO: "no", "yes", "over" if it ended
    inbox,   \* requests on their way to the session
    sending, \* FILE_DATA messages sendFile() has still to send
    outbox,  \* messages on their way to the client
    cut,     \* the message of which only a part was written, if any
    lossy,   \* history: a write on this connection has failed
    asked,   \* history: files requested on this connection, in order
    clicks   \* history: messages the user has caused on this connection

serverVars == <<store, made, auth, inbox, sending, outbox, cut, lossy>>
peerVars == <<serverVars, asked, clicks>>

Versions == 1..Len(Chunks)
Request == [type : {"hello", "list", "get", "delete", "snapshot", "command"},
            name : Names \cup {NoName}]
Req(type) == [type |-> type, name |-> NoName]

(* A FILE_DATA message; "version" is 0 when the bytes are not the file's.  *)
Data == [type : {"data"}, name : Names, idx : Nat, total : Nat,
         version : Nat]
Listing == [type : {"list"}, names : SUBSET Names]
Deleted == [type : {"deleted"}, name : Names, ok : BOOLEAN]
Plain == [type : {"hello", "video", "junk"}]
Message == Data \cup Listing \cup Deleted \cup Plain
Junk == [type |-> "junk"]

PeerTypeOK ==
    /\ store \in [Names -> 0..Len(Chunks)]
    /\ made \in 0..Len(Chunks)
    /\ auth \in {"no", "yes", "over"}
    /\ inbox \in Seq(Request)
    /\ sending \in Seq(Data)
    /\ outbox \in Seq(Message)
    /\ cut \in Seq(Data) /\ Len(cut) <= 1
    /\ lossy \in BOOLEAN
    /\ asked \in Seq(Names)
    /\ clicks \in Nat

Fresh ==
    /\ auth = "no"
    /\ inbox = << >> /\ sending = << >> /\ outbox = << >> /\ cut = << >>
    /\ lossy = FALSE
    /\ asked = << >> /\ clicks = 0

(* Captures of earlier days.                                               *)
PeerInit ==
    /\ made \in 0..(IF Versions = {} THEN 0 ELSE 1)
    /\ store \in [Names -> 0..made]
    /\ Fresh

(* A new connection, greeted by the terminal: nothing of the one before    *)
(* reaches either side.                                                    *)
Anew ==
    /\ auth' = "no"
    /\ outbox' = <<[type |-> "hello"]>>
    /\ inbox' = << >> /\ sending' = << >> /\ cut' = << >>
    /\ lossy' = FALSE
    /\ asked' = << >> /\ clicks' = 0
    /\ UNCHANGED <<store, made>>

-----------------------------------------------------------------------------
(* The session thread.                                                     *)

(* Behind a message of which a part is missing come the bytes of the next: *)
(* they complete it, and the client finds no header behind it.             *)
Reply(m) ==
    /\ Len(outbox) < MaxBacklog
    /\ outbox' = IF cut = << >> THEN Append(outbox, m)
                                ELSE outbox \o cut \o <<Junk>>
    /\ cut' = << >>
    /\ UNCHANGED lossy

(* conn_->send() fails with nothing written, and nobody looks.             *)
Unsent ==
    /\ Len(outbox) >= MaxBacklog
    /\ lossy' = TRUE
    /\ UNCHANGED <<outbox, cut>>

Answer(m) == Reply(m) \/ Unsent

Take(type) ==
    /\ auth = "yes" /\ sending = << >> /\ inbox # << >>
    /\ Head(inbox).type = type
    /\ inbox' = Tail(inbox)
    /\ UNCHANGED <<auth, asked, clicks>>

Greet ==
    /\ auth = "no" /\ inbox # << >>
    /\ inbox' = Tail(inbox)
    /\ auth' = IF Head(inbox).type = "hello" THEN "yes" ELSE "over"
    /\ UNCHANGED <<store, made, sending, outbox, cut, lossy, asked, clicks>>

Listed == {n \in Names : store[n] > 0}

ServeList ==
    /\ Take("list")
    /\ Answer([type |-> "list", names |-> Listed])
    /\ UNCHANGED <<store, made, sending>>

MutFileData(n) ==  \* nothing is sent for a file that is missing or empty
    LET total == IF store[n] = 0 THEN 0 ELSE Chunks[store[n]]
    IN  [i \in 1..total |-> [type |-> "data", name |-> n, idx |-> i - 1,
                             total |-> total, version |-> store[n]]]

(* sendFile() reads the whole file before it sends: one transfer is of one *)
(* version.                                                                *)
FileData(n) ==
    LET total == IF store[n] = 0 THEN 0 ELSE Chunks[store[n]]
        chunk(i) == [type |-> "data", name |-> n, idx |-> i, total |-> total,
                     version |-> store[n]]
    IN  IF total = 0 THEN <<chunk(0)>>
                     ELSE [i \in 1..total |-> chunk(i - 1)]

ServeGet ==
    /\ Take("get")
    /\ sending' = FileData(Head(inbox).name)
    /\ UNCHANGED <<store, made, outbox, cut, lossy>>

SendChunk ==
    /\ sending # << >>
    /\ Reply(Head(sending))
    /\ sending' = Tail(sending)
    /\ UNCHANGED <<store, made, auth, inbox, asked, clicks>>

(* A failed send ends the transfer and leaves the session running.         *)
TransferFails ==
    /\ sending # << >>
    /\ Len(outbox) >= MaxBacklog
    /\ lossy' = TRUE
    /\ cut' \in IF cut = << >> THEN {<< >>, <<[Head(sending) EXCEPT !.version = 0]>>}
                               ELSE {cut}
    /\ sending' = << >>
    /\ UNCHANGED <<store, made, auth, inbox, outbox, asked, clicks>>

ServeDelete ==
    LET n == Head(inbox).name
    IN  /\ Take("delete")
        /\ Answer([type |-> "deleted", name |-> n, ok |-> store[n] > 0])
        /\ store' = [store EXCEPT ![n] = 0]
        /\ UNCHANGED <<made, sending>>

(* FileManager::snapshot(): a new version, under a name that may be taken. *)
Save(n) ==
    /\ made < Len(Chunks)
    /\ made' = made + 1
    /\ store' = [store EXCEPT ![n] = made + 1]

ServeSnapshot ==
    /\ Take("snapshot")
    /\ (\E n \in Names : Save(n)) \/ UNCHANGED <<store, made>>
    /\ Answer([type |-> "list", names |-> {n \in Names : store'[n] > 0}])
    /\ UNCHANGED sending

ServeCommand ==
    /\ Take("command") \/ Take("hello")
    /\ UNCHANGED <<store, made, sending, outbox, cut, lossy>>

SendVideo ==
    /\ auth = "yes" /\ sending = << >>
    /\ Reply([type |-> "video"])
    /\ UNCHANGED <<store, made, auth, inbox, sending, asked, clicks>>

(* Another client, or the automatic snapshots.                             *)
OthersChange ==
    /\ \E n \in Names :
          \/ Save(n)
          \/ store[n] > 0 /\ store' = [store EXCEPT ![n] = 0] /\ UNCHANGED made
    /\ UNCHANGED <<auth, inbox, sending, outbox, cut, lossy, asked, clicks>>

PeerNext ==
    \/ Greet \/ ServeList \/ ServeGet \/ SendChunk \/ TransferFails
    \/ ServeDelete \/ ServeSnapshot \/ ServeCommand \/ SendVideo
    \/ OthersChange

-----------------------------------------------------------------------------
(* What the clients do to the connection.                                  *)

Sends(requests) ==
    /\ inbox' = inbox \o requests
    /\ UNCHANGED <<store, made, auth, sending, cut, lossy>>

(* Messages parse one at a time: the content a complete download must have *)
(* is the chunks of one version from the first to the last.                *)
Whole(parts) ==
    \E v \in Versions :
        /\ Len(parts) = Chunks[v]
        /\ \A i \in DOMAIN parts : parts[i] = <<v, i - 1>>

(* Nothing is on its way.                                                  *)
Quiet == inbox = << >> /\ sending = << >> /\ outbox = << >> /\ cut = << >>
=============================================================================
