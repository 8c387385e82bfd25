---------------------------- MODULE CaptureStore ----------------------------
(***************************************************************************)
(* What the capture directory promises to its callers: every call takes    *)
(* effect at one moment (FileManager.h:27-32).  A name holds a picture,    *)
(* whole or, if its writer failed or the process ended, in part.           *)
(***************************************************************************)
EXTENDS Integers

CONSTANTS
    Names,   \* names of captures
    Callers, \* threads that use the directory
    MaxPics  \* bound: pictures taken

VARIABLES
    store, \* store[n]: the file under that name, pic 0 if there is none
    asked, \* asked[c]: what a caller has asked for and not got
    reply  \* reply[c]: what its last call returned, while it asks for no other

storeVars == <<store, asked, reply>>

File == [pic : 0..MaxPics, whole : BOOLEAN]
NoFile == [pic |-> 0, whole |-> FALSE]
NoCall == [op |-> "none", name |-> << >>, pic |-> 0]
NoReply == [is |-> "none", names |-> {}, file |-> NoFile]

StoreInit ==
    /\ store = [n \in Names |-> NoFile]
    /\ asked = [c \in Callers |-> NoCall]
    /\ reply = [c \in Callers |-> NoReply]

Ask(c, call) ==
    /\ asked[c] = NoCall
    /\ asked' = [asked EXCEPT ![c] = call]
    /\ reply' = [reply EXCEPT ![c] = NoReply]
    /\ UNCHANGED store

Return(c, is, names, file) ==
    /\ reply' = [reply EXCEPT ![c] = [is |-> is, names |-> names,
                                      file |-> file]]
    /\ asked' = [asked EXCEPT ![c] = NoCall]

(* The picture is saved under some name, replacing what was there, or the  *)
(* write fails and may leave a part of it.                                 *)
Save(c) ==
    /\ asked[c].op = "snapshot"
    /\ \E n \in Names, whole \in BOOLEAN :
          /\ store' = [store EXCEPT ![n] = [pic |-> asked[c].pic,
                                             whole |-> whole]]
          /\ Return(c, IF whole THEN "saved" ELSE "failed", {}, NoFile)

ReadFile(c) ==
    LET f == store[asked[c].name]
    IN  /\ asked[c].op = "read" /\ f # NoFile
        /\ Return(c, "file", {}, f)
        /\ UNCHANGED store

Remove(c) ==
    /\ asked[c].op = "remove" /\ store[asked[c].name] # NoFile
    /\ store' = [store EXCEPT ![asked[c].name] = NoFile]
    /\ Return(c, "removed", {}, NoFile)

List(c) ==
    /\ asked[c].op = "list"
    /\ Return(c, "list", {n \in Names : store[n] # NoFile}, NoFile)
    /\ UNCHANGED store

(* Nothing under that name, or the disk fails.                             *)
Fails(c) ==
    /\ \/ asked[c].op \in {"snapshot", "read"}
       \/ asked[c].op = "remove" /\ store[asked[c].name] = NoFile
    /\ Return(c, "failed", {}, NoFile)
    /\ UNCHANGED store

(* A name the program refuses is answered when it is asked for.            *)
Refuse(c) ==
    /\ asked[c] = NoCall
    /\ Return(c, "failed", {}, NoFile)
    /\ UNCHANGED store

(* All calls are over; the one that was writing may leave a part.          *)
End ==
    /\ asked' = [c \in Callers |-> NoCall]
    /\ reply' = [c \in Callers |-> NoReply]
    /\ \/ UNCHANGED store
       \/ \E c \in Callers, n \in Names, whole \in BOOLEAN :
             /\ asked[c].op = "snapshot"
             /\ store' = [store EXCEPT ![n] = [pic |-> asked[c].pic,
                                                whole |-> whole]]

Call == [op : {"snapshot", "read", "remove", "list"},
         name : Names \cup {<< >>}, pic : 0..MaxPics]

StoreNext ==
    \/ \E c \in Callers :
          \/ \E call \in Call : Ask(c, call)
          \/ Save(c) \/ ReadFile(c) \/ Remove(c) \/ List(c)
          \/ Fails(c) \/ Refuse(c)
    \/ End

StoreSpec == StoreInit /\ [][StoreNext]_storeVars
=============================================================================
