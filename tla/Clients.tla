------------------------------ MODULE Clients -------------------------------
(***************************************************************************)
(* One connection of either client to the terminal, with the other clients *)
(* changing the captures behind its back.                                  *)
(***************************************************************************)
EXTENDS TerminalPeer

VARIABLES
    kind, \* which client this is: "pc" or "mobile"
    \* PcClient
    sock, tls, pin, rx, off, loop, downloads, connected, list, video, first,
    answered, saved,
    \* MobileClient
    ws, status, files, frame, mDownloads, mFirst, mAnswered, mSaved

Pc == INSTANCE PcClient
Mobile == INSTANCE MobileClient

pcVars == <<sock, tls, pin, rx, off, loop, downloads, connected, list, video,
            first, answered, saved>>
mobileVars == <<ws, status, files, frame, mDownloads, mFirst, mAnswered, mSaved>>
vars == <<kind, peerVars, pcVars, mobileVars>>

Init == kind \in {"pc", "mobile"} /\ Pc!Init /\ Mobile!Init

PcStep == kind = "pc" /\ Pc!Next /\ UNCHANGED <<kind, mobileVars>>
MobileStep == kind = "mobile" /\ Mobile!Next /\ UNCHANGED <<kind, pcVars>>

Next == PcStep \/ MobileStep

Spec == Init /\ [][Next]_vars

-----------------------------------------------------------------------------
(* The state of both clients and of the connection has its types.          *)
TypeOK == Pc!TypeOK /\ Mobile!TypeOK

(* What either client offers for saving is one version of a file, whole,   *)
(* unless a write of the terminal's failed on the connection.              *)
SavedIsWhole == Pc!SavedIsWhole /\ Mobile!SavedIsWhole

(* Either client starts every connection with HELLO.                       *)
HelloFirst == Pc!HelloFirst /\ Mobile!HelloFirst

(* Every file asked for is answered, in order, and none is forgotten.      *)
AnswersInOrder == IF kind = "pc" THEN Pc!AnswersInOrder
                                 ELSE Mobile!AnswersInOrder
=============================================================================
