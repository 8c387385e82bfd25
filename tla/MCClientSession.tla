--------------------------- MODULE MCClientSession ---------------------------
(* Small instances of ClientSession for TLC.                               *)
EXTENDS ClientSession, TLC

CONSTANTS f1, f2, bad, long

M(kind) == [kind |-> kind, name |-> NoName]
N(kind, name) == [kind |-> kind, name |-> name]

\* f1 has two chunks, f2 is empty; resolve() refuses bad, and long has more
\* than 255 bytes.
ChunksOf == f1 :> 2 @@ f2 :> 0

\* Without a token: files, with transfers in front of other requests.
FileInputs ==
    << <<N("get", f1), N("delete", f1), N("get", f1)>>,
       <<N("get", f2), M("get"), N("get", f1)>>,
       <<M("snapshot"), N("get", f1), M("list")>>,
       <<M("delete"), N("get", f1), M("step")>>,
       <<M("list"), M("garbage"), N("delete", f2)>> >>

\* With a token: nothing; good, wrong, missing and late HELLOs, batched with
\* others; requests of every kind.
AllInputs ==
    << << >>,
       <<M("badHello"), M("step")>>,
       <<M("list"), M("hello")>>,
       <<M("garbage"), M("hello")>>,
       <<M("other"), M("hello"), M("autoOn")>>,
       <<M("hello"), M("step"), M("autoOff")>>,
       <<M("hello"), M("badHello"), M("abs")>>,
       <<M("hello"), M("snapshot"), M("garbage"), M("step")>>,
       <<M("hello"), N("get", f1), N("delete", f1)>>,
       <<M("hello"), N("get", f2), M("get"), M("list")>>,
       <<M("hello"), N("get", bad), N("get", long), N("get", f1)>>,
       <<M("hello"), N("delete", long), N("delete", bad)>> >>
=============================================================================
