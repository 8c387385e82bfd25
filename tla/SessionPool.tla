----------------------------- MODULE SessionPool -----------------------------
(***************************************************************************)
(* What the terminal promises about client sessions, without threads,      *)
(* mutexes or sockets: a pool of at most Capacity sessions that grows by   *)
(* one session at a time, loses sessions that are over, and once closed    *)
(* only shrinks.                                                           *)
(***************************************************************************)
EXTENDS Integers, FiniteSets

CONSTANTS Sessions, Capacity

VARIABLES
    pool,   \* the sessions the terminal serves
    closed  \* the network has been stopped

poolVars == <<pool, closed>>

PoolInit == pool = {} /\ closed = FALSE

Enter(s) ==
    /\ ~closed
    /\ s \notin pool
    /\ Cardinality(pool) < Capacity
    /\ pool' = pool \cup {s}
    /\ UNCHANGED closed

Leave ==
    /\ pool' \in SUBSET pool
    /\ UNCHANGED closed

Close ==
    /\ ~closed
    /\ closed' = TRUE
    /\ UNCHANGED pool

PoolNext == (\E s \in Sessions : Enter(s)) \/ Leave \/ Close

PoolSpec == PoolInit /\ [][PoolNext]_poolVars
=============================================================================
