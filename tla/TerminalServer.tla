--------------------------- MODULE TerminalServer ---------------------------
(***************************************************************************)
(* The network front end of the terminal: the accept threads               *)
(* (net/TcpServer.cpp), the registry of client sessions they share         *)
(* (core/ClientRegistry.h), the life of a session thread seen from outside *)
(* (net/ClientSession.cpp, run) and the main thread that starts and stops  *)
(* them (main.cpp).                                                        *)
(*                                                                         *)
(* A connection is a slot c \in Conns.  It is "free" when no TCP           *)
(* connection uses it, and it becomes free again when the terminal has     *)
(* forgotten the connection, so behaviours are infinite while the state    *)
(* space is finite.                                                        *)
(*                                                                         *)
(* Definitions named Mut... are variants with a plausible mistake; no      *)
(* specification uses them.  They are there to be put in place of the      *)
(* definition that follows them, to see which property notices.            *)
(***************************************************************************)
EXTENDS Integers, FiniteSets, Sequences

CONSTANTS
    Conns,       \* connection slots
    Listeners,   \* the accept threads that may exist: tcp, ws, tls, wss
    StopOrder,   \* the order in which main stops them; StopOrder[1] is tcp
    MaxClients,  \* Config::maxClients
    Main,        \* the main thread, as an owner of the registry's mutex
    Nobody       \* no owner; no connection

(* TcpServer's constructor raises the cap to at least one.                 *)
ASSUME MaxClientsAssumption == MaxClients \in Nat \ {0}

ASSUME ListenersAssumption ==
    /\ IsFiniteSet(Listeners)
    /\ Listeners # {}
    /\ Main \notin Listeners
    /\ Nobody \notin Listeners
    /\ Nobody # Main
    /\ Nobody \notin Conns

(* Every listener is stopped exactly once.                                 *)
ASSUME StopOrderAssumption ==
    /\ StopOrder \in Seq(Listeners)
    /\ StopOrder # << >>
    /\ \A l \in Listeners :
         \E i \in 1..Len(StopOrder) : StopOrder[i] = l
    /\ \A i, j \in 1..Len(StopOrder) :
         StopOrder[i] = StopOrder[j] => i = j

VARIABLES
    conn,     \* state of each connection slot
    via,      \* the listener a connection came in through
    stopReq,  \* ClientSession::stop_
    lpc,      \* where each accept thread is
    running,  \* StoppableThread::running_ of each accept thread
    held,     \* the connection an accept thread is admitting
    entries,  \* ClientRegistry::entries_, the adopted (session, thread) pairs
    todo,     \* entries the owner of the mutex has still to visit
    lock,     \* owner of ClientRegistry::m_
    count,    \* StatusBoard::clientCount
    stage,    \* where the main thread is
    nxt       \* index in StopOrder of the listener main is stopping

sessionVars  == <<conn, via, stopReq>>
acceptVars   == <<lpc, running, held>>
registryVars == <<entries, todo, lock, count>>
mainVars     == <<stage, nxt>>
vars == <<sessionVars, acceptVars, registryVars, mainVars>>

(* "held": accepted, still owned by acceptOne().  "live": the session      *)
(* thread is in run().  "ended": finished_ is set.  "gone": the thread     *)
(* function has returned, join() does not block.                           *)
ConnState == {"free", "queued", "held", "live", "ended", "gone"}
ListenerState ==
    {"off", "poll", "check", "spawn", "adopt", "reap", "reaping", "closed"}
Stage == {"boot", "run", "net", "workers", "clients", "joining",
          "release", "done", "aborted"}

HasThread(c) == conn[c] \in {"live", "ended", "gone"}
Finished(c)  == conn[c] \in {"ended", "gone"}

TypeOK ==
    /\ conn \in [Conns -> ConnState]
    /\ via \in [Conns -> Listeners \cup {Nobody}]
    /\ stopReq \in [Conns -> BOOLEAN]
    /\ lpc \in [Listeners -> ListenerState]
    /\ running \in [Listeners -> BOOLEAN]
    /\ held \in [Listeners -> Conns \cup {Nobody}]
    /\ entries \in SUBSET Conns /\ IsFiniteSet(entries)
    /\ todo \in SUBSET entries
    /\ lock \in Listeners \cup {Main, Nobody}
    /\ count \in Nat
    /\ stage \in Stage
    /\ nxt \in 1..(Len(StopOrder) + 1)

Init ==
    /\ conn = [c \in Conns |-> "free"]
    /\ via = [c \in Conns |-> Nobody]
    /\ stopReq = [c \in Conns |-> FALSE]
    /\ lpc = [l \in Listeners |-> "off"]
    /\ running = [l \in Listeners |-> FALSE]
    /\ held = [l \in Listeners |-> Nobody]
    /\ entries = {} /\ todo = {} /\ lock = Nobody /\ count = 0
    /\ stage = "boot" /\ nxt = 1

-----------------------------------------------------------------------------
(* Peers.                                                                  *)

(* A peer completes a TCP connection to a listening socket.                *)
Connect(c, l) ==
    /\ conn[c] = "free"
    /\ lpc[l] \notin {"off", "closed"}
    /\ conn' = [conn EXCEPT ![c] = "queued"]
    /\ via' = [via EXCEPT ![c] = l]
    /\ stopReq' = [stopReq EXCEPT ![c] = FALSE]
    /\ UNCHANGED <<acceptVars, registryVars, mainVars>>

(* The peer resets a connection nobody has accepted yet.                   *)
Abandon(c) ==
    /\ conn[c] = "queued"
    /\ conn' = [conn EXCEPT ![c] = "free"]
    /\ UNCHANGED <<via, stopReq, acceptVars, registryVars, mainVars>>

-----------------------------------------------------------------------------
(* Session threads: ClientSession::run() seen from the registry.           *)

(* The session leaves its loop by itself: handshake failed, peer closed,   *)
(* protocol error, authentication timeout, or a frame could not be sent.   *)
SessionDrops(c) ==
    /\ conn[c] = "live"
    /\ conn' = [conn EXCEPT ![c] = "ended"]
    /\ UNCHANGED <<via, stopReq, acceptVars, registryVars, mainVars>>

(* The loop re-checks stop_ at least every 50 ms.                          *)
SessionStops(c) ==
    /\ conn[c] = "live"
    /\ stopReq[c]
    /\ conn' = [conn EXCEPT ![c] = "ended"]
    /\ UNCHANGED <<via, stopReq, acceptVars, registryVars, mainVars>>

ThreadReturns(c) ==
    /\ conn[c] = "ended"
    /\ conn' = [conn EXCEPT ![c] = "gone"]
    /\ UNCHANGED <<via, stopReq, acceptVars, registryVars, mainVars>>

-----------------------------------------------------------------------------
(* Accept threads: TcpServer::run() and acceptOne().                       *)

(* poll() reports a connection and accept() returns it.                    *)
Accept(l, c) ==
    /\ lpc[l] = "poll" /\ running[l]
    /\ conn[c] = "queued" /\ via[c] = l
    /\ conn' = [conn EXCEPT ![c] = "held"]
    /\ held' = [held EXCEPT ![l] = c]
    /\ lpc' = [lpc EXCEPT ![l] = "check"]
    /\ UNCHANGED <<via, stopReq, running, registryVars, mainVars>>

(* poll() times out, or accept() fails: straight to the reap.              *)
NothingToAccept(l) ==
    /\ lpc[l] = "poll" /\ running[l]
    /\ lpc' = [lpc EXCEPT ![l] = "reap"]
    /\ UNCHANGED <<sessionVars, running, held, registryVars, mainVars>>

(* The socket is closed; the kernel resets what is still in its backlog.   *)
CloseListener(l) ==
    /\ lpc' = [lpc EXCEPT ![l] = "closed"]
    /\ conn' = [c \in Conns |->
                  IF conn[c] = "queued" /\ via[c] = l THEN "free" ELSE conn[c]]
    /\ UNCHANGED <<via, stopReq, running, held, registryVars, mainVars>>

(* running() is false at the head of the loop.                             *)
ListenerStops(l) ==
    /\ lpc[l] = "poll" /\ ~running[l]
    /\ CloseListener(l)

(* poll() fails with something else than EINTR: the thread gives up.       *)
PollFails(l) ==
    /\ lpc[l] = "poll" /\ running[l]
    /\ CloseListener(l)

MutCapReached == Cardinality(entries) > MaxClients

(* registry_.count() >= maxClients_.  The mutex is free again when the     *)
(* comparison is made.                                                     *)
CapReached == Cardinality(entries) >= MaxClients

Refuse(l) ==
    /\ lpc[l] = "check" /\ lock = Nobody
    /\ CapReached
    /\ conn' = [conn EXCEPT ![held[l]] = "free"]
    /\ held' = [held EXCEPT ![l] = Nobody]
    /\ lpc' = [lpc EXCEPT ![l] = "reap"]
    /\ UNCHANGED <<via, stopReq, running, registryVars, mainVars>>

Admit(l) ==
    /\ lpc[l] = "check" /\ lock = Nobody
    /\ ~CapReached
    /\ lpc' = [lpc EXCEPT ![l] = "spawn"]
    /\ UNCHANGED <<sessionVars, running, held, registryVars, mainVars>>

(* The session is built and its thread runs before the registry knows it.  *)
Spawn(l) ==
    /\ lpc[l] = "spawn"
    /\ conn' = [conn EXCEPT ![held[l]] = "live"]
    /\ lpc' = [lpc EXCEPT ![l] = "adopt"]
    /\ UNCHANGED <<via, stopReq, running, held, registryVars, mainVars>>

(* ClientRegistry::adopt.                                                  *)
Adopt(l) ==
    /\ lpc[l] = "adopt" /\ lock = Nobody
    /\ entries' = entries \cup {held[l]}
    /\ count' = Cardinality(entries')
    /\ held' = [held EXCEPT ![l] = Nobody]
    /\ lpc' = [lpc EXCEPT ![l] = "reap"]
    /\ UNCHANGED <<sessionVars, running, todo, lock, mainVars>>

-----------------------------------------------------------------------------
(* ClientRegistry::reapFinished(): the walk reads finished() of one entry  *)
(* after the other, joining under the mutex.                               *)

ReapBegin(l) ==
    /\ lpc[l] = "reap" /\ lock = Nobody
    /\ lock' = l
    /\ todo' = entries
    /\ lpc' = [lpc EXCEPT ![l] = "reaping"]
    /\ UNCHANGED <<sessionVars, running, held, entries, count, mainVars>>

MutReapSkip(l, c) ==  \* finished() not looked at
    /\ lpc[l] = "reaping" /\ c \in todo
    /\ todo' = todo \ {c}
    /\ UNCHANGED <<sessionVars, acceptVars, entries, lock, count, mainVars>>

ReapSkip(l, c) ==
    /\ lpc[l] = "reaping" /\ c \in todo
    /\ ~Finished(c)
    /\ todo' = todo \ {c}
    /\ UNCHANGED <<sessionVars, acceptVars, entries, lock, count, mainVars>>

(* join() blocks until the thread has returned, then the entry goes.       *)
ReapJoin(l, c) ==
    /\ lpc[l] = "reaping" /\ c \in todo
    /\ conn[c] = "gone"
    /\ conn' = [conn EXCEPT ![c] = "free"]
    /\ entries' = entries \ {c}
    /\ todo' = todo \ {c}
    /\ UNCHANGED <<via, stopReq, acceptVars, lock, count, mainVars>>

MutReapEnd(l) ==  \* the client count is not republished
    /\ lpc[l] = "reaping" /\ todo = {}
    /\ lock' = Nobody
    /\ lpc' = [lpc EXCEPT ![l] = "poll"]
    /\ UNCHANGED <<sessionVars, running, held, entries, todo, count, mainVars>>

ReapEnd(l) ==
    /\ lpc[l] = "reaping" /\ todo = {}
    /\ count' = Cardinality(entries)
    /\ lock' = Nobody
    /\ lpc' = [lpc EXCEPT ![l] = "poll"]
    /\ UNCHANGED <<sessionVars, running, held, entries, todo, mainVars>>

-----------------------------------------------------------------------------
(* The main thread.                                                        *)

(* A listener whose bind fails is skipped, except tcp: then main returns.  *)
Boot(bound) ==
    /\ stage = "boot"
    /\ StopOrder[1] \in bound
    /\ lpc' = [l \in Listeners |-> IF l \in bound THEN "poll" ELSE "off"]
    /\ running' = [l \in Listeners |-> l \in bound]
    /\ stage' = "run"
    /\ UNCHANGED <<sessionVars, held, registryVars, nxt>>

(* No camera, no cascade or no tcp port.                                   *)
BootFails ==
    /\ stage = "boot"
    /\ stage' = "aborted"
    /\ UNCHANGED <<sessionVars, acceptVars, registryVars, nxt>>

(* SIGINT or SIGTERM set g_stop and the sleeping loop sees it.             *)
Signal ==
    /\ stage = "run"
    /\ stage' = "net"
    /\ UNCHANGED <<sessionVars, acceptVars, registryVars, nxt>>

(* stop() of the next listener; a null one is skipped by JoinListener.     *)
StopListener ==
    /\ stage = "net" /\ nxt <= Len(StopOrder)
    /\ running[StopOrder[nxt]]
    /\ running' = [running EXCEPT ![StopOrder[nxt]] = FALSE]
    /\ UNCHANGED <<sessionVars, lpc, held, registryVars, mainVars>>

MutJoinListener ==  \* stop() without join()
    /\ stage = "net" /\ nxt <= Len(StopOrder)
    /\ ~running[StopOrder[nxt]]
    /\ nxt' = nxt + 1
    /\ UNCHANGED <<sessionVars, acceptVars, registryVars, stage>>

(* join() of it.                                                           *)
JoinListener ==
    /\ stage = "net" /\ nxt <= Len(StopOrder)
    /\ ~running[StopOrder[nxt]]
    /\ lpc[StopOrder[nxt]] \in {"off", "closed"}
    /\ nxt' = nxt + 1
    /\ UNCHANGED <<sessionVars, acceptVars, registryVars, stage>>

NetworkStopped ==
    /\ stage = "net" /\ nxt > Len(StopOrder)
    /\ stage' = "workers"
    /\ UNCHANGED <<sessionVars, acceptVars, registryVars, nxt>>

(* vision, business and display are stopped; they use no registry state.   *)
WorkersStopped ==
    /\ stage = "workers"
    /\ stage' = "clients"
    /\ UNCHANGED <<sessionVars, acceptVars, registryVars, nxt>>

MutStopAllBegin ==  \* joins without requestStop()
    /\ stage = "clients" /\ lock = Nobody
    /\ lock' = Main
    /\ todo' = entries
    /\ stage' = "joining"
    /\ UNCHANGED <<sessionVars, acceptVars, entries, count, nxt>>

(* ClientRegistry::stopAll(): ask every session, then join them in turn.   *)
StopAllBegin ==
    /\ stage = "clients" /\ lock = Nobody
    /\ lock' = Main
    /\ todo' = entries
    /\ stopReq' = [c \in Conns |-> stopReq[c] \/ c \in entries]
    /\ stage' = "joining"
    /\ UNCHANGED <<conn, via, acceptVars, entries, count, nxt>>

StopAllJoin(c) ==
    /\ stage = "joining" /\ c \in todo
    /\ conn[c] = "gone"
    /\ todo' = todo \ {c}
    /\ UNCHANGED <<sessionVars, acceptVars, entries, lock, count, mainVars>>

StopAllEnd ==
    /\ stage = "joining" /\ todo = {}
    /\ conn' = [c \in Conns |-> IF c \in entries THEN "free" ELSE conn[c]]
    /\ entries' = {}
    /\ count' = 0
    /\ lock' = Nobody
    /\ stage' = "release"
    /\ UNCHANGED <<via, stopReq, acceptVars, todo, nxt>>

(* The gimbal, the camera and the display are released.                    *)
ReleaseHardware ==
    /\ stage = "release"
    /\ stage' = "done"
    /\ UNCHANGED <<sessionVars, acceptVars, registryVars, nxt>>

(* main() has returned: the behaviour ends here, legitimately.             *)
Terminated ==
    /\ stage \in {"done", "aborted"}
    /\ UNCHANGED vars

-----------------------------------------------------------------------------
AcceptThread(l) ==
    \/ \E c \in Conns : Accept(l, c) \/ ReapSkip(l, c) \/ ReapJoin(l, c)
    \/ NothingToAccept(l) \/ ListenerStops(l) \/ PollFails(l)
    \/ Refuse(l) \/ Admit(l) \/ Spawn(l) \/ Adopt(l)
    \/ ReapBegin(l) \/ ReapEnd(l)

SessionThread(c) == SessionDrops(c) \/ SessionStops(c) \/ ThreadReturns(c)

Peer(c) == Abandon(c) \/ \E l \in Listeners : Connect(c, l)

Shutdown ==
    \/ StopListener \/ JoinListener \/ NetworkStopped \/ WorkersStopped
    \/ StopAllBegin \/ (\E c \in Conns : StopAllJoin(c)) \/ StopAllEnd
    \/ ReleaseHardware

MainThread ==
    \/ \E bound \in SUBSET Listeners : Boot(bound)
    \/ BootFails \/ Signal \/ Shutdown \/ Terminated

Next ==
    \/ \E l \in Listeners : AcceptThread(l)
    \/ \E c \in Conns : SessionThread(c) \/ Peer(c)
    \/ MainThread

Spec == Init /\ [][Next]_vars

(* The scheduler runs every thread that can run, and a thread waiting for  *)
(* the registry's mutex gets it in the end: between two walks its owners   *)
(* sleep in poll() (strong fairness).  A session that was asked to stop    *)
(* does, because its waits are all bounded by timeouts.  Nothing obliges a *)
(* peer to connect, a session to drop, poll() to fail or a user to send a  *)
(* signal.                                                                 *)
Progress(l) ==
    \/ \E c \in Conns : Accept(l, c) \/ ReapSkip(l, c) \/ ReapJoin(l, c)
    \/ NothingToAccept(l) \/ ListenerStops(l)
    \/ Refuse(l) \/ Admit(l) \/ Spawn(l) \/ Adopt(l)
    \/ ReapBegin(l) \/ ReapEnd(l)

Fairness ==
    /\ \A l \in Listeners : SF_vars(Progress(l))
    /\ \A c \in Conns : WF_vars(SessionStops(c)) /\ WF_vars(ThreadReturns(c))
    /\ WF_vars(Shutdown)

FairSpec == Spec /\ Fairness

-----------------------------------------------------------------------------
(* Properties.                                                             *)

(* The accept threads that passed the cap check and have not adopted yet:  *)
(* the window between acceptOne()'s count() and adopt().                   *)
Admitting == {l \in Listeners : lpc[l] \in {"spawn", "adopt"}}

(* The cap is tested and used in two critical sections, so each accept     *)
(* thread but one may overshoot it by one session; never more.  With a     *)
(* single listener the cap is exact.                                       *)
SessionBound ==
    Cardinality(entries) <= MaxClients + Cardinality(Listeners) - 1

(* No session thread escapes the registry: one that exists is an entry, or *)
(* is about to be adopted by a listener main has not joined yet.  Hence    *)
(* stopAll() joins every thread that uses main's locals before main        *)
(* releases the devices and destroys them.                                 *)
NoOrphanThread ==
    /\ \A c \in Conns :
         HasThread(c) => \/ c \in entries
                         \/ \E l \in Listeners :
                              lpc[l] = "adopt" /\ held[l] = c
    /\ stage \in {"release", "done", "aborted"} =>
         \A c \in Conns : ~HasThread(c)

(* The overlay's client count is the number of entries whenever no thread  *)
(* is inside the registry, and never hides a session from the user.        *)
CountMatchesEntries ==
    /\ lock = Nobody => count = Cardinality(entries)
    /\ count >= Cardinality(entries)

(* A reap removes only sessions that are over: no entry leaves the         *)
(* registry while its thread can still run.                                *)
OnlyFinishedLeave ==
    [][\A c \in entries \ entries' : conn[c] = "gone"]_vars

(* Once the listeners are joined, no new session starts: stopAll() misses  *)
(* nobody.                                                                 *)
NoLateSession ==
    [][stage \notin {"boot", "run", "net"} =>
         /\ entries' \subseteq entries
         /\ \A c \in Conns : HasThread(c)' => HasThread(c)]_vars

(* A disconnected client's slot is given back, unless no accept thread is  *)
(* left to do it (their poll() failed).                                    *)
SlotsAreReclaimed ==
    \A c \in Conns :
        (conn[c] = "ended" /\ c \in entries)
            ~> (c \notin entries \/ \A l \in Listeners : lpc[l] \in {"off", "closed"})

(* "shuts everything down cleanly": after a signal main gets through all   *)
(* its joins, whatever clients and accept threads are doing.               *)
ShutdownCompletes == stage = "net" ~> stage = "done"

(* The registry implements a bounded pool that closes with the network.    *)
Pool == INSTANCE SessionPool WITH
    Sessions <- Conns,
    Capacity <- MaxClients + Cardinality(Listeners) - 1,
    pool     <- entries,
    closed   <- stage \in {"workers", "clients", "joining", "release", "done"}

ImplementsPool == Pool!PoolSpec
=============================================================================
