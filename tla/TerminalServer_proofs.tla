----------------------- MODULE TerminalServer_proofs -----------------------
(***************************************************************************)
(* Proofs that the safety properties of TerminalServer hold for any number *)
(* of listeners, connections and clients.                                  *)
(***************************************************************************)
EXTENDS TerminalServer, FiniteSetTheorems, TLAPS

-----------------------------------------------------------------------------
(* The inductive invariant: who owns a connection, who owns the mutex and  *)
(* what has been stopped.                                                  *)

Owning == {"check", "spawn", "adopt"}
Down   == {"off", "closed"}

(* A connection being admitted belongs to one accept thread and is not in  *)
(* the registry.                                                           *)
HeldInv ==
    /\ \A l \in Listeners :
         IF lpc[l] \in Owning
           THEN /\ held[l] \in Conns \ entries
                /\ lpc[l] = "adopt" => HasThread(held[l])
                /\ lpc[l] # "adopt" => conn[held[l]] = "held"
           ELSE held[l] = Nobody
    /\ \A k, l \in Listeners : held[k] = held[l] /\ held[k] # Nobody => k = l

(* A session thread exists exactly for the entries and for the connection  *)
(* an accept thread is about to adopt.                                     *)
ThreadInv ==
    /\ \A c \in entries : HasThread(c)
    /\ \A c \in Conns :
         HasThread(c) => \/ c \in entries
                         \/ \E l \in Listeners :
                              lpc[l] = "adopt" /\ held[l] = c

LockInv ==
    /\ \A l \in Listeners : lpc[l] = "reaping" <=> lock = l
    /\ stage = "joining" <=> lock = Main
    /\ stage = "joining" => \A c \in entries \ todo : conn[c] = "gone"

StageInv ==
    /\ stage \in {"boot", "aborted"} => nxt = 1 /\ \A l \in Listeners : lpc[l] = "off"
    /\ \A i \in 1..Len(StopOrder) : i < nxt => lpc[StopOrder[i]] \in Down
    /\ stage \in {"workers", "clients", "joining", "release", "done"} =>
         nxt = Len(StopOrder) + 1
    /\ stage \in {"boot", "aborted", "release", "done"} => entries = {}

CountInv ==
    /\ lock = Nobody => count = Cardinality(entries)
    /\ count >= Cardinality(entries)

(* Every accept thread inside the window has its own share of the bound.   *)
BoundInv ==
    Cardinality(entries) + Cardinality(Admitting)
        <= MaxClients + Cardinality(Listeners) - 1

Inv == TypeOK /\ HeldInv /\ ThreadInv /\ LockInv /\ StageInv

-----------------------------------------------------------------------------
(* StopOrder is a non-empty sequence of listeners.                         *)
LEMMA StopOrderFacts ==
    /\ Len(StopOrder) \in Nat \ {0}
    /\ \A i \in 1..Len(StopOrder) : StopOrder[i] \in Listeners
    /\ StopOrder[1] \in Listeners
    /\ \A l \in Listeners : \E i \in 1..Len(StopOrder) : StopOrder[i] = l
  BY StopOrderAssumption

(* Types are preserved; finiteness of the registry needs the held          *)
(* connections.                                                            *)
LEMMA TypeStep == Inv /\ [Next]_vars => TypeOK'
<1> SUFFICES ASSUME Inv, [Next]_vars PROVE TypeOK'
  OBVIOUS
<1> USE ListenersAssumption, StopOrderFacts, FS_EmptySet, FS_AddElement, FS_RemoveElement, FS_CardinalityType DEF Inv, vars, sessionVars, acceptVars, registryVars, mainVars, TypeOK, ConnState, ListenerState, Stage, HeldInv, Owning
<1>1. ASSUME NEW l \in Listeners, NEW c \in Conns, Accept(l, c) PROVE TypeOK'
  BY <1>1 DEF Accept
<1>2. ASSUME NEW l \in Listeners, NEW c \in Conns, ReapSkip(l, c) PROVE TypeOK'
  BY <1>2 DEF ReapSkip
<1>3. ASSUME NEW l \in Listeners, NEW c \in Conns, ReapJoin(l, c) PROVE TypeOK'
  BY <1>3 DEF ReapJoin
<1>4. ASSUME NEW l \in Listeners, NothingToAccept(l) PROVE TypeOK'
  BY <1>4 DEF NothingToAccept
<1>5. ASSUME NEW l \in Listeners, ListenerStops(l) PROVE TypeOK'
  BY <1>5 DEF ListenerStops, CloseListener
<1>6. ASSUME NEW l \in Listeners, PollFails(l) PROVE TypeOK'
  BY <1>6 DEF PollFails, CloseListener
<1>7. ASSUME NEW l \in Listeners, Refuse(l) PROVE TypeOK'
  BY <1>7 DEF Refuse
<1>8. ASSUME NEW l \in Listeners, Admit(l) PROVE TypeOK'
  BY <1>8 DEF Admit
<1>9. ASSUME NEW l \in Listeners, Spawn(l) PROVE TypeOK'
  BY <1>9 DEF Spawn
<1>10. ASSUME NEW l \in Listeners, Adopt(l) PROVE TypeOK'
  BY <1>10 DEF Adopt
<1>11. ASSUME NEW l \in Listeners, ReapBegin(l) PROVE TypeOK'
  BY <1>11 DEF ReapBegin
<1>12. ASSUME NEW l \in Listeners, ReapEnd(l) PROVE TypeOK'
  BY <1>12 DEF ReapEnd
<1>13. ASSUME NEW c \in Conns, SessionDrops(c) PROVE TypeOK'
  BY <1>13 DEF SessionDrops
<1>14. ASSUME NEW c \in Conns, SessionStops(c) PROVE TypeOK'
  BY <1>14 DEF SessionStops
<1>15. ASSUME NEW c \in Conns, ThreadReturns(c) PROVE TypeOK'
  BY <1>15 DEF ThreadReturns
<1>16. ASSUME NEW c \in Conns, Abandon(c) PROVE TypeOK'
  BY <1>16 DEF Abandon
<1>17. ASSUME NEW c \in Conns, NEW l \in Listeners, Connect(c, l) PROVE TypeOK'
  BY <1>17 DEF Connect
<1>18. ASSUME NEW c \in Conns, StopAllJoin(c) PROVE TypeOK'
  BY <1>18 DEF StopAllJoin
<1>19. ASSUME NEW bound \in SUBSET Listeners, Boot(bound) PROVE TypeOK'
  BY <1>19 DEF Boot
<1>20. CASE BootFails
  BY <1>20 DEF BootFails
<1>21. CASE Signal
  BY <1>21 DEF Signal
<1>22. CASE StopListener
  BY <1>22 DEF StopListener
<1>23. CASE JoinListener
  BY <1>23 DEF JoinListener
<1>24. CASE NetworkStopped
  BY <1>24 DEF NetworkStopped
<1>25. CASE WorkersStopped
  BY <1>25 DEF WorkersStopped
<1>26. CASE StopAllBegin
  BY <1>26 DEF StopAllBegin
<1>27. CASE StopAllEnd
  BY <1>27 DEF StopAllEnd
<1>28. CASE ReleaseHardware
  BY <1>28 DEF ReleaseHardware
<1>29. CASE Terminated
  BY <1>29 DEF Terminated
<1>30. CASE UNCHANGED vars
  BY <1>30
<1>31. QED
  BY <1>1, <1>2, <1>3, <1>4, <1>5, <1>6, <1>7, <1>8, <1>9, <1>10, <1>11, <1>12, <1>13, <1>14, <1>15, <1>16, <1>17, <1>18, <1>19, <1>20, <1>21, <1>22, <1>23, <1>24, <1>25, <1>26, <1>27, <1>28, <1>29, <1>30
  DEF Next, AcceptThread, SessionThread, Peer, MainThread, Shutdown

(* One connection per admitting accept thread, outside the registry.       *)
LEMMA HeldStep == Inv /\ [Next]_vars => HeldInv'
<1> SUFFICES ASSUME Inv, [Next]_vars PROVE HeldInv'
  OBVIOUS
<1> USE ListenersAssumption DEF Inv, vars, sessionVars, acceptVars, registryVars, mainVars, TypeOK, ConnState, ListenerState, Stage, HeldInv, ThreadInv, StageInv, Owning, Down, HasThread
<1>1. ASSUME NEW l \in Listeners, NEW c \in Conns, Accept(l, c) PROVE HeldInv'
  BY <1>1 DEF Accept
<1>2. ASSUME NEW l \in Listeners, NEW c \in Conns, ReapSkip(l, c) PROVE HeldInv'
  BY <1>2 DEF ReapSkip
<1>3. ASSUME NEW l \in Listeners, NEW c \in Conns, ReapJoin(l, c) PROVE HeldInv'
  BY <1>3 DEF ReapJoin
<1>4. ASSUME NEW l \in Listeners, NothingToAccept(l) PROVE HeldInv'
  BY <1>4 DEF NothingToAccept
<1>5. ASSUME NEW l \in Listeners, ListenerStops(l) PROVE HeldInv'
  BY <1>5 DEF ListenerStops, CloseListener
<1>6. ASSUME NEW l \in Listeners, PollFails(l) PROVE HeldInv'
  BY <1>6 DEF PollFails, CloseListener
<1>7. ASSUME NEW l \in Listeners, Refuse(l) PROVE HeldInv'
  BY <1>7 DEF Refuse
<1>8. ASSUME NEW l \in Listeners, Admit(l) PROVE HeldInv'
  BY <1>8 DEF Admit
<1>9. ASSUME NEW l \in Listeners, Spawn(l) PROVE HeldInv'
  BY <1>9 DEF Spawn
<1>10. ASSUME NEW l \in Listeners, Adopt(l) PROVE HeldInv'
  BY <1>10 DEF Adopt
<1>11. ASSUME NEW l \in Listeners, ReapBegin(l) PROVE HeldInv'
  BY <1>11 DEF ReapBegin
<1>12. ASSUME NEW l \in Listeners, ReapEnd(l) PROVE HeldInv'
  BY <1>12 DEF ReapEnd
<1>13. ASSUME NEW c \in Conns, SessionDrops(c) PROVE HeldInv'
  BY <1>13 DEF SessionDrops
<1>14. ASSUME NEW c \in Conns, SessionStops(c) PROVE HeldInv'
  BY <1>14 DEF SessionStops
<1>15. ASSUME NEW c \in Conns, ThreadReturns(c) PROVE HeldInv'
  BY <1>15 DEF ThreadReturns
<1>16. ASSUME NEW c \in Conns, Abandon(c) PROVE HeldInv'
  BY <1>16 DEF Abandon
<1>17. ASSUME NEW c \in Conns, NEW l \in Listeners, Connect(c, l) PROVE HeldInv'
  BY <1>17 DEF Connect
<1>18. ASSUME NEW c \in Conns, StopAllJoin(c) PROVE HeldInv'
  BY <1>18 DEF StopAllJoin
<1>19. ASSUME NEW bound \in SUBSET Listeners, Boot(bound) PROVE HeldInv'
  BY <1>19 DEF Boot
<1>20. CASE BootFails
  BY <1>20 DEF BootFails
<1>21. CASE Signal
  BY <1>21 DEF Signal
<1>22. CASE StopListener
  BY <1>22 DEF StopListener
<1>23. CASE JoinListener
  BY <1>23 DEF JoinListener
<1>24. CASE NetworkStopped
  BY <1>24 DEF NetworkStopped
<1>25. CASE WorkersStopped
  BY <1>25 DEF WorkersStopped
<1>26. CASE StopAllBegin
  BY <1>26 DEF StopAllBegin
<1>27. CASE StopAllEnd
  BY <1>27 DEF StopAllEnd
<1>28. CASE ReleaseHardware
  BY <1>28 DEF ReleaseHardware
<1>29. CASE Terminated
  BY <1>29 DEF Terminated
<1>30. CASE UNCHANGED vars
  BY <1>30
<1>31. QED
  BY <1>1, <1>2, <1>3, <1>4, <1>5, <1>6, <1>7, <1>8, <1>9, <1>10, <1>11, <1>12, <1>13, <1>14, <1>15, <1>16, <1>17, <1>18, <1>19, <1>20, <1>21, <1>22, <1>23, <1>24, <1>25, <1>26, <1>27, <1>28, <1>29, <1>30
  DEF Next, AcceptThread, SessionThread, Peer, MainThread, Shutdown

(* A thread is created in Spawn, handed over in Adopt and forgotten only   *)
(* once it has returned.                                                   *)
LEMMA ThreadStep == Inv /\ [Next]_vars => ThreadInv'
<1> SUFFICES ASSUME Inv, [Next]_vars PROVE ThreadInv'
  OBVIOUS
<1> USE ListenersAssumption DEF Inv, vars, sessionVars, acceptVars, registryVars, mainVars, TypeOK, ConnState, ListenerState, Stage, HeldInv, ThreadInv, LockInv, StageInv, Owning, Down, HasThread
<1>1. ASSUME NEW l \in Listeners, NEW c \in Conns, Accept(l, c) PROVE ThreadInv'
  BY <1>1 DEF Accept
<1>2. ASSUME NEW l \in Listeners, NEW c \in Conns, ReapSkip(l, c) PROVE ThreadInv'
  BY <1>2 DEF ReapSkip
<1>3. ASSUME NEW l \in Listeners, NEW c \in Conns, ReapJoin(l, c) PROVE ThreadInv'
  BY <1>3 DEF ReapJoin
<1>4. ASSUME NEW l \in Listeners, NothingToAccept(l) PROVE ThreadInv'
  BY <1>4 DEF NothingToAccept
<1>5. ASSUME NEW l \in Listeners, ListenerStops(l) PROVE ThreadInv'
  BY <1>5 DEF ListenerStops, CloseListener
<1>6. ASSUME NEW l \in Listeners, PollFails(l) PROVE ThreadInv'
  BY <1>6 DEF PollFails, CloseListener
<1>7. ASSUME NEW l \in Listeners, Refuse(l) PROVE ThreadInv'
  BY <1>7 DEF Refuse
<1>8. ASSUME NEW l \in Listeners, Admit(l) PROVE ThreadInv'
  BY <1>8 DEF Admit
<1>9. ASSUME NEW l \in Listeners, Spawn(l) PROVE ThreadInv'
  BY <1>9 DEF Spawn
<1>10. ASSUME NEW l \in Listeners, Adopt(l) PROVE ThreadInv'
  BY <1>10 DEF Adopt
<1>11. ASSUME NEW l \in Listeners, ReapBegin(l) PROVE ThreadInv'
  BY <1>11 DEF ReapBegin
<1>12. ASSUME NEW l \in Listeners, ReapEnd(l) PROVE ThreadInv'
  BY <1>12 DEF ReapEnd
<1>13. ASSUME NEW c \in Conns, SessionDrops(c) PROVE ThreadInv'
  BY <1>13 DEF SessionDrops
<1>14. ASSUME NEW c \in Conns, SessionStops(c) PROVE ThreadInv'
  BY <1>14 DEF SessionStops
<1>15. ASSUME NEW c \in Conns, ThreadReturns(c) PROVE ThreadInv'
  BY <1>15 DEF ThreadReturns
<1>16. ASSUME NEW c \in Conns, Abandon(c) PROVE ThreadInv'
  BY <1>16 DEF Abandon
<1>17. ASSUME NEW c \in Conns, NEW l \in Listeners, Connect(c, l) PROVE ThreadInv'
  BY <1>17 DEF Connect
<1>18. ASSUME NEW c \in Conns, StopAllJoin(c) PROVE ThreadInv'
  BY <1>18 DEF StopAllJoin
<1>19. ASSUME NEW bound \in SUBSET Listeners, Boot(bound) PROVE ThreadInv'
  BY <1>19 DEF Boot
<1>20. CASE BootFails
  BY <1>20 DEF BootFails
<1>21. CASE Signal
  BY <1>21 DEF Signal
<1>22. CASE StopListener
  BY <1>22 DEF StopListener
<1>23. CASE JoinListener
  BY <1>23 DEF JoinListener
<1>24. CASE NetworkStopped
  BY <1>24 DEF NetworkStopped
<1>25. CASE WorkersStopped
  BY <1>25 DEF WorkersStopped
<1>26. CASE StopAllBegin
  BY <1>26 DEF StopAllBegin
<1>27. CASE StopAllEnd
  BY <1>27 DEF StopAllEnd
<1>28. CASE ReleaseHardware
  BY <1>28 DEF ReleaseHardware
<1>29. CASE Terminated
  BY <1>29 DEF Terminated
<1>30. CASE UNCHANGED vars
  BY <1>30
<1>31. QED
  BY <1>1, <1>2, <1>3, <1>4, <1>5, <1>6, <1>7, <1>8, <1>9, <1>10, <1>11, <1>12, <1>13, <1>14, <1>15, <1>16, <1>17, <1>18, <1>19, <1>20, <1>21, <1>22, <1>23, <1>24, <1>25, <1>26, <1>27, <1>28, <1>29, <1>30
  DEF Next, AcceptThread, SessionThread, Peer, MainThread, Shutdown

(* The mutex belongs to the reaping listener, or to main inside stopAll(). *)
LEMMA LockStep == Inv /\ [Next]_vars => LockInv'
<1> SUFFICES ASSUME Inv, [Next]_vars PROVE LockInv'
  OBVIOUS
<1> USE ListenersAssumption DEF Inv, vars, sessionVars, acceptVars, registryVars, mainVars, TypeOK, ConnState, ListenerState, Stage, LockInv, StageInv, HeldInv, ThreadInv, HasThread, Down, Owning
<1>1. ASSUME NEW l \in Listeners, NEW c \in Conns, Accept(l, c) PROVE LockInv'
  BY <1>1 DEF Accept
<1>2. ASSUME NEW l \in Listeners, NEW c \in Conns, ReapSkip(l, c) PROVE LockInv'
  BY <1>2 DEF ReapSkip
<1>3. ASSUME NEW l \in Listeners, NEW c \in Conns, ReapJoin(l, c) PROVE LockInv'
  BY <1>3 DEF ReapJoin
<1>4. ASSUME NEW l \in Listeners, NothingToAccept(l) PROVE LockInv'
  BY <1>4 DEF NothingToAccept
<1>5. ASSUME NEW l \in Listeners, ListenerStops(l) PROVE LockInv'
  BY <1>5 DEF ListenerStops, CloseListener
<1>6. ASSUME NEW l \in Listeners, PollFails(l) PROVE LockInv'
  BY <1>6 DEF PollFails, CloseListener
<1>7. ASSUME NEW l \in Listeners, Refuse(l) PROVE LockInv'
  BY <1>7 DEF Refuse
<1>8. ASSUME NEW l \in Listeners, Admit(l) PROVE LockInv'
  BY <1>8 DEF Admit
<1>9. ASSUME NEW l \in Listeners, Spawn(l) PROVE LockInv'
  BY <1>9 DEF Spawn
<1>10. ASSUME NEW l \in Listeners, Adopt(l) PROVE LockInv'
  BY <1>10 DEF Adopt
<1>11. ASSUME NEW l \in Listeners, ReapBegin(l) PROVE LockInv'
  BY <1>11 DEF ReapBegin
<1>12. ASSUME NEW l \in Listeners, ReapEnd(l) PROVE LockInv'
  BY <1>12 DEF ReapEnd
<1>13. ASSUME NEW c \in Conns, SessionDrops(c) PROVE LockInv'
  BY <1>13 DEF SessionDrops
<1>14. ASSUME NEW c \in Conns, SessionStops(c) PROVE LockInv'
  BY <1>14 DEF SessionStops
<1>15. ASSUME NEW c \in Conns, ThreadReturns(c) PROVE LockInv'
  BY <1>15 DEF ThreadReturns
<1>16. ASSUME NEW c \in Conns, Abandon(c) PROVE LockInv'
  BY <1>16 DEF Abandon
<1>17. ASSUME NEW c \in Conns, NEW l \in Listeners, Connect(c, l) PROVE LockInv'
  BY <1>17 DEF Connect
<1>18. ASSUME NEW c \in Conns, StopAllJoin(c) PROVE LockInv'
  BY <1>18 DEF StopAllJoin
<1>19. ASSUME NEW bound \in SUBSET Listeners, Boot(bound) PROVE LockInv'
  BY <1>19 DEF Boot
<1>20. CASE BootFails
  BY <1>20 DEF BootFails
<1>21. CASE Signal
  BY <1>21 DEF Signal
<1>22. CASE StopListener
  BY <1>22 DEF StopListener
<1>23. CASE JoinListener
  BY <1>23 DEF JoinListener
<1>24. CASE NetworkStopped
  BY <1>24 DEF NetworkStopped
<1>25. CASE WorkersStopped
  BY <1>25 DEF WorkersStopped
<1>26. CASE StopAllBegin
  BY <1>26 DEF StopAllBegin
<1>27. CASE StopAllEnd
  BY <1>27 DEF StopAllEnd
<1>28. CASE ReleaseHardware
  BY <1>28 DEF ReleaseHardware
<1>29. CASE Terminated
  BY <1>29 DEF Terminated
<1>30. CASE UNCHANGED vars
  BY <1>30
<1>31. QED
  BY <1>1, <1>2, <1>3, <1>4, <1>5, <1>6, <1>7, <1>8, <1>9, <1>10, <1>11, <1>12, <1>13, <1>14, <1>15, <1>16, <1>17, <1>18, <1>19, <1>20, <1>21, <1>22, <1>23, <1>24, <1>25, <1>26, <1>27, <1>28, <1>29, <1>30
  DEF Next, AcceptThread, SessionThread, Peer, MainThread, Shutdown

(* Listeners main has joined stay down; the registry is empty after        *)
(* stopAll().                                                              *)
LEMMA StageStep == Inv /\ [Next]_vars => StageInv'
<1> SUFFICES ASSUME Inv, [Next]_vars PROVE StageInv'
  OBVIOUS
<1> USE ListenersAssumption, StopOrderFacts DEF Inv, vars, sessionVars, acceptVars, registryVars, mainVars, TypeOK, ConnState, ListenerState, Stage, StageInv, HeldInv, LockInv, Down, Owning
<1>1. ASSUME NEW l \in Listeners, NEW c \in Conns, Accept(l, c) PROVE StageInv'
  BY <1>1 DEF Accept
<1>2. ASSUME NEW l \in Listeners, NEW c \in Conns, ReapSkip(l, c) PROVE StageInv'
  BY <1>2 DEF ReapSkip
<1>3. ASSUME NEW l \in Listeners, NEW c \in Conns, ReapJoin(l, c) PROVE StageInv'
  BY <1>3 DEF ReapJoin
<1>4. ASSUME NEW l \in Listeners, NothingToAccept(l) PROVE StageInv'
  BY <1>4 DEF NothingToAccept
<1>5. ASSUME NEW l \in Listeners, ListenerStops(l) PROVE StageInv'
  BY <1>5 DEF ListenerStops, CloseListener
<1>6. ASSUME NEW l \in Listeners, PollFails(l) PROVE StageInv'
  BY <1>6 DEF PollFails, CloseListener
<1>7. ASSUME NEW l \in Listeners, Refuse(l) PROVE StageInv'
  BY <1>7 DEF Refuse
<1>8. ASSUME NEW l \in Listeners, Admit(l) PROVE StageInv'
  BY <1>8 DEF Admit
<1>9. ASSUME NEW l \in Listeners, Spawn(l) PROVE StageInv'
  BY <1>9 DEF Spawn
<1>10. ASSUME NEW l \in Listeners, Adopt(l) PROVE StageInv'
  BY <1>10 DEF Adopt
<1>11. ASSUME NEW l \in Listeners, ReapBegin(l) PROVE StageInv'
  <2>1. /\ UNCHANGED <<stage, nxt, entries>>
        /\ lpc[l] = "reap" /\ lpc' = [lpc EXCEPT ![l] = "reaping"]
    BY <1>11 DEF ReapBegin
  <2>2. stage \notin {"boot", "aborted"} /\ l \in Listeners
    BY <2>1
  <2>3. \A i \in 1..Len(StopOrder) : i < nxt => StopOrder[i] # l
    BY <2>1
  <2> QED
    BY <2>1, <2>2, <2>3
<1>12. ASSUME NEW l \in Listeners, ReapEnd(l) PROVE StageInv'
  BY <1>12 DEF ReapEnd
<1>13. ASSUME NEW c \in Conns, SessionDrops(c) PROVE StageInv'
  BY <1>13 DEF SessionDrops
<1>14. ASSUME NEW c \in Conns, SessionStops(c) PROVE StageInv'
  BY <1>14 DEF SessionStops
<1>15. ASSUME NEW c \in Conns, ThreadReturns(c) PROVE StageInv'
  BY <1>15 DEF ThreadReturns
<1>16. ASSUME NEW c \in Conns, Abandon(c) PROVE StageInv'
  BY <1>16 DEF Abandon
<1>17. ASSUME NEW c \in Conns, NEW l \in Listeners, Connect(c, l) PROVE StageInv'
  BY <1>17 DEF Connect
<1>18. ASSUME NEW c \in Conns, StopAllJoin(c) PROVE StageInv'
  BY <1>18 DEF StopAllJoin
<1>19. ASSUME NEW bound \in SUBSET Listeners, Boot(bound) PROVE StageInv'
  BY <1>19 DEF Boot
<1>20. CASE BootFails
  BY <1>20 DEF BootFails
<1>21. CASE Signal
  BY <1>21 DEF Signal
<1>22. CASE StopListener
  BY <1>22 DEF StopListener
<1>23. CASE JoinListener
  BY <1>23 DEF JoinListener
<1>24. CASE NetworkStopped
  BY <1>24 DEF NetworkStopped
<1>25. CASE WorkersStopped
  BY <1>25 DEF WorkersStopped
<1>26. CASE StopAllBegin
  BY <1>26 DEF StopAllBegin
<1>27. CASE StopAllEnd
  BY <1>27 DEF StopAllEnd
<1>28. CASE ReleaseHardware
  BY <1>28 DEF ReleaseHardware
<1>29. CASE Terminated
  BY <1>29 DEF Terminated
<1>30. CASE UNCHANGED vars
  BY <1>30
<1>31. QED
  BY <1>1, <1>2, <1>3, <1>4, <1>5, <1>6, <1>7, <1>8, <1>9, <1>10, <1>11, <1>12, <1>13, <1>14, <1>15, <1>16, <1>17, <1>18, <1>19, <1>20, <1>21, <1>22, <1>23, <1>24, <1>25, <1>26, <1>27, <1>28, <1>29, <1>30
  DEF Next, AcceptThread, SessionThread, Peer, MainThread, Shutdown

-----------------------------------------------------------------------------
(* Nothing is connected when main starts.                                  *)
LEMMA InvInit == Init => Inv
<1> SUFFICES ASSUME Init PROVE Inv
  OBVIOUS
<1> USE ListenersAssumption, StopOrderFacts, FS_EmptySet DEF Init
<1>1. TypeOK
  BY DEF TypeOK, ConnState, ListenerState, Stage
<1>2. HeldInv /\ ThreadInv /\ LockInv /\ StageInv
  BY DEF HeldInv, ThreadInv, LockInv, StageInv, Owning, Down, HasThread
<1>3. QED
  BY <1>1, <1>2 DEF Inv

(* The inductive invariant holds in every reachable state.                 *)
LEMMA Invariance == Spec => []Inv
<1>1. Inv /\ [Next]_vars => Inv'
  BY TypeStep, HeldStep, ThreadStep, LockStep, StageStep DEF Inv
<1>2. QED
  BY <1>1, InvInit, PTL DEF Spec

(* Every variable keeps its type in every reachable state.                 *)
THEOREM TypeCorrect == Spec => []TypeOK
<1>1. Inv => TypeOK
  BY DEF Inv
<1>2. QED
  BY <1>1, Invariance, PTL

(* No session thread is ever outside the registry except in the hands of   *)
(* the listener that adopts it next, and none is left when main releases   *)
(* the hardware.                                                           *)
THEOREM NoOrphans == Spec => []NoOrphanThread
<1>1. Inv => NoOrphanThread
  <2> SUFFICES ASSUME Inv PROVE NoOrphanThread
    OBVIOUS
  <2>1. \A c \in Conns :
          HasThread(c) => \/ c \in entries
                          \/ \E l \in Listeners : lpc[l] = "adopt" /\ held[l] = c
    BY DEF Inv, ThreadInv
  <2>2. ASSUME stage \in {"release", "done", "aborted"}
        PROVE  entries = {} /\ \A l \in Listeners : lpc[l] \in Down
    <3>1. entries = {}
      BY <2>2 DEF Inv, StageInv
    <3>2. CASE stage = "aborted"
      BY <3>1, <3>2 DEF Inv, StageInv, Down
    <3>3. CASE stage \in {"release", "done"}
      BY <3>1, <3>3, StopOrderFacts DEF Inv, StageInv
    <3>4. QED
      BY <2>2, <3>2, <3>3
  <2>3. QED
    BY <2>1, <2>2 DEF NoOrphanThread, Down
<1>2. QED
  BY <1>1, Invariance, PTL

-----------------------------------------------------------------------------
(* Counting: each step changes the entries and the set of accept threads   *)
(* in the window by at most one element.                                   *)

(* Every critical section that changes the registry publishes its size,    *)
(* ReapJoin aside.                                                         *)
LEMMA CountStep == Inv /\ CountInv /\ [Next]_vars => CountInv'
<1> SUFFICES ASSUME Inv, CountInv, [Next]_vars PROVE CountInv'
  OBVIOUS
<1>1. IsFiniteSet(entries) /\ IsFiniteSet(entries')
  BY TypeStep DEF Inv, TypeOK
<1>2. Cardinality(entries) \in Nat /\ Cardinality(entries') \in Nat
  BY <1>1, FS_CardinalityType
<1>3. ASSUME UNCHANGED <<entries, lock, count>> PROVE CountInv'
  BY <1>3 DEF CountInv
<1>4. ASSUME NEW l \in Listeners, Adopt(l) PROVE CountInv'
  BY <1>2, <1>4 DEF Adopt, CountInv
<1>5. ASSUME NEW l \in Listeners, ReapBegin(l) PROVE CountInv'
  BY <1>5, ListenersAssumption DEF ReapBegin, CountInv
<1>6. ASSUME NEW l \in Listeners, NEW c \in Conns, ReapJoin(l, c) PROVE CountInv'
  <2>1. Cardinality(entries') <= Cardinality(entries)
    BY <1>1, <1>6, FS_Subset DEF ReapJoin
  <2>2. lock' # Nobody
    BY <1>6, ListenersAssumption DEF ReapJoin, Inv, LockInv
  <2>3. QED
    BY <1>2, <1>6, <2>1, <2>2 DEF ReapJoin, CountInv, Inv, TypeOK
<1>7. ASSUME NEW l \in Listeners, ReapEnd(l) PROVE CountInv'
  BY <1>2, <1>7 DEF ReapEnd, CountInv
<1>8. CASE StopAllBegin
  BY <1>8, ListenersAssumption DEF StopAllBegin, CountInv
<1>9. CASE StopAllEnd
  BY <1>9, FS_EmptySet DEF StopAllEnd, CountInv
<1>10. QED
  BY <1>3, <1>4, <1>5, <1>6, <1>7, <1>8, <1>9
  DEF Next, AcceptThread, SessionThread, Peer, MainThread, Shutdown, vars,
      sessionVars, acceptVars, registryVars, mainVars, Accept, ReapSkip,
      NothingToAccept, ListenerStops, PollFails, CloseListener, Refuse, Admit,
      Spawn, SessionDrops, SessionStops, ThreadReturns, Connect, Abandon, Boot,
      BootFails, Signal, StopListener, JoinListener, NetworkStopped,
      WorkersStopped, StopAllJoin, ReleaseHardware, Terminated

(* The client count shown on the overlay is the registry's.                *)
THEOREM CountCorrect == Spec => []CountMatchesEntries
<1>1. Init => CountInv
  BY FS_EmptySet DEF Init, CountInv
<1>2. CountInv => CountMatchesEntries
  BY DEF CountInv, CountMatchesEntries
<1>3. QED
  BY <1>1, <1>2, CountStep, Invariance, PTL DEF Spec

(* The window holds at most all listeners.                                 *)
LEMMA AdmittingFinite ==
    /\ IsFiniteSet(Admitting) /\ Cardinality(Admitting) \in Nat
    /\ Cardinality(Admitting) <= Cardinality(Listeners)
    /\ Cardinality(Listeners) \in Nat \ {0}
<1>1. Admitting \in SUBSET Listeners
  BY DEF Admitting
<1>2. IsFiniteSet(Admitting) /\ Cardinality(Admitting) <= Cardinality(Listeners)
  BY <1>1, ListenersAssumption, FS_Subset
<1>3. QED
  BY <1>2, ListenersAssumption, FS_CardinalityType, FS_EmptySet

(* Admit takes a share of the bound, Adopt turns it into an entry.         *)
LEMMA BoundStep == Inv /\ BoundInv /\ [Next]_vars => BoundInv'
<1> SUFFICES ASSUME Inv, BoundInv, [Next]_vars PROVE BoundInv'
  OBVIOUS
<1> DEFINE E == Cardinality(entries)  A == Cardinality(Admitting)
<1>1. IsFiniteSet(entries) /\ E \in Nat
  BY FS_CardinalityType DEF Inv, TypeOK
<1>2. /\ IsFiniteSet(Admitting) /\ A \in Nat /\ A <= Cardinality(Listeners)
      /\ Cardinality(Listeners) \in Nat
      /\ IsFiniteSet(Admitting') /\ A' \in Nat /\ A' <= Cardinality(Listeners)
  <2>1. Admitting' \in SUBSET Listeners
    BY DEF Admitting
  <2>2. IsFiniteSet(Admitting') /\ A' <= Cardinality(Listeners)
    BY <2>1, ListenersAssumption, FS_Subset
  <2>3. QED
    BY <2>2, AdmittingFinite, FS_CardinalityType
<1>3. lpc \in [Listeners -> ListenerState] /\ entries \in SUBSET Conns
  BY DEF Inv, TypeOK
<1>4. ASSUME UNCHANGED <<entries, lpc>> PROVE BoundInv'
  BY <1>4 DEF BoundInv, Admitting
<1>5. ASSUME Admitting' = Admitting, entries' \subseteq entries PROVE BoundInv'
  <2>1. Cardinality(entries') <= E /\ Cardinality(entries') \in Nat
    BY <1>1, <1>5, FS_Subset, FS_CardinalityType
  <2>2. QED
    BY <1>1, <1>2, <1>5, <2>1, MaxClientsAssumption DEF BoundInv
<1>6. ASSUME NEW l \in Listeners, NEW c \in Conns,
             Accept(l, c) \/ ReapSkip(l, c) \/ ReapJoin(l, c)
      PROVE  BoundInv'
  BY <1>3, <1>5, <1>6
  DEF Accept, ReapSkip, ReapJoin, Admitting, registryVars, acceptVars
<1>7. ASSUME NEW l \in Listeners,
             \/ NothingToAccept(l) \/ ListenerStops(l) \/ PollFails(l)
             \/ Refuse(l) \/ Spawn(l) \/ ReapBegin(l) \/ ReapEnd(l)
      PROVE  BoundInv'
  BY <1>3, <1>5, <1>7 DEF NothingToAccept, ListenerStops, PollFails,
     CloseListener, Refuse, Spawn, ReapBegin, ReapEnd, Admitting, registryVars
<1>8. ASSUME NEW l \in Listeners, Admit(l) PROVE BoundInv'
  <2>1. E < MaxClients /\ entries' = entries
    BY <1>1, <1>8, MaxClientsAssumption DEF Admit, CapReached, registryVars
  <2>2. QED
    BY <1>1, <1>2, <2>1, MaxClientsAssumption DEF BoundInv
<1>9. ASSUME NEW l \in Listeners, Adopt(l) PROVE BoundInv'
  <2>1. Admitting' = Admitting \ {l} /\ l \in Admitting
    BY <1>3, <1>9 DEF Adopt, Admitting
  <2>2. A' = A - 1
    BY <1>2, <2>1, FS_RemoveElement
  <2>3. E' <= E + 1 /\ E' \in Nat
    <3>1. entries' = entries \cup {held[l]}
      BY <1>9 DEF Adopt
    <3>2. Cardinality(entries \cup {held[l]}) \in {E, E + 1}
      BY <1>1, FS_AddElement
    <3>3. QED
      BY <1>1, <3>1, <3>2
  <2>4. QED
    BY <1>1, <1>2, <2>2, <2>3, MaxClientsAssumption DEF BoundInv
<1>10. ASSUME NEW bound \in SUBSET Listeners, Boot(bound) PROVE BoundInv'
  <2>1. Admitting = {} /\ Admitting' = {} /\ entries' = entries
    BY <1>3, <1>10 DEF Boot, Admitting, registryVars, Inv, StageInv
  <2>2. QED
    BY <1>5, <2>1
<1>11. CASE StopAllEnd
  BY <1>5, <1>11 DEF StopAllEnd, acceptVars, Admitting
<1>12. QED
  BY <1>4, <1>6, <1>7, <1>8, <1>9, <1>10, <1>11
  DEF Next, AcceptThread, SessionThread, Peer, MainThread, Shutdown, vars,
      acceptVars, registryVars, SessionDrops, SessionStops, ThreadReturns,
      Connect, Abandon, BootFails, Signal, StopListener, JoinListener,
      NetworkStopped, WorkersStopped, StopAllBegin, StopAllJoin,
      ReleaseHardware, Terminated

(* The counting invariant holds in every reachable state.                  *)
LEMMA BoundInvariance == Spec => []BoundInv
<1>1. Init => BoundInv
  <2> SUFFICES ASSUME Init PROVE BoundInv
    OBVIOUS
  <2>1. Admitting = {} /\ entries = {}
    BY DEF Init, Admitting
  <2>2. QED
    BY <2>1, FS_EmptySet, AdmittingFinite, MaxClientsAssumption DEF BoundInv
<1>2. QED
  BY <1>1, BoundStep, Invariance, PTL DEF Spec

(* The registry never holds more than MaxClients sessions plus one for     *)
(* each further listener.                                                  *)
THEOREM SessionsBounded == Spec => []SessionBound
<1>1. Inv /\ BoundInv => SessionBound
  <2> SUFFICES ASSUME Inv, BoundInv PROVE SessionBound
    OBVIOUS
  <2>1. Cardinality(entries) \in Nat
    BY FS_CardinalityType DEF Inv, TypeOK
  <2>2. QED
    BY <2>1, AdmittingFinite, MaxClientsAssumption DEF BoundInv, SessionBound
<1>2. QED
  BY <1>1, Invariance, BoundInvariance, PTL

-----------------------------------------------------------------------------
(* Only a session whose thread has returned leaves the registry.           *)
THEOREM LeaveAfterJoin == Spec => OnlyFinishedLeave
<1>1. Inv /\ [Next]_vars => \A c \in entries \ entries' : conn[c] = "gone"
  <2> SUFFICES ASSUME Inv, [Next]_vars, NEW c \in entries \ entries'
               PROVE  conn[c] = "gone"
    OBVIOUS
  <2>1. ASSUME NEW l \in Listeners, NEW d \in Conns, ReapJoin(l, d)
        PROVE  conn[c] = "gone"
    BY <2>1 DEF ReapJoin
  <2>2. CASE StopAllEnd
    BY <2>2 DEF StopAllEnd, Inv, LockInv
  <2>3. QED
    BY <2>1, <2>2
    DEF Next, AcceptThread, SessionThread, Peer, MainThread, Shutdown, vars,
        registryVars, Accept, ReapSkip, NothingToAccept, ListenerStops,
        PollFails, CloseListener, Refuse, Admit, Spawn, Adopt, ReapBegin,
        ReapEnd, SessionDrops, SessionStops, ThreadReturns, Connect, Abandon,
        Boot, BootFails, Signal, StopListener, JoinListener, NetworkStopped,
        WorkersStopped, StopAllBegin, StopAllJoin, ReleaseHardware, Terminated
<1>2. Inv /\ [Next]_vars
        => [\A c \in entries \ entries' : conn[c] = "gone"]_vars
  BY <1>1
<1>3. QED
  BY <1>2, Invariance, PTL DEF Spec, OnlyFinishedLeave

(* No step after the last listener is joined starts or registers a         *)
(* session.                                                                *)
THEOREM NoSessionAfterNet == Spec => NoLateSession
<1>1. ASSUME Inv, stage \notin {"boot", "run", "net"}
      PROVE  \A l \in Listeners : lpc[l] \in Down
  <2>1. CASE stage = "aborted"
    BY <2>1, <1>1 DEF Inv, StageInv, Down
  <2>2. CASE stage # "aborted"
    <3>1. nxt = Len(StopOrder) + 1
      BY <1>1, <2>2 DEF Inv, StageInv, TypeOK, Stage
    <3>2. QED
      BY <1>1, <3>1, StopOrderFacts DEF Inv, StageInv
  <2>3. QED
    BY <2>1, <2>2
<1> DEFINE Quiet == /\ entries' \subseteq entries
                    /\ \A c \in Conns : HasThread(c)' => HasThread(c)
<1>2. ASSUME Inv, [Next]_vars, stage \notin {"boot", "run", "net"}
      PROVE  Quiet
  <2>1. ~ \E l \in Listeners : AcceptThread(l)
    BY <1>1, <1>2 DEF Down, AcceptThread, Accept, ReapSkip, ReapJoin,
       NothingToAccept, ListenerStops, PollFails, CloseListener, Refuse, Admit,
       Spawn, Adopt, ReapBegin, ReapEnd
  <2>2. conn \in [Conns -> ConnState]
    BY <1>2 DEF Inv, TypeOK
  <2>3. ASSUME NEW c \in Conns, SessionThread(c) \/ Abandon(c) PROVE Quiet
    BY <2>2, <2>3 DEF SessionThread, SessionDrops, SessionStops, ThreadReturns,
       Abandon, HasThread, registryVars
  <2>4. ASSUME NEW c \in Conns, NEW l \in Listeners, Connect(c, l) PROVE Quiet
    BY <2>2, <2>4 DEF Connect, HasThread, registryVars
  <2>5. CASE StopAllEnd
    BY <2>2, <2>5 DEF StopAllEnd, HasThread
  <2>6. QED
    BY <1>2, <2>1, <2>3, <2>4, <2>5
    DEF Next, Peer, MainThread, Shutdown, vars, sessionVars, registryVars,
        HasThread, Boot, BootFails, Signal, StopListener, JoinListener,
        NetworkStopped, WorkersStopped, StopAllBegin, StopAllJoin,
        ReleaseHardware, Terminated
<1>3. Inv /\ [Next]_vars
        => [stage \notin {"boot", "run", "net"} => Quiet]_vars
  BY <1>2
<1>4. QED
  BY <1>3, Invariance, PTL DEF Spec, NoLateSession

-----------------------------------------------------------------------------
(* The registry refines the bounded pool.                                  *)
THEOREM PoolRefinement == Spec => ImplementsPool
<1> DEFINE Closed == stage \in {"workers", "clients", "joining", "release", "done"}
<1>1. Init => Pool!PoolInit
  BY DEF Init, Pool!PoolInit
<1>2. ASSUME Inv, BoundInv, [Next]_vars
      PROVE  [Pool!PoolNext]_(Pool!poolVars)
  <2> USE DEF Pool!PoolNext, Pool!poolVars
  <2>1. ASSUME NEW l \in Listeners, Adopt(l) PROVE Pool!PoolNext
    <3>1. held[l] \in Conns \ entries
      BY <1>2, <2>1 DEF Adopt, Inv, HeldInv, Owning
    <3>2. Cardinality(entries) < MaxClients + Cardinality(Listeners) - 1
      <4>1. l \in Admitting
        BY <2>1 DEF Adopt, Admitting
      <4>2. Cardinality(Admitting) >= 1
        BY <4>1, AdmittingFinite, FS_EmptySet
      <4>3. Cardinality(entries) \in Nat
        BY <1>2, FS_CardinalityType DEF Inv, TypeOK
      <4>4. QED
        BY <1>2, <4>2, <4>3, AdmittingFinite, MaxClientsAssumption DEF BoundInv
    <3>3. ~Closed
      <4>1. SUFFICES ASSUME Closed PROVE FALSE
        OBVIOUS
      <4>2. lpc[l] \in Down
        BY <1>2, <4>1, StopOrderFacts DEF Inv, StageInv
      <4>3. QED
        BY <2>1, <4>2 DEF Adopt, Down
    <3>4. Pool!Enter(held[l])
      <4>1. entries' = entries \cup {held[l]} /\ stage' = stage
        BY <2>1 DEF Adopt, mainVars
      <4>2. QED
        BY <3>1, <3>2, <3>3, <4>1
        DEF Pool!Enter, Cardinality, Pool!Cardinality
    <3>5. QED
      BY <3>1, <3>4
  <2>2. CASE NetworkStopped
    BY <2>2 DEF NetworkStopped, Pool!Close, registryVars
  <2>3. ASSUME entries' \subseteq entries, Closed' = Closed PROVE Pool!PoolNext
    BY <2>3 DEF Pool!Leave
  <2>4. ASSUME NEW l \in Listeners, AcceptThread(l), ~Adopt(l) PROVE Pool!PoolNext
    BY <2>3, <2>4 DEF AcceptThread, Accept, ReapSkip, ReapJoin, NothingToAccept,
       ListenerStops, PollFails, CloseListener, Refuse, Admit, Spawn,
       ReapBegin, ReapEnd, registryVars, mainVars
  <2>5. ASSUME NEW c \in Conns, SessionThread(c) \/ Peer(c) PROVE Pool!PoolNext
    BY <2>3, <2>5 DEF SessionThread, SessionDrops, SessionStops, ThreadReturns,
       Peer, Abandon, Connect, registryVars, mainVars
  <2>6. ASSUME MainThread, ~NetworkStopped PROVE Pool!PoolNext
    BY <2>3, <2>6 DEF MainThread, Shutdown, vars, registryVars, mainVars, Boot,
       BootFails, Signal, StopListener, JoinListener, WorkersStopped,
       StopAllBegin, StopAllJoin, StopAllEnd, ReleaseHardware, Terminated
  <2>7. CASE UNCHANGED vars
    BY <2>7 DEF vars, registryVars, mainVars
  <2>8. QED
    BY <1>2, <2>1, <2>2, <2>4, <2>5, <2>6, <2>7 DEF Next
<1>3. QED
  BY <1>1, <1>2, Invariance, BoundInvariance, PTL
  DEF Spec, ImplementsPool, Pool!PoolSpec

-----------------------------------------------------------------------------
(* Shutdown waits for threads, and they for each other: main for the       *)
(* accept thread it joins, that one for the registry's mutex, its owner    *)
(* for a session that is over, main at last for all sessions.              *)

(* An accept thread that waits for no other thread: it has the mutex, or   *)
(* needs none that is taken, and the session it looks at is running or has *)
(* returned.                                                               *)
ListenerMoves(l) ==
    \/ lpc[l] \in {"poll", "spawn"}
    \/ lpc[l] \in {"check", "adopt", "reap"} /\ lock = Nobody
    \/ lpc[l] = "reaping" /\ \A c \in todo : conn[c] # "ended"

(* A session thread that is about to end.                                  *)
SessionEnds(c) == conn[c] = "ended" \/ (conn[c] = "live" /\ stopReq[c])

MainMoves ==
    \/ stage \in {"workers", "release"}
    \/ stage = "net" /\ nxt > Len(StopOrder)
    \/ /\ stage = "net" /\ nxt <= Len(StopOrder)
       /\ running[StopOrder[nxt]] \/ lpc[StopOrder[nxt]] \in Down
    \/ stage = "clients" /\ lock = Nobody
    \/ stage = "joining" /\ (todo = {} \/ \E c \in todo : conn[c] = "gone")

Stopping == {"net", "workers", "clients", "joining", "release"}

(* While it shuts down, main moves, or what it waits for does: the accept  *)
(* thread it joins, the one that has the mutex, a session that this one    *)
(* joins, or a session that main joins.                                    *)
SomebodyMoves ==
    stage \in Stopping =>
        \/ MainMoves
        \/ /\ stage = "net"
           /\ \/ ListenerMoves(StopOrder[nxt])
              \/ \E l \in Listeners :
                    /\ lock = l /\ lpc[l] = "reaping"
                    /\ ListenerMoves(l) \/ \E c \in todo : SessionEnds(c)
        \/ stage = "joining" /\ \E c \in todo : SessionEnds(c)

(* Every session that main waits for was asked to stop.                    *)
AskedInv == stage = "joining" => \A c \in entries : stopReq[c]

(* A session that main asked to stop stays asked: its slot is not free     *)
(* before main has joined it.                                              *)
LEMMA AskedStep == Inv /\ AskedInv /\ [Next]_vars => AskedInv'
<1> SUFFICES ASSUME Inv, AskedInv, [Next]_vars, stage' = "joining",
                    NEW c \in entries'
             PROVE  stopReq'[c]
  BY DEF AskedInv
<1> USE DEF vars, sessionVars, acceptVars, registryVars, mainVars
<1>1. CASE stage = "joining" /\ c \in entries
  <2>1. stopReq[c] /\ conn[c] # "free" /\ stopReq \in [Conns -> BOOLEAN]
    BY <1>1 DEF AskedInv, Inv, ThreadInv, HasThread, TypeOK
  <2>2. stopReq' # stopReq =>
           \/ StopAllBegin
           \/ \E d \in Conns, l \in Listeners : Connect(d, l)
    BY DEF Next, AcceptThread, SessionThread, Peer, MainThread, Shutdown,
           Accept, ReapSkip, ReapJoin, NothingToAccept, ListenerStops,
           PollFails, CloseListener, Refuse, Admit, Spawn, Adopt, ReapBegin,
           ReapEnd, SessionDrops, SessionStops, ThreadReturns, Abandon, Boot,
           BootFails, Signal, StopListener, JoinListener, NetworkStopped,
           WorkersStopped, StopAllJoin, StopAllEnd, ReleaseHardware,
           Terminated
  <2>3. ~StopAllBegin
    BY <1>1 DEF StopAllBegin
  <2>4. ASSUME NEW d \in Conns, NEW l \in Listeners, Connect(d, l)
        PROVE  stopReq'[c]
    BY <2>1, <2>4 DEF Connect
  <2> QED BY <2>1, <2>2, <2>3, <2>4
<1>2. CASE stage # "joining"
  <2>1. StopAllBegin
    BY <1>2 DEF Next, AcceptThread, SessionThread, Peer, MainThread, Shutdown,
           Accept, ReapSkip, ReapJoin, NothingToAccept, ListenerStops,
           PollFails, CloseListener, Refuse, Admit, Spawn, Adopt, ReapBegin,
           ReapEnd, SessionDrops, SessionStops, ThreadReturns, Abandon,
           Connect, Boot,
           BootFails, Signal, StopListener, JoinListener, NetworkStopped,
           WorkersStopped, StopAllJoin, StopAllEnd, ReleaseHardware,
           Terminated
  <2>2. c \in entries /\ c \in Conns
    BY <2>1 DEF StopAllBegin, Inv, TypeOK
  <2> QED BY <2>1, <2>2 DEF StopAllBegin
<1>3. CASE stage = "joining" /\ c \notin entries
  <2>1. PICK l \in Listeners : Adopt(l)
    BY <1>3 DEF Next, AcceptThread, SessionThread, Peer, MainThread, Shutdown,
           Accept, ReapSkip, ReapJoin, NothingToAccept, ListenerStops,
           PollFails, CloseListener, Refuse, Admit, Spawn, ReapBegin,
           ReapEnd, SessionDrops, SessionStops, ThreadReturns, Abandon,
           Connect, Boot,
           BootFails, Signal, StopListener, JoinListener, NetworkStopped,
           WorkersStopped, StopAllBegin, StopAllJoin, StopAllEnd,
           ReleaseHardware, Terminated
  <2>2. lock = Main /\ lock = Nobody
    BY <1>3, <2>1 DEF Adopt, Inv, LockInv
  <2> QED BY <2>2, ListenersAssumption
<1> QED BY <1>1, <1>2, <1>3

(* The registry's mutex belongs to nobody once the listeners are joined    *)
(* and main does not have it.                                              *)
LEMMA MutexIsFree ==
    ASSUME Inv, stage = "clients"
    PROVE  lock = Nobody
<1>1. \A l \in Listeners : lpc[l] \in Down
  BY StopOrderFacts DEF Inv, StageInv
<1>2. \A l \in Listeners : lock # l
  BY <1>1 DEF Inv, LockInv, Down
<1>3. lock # Main
  BY DEF Inv, LockInv
<1> QED BY <1>2, <1>3 DEF Inv, TypeOK

(* An accept thread that is not down moves, or an accept thread has the    *)
(* mutex, and moves or waits for a session that is ending.                 *)
LEMMA ListenerOrOwnerMoves ==
    ASSUME Inv, stage = "net", NEW l \in Listeners, lpc[l] \notin Down
    PROVE  \/ ListenerMoves(l)
           \/ \E k \in Listeners :
                 /\ lock = k /\ lpc[k] = "reaping"
                 /\ ListenerMoves(k) \/ \E c \in todo : SessionEnds(c)
<1>1. lock = Nobody \/ lock \in Listeners
  BY DEF Inv, TypeOK, LockInv
<1>2. lpc[l] \in ListenerState
  BY DEF Inv, TypeOK
<1>3. CASE lock = Nobody
  <2>1. lpc[l] # "reaping"
    BY <1>3, ListenersAssumption DEF Inv, LockInv
  <2> QED BY <1>2, <1>3, <2>1 DEF ListenerMoves, ListenerState, Down
<1>4. CASE lock \in Listeners
  <2>1. lpc[lock] = "reaping"
    BY <1>4 DEF Inv, LockInv
  <2>2. ListenerMoves(lock) \/ \E c \in todo : SessionEnds(c)
    BY <2>1 DEF ListenerMoves, SessionEnds
  <2> QED BY <1>4, <2>1, <2>2
<1> QED BY <1>1, <1>3, <1>4

(* No circle of waiting, whatever the number of listeners and sessions:    *)
(* TcpServer's acceptOne() and reapFinished(), which joins while it holds  *)
(* the mutex, stopAll() and main's joins (ClientRegistry.h:34, :46,        *)
(* main.cpp:196) always leave a thread that can go on.                     *)
THEOREM ShutdownIsNeverStuck == Spec => []SomebodyMoves
<1>1. Init => AskedInv
  BY DEF Init, AskedInv
<1>2. Spec => []AskedInv
  BY <1>1, AskedStep, Invariance, PTL DEF Spec
<1>3. Inv /\ AskedInv => SomebodyMoves
  <2> SUFFICES ASSUME Inv, AskedInv, stage \in Stopping, ~MainMoves
               PROVE  \/ /\ stage = "net"
                         /\ \/ ListenerMoves(StopOrder[nxt])
                            \/ \E l \in Listeners :
                                  /\ lock = l /\ lpc[l] = "reaping"
                                  /\ \/ ListenerMoves(l)
                                     \/ \E c \in todo : SessionEnds(c)
                      \/ stage = "joining" /\ \E c \in todo : SessionEnds(c)
    BY DEF SomebodyMoves
  <2>1. CASE stage = "net"
    <3>1. nxt \in 1..Len(StopOrder) /\ lpc[StopOrder[nxt]] \notin Down
      BY <2>1, StopOrderFacts DEF MainMoves, Inv, TypeOK
    <3>2. StopOrder[nxt] \in Listeners
      BY <3>1, StopOrderFacts
    <3> QED BY <2>1, <3>1, <3>2, ListenerOrOwnerMoves
  <2>2. CASE stage = "joining"
    <3>1. PICK c \in todo : conn[c] # "gone"
      BY <2>2 DEF MainMoves
    <3>2. c \in entries
      BY DEF Inv, TypeOK
    <3>3. HasThread(c) /\ stopReq[c]
      BY <2>2, <3>2 DEF Inv, ThreadInv, AskedInv
    <3> QED BY <2>2, <3>1, <3>3 DEF HasThread, SessionEnds
  <2>3. CASE stage = "clients"
    BY <2>3, MutexIsFree DEF MainMoves
  <2> QED BY <2>1, <2>2, <2>3 DEF MainMoves, Stopping
<1> QED BY <1>2, <1>3, Invariance, PTL

-----------------------------------------------------------------------------
(* How long the waiting lasts.  A shutdown takes main a bounded number of  *)
(* steps, an accept thread that was told to stop a bounded number of steps *)
(* to be down, a session that is over two at most; and nobody gives any of *)
(* them more to do.                                                        *)

StageLeft ==
    CASE stage = "net" -> 5 [] stage = "workers" -> 4 [] stage = "clients" -> 3
      [] stage = "joining" -> 2 [] stage = "release" -> 1 [] OTHER -> 0

(* What is left of a turn of an accept thread's loop.                      *)
PlaceLeft(l) ==
    CASE lpc[l] = "check" -> 6 [] lpc[l] = "spawn" -> 5 [] lpc[l] = "adopt" -> 4
      [] lpc[l] = "reap" -> 3 [] lpc[l] = "reaping" -> 2 [] lpc[l] = "poll" -> 1
      [] OTHER -> 0

SessionLeft(c) ==
    CASE conn[c] = "live" -> 2 [] conn[c] = "ended" -> 1 [] OTHER -> 0

FewerToVisit == todo' \subseteq todo /\ todo' # todo

(* main comes to a later stage, to the next listener, stops the one it has *)
(* come to, or has joined one session more.                                *)
MainGoesOn ==
    \/ StageLeft' < StageLeft
    \/ /\ UNCHANGED stage
       /\ \/ stage = "net" /\ nxt' > nxt
          \/ /\ stage = "net" /\ UNCHANGED nxt
             /\ running[StopOrder[nxt]] /\ ~running'[StopOrder[nxt]]
          \/ stage = "joining" /\ FewerToVisit

MainWaits == UNCHANGED <<stage, nxt>> /\ (stage = "joining" => UNCHANGED todo)

ListenerGoesOn(l) ==
    \/ PlaceLeft(l)' < PlaceLeft(l)
    \/ lpc[l] = "reaping" /\ UNCHANGED lpc[l] /\ FewerToVisit

ListenerWaits(l) == UNCHANGED lpc[l] /\ (lpc[l] = "reaping" => UNCHANGED todo)

(* In a shutdown every step of a thread that main waits for leaves that    *)
(* thread less to do, and no other step leaves it more: an accept thread   *)
(* that was told to stop is not told to run again, does not come back to   *)
(* its poll() twice, and alone decides how far its walk is.                *)
ShutdownShrinks ==
    stage \in Stopping =>
        /\ IF Shutdown THEN MainGoesOn ELSE MainWaits
        /\ \A l \in Listeners : ~running[l] =>
              /\ ~running'[l]
              /\ IF AcceptThread(l) THEN ListenerGoesOn(l)
                                    ELSE ListenerWaits(l)
        /\ \A c \in Conns : HasThread(c) =>
              IF SessionThread(c) THEN SessionLeft(c)' < SessionLeft(c)
                                  ELSE SessionLeft(c)' <= SessionLeft(c)

(* What main does before it stops or when it has returned is no part of a  *)
(* shutdown.                                                               *)
LEMMA OnlyShutdown ==
    ASSUME [Next]_vars, stage \in Stopping
    PROVE  \/ Shutdown
           \/ \E l \in Listeners : AcceptThread(l)
           \/ \E c \in Conns : SessionThread(c) \/ Peer(c)
           \/ UNCHANGED vars
  BY DEF Next, MainThread, Stopping, Boot, BootFails, Signal, Terminated

(* A step of an accept thread leaves main, the other accept threads and    *)
(* what they were told alone.                                              *)
LEMMA AcceptLeaves ==
    ASSUME Inv, NEW l \in Listeners, AcceptThread(l)
    PROVE  /\ UNCHANGED <<stage, nxt, running>>
           /\ \A k \in Listeners \ {l} : UNCHANGED lpc[k]
           /\ UNCHANGED todo \/ (lpc[l] = "reap" /\ lock = Nobody)
                             \/ lpc[l] = "reaping"
<1> USE DEF sessionVars, acceptVars, registryVars, mainVars
<1>1. lpc \in [Listeners -> ListenerState]
  BY DEF Inv, TypeOK
<1>2. CASE \E c \in Conns : Accept(l, c) \/ ReapSkip(l, c) \/ ReapJoin(l, c)
  BY <1>1, <1>2 DEF Accept, ReapSkip, ReapJoin
<1>3. CASE NothingToAccept(l) \/ ListenerStops(l) \/ PollFails(l)
  BY <1>1, <1>3 DEF NothingToAccept, ListenerStops, PollFails, CloseListener
<1>4. CASE Refuse(l) \/ Admit(l) \/ Spawn(l) \/ Adopt(l)
  BY <1>1, <1>4 DEF Refuse, Admit, Spawn, Adopt
<1>5. CASE ReapBegin(l) \/ ReapEnd(l)
  BY <1>1, <1>5 DEF ReapBegin, ReapEnd
<1> QED BY <1>2, <1>3, <1>4, <1>5 DEF AcceptThread

(* A session or a peer leaves main, the accept threads and the registry    *)
(* alone.                                                                  *)
LEMMA OutsideLeaves ==
    ASSUME NEW c \in Conns, SessionThread(c) \/ Peer(c)
    PROVE  UNCHANGED <<acceptVars, registryVars, mainVars>>
  BY DEF SessionThread, SessionDrops, SessionStops, ThreadReturns, Peer,
     Abandon, Connect

(* A step of main leaves the accept threads alone, except for stopping     *)
(* one, and visits the registry only when it has the mutex or nobody does. *)
LEMMA ShutdownLeaves ==
    ASSUME Inv, Shutdown
    PROVE  /\ UNCHANGED <<lpc, held>>
           /\ \A l \in Listeners : ~running[l] => ~running'[l]
           /\ UNCHANGED todo \/ lock \in {Main, Nobody}
<1> USE DEF sessionVars, acceptVars, registryVars, mainVars
<1>1. running \in [Listeners -> BOOLEAN]
  BY DEF Inv, TypeOK
<1>2. CASE StopListener
  BY <1>1, <1>2 DEF StopListener
<1>3. CASE JoinListener \/ NetworkStopped \/ WorkersStopped \/ ReleaseHardware
  BY <1>3 DEF JoinListener, NetworkStopped, WorkersStopped, ReleaseHardware
<1>4. CASE StopAllBegin \/ StopAllEnd
  BY <1>4 DEF StopAllBegin, StopAllEnd
<1>5. CASE \E c \in Conns : StopAllJoin(c)
  BY <1>5 DEF StopAllJoin, Inv, LockInv
<1> QED BY <1>2, <1>3, <1>4, <1>5 DEF Shutdown

(* main gets nearer to its return with each of its steps.                  *)
LEMMA MainShrinks ==
    ASSUME Inv, [Next]_vars, stage \in Stopping
    PROVE  IF Shutdown THEN MainGoesOn ELSE MainWaits
<1> USE DEF sessionVars, acceptVars, registryVars, mainVars
<1>1. ASSUME Shutdown PROVE MainGoesOn
  <2>1. CASE StopListener
    <3>1. nxt \in 1..Len(StopOrder)
      BY <2>1, StopOrderFacts DEF StopListener, Inv, TypeOK
    <3>2. running'[StopOrder[nxt]] = FALSE
      BY <2>1, <3>1, StopOrderFacts DEF StopListener, Inv, TypeOK
    <3> QED BY <2>1, <3>2 DEF StopListener, MainGoesOn
  <2>2. CASE JoinListener
    <3>1. nxt \in Nat
      BY StopOrderFacts DEF Inv, TypeOK
    <3>2. nxt' > nxt
      BY <2>2, <3>1 DEF JoinListener
    <3> QED BY <2>2, <3>2 DEF JoinListener, MainGoesOn
  <2>3. CASE NetworkStopped \/ WorkersStopped \/ StopAllBegin
    <3>1. StageLeft' < StageLeft
      BY <2>3 DEF NetworkStopped, WorkersStopped, StopAllBegin, StageLeft
    <3> QED BY <3>1 DEF MainGoesOn
  <2>4. CASE StopAllEnd \/ ReleaseHardware
    <3>1. StageLeft' < StageLeft
      BY <2>4 DEF StopAllEnd, ReleaseHardware, StageLeft
    <3> QED BY <3>1 DEF MainGoesOn
  <2>5. CASE \E c \in Conns : StopAllJoin(c)
    <3>1. PICK c \in Conns : StopAllJoin(c)
      BY <2>5
    <3>2. c \in todo /\ todo' = todo \ {c} /\ stage = "joining"
      BY <3>1 DEF StopAllJoin
    <3>3. FewerToVisit
      BY <3>2 DEF FewerToVisit
    <3> QED BY <3>1, <3>2, <3>3 DEF StopAllJoin, MainGoesOn
  <2> QED BY <1>1, <2>1, <2>2, <2>3, <2>4, <2>5 DEF Shutdown
<1>2. ASSUME ~Shutdown PROVE MainWaits
  <2>1. CASE \E l \in Listeners : AcceptThread(l)
    <3>1. PICK l \in Listeners : AcceptThread(l)
      BY <2>1
    <3>2. stage = "joining" => lock = Main
      BY DEF Inv, LockInv
    <3>3. Main # Nobody /\ l # Main
      BY ListenersAssumption
    <3>4. lpc[l] = "reaping" => lock = l
      BY DEF Inv, LockInv
    <3> QED BY <3>1, <3>2, <3>3, <3>4, AcceptLeaves DEF MainWaits
  <2>2. CASE \E c \in Conns : SessionThread(c) \/ Peer(c)
    BY <2>2, OutsideLeaves DEF MainWaits
  <2>3. CASE UNCHANGED vars
    BY <2>3 DEF vars, MainWaits
  <2> QED BY <1>2, <2>1, <2>2, <2>3, OnlyShutdown
<1> QED BY <1>1, <1>2

(* An accept thread that was told to stop gets nearer to the end of its    *)
(* loop with each of its steps.                                            *)
LEMMA ListenerShrinks ==
    ASSUME Inv, NEW l \in Listeners, ~running[l], AcceptThread(l)
    PROVE  ListenerGoesOn(l)
<1> USE DEF sessionVars, acceptVars, registryVars, mainVars
<1>1. lpc \in [Listeners -> ListenerState]
  BY DEF Inv, TypeOK
<1>2. CASE \E c \in Conns : ReapSkip(l, c) \/ ReapJoin(l, c)
  <2>1. PICK c \in Conns : ReapSkip(l, c) \/ ReapJoin(l, c)
    BY <1>2
  <2>2. c \in todo /\ todo' = todo \ {c} /\ lpc[l] = "reaping"
    BY <2>1 DEF ReapSkip, ReapJoin
  <2>3. UNCHANGED lpc
    BY <2>1 DEF ReapSkip, ReapJoin
  <2> QED BY <2>2, <2>3 DEF FewerToVisit, ListenerGoesOn
<1>3. CASE ListenerStops(l) \/ Refuse(l) \/ Admit(l)
  <2>1. \/ lpc[l] = "poll" /\ lpc'[l] = "closed"
        \/ lpc[l] = "check" /\ lpc'[l] \in {"reap", "spawn"}
    BY <1>1, <1>3 DEF ListenerStops, CloseListener, Refuse, Admit
  <2> QED BY <2>1 DEF PlaceLeft, ListenerGoesOn
<1>4. CASE Spawn(l) \/ Adopt(l)
  <2>1. \/ lpc[l] = "spawn" /\ lpc'[l] = "adopt"
        \/ lpc[l] = "adopt" /\ lpc'[l] = "reap"
    BY <1>1, <1>4 DEF Spawn, Adopt
  <2> QED BY <2>1 DEF PlaceLeft, ListenerGoesOn
<1>5. CASE ReapBegin(l) \/ ReapEnd(l)
  <2>1. \/ lpc[l] = "reap" /\ lpc'[l] = "reaping"
        \/ lpc[l] = "reaping" /\ lpc'[l] = "poll"
    BY <1>1, <1>5 DEF ReapBegin, ReapEnd
  <2> QED BY <2>1 DEF PlaceLeft, ListenerGoesOn
<1> QED
  BY <1>2, <1>3, <1>4, <1>5
  DEF AcceptThread, Accept, NothingToAccept, PollFails

(* Nobody but the accept thread itself moves it or shortens its walk.      *)
LEMMA ListenerIsLeftAlone ==
    ASSUME Inv, [Next]_vars, stage \in Stopping,
           NEW l \in Listeners, ~running[l]
    PROVE  ~running'[l] /\ (~AcceptThread(l) => ListenerWaits(l))
<1>1. lpc[l] = "reaping" => lock = l
  BY DEF Inv, LockInv
<1>2. l # Main /\ l # Nobody
  BY ListenersAssumption
<1>3. CASE Shutdown
  BY <1>1, <1>2, <1>3, ShutdownLeaves DEF ListenerWaits
<1>4. CASE \E k \in Listeners : AcceptThread(k)
  <2>1. PICK k \in Listeners : AcceptThread(k)
    BY <1>4
  <2>2. ~running'[l]
    BY <2>1, AcceptLeaves
  <2>3. ASSUME k # l PROVE ListenerWaits(l)
    <3>1. lpc[k] = "reaping" => lock = k
      BY DEF Inv, LockInv
    <3> QED BY <1>1, <1>2, <2>1, <2>3, <3>1, AcceptLeaves DEF ListenerWaits
  <2> QED BY <2>1, <2>2, <2>3
<1>5. CASE \E c \in Conns : SessionThread(c) \/ Peer(c)
  BY <1>5, OutsideLeaves DEF ListenerWaits, acceptVars, registryVars
<1>6. CASE UNCHANGED vars
  BY <1>6 DEF ListenerWaits, vars, acceptVars, registryVars
<1> QED BY <1>3, <1>4, <1>5, <1>6, OnlyShutdown

(* A session thread that exists is moved by nobody else, until its slot is *)
(* free.                                                                   *)
LEMMA SessionIsLeftAlone ==
    ASSUME Inv, [Next]_vars, NEW c \in Conns, HasThread(c), ~SessionThread(c)
    PROVE  conn'[c] \in {conn[c], "free"}
<1> USE DEF sessionVars
<1>1. conn \in [Conns -> ConnState] /\ conn[c] \notin {"free", "queued", "held"}
  BY DEF Inv, TypeOK, HasThread
<1>2. ASSUME NEW l \in Listeners, AcceptThread(l)
      PROVE  conn'[c] \in {conn[c], "free"}
  <2>1. CASE \E d \in Conns : Accept(l, d) \/ ReapSkip(l, d) \/ ReapJoin(l, d)
    BY <1>1, <2>1 DEF Accept, ReapSkip, ReapJoin
  <2>2. CASE NothingToAccept(l) \/ ListenerStops(l) \/ PollFails(l)
    BY <1>1, <2>2 DEF NothingToAccept, ListenerStops, PollFails, CloseListener
  <2>3. CASE Spawn(l)
    <3>1. held[l] # c
      BY <1>1, <2>3 DEF Spawn, Inv, HeldInv, Owning
    <3> QED BY <1>1, <2>3, <3>1 DEF Spawn
  <2>4. CASE Refuse(l) \/ Admit(l) \/ Adopt(l)
    BY <1>1, <2>4 DEF Refuse, Admit, Adopt
  <2>5. CASE ReapBegin(l) \/ ReapEnd(l)
    BY <2>5 DEF ReapBegin, ReapEnd
  <2> QED BY <1>2, <2>1, <2>2, <2>3, <2>4, <2>5 DEF AcceptThread
<1>3. ASSUME NEW d \in Conns, SessionThread(d) \/ Peer(d)
      PROVE  conn'[c] = conn[c]
  <2>1. CASE d = c
    BY <1>1, <1>3, <2>1 DEF Peer, Abandon, Connect
  <2>2. CASE d # c
    BY <1>1, <1>3, <2>2 DEF SessionThread, SessionDrops, SessionStops,
       ThreadReturns, Peer, Abandon, Connect
  <2> QED BY <2>1, <2>2
<1>4. CASE MainThread
  BY <1>1, <1>4 DEF MainThread, Boot, BootFails, Signal, Shutdown,
     StopListener, JoinListener, NetworkStopped, WorkersStopped,
     StopAllBegin, StopAllJoin, StopAllEnd, ReleaseHardware, Terminated, vars
<1>5. CASE UNCHANGED vars
  BY <1>5 DEF vars
<1> QED BY <1>2, <1>3, <1>4, <1>5 DEF Next

(* A session thread gets nearer to its return with each of its steps.      *)
LEMMA SessionShrinks ==
    ASSUME Inv, [Next]_vars, NEW c \in Conns, HasThread(c)
    PROVE  IF SessionThread(c) THEN SessionLeft(c)' < SessionLeft(c)
                               ELSE SessionLeft(c)' <= SessionLeft(c)
<1>1. ASSUME SessionThread(c) PROVE SessionLeft(c)' < SessionLeft(c)
  <2>1. \/ conn[c] = "live" /\ conn'[c] = "ended"
        \/ conn[c] = "ended" /\ conn'[c] = "gone"
    BY <1>1 DEF SessionThread, SessionDrops, SessionStops, ThreadReturns,
       Inv, TypeOK
  <2> QED BY <2>1 DEF SessionLeft
<1>2. ASSUME ~SessionThread(c) PROVE SessionLeft(c)' <= SessionLeft(c)
  <2>1. conn[c] \in {"live", "ended", "gone"}
    BY DEF HasThread
  <2>2. conn'[c] \in {conn[c], "free"}
    BY <1>2, SessionIsLeftAlone
  <2> QED BY <2>1, <2>2 DEF SessionLeft
<1> QED BY <1>1, <1>2

(* The shutdown that a signal begins takes each thread it waits for a      *)
(* bounded number of steps, for any number of listeners and sessions: what *)
(* TcpServer's acceptOne() and reapFinished(), stopAll() and main's joins  *)
(* leave to do only becomes less (TcpServer.cpp:74, ClientRegistry.h:30,   *)
(* main.cpp:189).                                                          *)
THEOREM ShutdownIsBounded == Spec => [][ShutdownShrinks]_vars
<1>1. Inv /\ [Next]_vars => [ShutdownShrinks]_vars
  <2> SUFFICES ASSUME Inv, [Next]_vars, stage \in Stopping
               PROVE  ShutdownShrinks
    BY DEF ShutdownShrinks
  <2>1. IF Shutdown THEN MainGoesOn ELSE MainWaits
    BY MainShrinks
  <2>2. ASSUME NEW l \in Listeners, ~running[l]
        PROVE  /\ ~running'[l]
               /\ IF AcceptThread(l) THEN ListenerGoesOn(l)
                                     ELSE ListenerWaits(l)
    BY <2>2, ListenerShrinks, ListenerIsLeftAlone
  <2>3. \A c \in Conns : HasThread(c) =>
           IF SessionThread(c) THEN SessionLeft(c)' < SessionLeft(c)
                               ELSE SessionLeft(c)' <= SessionLeft(c)
    BY SessionShrinks
  <2> QED BY <2>1, <2>2, <2>3 DEF ShutdownShrinks
<1> QED BY <1>1, Invariance, PTL DEF Spec
=============================================================================
