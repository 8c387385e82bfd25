\* Two listeners, three connections, room for one; no symmetry, because of
\* the liveness properties.
SPECIFICATION FairSpec
CONSTANTS
    tcp = tcp
    ws = ws
    Conns = {c1, c2, c3}
    Listeners = {tcp, ws}
    StopOrder <- TwoListeners
    MaxClients = 1
    Main = Main
    Nobody = Nobody
INVARIANTS NoOrphanThread CountMatchesEntries
PROPERTIES ImplementsPool SlotsAreReclaimed ShutdownCompletes
