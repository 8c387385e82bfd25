\* Two buffers, three pictures, five cells of memory: a writer, the hub, the
\* display and the vision thread each hold one at the same time.
SPECIFICATION FairSpec
CONSTANTS
    NBuf = 2
    NCells = 5
    MaxFrames = 3
INVARIANTS BuffersAreOurs FramesStayAsPublished SnapshotIsOfItsEdge NothingLeft
PROPERTIES PicturesReachTheScreen
