SPECIFICATION FairSpec
CONSTANTS
    Listeners = {"l1"}
    BufferSize = 2
    Uploads = {"u1"}
    Texts = {"u1"}
    Files <- FilesInput
    Strict = {"router"}
    Lenient = {"chunker"}
    MaxEvents = 2
INVARIANTS
    TypeOK
    GracefulMeansDrained
    ReportedIsStored
    RejectedStoresNoFile
    StartedMeansListening
    FirstEventsKept
PROPERTIES
    StopsEventually
    CallbackNeverBlocks
    ListenerReleased
    UploadAnswered
CHECK_DEADLOCK FALSE
