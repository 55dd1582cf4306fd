SPECIFICATION Spec
CONSTANTS
    MaxPort = 3
    MaxOffset = 1
    App = {"app"}
    Directory = {"dir"}
    Pattern = {"glob"}
    Match <- MCMatch
    NoName = "none"
    RawIntents <- PortIntents
    Observations <- PortObservations
INVARIANTS
    TypeOK
    OneTaskPerKey
    NoLostForward
    StatesMatchWorkers
    HeldPortIsReported
    BackendClosedLast
PROPERTIES
    PublicationStartsClear
    NothingStartsAfterClose
    ImplementsLifecycle
