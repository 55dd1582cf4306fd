SPECIFICATION FairSpec
CONSTANTS
    MaxPort = 2
    MaxOffset = 1
    App = {"app"}
    Directory = {"dir"}
    Pattern = {"glob"}
    Match <- MCMatch
    NoName = "none"
    RawIntents <- WaitingIntents
    Observations <- PortObservations
PROPERTIES RetiredWorkerEnds CloseCompletes ReservedPortYields WaitingPublicationStarts
