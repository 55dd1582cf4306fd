SPECIFICATION Spec
CONSTANTS
    MaxPort = 3
    MaxOffset = 1
    App = {"app"}
    Directory = {"dir"}
    Pattern = {"glob"}
    Match <- MCMatch
    NoName = "none"
    RawIntents <- ReservingIntents
    Observations <- PortObservations
PROPERTY EquivalentIntentDisturbsNothing
