SPECIFICATION Spec
CONSTANTS
    MaxPort = 3
    MaxOffset = 1
    App = {"app"}
    Directory = {"dir"}
    Pattern = {"glob"}
    Match <- MCMatch
    NoName = "none"
    RawIntents <- RuleIntents
    Observations <- RuleObservations
INVARIANTS
    WorkersMatchIntent
    NoAutomaticLoop
PROPERTIES
    ActiveForwardUndisturbed
