SPECIFICATION ScannerSpec
CONSTANTS
  Server <- MCServer
  Label <- MCLabel
  Self = self
  Other = other
  Web = web
  NoApp = noapp
  SSHD = sshd
  DualStack = TRUE
  MaxObservedPorts = 2
INVARIANTS TypeOK KnownBounded
PROPERTIES SteadyListenerOffered RecognisedNeverOffered
