SPECIFICATION FairSpec
CONSTANTS
  Caller = {c1, c2}
  Import = {imp}
  Publication = {}
  Scan = scan
  Nobody = nobody
  MaxGeneration = 2
PROPERTIES CancelledCallReturns LostTransportNoticed CloseFinishes
