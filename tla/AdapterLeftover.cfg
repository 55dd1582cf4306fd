SPECIFICATION Spec
CONSTANTS
  Caller = {c1, c2}
  Import = {imp}
  Publication = {pub}
  Scan = scan
  Nobody = nobody
  MaxGeneration = 3
SYMMETRY AdapterSymmetry
INVARIANT ReturnLeavesNothing
