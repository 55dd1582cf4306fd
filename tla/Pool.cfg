SPECIFICATION PoolSpec
CONSTANTS
  Name = {1, 2, 3}
  Alias = {1}
  Bare = {1, 3}
  File = {f}
  F = f
  NoFile = nofile
  Machine = {shared, box}
  Shared = shared
  Box = box
  Unknown = unknown
  Resolves <- MCResolves
  Config <- MCConfig
  Found <- MCFound
  Requested = {1}
  MaxManagers = 3
  PoolCloses = TRUE
INVARIANTS PoolTypeOK OneManagerPerHost ClosedPoolRunsNothing
PROPERTIES SettledAfterSuccess KnownHostNotSplit
\* A closed pool is done.
CHECK_DEADLOCK FALSE
