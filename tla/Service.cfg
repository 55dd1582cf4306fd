SPECIFICATION ServiceSpec
CONSTANTS
  Command = {c1, c2}
  NoOne = noone
  box = box
  Global = global
  Scope = {box, global}
  Target = {}
  NoTarget = notarget
  Task <- MCTask
  Stored <- MCStored
  MaxCrashes = 1
  MaxTroubles = 1
INVARIANTS EveryEditStored EditTakesEffect
PROPERTIES SavedEditsApplied
\* All commands are over and no service is to run.
CHECK_DEADLOCK FALSE
