\* Any settings, callbacks and logs; three failures, each in a call, a callback or a sync.
SPECIFICATION Spec
CONSTANTS
  Callback = {c1, c2}
  Catching = {c2}
  Log = {l1, l2}
  MaxFailures = 3
  MaxCalls = 2
SYMMETRY Logs
INVARIANTS
  ScopesUnwound
  CallbacksRanOnce
  LogsSynced
  UndisturbedIfThrown
CHECK_DEADLOCK FALSE
