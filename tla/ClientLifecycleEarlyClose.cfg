SPECIFICATION Spec
CONSTANTS
  Clients = {c1}
  Threads = {t1, t2}
  Calls = {k1}
  CoverCalls = {}
  Closes = {d1}
  Reaper = reaper
  Connections = connections
  Removed = removed
  CoverWork = coverWork
  None = none
  MaxSignals = 0
INVARIANTS CloseReportedAfterCleanup
