SPECIFICATION Spec
CONSTANTS
  Clients = {c1}
  Threads = {t1, t2}
  Calls = {k1, k2}
  CoverCalls = {k2}
  Closes = {d1}
  Reaper = reaper
  Connections = connections
  Removed = removed
  CoverWork = coverWork
  None = none
  MaxSignals = 1
INVARIANTS TypeOK NoUseAfterDestroy CallAccounted CoverHalfAccepted
PROPERTIES EveryPortAnswered ImplementsContract
