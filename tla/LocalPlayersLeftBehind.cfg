SPECIFICATION Spec
CONSTANTS
  Paths = {p1}
  Adapters = {hci0}
  All = all
  None = none
  MaxRequests = 2
  MaxLosses = 1
  MaxErrors = 0
INVARIANTS UnknownIsFree
CHECK_DEADLOCK FALSE
