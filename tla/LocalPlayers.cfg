SPECIFICATION Spec
CONSTANTS
  Paths = {p1, p2}
  Adapters = {hci0, hci1}
  All = all
  None = none
  MaxRequests = 3
  MaxLosses = 2
  MaxErrors = 1
INVARIANTS TypeOK KnownIsRegistered AgreeWhenStable
CHECK_DEADLOCK FALSE
