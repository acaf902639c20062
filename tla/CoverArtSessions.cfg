SPECIFICATION Spec
CONSTANTS
  p1 = p1
  p2 = p2
  dev1 = dev1
  dev2 = dev2
  hci0 = hci0
  hci1 = hci1
  Players = {p1, p2}
  Devices = {dev1, dev2}
  Adapters = {hci0}
  AdapterOf <- MCSameAdapter
  ObexPorts = {1, 2}
  Paths = {s1, s2, s3}
  None = none
  Layouts <- MCLayouts
SYMMETRY PathSymmetry
INVARIANTS TypeOK UsersBounded OwnSessionsRecorded SoleIsServed NoSecondSession
CHECK_DEADLOCK FALSE
