SPECIFICATION Spec
CONSTANTS
  p1 = p1
  p2 = p2
  dev1 = dev1
  dev2 = dev2
  hci0 = hci0
  hci1 = hci1
  Players = {p1, p2}
  Devices = {dev1, dev2}
  Adapters = {hci0}
  AdapterOf <- MCSameAdapter
  ObexPorts = {1}
  Paths = {s1, s2}
  None = none
  Layouts <- MCRestart
SYMMETRY PathSymmetry
INVARIANTS RegisteredIsServed
CHECK_DEADLOCK FALSE
