SPECIFICATION Spec
CONSTANTS
  Clients = {c1, c2}
  Acquires = {a1, a2}
  Fds = {f1, f2}
  Free = free
  Foreign = foreign
  None = none
INVARIANTS TypeOK RegistryOwns NoOrphan
PROPERTIES NeverClosesForeign UnclaimedIsClosed
