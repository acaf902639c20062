SPECIFICATION Spec
CONSTANTS
  player = player
  folder = folder
  path = path
  Objects = {player, folder}
  Players = {player}
  Paths = {path}
  PathOf <- MCPathOf
  Adapter = adapter
  Properties = {a, b}
  Data = {v1, v2}
  Trees <- MCTrees
  Absent = absent
  Error = error
  MaxOwners = 2
  MaxChanges = 2
  MaxErrors = 1
INVARIANTS TypeOK EventsMatchCache Converged
PROPERTIES Settles
CHECK_DEADLOCK FALSE
