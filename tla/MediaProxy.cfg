SPECIFICATION Spec
CONSTANTS
  Objects = {item, folder}
  Folders = {folder}
  MaxChanges = 4
  MaxFetches = 2
  MaxLists = 1
  MaxGets = 1
INVARIANTS TypeOK ProxiesMatchBluez PresentIsAnnounced ClosedIsEmpty
PROPERTIES RefreshNeverOlder
CHECK_DEADLOCK FALSE
