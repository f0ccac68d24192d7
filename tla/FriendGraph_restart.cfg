SPECIFICATION Spec
CONSTANTS
  Users = {a, b}
  Handlers = {h1}
  MayBeNameless = {b}
  MaxProfile = 0
  MaxInbox = 1
INVARIANTS Symmetric FreshWhenQuiet
PROPERTIES BadFileIsFinal ImplementsFriendship
CHECK_DEADLOCK FALSE
