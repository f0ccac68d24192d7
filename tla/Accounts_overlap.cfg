SPECIFICATION Spec
CONSTANTS
  Users = {a, b}
  Links = {l1}
  Handlers = {h1, h2}
  NoUser = NoUser
SYMMETRY Symmetry
INVARIANTS LinkUsesBounded
PROPERTIES DeletedForGood ConfirmedForGood
