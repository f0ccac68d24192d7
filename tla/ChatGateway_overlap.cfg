SPECIFICATION Spec
CONSTANTS
  Users = {a, b}
  Sockets = {s1, s2}
  Handlers = {h1}
  Latest = 1
  MaxMessages = 3
  Asked = {1}
SYMMETRY Symmetry
INVARIANTS NothingMissed 
