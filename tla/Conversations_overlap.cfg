SPECIFICATION Spec
CONSTANTS
  Users = {a, b, c}
  NoUser = NoUser
  Handlers = {h1, h2}
  Readers = {r1}
  MaxDocs = 2
SYMMETRY Symmetry
CONSTRAINT ListsAlone
INVARIANTS AdminOutside BoundedDuplicates ListsNameEveryone
PROPERTIES PairStaysFound 
