SPECIFICATION Spec
CONSTANTS
  PostIds = {p}
  Paths = {f1, f2}
  Handlers = {h1, h2}
  None = None
INVARIANTS UndisturbedAgree
PROPERTIES NoPictureDeleted DeletedStaysDeleted
SYMMETRY Symmetry
