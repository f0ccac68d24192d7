SPECIFICATION SteadySpec
CONSTANTS
  Users = {a, b}
  Handlers = {h1, h2}
  MayBeNameless = {}
  MaxProfile = 0
  MaxInbox = 1
SYMMETRY Symmetry
INVARIANTS OneSidedOnlyWhereClobbered
PROPERTY FriendshipChangesAnnounced
