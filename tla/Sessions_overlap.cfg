SPECIFICATION FairSpec
CONSTANTS
  Users = {a, b}
  Browsers = {b1}
  Handlers = {h1, h2}
  NoUser = NoUser
PROPERTIES SignedOutForGood DeletedAreSignedOut DemotedLoseAdmin
