SPECIFICATION DeploymentSpec
CONSTANTS
  admin = admin
  u1 = u1
  u2 = u2
  s = s
  Admin = admin
  Seeds <- TwoSeeds
  Strangers = {s}
  Interests = {i1}
  MaxSeeds = 2
INVARIANTS EntitiesFit   SeededTogether
CHECK_DEADLOCK FALSE
