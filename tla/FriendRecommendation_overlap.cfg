SPECIFICATION Spec
CONSTANTS
  Users = {a, b}
  Loops = {s1, s2}
  MaxModified = 1
  MaxChanges = 2
  MaxJobs = 2
SYMMETRY Symmetry
INVARIANTS OneListPerUser CurrentAtRest ModifiedBounded
CHECK_DEADLOCK FALSE
