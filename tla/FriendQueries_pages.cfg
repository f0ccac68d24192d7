SPECIFICATION QueriesSpec
CONSTANTS
  me = me
  a = a
  b = b
  c = c
  d = d
  Persons = {me, a, b, c, d}
  Me = me
  Matching = {a, c}
  Take = 1
  MinMutual = 2
  TakeMutual = 2
  Alike = {{}, {a, c}, {b, c, d}}
  FirstFriends <- Star
  MaxChanges = 3
INVARIANTS EveryoneMayBeShown  StrangersOnly
