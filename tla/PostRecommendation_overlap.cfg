SPECIFICATION Spec
CONSTANTS
  Users = {u}
  Handlers = {h}
  MaxRecord = 1
  Limit = 1
  MaxFriendPosts = 1
  MaxMatches = 2
  FirstMatches = {1}
  MaxChanges = 1
  MaxFailures = 1
INVARIANTS  PagesInOrder DeletedLeavesNoList
 
