SPECIFICATION FairSpec
CONSTANTS
  Users = {a, b}
  Handlers = {h1, h2}
INVARIANTS FriendshipWasRequested RequestBetweenFriendsHasCause CrossedRequestsHaveCause
PROPERTY HandlersEnd
