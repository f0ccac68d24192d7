-------------------------- MODULE MCFriendRequests --------------------------
(* The instance of FriendRequests for TLC.                                  *)
EXTENDS FriendRequests, TLC

=============================================================================
