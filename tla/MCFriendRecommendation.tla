---------------------- MODULE MCFriendRecommendation ----------------------
(* Instances of FriendRecommendation for TLC.                               *)
EXTENDS FriendRecommendation, TLC

Symmetry == Permutations(Users) \cup Permutations(Loops)

=============================================================================
