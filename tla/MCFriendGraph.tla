--------------------------- MODULE MCFriendGraph ---------------------------
(* Instances of FriendGraph for TLC.                                        *)
EXTENDS FriendGraph, TLC

Symmetry == Permutations(Users) \cup Permutations(Handlers)

=============================================================================
