------------------------------ MODULE MCPosts ------------------------------
(* Instances of Posts for TLC.                                              *)
EXTENDS Posts, TLC

Symmetry == Permutations(Handlers) \cup Permutations(Paths)

=============================================================================
