----------------------- MODULE MCPostRecommendation -----------------------
(* Instances of PostRecommendation for TLC.                                 *)
EXTENDS PostRecommendation, TLC

=============================================================================
