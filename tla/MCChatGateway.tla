--------------------------- MODULE MCChatGateway ---------------------------
(* Instances of ChatGateway for TLC.                                        *)
EXTENDS ChatGateway, TLC

Symmetry == Permutations(Users) \cup Permutations(Sockets) \cup Permutations(Handlers)

=============================================================================
