-------------------------- MODULE MCFriendQueries --------------------------
(* Instances of FriendQueries for TLC.                                      *)
EXTENDS FriendQueries, TLC

CONSTANTS me, a, b, c, d

\* c and d are strangers to me, with two mutual friends and with one.
Star == (me :> <<a, b>>) @@ (a :> <<me, d, c>>) @@ (b :> <<me, c>>)
          @@ (c :> <<a, b>>) @@ (d :> <<a>>)

=============================================================================
