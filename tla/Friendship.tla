----------------------------- MODULE Friendship -----------------------------
(***************************************************************************)
(* What friend-job promises its clients: a set of mutual friendships that  *)
(* they read with IS_FRIEND and change with ADD_RELATIONSHIP and           *)
(* REMOVE_RELATIONSHIP, one pair at a time.  It forgets all friendships of *)
(* some users at once, and a stop takes it back to what was last saved.    *)
(***************************************************************************)
EXTENDS Naturals

CONSTANT Users

VARIABLES
  serving,   \* a process answers
  friends,   \* the pairs for which IS_FRIEND says yes
  saved      \* the pairs a boot restores

vars == <<serving, friends, saved>>

Friendships == {pair \in SUBSET Users : \E u, v \in Users : u # v /\ pair = {u, v}}

TypeOK == /\ serving \in BOOLEAN
          /\ friends \subseteq Friendships
          /\ saved \subseteq Friendships

Init == serving = FALSE /\ friends = {} /\ saved = {}

Befriend(pair) == /\ serving
                  /\ friends' = friends \cup {pair}
                  /\ UNCHANGED <<serving, saved>>

Unfriend(pair) == /\ serving
                  /\ friends' = friends \ {pair}
                  /\ UNCHANGED <<serving, saved>>

\* A deleted user, or users whose Person was built anew.
Forget(us) == /\ serving
              /\ friends' = {pair \in friends : pair \cap us = {}}
              /\ UNCHANGED <<serving, saved>>

Stop == /\ serving
        /\ serving' = FALSE
        /\ friends' = {}
        /\ saved' \in {saved, friends}

Boot == /\ ~serving
        /\ serving' = TRUE
        /\ friends' = saved
        /\ UNCHANGED saved

Next == \/ \E pair \in Friendships : Befriend(pair) \/ Unfriend(pair)
        \/ \E us \in SUBSET Users : Forget(us)
        \/ Stop
        \/ Boot

Spec == Init /\ [][Next]_vars

=============================================================================
