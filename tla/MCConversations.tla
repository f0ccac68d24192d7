-------------------------- MODULE MCConversations --------------------------
(* Instances of Conversations for TLC.                                      *)
EXTENDS Conversations, TLC

Symmetry == Permutations(Users) \cup Permutations(Handlers)

\* A list takes what it needs of the conversations in one query and touches
\* nothing the handlers use, so that lists, and accounts that come and go, are
\* looked at while no handler is at work.
ListsAlone == \/ \A h \in Handlers : calls[h] = Idle
              \/ persons = Users /\ \A r \in Readers : reads[r] = NoRead

=============================================================================
