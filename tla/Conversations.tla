--------------------------- MODULE Conversations ---------------------------
(***************************************************************************)
(* Who takes part in a conversation (apps/conversation: the group and pair *)
(* services over ConversationsService): documents of one Mongo collection, *)
(* where a group has an admin and a pair has none.                         *)
(*                                                                         *)
(* The handlers stop at each await: validateConversation's query, the      *)
(* query of getOrCreate and every write.  create starts one addParticipant *)
(* for each initial member and lets them run side by side.  A list asks    *)
(* for its conversations first and then, one conversation after another,   *)
(* for the names of the members.                                           *)
(***************************************************************************)
EXTENDS Naturals, Sequences, FiniteSets

CONSTANTS
  Users,      \* the ids a request can name
  NoUser,     \* the admin of a pair
  Handlers,   \* the handlers that write and may be in flight together
  Readers,    \* the lists that may be in the making together
  MaxDocs     \* bound: conversations ever made

ASSUME ConversationsAssumption == MaxDocs \in Nat /\ NoUser \notin Users

VARIABLES
  docs,      \* Mongo: the conversations, removed ones included
  persons,   \* SQL: the users with a row that is not soft-deleted
  calls,     \* the handlers in flight
  reads      \* the lists in the making

vars == <<docs, persons, calls, reads>>

-----------------------------------------------------------------------------
Docs == [exists : BOOLEAN, admin : Users \cup {NoUser}, participants : SUBSET Users]

Idle == [phase |-> "idle"]

\* user asks; id is the conversation; validating and adding are users whose
\* addParticipant is at its query and at its write.
Calls == [op : {"create", "add", "pair"},
          phase : {"insert", "members", "find"},
          user : Users, id : Nat,
          validating : SUBSET Users, adding : SUBSET Users]
Call(op, phase, u, id, members) ==
  [op |-> op, phase |-> phase, user |-> u, id |-> id,
   validating |-> members, adding |-> {}]

\* left are the member lists whose names have yet to be asked for, asked the
\* members already asked for and names the answers; there, for history only,
\* are the users who have been there since the list was begun.
Reads == [left : SUBSET SUBSET Users, asked : SUBSET Users,
          names : SUBSET Users, there : SUBSET Users]
NoRead == [left |-> {}, asked |-> {}, names |-> {}, there |-> {}]

TypeOK ==
  /\ docs \in Seq(Docs)
  /\ persons \subseteq Users
  /\ calls \in [Handlers -> Calls \cup {Idle}]
  /\ reads \in [Readers -> Reads]

Init ==
  /\ docs = <<>>
  /\ persons = Users
  /\ calls = [h \in Handlers |-> Idle]
  /\ reads = [r \in Readers |-> NoRead]

-----------------------------------------------------------------------------
Stored == 1 .. Len(docs)
IsGroup(id) == docs[id].admin # NoUser

\* { _id: id, admin: userId }
AdminOf(u, id) == id \in Stored /\ docs[id].exists /\ docs[id].admin = u

TakesPart(u, id) == id \in Stored /\ docs[id].exists /\ u \in docs[id].participants

\* Mutant: the filter does not ask for an admin.
InGroupOrPair(u, id) == TakesPart(u, id)

\* The filter of the group service: a group that u is a participant of.
InGroup(u, id) == TakesPart(u, id) /\ IsGroup(id)

\* The filter of the pair service.
InPair(u, id) == TakesPart(u, id) /\ ~IsGroup(id)

\* The paired conversations of these two: $all and no admin.
PairsOf(pair) == {id \in Stored : /\ docs[id].exists
                                   /\ ~IsGroup(id)
                                   /\ pair \subseteq docs[id].participants}

At(h, op, phase) == calls[h] # Idle /\ calls[h].op = op /\ calls[h].phase = phase

End(h) == calls' = [calls EXCEPT ![h] = Idle]
Go(h, phase) == calls' = [calls EXCEPT ![h].phase = phase]

\* The repository.
Insert(doc) == docs' = Append(docs, doc)
Delete(id) == docs' = [docs EXCEPT ![id].exists = FALSE]
Update(id, doc) == docs' = [docs EXCEPT ![id] = doc]
-----------------------------------------------------------------------------
(* Requests.                                                               *)

\* Bound: none is created when there are MaxDocs.
StartCreate(h, u, members) ==
  /\ calls[h] = Idle
  /\ Len(docs) < MaxDocs
  /\ calls' = [calls EXCEPT ![h] = Call("create", "insert", u, 0, members)]
  /\ UNCHANGED <<docs, persons, reads>>

\* A group begins without participants; addParticipant refuses the admin.
CreateInsert(h) ==
  /\ At(h, "create", "insert")
  /\ Len(docs) < MaxDocs
  /\ Insert([exists |-> TRUE, admin |-> calls[h].user, participants |-> {}])
  /\ calls' = [calls EXCEPT ![h].phase = "members",
                            ![h].id = Len(docs) + 1,
                            ![h].validating = @ \ {calls[h].user}]
  /\ UNCHANGED <<persons, reads>>

\* Mutant: no self_added.
StartAddUnchecked(h, u, id, member) ==
  /\ calls[h] = Idle
  /\ calls' = [calls EXCEPT ![h] = Call("add", "members", u, id, {member})]
  /\ UNCHANGED <<docs, persons, reads>>

\* addParticipant, and removeParticipant too, which calls it; it refuses the
\* caller itself.
StartAdd(h, u, id, member) ==
  /\ calls[h] = Idle
  /\ u # member
  /\ calls' = [calls EXCEPT ![h] = Call("add", "members", u, id, {member})]
  /\ UNCHANGED <<docs, persons, reads>>

\* validateConversation with the admin's id.
ValidateMember(h, member) ==
  /\ calls[h].phase = "members"
  /\ member \in calls[h].validating
  /\ calls' = [calls EXCEPT
                 ![h].validating = @ \ {member},
                 ![h].adding = IF AdminOf(calls[h].user, calls[h].id)
                                 THEN @ \cup {member} ELSE @]
  /\ UNCHANGED <<docs, persons, reads>>

\* Mutant: $set for $addToSet.
SetMember(h, member) ==
  /\ calls[h].phase = "members"
  /\ member \in calls[h].adding
  /\ LET id == calls[h].id
     IN IF AdminOf(calls[h].user, id)
          THEN Update(id, [docs[id] EXCEPT !.participants = {member}])
          ELSE UNCHANGED docs
  /\ calls' = [calls EXCEPT ![h].adding = @ \ {member}]
  /\ UNCHANGED <<persons, reads>>

\* updateOne with the admin in its filter and $addToSet.
AddMember(h, member) ==
  /\ calls[h].phase = "members"
  /\ member \in calls[h].adding
  /\ LET id == calls[h].id
     IN IF AdminOf(calls[h].user, id)
          THEN Update(id, [docs[id] EXCEPT !.participants = @ \cup {member}])
          ELSE UNCHANGED docs
  /\ calls' = [calls EXCEPT ![h].adding = @ \ {member}]
  /\ UNCHANGED <<persons, reads>>

EndMembers(h) ==
  /\ calls[h].phase = "members"
  /\ calls[h].validating = {}
  /\ calls[h].adding = {}
  /\ End(h)
  /\ UNCHANGED <<docs, persons, reads>>

\* remove is one deleteOne: it asks for a participant.  The message of an
\* update has the pattern of a removal (DELETE: 'update'), whose handler is
\* registered later and is the one that gets it: whoever changes a group
\* removes it.
RemoveGroup(u, id) ==
  /\ InGroup(u, id)
  /\ Delete(id)
  /\ UNCHANGED <<persons, calls, reads>>

StartPair(h, u, v) ==
  /\ calls[h] = Idle
  /\ u # v
  /\ calls' = [calls EXCEPT ![h] = Call("pair", "find", u, 0, {u, v})]
  /\ UNCHANGED <<docs, persons, reads>>

\* Mutant: the query looks among the groups.
FindPairAmongGroups(h) ==
  /\ At(h, "pair", "find")
  /\ IF \E id \in Stored : IsGroup(id) /\ docs[id].participants = calls[h].validating
       THEN End(h) ELSE Go(h, "insert")
  /\ UNCHANGED <<docs, persons, reads>>

\* getOrCreate.
FindPair(h) ==
  /\ At(h, "pair", "find")
  /\ IF PairsOf(calls[h].validating) # {} THEN End(h) ELSE Go(h, "insert")
  /\ UNCHANGED <<docs, persons, reads>>

CreatePair(h) ==
  /\ At(h, "pair", "insert")
  /\ Len(docs) < MaxDocs
  /\ Insert([exists |-> TRUE, admin |-> NoUser, participants |-> calls[h].validating])
  /\ End(h)
  /\ UNCHANGED <<persons, reads>>

-----------------------------------------------------------------------------
(* Lists.                                                                  *)

\* The groups or the pairs of u, or the one group it asks for.
Found(u, kind, ids) ==
  {id \in ids \cap Stored : IF kind = "group" THEN InGroup(u, id) ELSE InPair(u, id)}

\* getByUserId and getById; without a conversation there is nothing to ask.
StartRead(r, u, kind, ids) ==
  /\ reads[r] = NoRead
  /\ Found(u, kind, ids) # {}
  /\ reads' = [reads EXCEPT ![r] =
       [left |-> {docs[id].participants : id \in Found(u, kind, ids)},
        asked |-> {}, names |-> {}, there |-> persons]]
  /\ UNCHANGED <<docs, persons, calls>>

\* Mutant: the map is made anew for every conversation.
AskNamesAnew(r, members) ==
  /\ members \in reads[r].left
  /\ reads' = [reads EXCEPT ![r].left = @ \ {members},
                            ![r].asked = @ \cup members,
                            ![r].names = members \cap persons]
  /\ UNCHANGED <<docs, persons, calls>>

\* getUserByRangeId for one conversation; users.set for each that it finds.
AskNames(r, members) ==
  /\ members \in reads[r].left
  /\ reads' = [reads EXCEPT ![r].left = @ \ {members},
                            ![r].asked = @ \cup members,
                            ![r].names = @ \cup (members \cap persons)]
  /\ UNCHANGED <<docs, persons, calls>>

Answer(r) ==
  /\ reads[r].left = {}
  /\ reads' = [reads EXCEPT ![r] = NoRead]
  /\ UNCHANGED <<docs, persons, calls>>

\* The accounts come and go meanwhile.
Arrive(u) ==
  /\ u \notin persons
  /\ persons' = persons \cup {u}
  /\ UNCHANGED <<docs, calls, reads>>
Leave(u) ==
  /\ u \in persons
  /\ persons' = persons \ {u}
  /\ reads' = [r \in Readers |-> [reads[r] EXCEPT !.there = @ \ {u}]]
  /\ UNCHANGED <<docs, calls>>

-----------------------------------------------------------------------------
Next ==
  \/ \E h \in Handlers :
       \/ \E u \in Users, members \in SUBSET Users : StartCreate(h, u, members)
       \/ \E u, member \in Users, id \in Stored : StartAdd(h, u, id, member)
       \/ \E u, v \in Users : StartPair(h, u, v)
       \/ \E member \in Users : ValidateMember(h, member) \/ AddMember(h, member)
       \/ CreateInsert(h) \/ EndMembers(h)
       \/ FindPair(h) \/ CreatePair(h)
  \/ \E u \in Users, id \in Stored : RemoveGroup(u, id)
  \/ \E r \in Readers :
       \/ \E u \in Users, kind \in {"group", "pair"} : StartRead(r, u, kind, Stored)
       \/ \E u \in Users, id \in Stored : StartRead(r, u, "group", {id})
       \/ \E members \in reads[r].left : AskNames(r, members)
       \/ Answer(r)
  \/ \E u \in Users : Arrive(u) \/ Leave(u)

Spec == Init /\ [][Next]_vars

-----------------------------------------------------------------------------
(* What follows for groups and pairs.                                      *)

\* The admin of a group is never one of its participants, in no interleaving
\* of creations, additions and removals.  Since the queries of the group
\* service ask for a participant, the admin gets neither the group nor the
\* effect of a removal (conversations.group.service.ts:56-67).
AdminOutside == \A id \in Stored : docs[id].admin \notin docs[id].participants

Couples == {pair \in SUBSET Users : \E u, v \in Users : u # v /\ pair = {u, v}}

\* The getOrCreate calls that have found nothing and are about to insert.
AboutToPair(pair) == {h \in Handlers : At(h, "pair", "insert") /\ calls[h].validating = pair}

\* Overlapping getOrCreate calls may each make a conversation for the same
\* two users, but never more of them than calls can overlap: as soon as one
\* is stored every later call finds it (conversations.pair.service.ts:21-41).
BoundedDuplicates ==
  \A pair \in Couples :
    Cardinality(PairsOf(pair)) + Cardinality(AboutToPair(pair)) <= Cardinality(Handlers)

\* The conversation of two users that the database finds first.
First(pair, id) == id \in PairsOf(pair) /\ \A i \in PairsOf(pair) : id <= i

\* Once getOrCreate can find a conversation of two users it goes on finding
\* that one, whatever duplicate is made later and whatever id the group
\* endpoints are given (conversations.pair.service.ts:26-31,
\* conversations.group.service.ts:38-67).
PairStaysFound ==
  [][\A id \in Stored : \A pair \in {docs[id].participants} :
       First(pair, id) => First(pair, id)']_docs

\* Nobody leaves a group, not by any interleaving of additions, updates and
\* removals: removeParticipant ends in addParticipant
\* (conversations.group.service.ts:50-54), so a member is in for good, and a
\* user "removed" without having been a member is in from then on.
MembersStay ==
  [][\A id \in Stored : docs[id].participants \subseteq docs'[id].participants]_docs

\* A list names every member it has asked for and who has been there since it
\* was begun, however many conversations it goes through and whoever comes or
\* goes meanwhile (conversations.group.controller.ts:21-45).
ListsNameEveryone ==
  \A r \in Readers : reads[r].asked \cap reads[r].there \subseteq reads[r].names

=============================================================================
