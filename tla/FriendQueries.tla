--------------------------- MODULE FriendQueries ---------------------------
(***************************************************************************)
(* What is asked of the friend graph and made of the answers: the paged    *)
(* lists of friends and of requests that main-app shows a user, and the    *)
(* list of strangers that apps/friend-recommendation composes and shows a  *)
(* window of, while friendships and requests change.                       *)
(*                                                                         *)
(* A friendIds is a JavaScript Set, whose order is that of insertion, and  *)
(* skip and take are places in it.  The handlers that change the graph are *)
(* the subject of FriendGraph and FriendRequests; here each of their       *)
(* effects is one step.                                                    *)
(***************************************************************************)
EXTENDS Naturals, FiniteSets, SequencesExt

CONSTANTS
  Persons,
  Me,           \* the user who asks
  Matching,     \* users one of whose names includes the text searched for
  Take,         \* the size of the pages Me asks for
  MinMutual,    \* mutual friends that make a stranger a candidate (7)
  TakeMutual,   \* strangers looked at for that (50)
  Alike,        \* bound: whom the queries by interest or address may find
  FirstFriends, \* the friendships there are at first
  MaxChanges    \* bound: changes of friendships and requests

ASSUME FriendQueriesAssumption ==
  /\ IsFiniteSet(Persons) /\ Me \in Persons /\ Matching \subseteq Persons
  /\ Take \in Nat \ {0}
  /\ MinMutual \in Nat \ {0}
  /\ TakeMutual \in Nat
  /\ Alike \subseteq SUBSET (Persons \ {Me})
  /\ FirstFriends \in [Persons -> Seq(Persons)]
  /\ \A u \in Persons : IsInjective(FirstFriends[u]) /\ u \notin ToSet(FirstFriends[u])
  /\ \A u, v \in Persons : v \in ToSet(FirstFriends[u]) => u \in ToSet(FirstFriends[v])
  /\ MaxChanges \in Nat

VARIABLES
  persons,  \* the ids in friend-job's graph
  friendsOf, \* the friendIds of each, in their order
  requests, \* the recipients of Me's friend requests, or the senders, oldest first
  reading,  \* Me reads a list page by page
  making,   \* the generation of Me's recommendations
  stored,   \* the strangers of the list stored last
  changes,  \* bound
  removed,  \* history: who has left a list since the reading began
  touched   \* history: whose friends have changed since the generation began

graph == <<persons, friendsOf>>
queriesVars == <<graph, requests, reading, making, stored, changes, removed, touched>>

-----------------------------------------------------------------------------
FriendIds(u) == ToSet(friendsOf[u])

\* The members of a list that are in a set, in their order.
Kept(list, set) ==
  LET kept[i \in 0..Len(list)] ==
        IF i = 0 THEN <<>>
        ELSE IF list[i] \in set THEN Append(kept[i - 1], list[i]) ELSE kept[i - 1]
  IN kept[Len(list)]

\* Those a search includes.
Includes(search) == IF search THEN Matching ELSE Persons

\* Mutant: skip counts only those with enough mutual friends.
VisitSkipsGood(page, u, shown, good) ==
  IF u \notin shown THEN page
  ELSE IF page.skip > 0 THEN [page EXCEPT !.skip = IF u \in good THEN @ - 1 ELSE @]
  ELSE IF page.take = 0 THEN page
  ELSE [page EXCEPT !.take = @ - 1,
                    !.found = IF u \in good THEN Append(@, u) ELSE @]

\* One turn of the loops over friendIds and over friendOfFriends.
Visit(page, u, shown, good) ==
  IF u \notin shown THEN page
  ELSE IF page.skip > 0 THEN [page EXCEPT !.skip = @ - 1]
  ELSE IF page.take = 0 THEN page
  ELSE [page EXCEPT !.take = @ - 1,
                    !.found = IF u \in good THEN Append(@, u) ELSE @]

Filter(skip, take) == [skip |-> skip, take |-> take, found |-> <<>>]

Loop(list, shown, good, skip, take) ==
  LET page[i \in 0..Len(list)] ==
        IF i = 0 THEN Filter(skip, take) ELSE Visit(page[i - 1], list[i], shown, good)
  IN page[Len(list)]

GetFriendsByUserId(u, skip, take, search) ==
  Loop(friendsOf[u], persons \cap Includes(search), Persons, skip, take).found

\* getMutualFriendsOfUserWithUsers, for one of the peers.
MutualCount(u, peer) ==
  IF {u, peer} \subseteq persons THEN Len(Kept(friendsOf[peer], FriendIds(u))) ELSE 0

\* The set of the friends' friends is filled friend by friend.
AddNew(set, u) == IF u \in ToSet(set) THEN set ELSE Append(set, u)
Distinct(list) ==
  LET set[i \in 0..Len(list)] == IF i = 0 THEN <<>> ELSE AddNew(set[i - 1], list[i])
  IN set[Len(list)]
FriendOfFriends(u) ==
  Distinct(FlattenSeq([i \in 1..Len(friendsOf[u]) |-> friendsOf[friendsOf[u][i]]]))

GetMutualFriendsOfUser(u, skip, take, search, min) ==
  Loop(FriendOfFriends(u), (persons \cap Includes(search)) \ ({u} \cup FriendIds(u)),
       {v \in persons : MutualCount(u, v) >= min}, skip, take).found

GetUserByIds(ids) == Kept(ids, persons)

\* What friend-job answers of a user: a copy of friendIds, if there is one.
GetUser(u) == IF u \in persons THEN FriendIds(u) ELSE {}

\* The requests for whose other side friend-job has a name.
Named(ids, users) == Kept(ids, ToSet(users))

Upto(n, list) == IF n < Len(list) THEN n ELSE Len(list)

\* The page a query with skip and limit gives, of the requests by sender as of
\* those by recipient.
PageOf(list, skip, take) == SubSeq(list, skip + 1, Upto(skip + take, list))

\* Mutant: the start is below the last possible one.
GetRecommendationBelow(list, limit) ==
  LET last == IF Len(list) > limit THEN Len(list) - limit ELSE 1
  IN {PageOf(list, start, limit) : start \in 0 .. last - 1}

\* Any of the windows that getRecommendation may show: it starts at random,
\* and no later than leaves a full one.
GetRecommendation(list, limit) ==
  LET last == IF Len(list) > limit THEN Len(list) - limit ELSE 0
  IN {PageOf(list, start, limit) : start \in 0 .. last}

-----------------------------------------------------------------------------
Resting == [phase |-> "idle"]
\* first and known are what there was when the reading began.
Readings == [phase : {"page", "names"}, kind : {"friends", "requests"},
             search : BOOLEAN, skip : Nat, ids : Seq(Persons),
             got : Seq(Persons), first : Seq(Persons), known : SUBSET Persons]

Types == {"mutualCount", "commonInterest", "province"}
Entries == [type : Types, count : Nat]
\* The lists by common interest and province, and the list composed.
\* A generation whose list names the users us.
Making(us) == [phase : {"mutual", "others", "exclude", "count", "store"},
               common : SUBSET Persons, province : SUBSET Persons,
               list : [us -> Entries]]
Nobody == [u \in {} |-> [type |-> "province", count |-> 0]]

QueriesTypeOK ==
  /\ persons \subseteq Persons
  /\ friendsOf \in [Persons -> Seq(Persons)]
  /\ requests \in Seq(Persons)
  /\ reading \in Readings \cup {Resting}
  /\ making = Resting \/ \E us \in SUBSET Persons : making \in Making(us)
  /\ stored \in Seq(Persons)
  /\ changes \in 0..MaxChanges
  /\ removed \subseteq Persons
  /\ touched \subseteq Persons

QueriesInit ==
  /\ persons = Persons
  /\ friendsOf = FirstFriends
  /\ requests = <<>>
  /\ reading = Resting
  /\ making = Resting
  /\ stored = <<>>
  /\ changes = 0
  /\ removed = {}
  /\ touched = {}

-----------------------------------------------------------------------------
(* What changes meanwhile.                                                 *)

Change == changes < MaxChanges /\ changes' = changes + 1

Touch(us) == touched' = IF making = Resting THEN {} ELSE touched \cup us
Leave(us) == removed' = IF reading = Resting THEN {} ELSE removed \cup us

Without(list, u) == Kept(list, Persons \ {u})

\* Mutant: a new friend comes first.
AddedFirst(list, u) == IF u \in ToSet(list) THEN list ELSE <<u>> \o list

Added(list, u) == IF u \in ToSet(list) THEN list ELSE Append(list, u)

AddRelationship(u, v) ==
  /\ Change
  /\ u # v /\ v \notin FriendIds(u)
  /\ persons' = persons \cup {u, v}
  /\ friendsOf' = [friendsOf EXCEPT ![u] = Added(@, v), ![v] = Added(@, u)]
  /\ Touch({u, v})
  /\ UNCHANGED <<requests, reading, making, stored, removed>>

RemoveRelationship(u, v) ==
  /\ Change
  /\ v \in FriendIds(u)
  /\ friendsOf' = [friendsOf EXCEPT ![u] = Without(@, v), ![v] = Without(@, u)]
  /\ Touch({u, v})
  /\ Leave(IF Me \in {u, v} THEN {u, v} ELSE {})
  /\ UNCHANGED <<persons, requests, reading, making, stored>>

DeleteUser(u) ==
  /\ Change
  /\ u \in persons
  /\ persons' = persons \ {u}
  /\ friendsOf' = [v \in Persons |-> IF v = u THEN <<>> ELSE Without(friendsOf[v], u)]
  /\ Touch({u} \cup FriendIds(u))
  /\ Leave(IF u = Me THEN FriendIds(Me) ELSE {u})
  /\ UNCHANGED <<requests, reading, making, stored>>

CreateRequest(u) ==
  /\ Change
  /\ u # Me /\ u \notin ToSet(requests) /\ u \notin FriendIds(Me)
  /\ requests' = Append(requests, u)
  /\ UNCHANGED <<graph, reading, making, stored, removed, touched>>

DeleteRequest(u) ==
  /\ Change
  /\ u \in ToSet(requests)
  /\ requests' = Without(requests, u)
  /\ Leave({u})
  /\ UNCHANGED <<graph, reading, making, stored, touched>>

-----------------------------------------------------------------------------
(* Me reads friends or requests, with skip growing by take.  A reading and *)
(* a generation have nothing in common, and one is looked at at a time.    *)

AtRest == reading = Resting /\ making = Resting

Quietly == UNCHANGED <<graph, requests, changes>>

StartReading(kind, search) ==
  /\ AtRest
  /\ kind = "requests" => ~ search
  /\ reading' = [phase |-> "page", kind |-> kind, search |-> search, skip |-> 0,
                 ids |-> <<>>, got |-> <<>>, known |-> persons,
                 first |-> IF kind = "requests" THEN requests
                           ELSE Kept(friendsOf[Me], Includes(search))]
  /\ Quietly /\ UNCHANGED <<making, stored, removed, touched>>

Reads(kind, phase) == /\ reading # Resting
                      /\ reading.phase = phase
                      /\ reading.kind = kind
More == reading.skip < Cardinality(Persons)

ReadFriends ==
  /\ Reads("friends", "page") /\ More
  /\ reading' = [reading EXCEPT
       !.skip = @ + Take,
       !.got = @ \o GetFriendsByUserId(Me, reading.skip, Take, reading.search)]
  /\ Quietly /\ UNCHANGED <<making, stored, removed, touched>>

\* getRequestsBySender asks the collection and then friend-job for the names.
ReadRequests ==
  /\ Reads("requests", "page") /\ More
  /\ reading' = [reading EXCEPT
       !.phase = "names",
       !.ids = PageOf(requests, reading.skip, Take)]
  /\ Quietly /\ UNCHANGED <<making, stored, removed, touched>>

ReadNames ==
  /\ Reads("requests", "names")
  /\ reading' = [reading EXCEPT !.phase = "page", !.skip = @ + Take, !.ids = <<>>,
                                !.got = @ \o Named(reading.ids, GetUserByIds(reading.ids))]
  /\ Quietly /\ UNCHANGED <<making, stored, removed, touched>>

StopReading ==
  /\ reading # Resting /\ reading.phase = "page"
  /\ reading' = Resting
  /\ removed' = {}
  /\ Quietly /\ UNCHANGED <<making, stored, touched>>

-----------------------------------------------------------------------------
(* generateRecommendation for Me.                                          *)

Makes(phase) == making # Resting /\ making.phase = phase

StartMaking ==
  /\ AtRest
  /\ making' = [phase |-> "mutual", common |-> {}, province |-> {},
                list |-> Nobody]
  /\ Quietly /\ UNCHANGED <<reading, stored, removed, touched>>

GetMutual ==
  /\ Makes("mutual")
  /\ making' = [making EXCEPT
       !.phase = "others",
       !.list = [u \in ToSet(GetMutualFriendsOfUser(Me, 0, TakeMutual, FALSE, MinMutual)) |->
                   [type |-> "mutualCount", count |-> MutualCount(Me, u)]]]
  /\ Quietly /\ UNCHANGED <<reading, stored, removed, touched>>

\* Two queries of the users' table, which leave out Me.
GetOthers ==
  /\ Makes("others")
  /\ \E common, province \in Alike :
       making' = [making EXCEPT !.phase = "exclude", !.common = common,
                                !.province = province]
  /\ Quietly /\ UNCHANGED <<reading, stored, removed, touched>>

\* Mutant: only the first list is looked through.
ExcludeFromFirst ==
  /\ Makes("exclude")
  /\ making' = [making EXCEPT !.phase = "count", !.common = @ \ GetUser(Me)]
  /\ Quietly /\ UNCHANGED <<reading, stored, removed, touched>>

ExcludeAlreadyFriend ==
  /\ Makes("exclude")
  /\ making' = [making EXCEPT !.phase = "count", !.common = @ \ GetUser(Me),
                              !.province = @ \ GetUser(Me)]
  /\ Quietly /\ UNCHANGED <<reading, stored, removed, touched>>

\* addMutualFriendCount and removeDuplicate, where the last entry stays.
AddMutualFriendCount ==
  /\ Makes("count")
  /\ LET others == making.common \cup making.province
     IN making' = [making EXCEPT
          !.phase = "store",
          !.list = [u \in DOMAIN @ \cup others |->
                      IF u \in others
                        THEN [type |-> IF u \in making.province THEN "province"
                                       ELSE "commonInterest",
                              count |-> MutualCount(Me, u)]
                        ELSE @[u]]]
  /\ Quietly /\ UNCHANGED <<reading, stored, removed, touched>>

\* saveRecommendation and updateRecommendation; the order is any.
Store ==
  /\ Makes("store")
  /\ making' = Resting
  /\ stored' = SetToSeq(DOMAIN making.list)
  /\ touched' = {}
  /\ Quietly /\ UNCHANGED <<reading, removed>>

-----------------------------------------------------------------------------
QueriesNext ==
  \/ \E u, v \in Persons : AddRelationship(u, v) \/ RemoveRelationship(u, v)
  \/ \E u \in Persons : DeleteUser(u) \/ CreateRequest(u) \/ DeleteRequest(u)
  \/ \E kind \in {"friends", "requests"}, search \in BOOLEAN : StartReading(kind, search)
  \/ ReadFriends \/ ReadRequests \/ ReadNames \/ StopReading
  \/ StartMaking \/ GetMutual \/ GetOthers \/ ExcludeAlreadyFriend
  \/ AddMutualFriendCount \/ Store

QueriesSpec == QueriesInit /\ [][QueriesNext]_queriesVars

-----------------------------------------------------------------------------
(* What the lists promise.  Every graph is also there at rest.             *)

\* Paging hides nobody.  The pages of strangers, which min makes shorter than
\* asked for (friend-graph.service.ts:219 and :225), hold together every
\* stranger with that many mutual friends, once; and every stranger of the
\* stored list is in one of the windows that may be shown, each as long as the
\* list and the limit allow (friend-recommendation.service.ts:38-48).
EveryoneMayBeShown ==
  AtRest => \A size \in 1..Cardinality(Persons) :
    LET windows == GetRecommendation(stored, size)
    IN /\ \A window \in windows : Len(window) = Upto(size, stored)
       /\ UNION {ToSet(window) : window \in windows} = ToSet(stored)
       /\ \A min \in 1..2 :
            LET Page(k) == GetMutualFriendsOfUser(Me, (k - 1) * size, size, FALSE, min)
                found == FlattenSeq([k \in 1..Cardinality(Persons) |-> Page(k)])
            IN /\ ToSet(found) = {u \in persons \ (FriendIds(Me) \cup {Me}) :
                                    Cardinality(FriendIds(u) \cap FriendIds(Me)) >= min}
               /\ Len(found) = Cardinality(ToSet(found))

\* Who reads a list page by page while it changes misses somebody only when
\* somebody before, or that one, has left the list, and sees nobody twice who
\* has not left it and come back.
ReadersMissNobody ==
  Reads("friends", "page") \/ Reads("requests", "page") =>
    LET got == reading.got
        first == reading.first
    IN /\ \A i \in 1..Upto(reading.skip, first) :
            (first[i] \in reading.known /\ \A j \in 1..i : first[j] \notin removed)
              => first[i] \in ToSet(got)
       /\ \A i, j \in 1..Len(got) : (i < j /\ got[i] = got[j]) => got[i] \in removed

\* A list about to be stored does not name its user, names a friend only when
\* friendships of that one have changed while it was made, and its counts are
\* true when none of the two users' has.
StrangersOnly ==
  Makes("store") =>
    \A u \in DOMAIN making.list :
      /\ u # Me
      /\ u \in FriendIds(Me) => u \in touched
      /\ {u, Me} \cap touched = {} => making.list[u].count = MutualCount(Me, u)

=============================================================================
