------------------------ MODULE PostRecommendation ------------------------
(***************************************************************************)
(* apps/post-recommendation: a stored list of recommended posts per user,  *)
(* made anew every night and when the user's interests change, and read in *)
(* pages whose position is stored with the list.                           *)
(*                                                                         *)
(* The collection has no unique index on userId, so an upsert that finds   *)
(* no document inserts one, whatever others have inserted meanwhile.  A    *)
(* list is the posts of friends, known by their number, followed by a      *)
(* window of the posts that match the user's interests; those posts are    *)
(* known by their place in the query's result.                             *)
(***************************************************************************)
EXTENDS Naturals, Sequences, FiniteSets

CONSTANTS
  Users,
  Handlers,       \* bound: events and questions handled at the same time
  MaxRecord,      \* matching posts taken into a list (100 in the code)
  Limit,          \* posts in a page (5 in the code)
  MaxFriendPosts, \* posts of friends taken into a list (1000 in the code)
  MaxMatches,     \* bound: posts that match a user's interests
  FirstMatches,   \* bound: how many there can be at first
  MaxChanges,     \* bound: changes of those posts
  MaxFailures     \* bound: stops and generations that fail

ASSUME PostRecommendationAssumption ==
  /\ MaxRecord \in Nat \ {0} /\ Limit \in Nat \ {0}
  /\ MaxFriendPosts \in Nat /\ MaxMatches \in Nat
  /\ FirstMatches \subseteq 0..MaxMatches
  /\ MaxChanges \in Nat /\ MaxFailures \in Nat
  /\ Users \cap Handlers = {}

VARIABLES
  rows,     \* the users' table: "alive", "leaving" (DELETED is sent), "gone"
  matches,  \* how many posts match each user's interests
  docs,     \* for each user, the stored documents, oldest first
  mark,     \* the document { init: true }
  process,  \* how far the service has come
  calls,    \* what is at work; a user's own slot is generateForAllUser's
  changes,  \* bound
  failures, \* bound
  excused,  \* history: deleted users who may have a list
  shown,    \* history: the places of the list shown since its beginning
  jumped    \* history: users one of whose pages overlapped with something

world == <<rows, matches, changes>>
service == <<process, mark>>
history == <<excused, shown, jumped>>
vars == <<world, docs, service, calls, failures, history>>

-----------------------------------------------------------------------------
NoPosts == [friends |-> 0, from |-> 0, window |-> 0]
Lists == [friends : 0..MaxFriendPosts, from : Nat, window : 0..MaxRecord]

\* postIds and startIdx; cycle is interestState.startAt.  The upsert of the
\* interest provider makes a document without postIds, which counts as none.
Doc == [list : Lists, start : Nat, cycle : Nat]
NoDoc == [list |-> NoPosts, start |-> 0, cycle |-> 0]

Count(list) == list.friends + list.window

\* The matching posts a list holds.
Matching(list) == {list.from + i : i \in 1..list.window}

Slots == Handlers \cup Users
Idle == [phase |-> "idle"]
Calls == [phase : {"state", "count", "turn", "first", "window", "save",
                   "insert", "read", "advance", "delete"},
          user : Users, list : Lists, next : Nat]
Call(phase, u) == [phase |-> phase, user |-> u, list |-> NoPosts, next |-> 0]

TypeOK ==
  /\ rows \in [Users -> {"alive", "leaving", "gone"}]
  /\ matches \in [Users -> 0..MaxMatches]
  /\ docs \in [Users -> Seq(Doc)]
  /\ mark \in BOOLEAN
  /\ process \in {"down", "init", "mark", "fill", "filling", "up"}
  /\ calls \in [Slots -> {Idle} \cup Calls]
  /\ changes \in 0..MaxChanges
  /\ failures \in 0..MaxFailures
  /\ excused \subseteq Users
  /\ shown \in [Users -> SUBSET Nat]
  /\ jumped \subseteq Users

Init ==
  /\ rows = [u \in Users |-> "alive"]
  /\ matches \in [Users -> FirstMatches]
  /\ docs = [u \in Users |-> <<>>]
  /\ mark = FALSE
  /\ process = "down"
  /\ calls = [s \in Slots |-> Idle]
  /\ changes = 0
  /\ failures = 0
  /\ excused = {}
  /\ shown = [u \in Users |-> {}]
  /\ jumped = {}

-----------------------------------------------------------------------------
In(s, phase) == calls[s] # Idle /\ calls[s].phase = phase
Of(s) == calls[s].user
On(u) == {s \in Slots : calls[s] # Idle /\ calls[s].user = u}
Paging(s) == In(s, "read") \/ In(s, "advance")
Generating(s) == calls[s] # Idle /\ ~Paging(s) /\ ~In(s, "delete")

Go(s, phase) == calls' = [calls EXCEPT ![s].phase = phase]
End(s) == calls' = [calls EXCEPT ![s] = Idle]

Excuse(us) == excused' = excused \cup us
Jump(us) == jumped' = jumped \cup us

-----------------------------------------------------------------------------
(* What is asked of the service.  A handler is free when it is idle.       *)

Begin(s, phase, u) ==
  /\ process = "up"
  /\ calls[s] = Idle
  /\ calls' = [calls EXCEPT ![s] = Call(phase, u)]

\* INTEREST_CHANGED.  The token of a deleted user is good until it expires.
\* (RELATIONSHIP_CHANGED comes to the same handler with a pair where it
\* wants an id: the count query fails before anything is stored.)
SyncUser(h, u) ==
  /\ Begin(h, "state", u)
  /\ Excuse(IF rows[u] = "alive" THEN {} ELSE {u})
  /\ Jump(IF \E s \in On(u) : Paging(s) THEN {u} ELSE {})
  /\ UNCHANGED <<world, docs, service, failures, shown>>

\* GET_POST_RECO.
GetPostReco(h, u) ==
  /\ Begin(h, "read", u)
  /\ Jump(IF On(u) = {} THEN {} ELSE {u})
  /\ UNCHANGED <<world, docs, service, failures, excused, shown>>

\* Mutant: the nightly query finds soft-deleted users too.
UpdateAllUsers(u) ==
  /\ Begin(u, "state", u)
  /\ Excuse(IF rows[u] = "leaving" THEN {u} ELSE {})
  /\ Jump(IF \E s \in On(u) : Paging(s) THEN {u} ELSE {})
  /\ UNCHANGED <<world, docs, service, failures, shown>>

\* The nightly generateForAllUser finds the users whose row is there.
UpdateUserRecoPost(u) ==
  /\ rows[u] # "gone"
  /\ Begin(u, "state", u)
  /\ Excuse(IF rows[u] = "leaving" THEN {u} ELSE {})
  /\ Jump(IF \E s \in On(u) : Paging(s) THEN {u} ELSE {})
  /\ UNCHANGED <<world, docs, service, failures, shown>>

\* DELETED is sent before the row is marked; nobody hears it when the
\* service is down.
AnnounceDeletion(h, u) ==
  /\ rows[u] = "alive"
  /\ rows' = [rows EXCEPT ![u] = "leaving"]
  /\ \/ Begin(h, "delete", u) /\ UNCHANGED excused
     \/ process # "up" /\ Excuse({u}) /\ UNCHANGED calls
  /\ UNCHANGED <<matches, changes, docs, service, failures, shown, jumped>>

SoftDelete(u) ==
  /\ rows[u] = "leaving"
  /\ rows' = [rows EXCEPT ![u] = "gone"]
  /\ UNCHANGED <<matches, changes, docs, service, calls, failures, history>>

\* Posts are made and deleted, interests added and removed.
MatchesChange(u) ==
  /\ changes < MaxChanges
  /\ changes' = changes + 1
  /\ \E n \in (0..MaxMatches) \ {matches[u]} : matches' = [matches EXCEPT ![u] = n]
  /\ UNCHANGED <<rows, docs, service, calls, failures, history>>

-----------------------------------------------------------------------------
(* generateForUser.                                                        *)

Step(s) == UNCHANGED <<world, service, failures, history>>

\* interestState of the oldest document, or the beginning.
ReadState(s) ==
  /\ In(s, "state")
  /\ LET ds == docs[Of(s)]
     IN calls' = [calls EXCEPT ![s].phase = "count",
          ![s].next = IF ds = <<>> THEN 0 ELSE Head(ds).cycle]
  /\ UNCHANGED docs /\ Step(s)

Seek(s) == calls' = [calls EXCEPT ![s].phase = "window", ![s].next = 0]

Turn(s, from, next) ==
  calls' = [calls EXCEPT ![s].phase = "turn", ![s].next = next,
                         ![s].list = [NoPosts EXCEPT !.from = from]]

\* Mutant: after the last window the next one is not the first.
CountStays(s) ==
  /\ In(s, "count")
  /\ LET n == matches[Of(s)]
         startAt == calls[s].next
     IN IF n < MaxRecord THEN Seek(s)
        ELSE IF n < startAt + MaxRecord THEN Turn(s, n - MaxRecord, startAt)
        ELSE Turn(s, startAt, startAt + MaxRecord)
  /\ UNCHANGED docs /\ Step(s)

\* The window after the last one of this user, or the last full one.
CountMatches(s) ==
  /\ In(s, "count")
  /\ LET n == matches[Of(s)]
         startAt == calls[s].next
     IN IF n < MaxRecord THEN Seek(s)
        ELSE IF n < startAt + MaxRecord THEN Turn(s, n - MaxRecord, 0)
        ELSE Turn(s, startAt, startAt + MaxRecord)
  /\ UNCHANGED docs /\ Step(s)

\* updateOne with upsert: the oldest document, or else a new one.
Upsert(s, phase, after, new) ==
  /\ In(s, phase)
  /\ IF docs[Of(s)] = <<>> THEN Go(s, new) /\ UNCHANGED docs ELSE after

SetState(s) ==
  /\ Upsert(s, "turn",
       /\ docs' = [docs EXCEPT ![Of(s)][1].cycle = calls[s].next]
       /\ Seek(s), "first")
  /\ Step(s)

InsertState(s) ==
  /\ In(s, "first")
  /\ docs' = [docs EXCEPT ![Of(s)] =
                Append(@, [NoDoc EXCEPT !.cycle = calls[s].next])]
  /\ Seek(s)
  /\ Excuse(IF docs[Of(s)] = <<>> THEN {} ELSE {Of(s)})
  /\ UNCHANGED <<world, service, failures, shown, jumped>>

Least(m, n) == IF m < n THEN m ELSE n
Less(m, n) == IF m < n THEN 0 ELSE m - n

\* The posts from this place on, which may have become fewer.
ReadWindow(s) ==
  /\ In(s, "window")
  /\ calls' = [calls EXCEPT ![s].phase = "save",
       ![s].list.window = Least(MaxRecord, Less(matches[Of(s)], calls[s].list.from))]
  /\ UNCHANGED docs /\ Step(s)

Shows(u, places) ==
  shown' = [shown EXCEPT ![u] = IF u \in jumped THEN {} ELSE places]

\* Mutant: the new list is read from where the old one was.
SaveKeepsStart(s) ==
  /\ \E n \in 0..MaxFriendPosts :
       Upsert(s, "save",
         /\ docs' = [docs EXCEPT ![Of(s)][1].list = [calls[s].list EXCEPT !.friends = n]]
         /\ End(s), "insert")
  /\ Shows(Of(s), {})
  /\ UNCHANGED <<world, service, failures, excused, jumped>>

\* saveRecoForUser, with the posts friend-job's answer has led to.
SaveReco(s) ==
  /\ \E n \in 0..MaxFriendPosts :
       Upsert(s, "save",
         /\ docs' = [docs EXCEPT
              ![Of(s)][1].list = [calls[s].list EXCEPT !.friends = n],
              ![Of(s)][1].start = 0]
         /\ End(s), "insert")
  /\ Shows(Of(s), {})
  /\ UNCHANGED <<world, service, failures, excused, jumped>>

InsertReco(s) ==
  /\ In(s, "insert")
  /\ \E n \in 0..MaxFriendPosts :
       docs' = [docs EXCEPT ![Of(s)] =
         Append(@, [NoDoc EXCEPT !.list = [calls[s].list EXCEPT !.friends = n]])]
  /\ End(s)
  /\ LET twin == IF docs[Of(s)] = <<>> THEN {} ELSE {Of(s)}
     IN Excuse(twin) /\ Jump(twin)
  /\ UNCHANGED <<world, service, failures, shown>>

\* A query fails, or friend-job never answers.  At boot Promise.all rejects
\* and the process ends.
GenerateFails(s) ==
  /\ failures < MaxFailures
  /\ failures' = failures + 1
  /\ Generating(s)
  /\ IF process = "filling"
       THEN /\ process' = "down"
            /\ calls' = [t \in Slots |-> Idle]
       ELSE End(s) /\ UNCHANGED process
  /\ UNCHANGED <<world, docs, mark, history>>

-----------------------------------------------------------------------------
(* getByUser and delete.                                                   *)

\* Mutant: the end of the list is noticed one place too late.
PlacePastEnd(doc) == IF doc.start > Count(doc.list) THEN 0 ELSE doc.start

\* startIdx, or the beginning at the end of the list.
Place(doc) == IF doc.start >= Count(doc.list) THEN 0 ELSE doc.start

Page(doc) == {Place(doc) + i : i \in 1..Least(Limit, Count(doc.list) - Place(doc))}

\* Without a document the answer is an error.
ReadPage(s) ==
  /\ In(s, "read")
  /\ LET u == Of(s)
     IN IF docs[u] = <<>> THEN End(s) /\ UNCHANGED shown
        ELSE LET doc == Head(docs[u])
             IN /\ calls' = [calls EXCEPT ![s].phase = "advance",
                                          ![s].next = Place(doc) + Limit]
                /\ Shows(u, Page(doc) \cup (IF Place(doc) = 0 THEN {} ELSE shown[u]))
  /\ UNCHANGED <<world, docs, service, failures, excused, jumped>>

Advance(s) ==
  /\ In(s, "advance")
  /\ docs' = [docs EXCEPT ![Of(s)] =
       IF @ = <<>> THEN @ ELSE [@ EXCEPT ![1].start = calls[s].next]]
  /\ End(s)
  /\ Step(s)

\* deleteOne takes the oldest document.
Delete(s) ==
  /\ In(s, "delete")
  /\ LET u == Of(s)
     IN /\ docs' = [docs EXCEPT ![u] = IF @ = <<>> THEN @ ELSE Tail(@)]
        /\ Excuse(IF \E t \in On(u) : Generating(t) THEN {u} ELSE {})
        /\ Jump(IF On(u) = {s} THEN {} ELSE {u})
        /\ Shows(u, {})
  /\ End(s)
  /\ UNCHANGED <<world, service, failures>>

-----------------------------------------------------------------------------
(* init, which comes before the service listens.                           *)

Boot ==
  /\ process = "down"
  /\ process' = "init"
  /\ UNCHANGED <<world, docs, mark, calls, failures, history>>

FindMark ==
  /\ process = "init"
  /\ process' = IF mark THEN "up" ELSE "mark"
  /\ UNCHANGED <<world, docs, mark, calls, failures, history>>

CreateMark ==
  /\ process = "mark"
  /\ mark' = TRUE
  /\ process' = "fill"
  /\ UNCHANGED <<world, docs, calls, failures, history>>

GenerateForAllUser ==
  /\ process = "fill"
  /\ process' = "filling"
  /\ calls' = [s \in Slots |->
       IF s \in Users /\ rows[s] # "gone" THEN Call("state", s) ELSE Idle]
  /\ Excuse({u \in Users : rows[u] = "leaving"})
  /\ UNCHANGED <<world, docs, mark, failures, shown, jumped>>

Listen ==
  /\ process = "filling"
  /\ \A s \in Slots : calls[s] = Idle
  /\ process' = "up"
  /\ UNCHANGED <<world, docs, mark, calls, failures, history>>

Stop ==
  /\ process # "down"
  /\ failures < MaxFailures
  /\ failures' = failures + 1
  /\ process' = "down"
  /\ calls' = [s \in Slots |-> Idle]
  /\ Excuse({Of(s) : s \in {t \in Slots : In(t, "delete")}})
  /\ Jump({Of(s) : s \in {t \in Slots : Paging(t)}})
  /\ UNCHANGED <<world, docs, mark, shown>>

-----------------------------------------------------------------------------
Booting == Boot \/ FindMark \/ CreateMark \/ GenerateForAllUser \/ Listen

Continue(s) ==
  \/ ReadState(s) \/ CountMatches(s) \/ SetState(s) \/ InsertState(s)
  \/ ReadWindow(s) \/ SaveReco(s) \/ InsertReco(s)
  \/ ReadPage(s) \/ Advance(s) \/ Delete(s)

Next ==
  \/ \E h \in Handlers, u \in Users :
       SyncUser(h, u) \/ GetPostReco(h, u) \/ AnnounceDeletion(h, u)
  \/ \E u \in Users : UpdateUserRecoPost(u) \/ SoftDelete(u) \/ MatchesChange(u)
  \/ \E s \in Slots : Continue(s) \/ GenerateFails(s)
  \/ Booting
  \/ Stop

\* The event loop and the driver bring every step on, the night comes every
\* day and a process that has ended is started again.
Fairness == /\ \A s \in Slots : WF_vars(Continue(s))
            /\ \A u \in Users : WF_vars(UpdateUserRecoPost(u))
            /\ WF_vars(Booting)

Spec == Init /\ [][Next]_vars /\ Fairness

-----------------------------------------------------------------------------
(* What the lists promise.                                                 *)

\* A page that is read from a list with posts has posts, even when another
\* page has written a position past the end of a list made meanwhile
\* (post-recommendation.service.ts:62 against :79).
NoEmptyPage ==
  \A u \in Users : docs[u] # <<>> =>
    LET doc == Head(docs[u]) IN Count(doc.list) > 0 => Page(doc) # {}

\* Who reads page after page, one at a time and not while a list is made,
\* has seen every post of the list up to the stored position.
PagesInOrder ==
  \A u \in Users \ jumped :
    (docs[u] # <<>> /\ \A s \in On(u) : ~Paging(s))
      => LET doc == Head(docs[u])
         IN shown[u] = 1..Least(doc.start, Count(doc.list))

\* A deleted user has no list, unless one was being made when it was deleted,
\* had been stored twice, or was asked for later, or the event was lost.
DeletedLeavesNoList ==
  \A u \in Users \ excused :
    (rows[u] = "gone" /\ On(u) = {}) => docs[u] = <<>>

\* Every matching post comes into the list of its user again and again, and
\* so the list exists: the night makes up for a first run that was cut short
\* (post-recommendation.service.ts:92) and for lists lost or made in a race.
MatchesComeRound ==
  \A u \in Users, i \in 1..MaxMatches :
    <>[](rows[u] = "alive" /\ matches[u] >= i)
      => []<>(docs[u] # <<>> /\ i \in Matching(Head(docs[u]).list))

=============================================================================
