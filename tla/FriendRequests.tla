--------------------------- MODULE FriendRequests ---------------------------
(***************************************************************************)
(* Friend requests in main-app (apps/main-app/src/friends): documents of a *)
(* Mongo collection, created, cancelled and accepted by HTTP handlers that *)
(* consult friend-job over Redis between their database calls.             *)
(*                                                                         *)
(* A handler stops at each await: the existence query, the IS_FRIEND,      *)
(* PREPARE_REQ and ADD_RELATIONSHIP calls, the insert and the delete.      *)
(* friend-job is seen as Friendship, which FriendGraph implements.  Its    *)
(* clients set no timeout: a call sent while nobody serves, or whose       *)
(* server dies before the reply, leaves its handler waiting for ever.      *)
(***************************************************************************)
EXTENDS FiniteSets

CONSTANTS
  Users,     \* the ids a request can name
  Handlers   \* the HTTP handlers that may be in flight together

VARIABLES
  docs,      \* friend_request: pairs <<sender, recipient>> (unique index)
  calls,     \* the handlers in flight
  serving, friends, saved,   \* friend-job (Friendship)
  asked,     \* history: every request ever created
  excused    \* history: pairs for which handlers overlapped, an acceptance died
             \* or friend-job brought back a friendship, until all is well again

FriendJob == INSTANCE Friendship

friendJob == <<serving, friends, saved>>
vars == <<docs, calls, friendJob, asked, excused>>

-----------------------------------------------------------------------------
Requests == {r \in Users \X Users : r[1] # r[2]}
Pair(r) == {r[1], r[2]}

\* A request of r's two users in either direction: the $or of isReqExist.
Between(r) == {d \in docs : Pair(d) = Pair(r)}

Idle == [phase |-> "idle"]
Phases == {"exist", "isFriend", "prepare", "insert",
           "find", "add", "reply", "delete", "hung"}
Calls == [op : {"create", "cancel", "accept"}, phase : Phases, req : Requests]
Call(op, phase, r) == [op |-> op, phase |-> phase, req |-> r]

\* acceptRequest after friend-job has added the relationship.
Accepting(call) == /\ call \in Calls
                   /\ call.op = "accept"
                   /\ call.phase \in {"reply", "exist", "delete"}

\* createRequest after friend-job has denied that the two are friends.
Creating(call) == /\ call \in Calls
                  /\ call.op = "create"
                  /\ call.phase \in {"prepare", "insert"}

\* A handler that may still change something between the two of a pair.
Active(call, pair) == call # Idle /\ call.phase # "hung" /\ Pair(call.req) = pair
Busy(pair) == \E h \in Handlers : Active(calls[h], pair)

\* Nothing between the two that should not be.
InOrder(r) == \/ Between(r) = {}
              \/ Pair(r) \notin friends /\ \E d \in docs : Between(r) = {d}

TypeOK ==
  /\ docs \subseteq Requests
  /\ calls \in [Handlers -> Calls \cup {Idle}]
  /\ FriendJob!TypeOK
  /\ asked \subseteq Requests
  /\ excused \subseteq FriendJob!Friendships

Init ==
  /\ docs = {}
  /\ calls = [h \in Handlers |-> Idle]
  /\ FriendJob!Init
  /\ asked = {}
  /\ excused = {}

-----------------------------------------------------------------------------
(* The handlers.                                                           *)

At(h, op, phase) == calls[h] # Idle /\ calls[h].op = op /\ calls[h].phase = phase
Go(h, phase) == calls' = [calls EXCEPT ![h].phase = phase]

End(h) == calls' = [calls EXCEPT ![h] = Idle]

\* POST requests/:recipientId, DELETE requests/:peerUserId and GET
\* requests/:peerUserId/accept.  createRequest refuses a request to oneself.
Start(h, r) ==
  /\ calls[h] = Idle
  /\ \E op \in {"create", "cancel", "accept"} :
       calls' = [calls EXCEPT ![h] =
                   Call(op, IF op = "accept" THEN "find" ELSE "exist", r)]
  /\ excused' = IF Busy(Pair(r)) THEN excused \cup {Pair(r)}
                ELSE IF InOrder(r) THEN excused \ {Pair(r)} ELSE excused
  /\ UNCHANGED <<docs, friendJob, asked>>

\* Mutant: isReqExist looks in one direction only.
CreateExistOneWay(h) ==
  /\ At(h, "create", "exist")
  /\ IF calls[h].req \in docs THEN End(h) ELSE Go(h, "isFriend")
  /\ UNCHANGED <<docs, friendJob, asked, excused>>

\* createRequest: 'request has been created' if there is one either way.
CreateExist(h) ==
  /\ At(h, "create", "exist")
  /\ IF Between(calls[h].req) # {} THEN End(h) ELSE Go(h, "isFriend")
  /\ UNCHANGED <<docs, friendJob, asked, excused>>

\* Mutant: the answer of IS_FRIEND is not looked at.
CreateIsFriendIgnored(h) ==
  /\ At(h, "create", "isFriend")
  /\ serving
  /\ Go(h, "prepare")
  /\ UNCHANGED <<docs, friendJob, asked, excused>>

\* createRequest: 'relationship existed' if friend-job says so.
CreateIsFriend(h) ==
  /\ At(h, "create", "isFriend")
  /\ serving
  /\ IF Pair(calls[h].req) \in friends THEN End(h) ELSE Go(h, "prepare")
  /\ UNCHANGED <<docs, friendJob, asked, excused>>

\* PREPARE_REQ fails when one of the two is not a user.
CreatePrepare(h) ==
  /\ At(h, "create", "prepare")
  /\ serving
  /\ End(h) \/ Go(h, "insert")
  /\ UNCHANGED <<docs, friendJob, asked, excused>>

\* The insert: the unique index refuses a second request in one direction,
\* and nothing refuses one in the other, or one between friends.
CreateInsert(h) ==
  /\ At(h, "create", "insert")
  /\ docs' = docs \cup {calls[h].req}
  /\ asked' = asked \cup {calls[h].req}
  /\ End(h)
  /\ UNCHANGED <<friendJob, excused>>

\* Mutant: the request is not looked up.
AcceptFindNothing(h) ==
  /\ At(h, "accept", "find")
  /\ Go(h, "add")
  /\ UNCHANGED <<docs, friendJob, asked, excused>>

\* acceptRequest: the request of this sender to this recipient.
AcceptFind(h) ==
  /\ At(h, "accept", "find")
  /\ IF calls[h].req \in docs THEN Go(h, "add") ELSE End(h)
  /\ UNCHANGED <<docs, friendJob, asked, excused>>

\* ADD_RELATIONSHIP: added by friend-job, or refused for want of a user.
AcceptAdd(h) ==
  /\ At(h, "accept", "add")
  /\ \/ /\ FriendJob!Befriend(Pair(calls[h].req))
        /\ Go(h, "reply")
     \/ /\ serving
        /\ End(h)
        /\ UNCHANGED friendJob
  /\ UNCHANGED <<docs, asked, excused>>

\* Mutant: the accepted request is left in the collection.
AcceptReplyKeepsRequest(h) ==
  /\ At(h, "accept", "reply")
  /\ End(h)
  /\ UNCHANGED <<docs, friendJob, asked, excused>>

\* The reply of ADD_RELATIONSHIP: acceptRequest calls cancelRequest.
AcceptReply(h) ==
  /\ At(h, "accept", "reply")
  /\ Go(h, "exist")
  /\ UNCHANGED <<docs, friendJob, asked, excused>>

\* Mutant: no answer when there is no request.
CancelExistNeverRefuses(h) ==
  /\ At(h, "cancel", "exist") \/ At(h, "accept", "exist")
  /\ Between(calls[h].req) # {}
  /\ Go(h, "delete")
  /\ UNCHANGED <<docs, friendJob, asked, excused>>

\* cancelRequest: 'request not found' ends it.
CancelExist(h) ==
  /\ At(h, "cancel", "exist") \/ At(h, "accept", "exist")
  /\ IF Between(calls[h].req) = {} THEN End(h) ELSE Go(h, "delete")
  /\ UNCHANGED <<docs, friendJob, asked, excused>>

\* deleteOne with the $or filter takes one of the documents that match.
CancelDelete(h) ==
  /\ At(h, "cancel", "delete") \/ At(h, "accept", "delete")
  /\ IF Between(calls[h].req) = {}
       THEN docs' = docs
       ELSE \E d \in Between(calls[h].req) : docs' = docs \ {d}
  /\ End(h)
  /\ UNCHANGED <<friendJob, asked, excused>>

\* DELETE :peerUserId is one call to friend-job and nothing else.
Unfriend(r) ==
  /\ FriendJob!Unfriend(Pair(r))
  /\ UNCHANGED <<docs, calls, asked, excused>>

-----------------------------------------------------------------------------
(* What fails.                                                             *)

\* A call that nobody serves is never answered.
Hang(h) ==
  /\ calls[h].phase \in {"isFriend", "prepare", "add", "reply"}
  /\ ~serving
  /\ Go(h, "hung")
  /\ excused' = IF Accepting(calls[h]) THEN excused \cup {Pair(calls[h].req)}
                                       ELSE excused
  /\ UNCHANGED <<docs, friendJob, asked>>

\* main-app stops: every handler is gone where it stood.
MainAppStops ==
  /\ calls' = [h \in Handlers |-> Idle]
  /\ excused' = excused \cup
       {Pair(calls[h].req) : h \in {i \in Handlers : Accepting(calls[i])}}
  /\ UNCHANGED <<docs, friendJob, asked>>

\* friend-job forgets users, stops, and boots with what it had saved: pairs
\* unfriended since then are friends again, whatever was requested meanwhile.
FriendJobForgets ==
  /\ \E us \in SUBSET Users : FriendJob!Forget(us)
  /\ UNCHANGED <<docs, calls, asked, excused>>

FriendJobStops ==
  /\ FriendJob!Stop
  /\ UNCHANGED <<docs, calls, asked, excused>>

FriendJobBoots ==
  /\ FriendJob!Boot
  /\ excused' = excused \cup
       {pair \in saved : \/ \E r \in docs : Pair(r) = pair
                         \/ \E h \in Handlers : Creating(calls[h]) /\ Active(calls[h], pair)}
  /\ UNCHANGED <<docs, calls, asked>>

-----------------------------------------------------------------------------
Continue(h) == \/ CreateExist(h) \/ CreateIsFriend(h) \/ CreatePrepare(h)
               \/ CreateInsert(h)
               \/ AcceptFind(h) \/ AcceptAdd(h) \/ AcceptReply(h)
               \/ CancelExist(h) \/ CancelDelete(h)

Running == \/ \E h \in Handlers : \/ \E r \in Requests : Start(h, r)
                                  \/ Continue(h)
           \/ \E r \in Requests : Unfriend(r)
           \/ FriendJobBoots

Failing == \/ \E h \in Handlers : Hang(h)
           \/ MainAppStops
           \/ FriendJobForgets
           \/ FriendJobStops

Next == Running \/ Failing

Spec == Init /\ [][Next]_vars

\* Mongo and a running friend-job answer, and what is sent to a stopped one is
\* lost; the process manager boots friend-job.
Fairness == /\ \A h \in Handlers : WF_vars(Continue(h) \/ Hang(h))
            /\ WF_vars(FriendJobBoots)

FairSpec == Spec /\ Fairness

-----------------------------------------------------------------------------
(* What main-app promises.                                                 *)

\* Nobody is a friend of anybody, now or after a restart of friend-job,
\* unless one of the two once sent the other a request: acceptRequest reads
\* the request before it adds the relationship, and no interleaving with
\* cancellations, other acceptances, lost replies or stops gets round it.
FriendshipWasRequested ==
  \A pair \in friends \cup saved : \E r \in asked : Pair(r) = pair

\* A request pending between two friends, with no acceptance on its way to
\* remove it, has one of these causes and no other: handlers of the two
\* overlapped (friends.service.ts:74-106 checks and inserts in four steps), an
\* acceptRequest died between adding and deleting (:139-146), or a restart
\* of friend-job brought an ended friendship back.
RequestBetweenFriendsHasCause ==
  \A r \in docs :
    Pair(r) \in friends
      => \/ Pair(r) \in excused
         \/ \E h \in Handlers : Accepting(calls[h]) /\ Pair(calls[h].req) = Pair(r)

\* Two users have requests to each other at once (friends.service.ts:74-78
\* refuses the second) only when handlers of the two overlapped.
CrossedRequestsHaveCause ==
  \A r \in docs : Between(r) = {r} \/ Pair(r) \in excused

\* Every handler ends, or waits for an answer that friend-job will never give.
HandlersEnd ==
  \A h \in Handlers : calls[h] # Idle ~> (calls[h] = Idle \/ calls[h].phase = "hung")

=============================================================================
