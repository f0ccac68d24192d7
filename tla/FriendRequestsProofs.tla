------------------------ MODULE FriendRequestsProofs ------------------------
(***************************************************************************)
(* Proofs about what main-app makes of the friend graph: about              *)
(* FriendRequests, for any users and any number of handlers in flight, and  *)
(* from "Data" on about FriendQueries, for any graph, pages of any size and *)
(* any changes while they are read.  The two have no name in common.       *)
(***************************************************************************)
EXTENDS FriendRequests, FriendQueries, FiniteSetTheorems, SequenceTheorems,
        WellFoundedInduction, TLAPS

-----------------------------------------------------------------------------
(* Types.                                                                  *)

LEMMA PairIsFriendship ==
  ASSUME NEW r \in Requests
  PROVE  Pair(r) \in FriendJob!Friendships
BY DEF Requests, Pair, FriendJob!Friendships

LEMMA CallType ==
  ASSUME NEW op \in {"create", "cancel", "accept"}, NEW phase \in Phases,
         NEW r \in Requests
  PROVE  Call(op, phase, r) \in Calls
BY DEF Call, Calls

LEMMA BusyCall ==
  ASSUME TypeOK, NEW h \in Handlers, calls[h] # Idle
  PROVE  calls[h] \in Calls /\ calls[h].req \in Requests
BY DEF TypeOK, Calls

LEMMA GoType ==
  ASSUME TypeOK, NEW h \in Handlers, calls[h] # Idle, NEW phase \in Phases,
         Go(h, phase)
  PROVE  calls' \in [Handlers -> Calls \cup {Idle}]
<1>1. calls[h] \in Calls
  BY BusyCall
<1> QED BY <1>1 DEF TypeOK, Go, Calls

LEMMA EndType ==
  ASSUME TypeOK, NEW h \in Handlers, End(h)
  PROVE  calls' \in [Handlers -> Calls \cup {Idle}]
BY DEF TypeOK, End

LEMMA FriendJobType ==
  ASSUME FriendJob!TypeOK, [FriendJob!Next]_(FriendJob!vars)
  PROVE  FriendJob!TypeOK'
<1> USE DEF FriendJob!TypeOK
<1>1. ASSUME NEW pair \in FriendJob!Friendships,
             FriendJob!Befriend(pair) \/ FriendJob!Unfriend(pair)
      PROVE  FriendJob!TypeOK'
  BY <1>1 DEF FriendJob!Befriend, FriendJob!Unfriend
<1>2. ASSUME NEW us \in SUBSET Users, FriendJob!Forget(us)
      PROVE  FriendJob!TypeOK'
  BY <1>2 DEF FriendJob!Forget
<1>3. CASE FriendJob!Stop
  BY <1>3 DEF FriendJob!Stop
<1>4. CASE FriendJob!Boot
  BY <1>4 DEF FriendJob!Boot
<1>5. CASE UNCHANGED FriendJob!vars
  BY <1>5 DEF FriendJob!vars
<1> QED BY <1>1, <1>2, <1>3, <1>4, <1>5 DEF FriendJob!Next

\* Every step of main-app is a step of friend-job, or leaves it alone.
LEMMA FriendJobSteps ==
  ASSUME TypeOK, [Next]_vars
  PROVE  [FriendJob!Next]_(FriendJob!vars)
<1>1. CASE UNCHANGED friendJob
  BY <1>1 DEF friendJob, FriendJob!vars
<1>2. ASSUME NEW h \in Handlers, AcceptAdd(h)
      PROVE  [FriendJob!Next]_(FriendJob!vars)
  <2>1. calls[h].req \in Requests
    BY <1>2, BusyCall DEF AcceptAdd, At
  <2>2. Pair(calls[h].req) \in FriendJob!Friendships
    BY <2>1, PairIsFriendship
  <2> QED BY <1>1, <1>2, <2>2 DEF AcceptAdd, FriendJob!Next
<1>3. ASSUME NEW r \in Requests, Unfriend(r)
      PROVE  [FriendJob!Next]_(FriendJob!vars)
  BY <1>3, PairIsFriendship DEF Unfriend, FriendJob!Next
<1>4. CASE FriendJobForgets \/ FriendJobStops \/ FriendJobBoots
  BY <1>4 DEF FriendJobForgets, FriendJobStops, FriendJobBoots, FriendJob!Next
<1> QED
  BY <1>1, <1>2, <1>3, <1>4
  DEF Next, Running, Failing, Continue, vars, Start, CreateExist,
      CreateIsFriend, CreatePrepare, CreateInsert, AcceptFind, AcceptReply,
      CancelExist, CancelDelete, Hang, MainAppStops

LEMMA TypeOKStep == TypeOK /\ [Next]_vars => TypeOK'
<1> SUFFICES ASSUME TypeOK, [Next]_vars PROVE TypeOK'
  OBVIOUS
<1>0. FriendJob!TypeOK'
  BY FriendJobSteps, FriendJobType DEF TypeOK
<1>1. ASSUME calls' \in [Handlers -> Calls \cup {Idle}],
             UNCHANGED <<docs, asked, excused>>
      PROVE  TypeOK'
  BY <1>0, <1>1 DEF TypeOK
<1>2. ASSUME NEW h \in Handlers, NEW r \in Requests, Start(h, r)
      PROVE  TypeOK'
  <2>0. excused' \subseteq FriendJob!Friendships
    BY <1>2, PairIsFriendship DEF Start, TypeOK
  <2>1. \A op \in {"create", "cancel", "accept"} :
          Call(op, IF op = "accept" THEN "find" ELSE "exist", r) \in Calls
    BY CallType DEF Phases
  <2>2. calls' \in [Handlers -> Calls \cup {Idle}]
    BY <1>2, <2>1 DEF Start, TypeOK
  <2> QED BY <1>0, <1>2, <2>0, <2>2 DEF Start, TypeOK
<1>3. ASSUME NEW h \in Handlers,
             \/ CreateExist(h) \/ CreateIsFriend(h) \/ CreatePrepare(h)
             \/ AcceptFind(h) \/ AcceptAdd(h) \/ AcceptReply(h)
             \/ CancelExist(h)
      PROVE  TypeOK'
  <2>1. calls[h] # Idle
    BY <1>3 DEF CreateExist, CreateIsFriend, CreatePrepare, AcceptFind,
                AcceptAdd, AcceptReply, CancelExist, At
  <2>2. \/ End(h)
        \/ \E phase \in Phases : Go(h, phase)
    BY <1>3 DEF CreateExist, CreateIsFriend, CreatePrepare, AcceptFind,
                AcceptAdd, AcceptReply, CancelExist, Phases
  <2>3. calls' \in [Handlers -> Calls \cup {Idle}]
    BY <2>1, <2>2, GoType, EndType
  <2> QED BY <1>1, <1>3, <2>3
          DEF CreateExist, CreateIsFriend, CreatePrepare, AcceptFind,
              AcceptAdd, AcceptReply, CancelExist
<1>4. ASSUME NEW h \in Handlers, CreateInsert(h)
      PROVE  TypeOK'
  <2>1. calls[h].req \in Requests
    BY <1>4, BusyCall DEF CreateInsert, At
  <2>2. calls' \in [Handlers -> Calls \cup {Idle}]
    BY <1>4, EndType DEF CreateInsert
  <2>3. docs' \subseteq Requests /\ asked' \subseteq Requests
    BY <1>4, <2>1 DEF CreateInsert, TypeOK
  <2> QED BY <1>0, <1>4, <2>2, <2>3 DEF CreateInsert, TypeOK
<1>5. ASSUME NEW h \in Handlers, CancelDelete(h)
      PROVE  TypeOK'
  <2>1. calls' \in [Handlers -> Calls \cup {Idle}]
    BY <1>5, EndType DEF CancelDelete
  <2>2. docs' \subseteq docs
    BY <1>5 DEF CancelDelete
  <2> QED BY <1>0, <1>5, <2>1, <2>2 DEF CancelDelete, TypeOK
<1>6. ASSUME NEW h \in Handlers, Hang(h)
      PROVE  TypeOK'
  <2>1. calls[h] # Idle
    BY <1>6 DEF Hang, Idle
  <2>2. calls' \in [Handlers -> Calls \cup {Idle}]
    BY <1>6, <2>1, GoType DEF Hang, Phases
  <2>3. Pair(calls[h].req) \in FriendJob!Friendships
    BY <2>1, BusyCall, PairIsFriendship
  <2> QED BY <1>0, <1>6, <2>2, <2>3 DEF Hang, TypeOK
<1>7. CASE MainAppStops
  <2>1. calls' \in [Handlers -> Calls \cup {Idle}]
    BY <1>7 DEF MainAppStops
  <2>2. \A h \in Handlers :
          Accepting(calls[h]) => Pair(calls[h].req) \in FriendJob!Friendships
    BY PairIsFriendship DEF Accepting, Calls
  <2>3. excused' \subseteq FriendJob!Friendships
    BY <1>7, <2>2 DEF MainAppStops, TypeOK
  <2> QED BY <1>0, <1>7, <2>1, <2>3 DEF MainAppStops, TypeOK
<1>8. CASE FriendJobBoots
  <2>1. excused' \subseteq FriendJob!Friendships
    BY <1>8 DEF FriendJobBoots, TypeOK, FriendJob!TypeOK
  <2> QED BY <1>0, <1>8, <2>1 DEF FriendJobBoots, TypeOK
<1>9. CASE UNCHANGED <<docs, calls, asked, excused>>
  BY <1>0, <1>9 DEF TypeOK
<1> QED
  BY <1>2, <1>3, <1>4, <1>5, <1>6, <1>7, <1>8, <1>9
  DEF Next, Running, Failing, Continue, vars, Unfriend, FriendJobForgets,
      FriendJobStops

LEMMA TypeOKInit == Init => TypeOK
BY DEF Init, TypeOK, FriendJob!Init, FriendJob!TypeOK

\* The types hold with any number of users and handlers.
THEOREM RequestsTypeCorrect == Spec => []TypeOK
BY TypeOKInit, TypeOKStep, PTL DEF Spec

-----------------------------------------------------------------------------
(* Consent.                                                                *)

\* An acceptance about to add a relationship has read its request, and a
\* request that is read was once created.
RequestedInv ==
  /\ TypeOK
  /\ FriendshipWasRequested
  /\ docs \subseteq asked
  /\ \A h \in Handlers : At(h, "accept", "add") => calls[h].req \in asked

LEMMA RequestedInvStep == RequestedInv /\ [Next]_vars => RequestedInv'
<1> SUFFICES ASSUME RequestedInv, [Next]_vars PROVE RequestedInv'
  OBVIOUS
<1> USE DEF RequestedInv
<1>0. TypeOK'
  BY TypeOKStep
<1>1. asked \subseteq asked' /\ docs' \subseteq asked'
  BY DEF Next, Running, Failing, Continue, vars, Start, CreateExist,
         CreateIsFriend, CreatePrepare, CreateInsert, AcceptFind, AcceptAdd,
         AcceptReply, CancelExist, CancelDelete, Unfriend, Hang,
         MainAppStops, FriendJobForgets, FriendJobStops, FriendJobBoots
<1>2. \A h \in Handlers : At(h, "accept", "add")' => calls'[h].req \in asked'
  <2>1. ASSUME NEW h \in Handlers, AcceptFind(h)
        PROVE  \A i \in Handlers : At(i, "accept", "add")' => calls'[i].req \in asked'
    <3>1. CASE calls[h].req \in docs /\ Go(h, "add")
      <4>1. calls'[h].req = calls[h].req
        BY <2>1, <3>1, BusyCall DEF AcceptFind, At, Go, TypeOK, Calls
      <4>2. \A i \in Handlers : i # h => calls'[i] = calls[i]
        BY <3>1 DEF Go, TypeOK
      <4> QED BY <1>1, <3>1, <4>1, <4>2 DEF At
    <3>2. CASE End(h)
      <4>1. \A i \in Handlers : calls'[i] \in {calls[i], Idle}
        BY <3>2 DEF End, TypeOK
      <4> QED BY <1>1, <4>1 DEF At
    <3> QED BY <2>1, <3>1, <3>2 DEF AcceptFind
  <2>2. ASSUME NEW h \in Handlers, NEW phase \in Phases \ {"add"},
               calls[h] # Idle, Go(h, phase)
        PROVE  \A i \in Handlers : At(i, "accept", "add")' => calls'[i].req \in asked'
    <3>1. calls'[h].phase # "add"
      BY <2>2, BusyCall DEF Go, TypeOK, Calls
    <3>2. \A i \in Handlers : i # h => calls'[i] = calls[i]
      BY <2>2 DEF Go, TypeOK
    <3> QED BY <1>1, <3>1, <3>2 DEF At
  <2>3. ASSUME NEW h \in Handlers, End(h)
        PROVE  \A i \in Handlers : At(i, "accept", "add")' => calls'[i].req \in asked'
    <3>1. \A i \in Handlers : calls'[i] \in {calls[i], Idle}
      BY <2>3 DEF End, TypeOK
    <3> QED BY <1>1, <3>1 DEF At
  <2>4. ASSUME NEW h \in Handlers, NEW r \in Requests, Start(h, r)
        PROVE  \A i \in Handlers : At(i, "accept", "add")' => calls'[i].req \in asked'
    <3>1. calls'[h].phase # "add"
      BY <2>4 DEF Start, Call, TypeOK
    <3>2. \A i \in Handlers : i # h => calls'[i] = calls[i]
      BY <2>4 DEF Start, TypeOK
    <3> QED BY <1>1, <3>1, <3>2 DEF At
  <2>5. CASE MainAppStops
    BY <2>5 DEF MainAppStops, At
  <2>6. CASE UNCHANGED calls
    BY <1>1, <2>6 DEF At
  <2>7. ASSUME NEW h \in Handlers, Continue(h) \/ Hang(h), ~AcceptFind(h)
        PROVE  \/ End(h)
               \/ calls[h] # Idle /\ \E phase \in Phases \ {"add"} : Go(h, phase)
    BY <2>7 DEF Continue, CreateExist, CreateIsFriend, CreatePrepare,
                CreateInsert, AcceptAdd, AcceptReply, CancelExist,
                CancelDelete, Hang, At, Idle, Phases
  <2> QED
    BY <2>1, <2>2, <2>3, <2>4, <2>5, <2>6, <2>7
    DEF Next, Running, Failing, vars, Unfriend, FriendJobForgets,
        FriendJobStops, FriendJobBoots, Continue
<1>3. FriendshipWasRequested'
  <2>1. CASE UNCHANGED friendJob
    BY <1>1, <2>1 DEF FriendshipWasRequested, friendJob
  <2>2. ASSUME NEW h \in Handlers, AcceptAdd(h),
               FriendJob!Befriend(Pair(calls[h].req))
        PROVE  FriendshipWasRequested'
    <3>1. calls[h].req \in asked
      BY <2>2 DEF AcceptAdd
    <3> QED BY <1>1, <2>2, <3>1 DEF FriendJob!Befriend, FriendshipWasRequested
  <2>3. ASSUME friends' \cup saved' \subseteq friends \cup saved
        PROVE  FriendshipWasRequested'
    BY <1>1, <2>3 DEF FriendshipWasRequested
  <2>4. ASSUME NEW r \in Requests, Unfriend(r)
        PROVE  FriendshipWasRequested'
    BY <2>3, <2>4 DEF Unfriend, FriendJob!Unfriend
  <2>5. CASE FriendJobForgets
    BY <2>3, <2>5 DEF FriendJobForgets, FriendJob!Forget
  <2>6. CASE FriendJobStops \/ FriendJobBoots
    BY <2>3, <2>6 DEF FriendJobStops, FriendJobBoots, FriendJob!Stop,
                      FriendJob!Boot
  <2> QED
    BY <2>1, <2>2, <2>4, <2>5, <2>6
    DEF Next, Running, Failing, Continue, vars, Start, CreateExist,
        CreateIsFriend, CreatePrepare, CreateInsert, AcceptFind, AcceptAdd,
        AcceptReply, CancelExist, CancelDelete, Hang, MainAppStops
<1> QED BY <1>0, <1>1, <1>2, <1>3

\* However requests, acceptances, cancellations, restarts and lost replies
\* interleave, nobody is anybody's friend without a request between the two.
THEOREM FriendshipTakesRequest == Spec => []FriendshipWasRequested
<1>1. Init => RequestedInv
  BY TypeOKInit DEF Init, FriendJob!Init, RequestedInv, FriendshipWasRequested,
                    At
<1>2. RequestedInv => FriendshipWasRequested
  BY DEF RequestedInv
<1> QED BY <1>1, <1>2, RequestedInvStep, PTL DEF Spec

-----------------------------------------------------------------------------
(* Causes.                                                                 *)

DocsOf(pair) == {d \in docs : Pair(d) = pair}

CreatingFor(call, pair) ==
  Active(call, pair) /\ call.op = "create" /\ call.phase \in {"isFriend", "prepare", "insert"}

AcceptingFor(call, pair) == Accepting(call) /\ Pair(call.req) = pair

\* What there is between the two of a pair that has no excuse: one handler at
\* most is at work there, so that what it has read still holds.
Well(pair) ==
  /\ \A g, h \in Handlers : Active(calls[g], pair) /\ Active(calls[h], pair) => g = h
  /\ \A h \in Handlers : CreatingFor(calls[h], pair) => DocsOf(pair) = {}
  /\ \A h \in Handlers : Active(calls[h], pair) /\ Creating(calls[h]) => pair \notin friends
  /\ \A d, e \in DocsOf(pair) : d = e
  /\ pair \in friends /\ DocsOf(pair) # {} => \E h \in Handlers : AcceptingFor(calls[h], pair)

CauseInv == TypeOK /\ \A pair \in FriendJob!Friendships : pair \in excused \/ Well(pair)

LEMMA CauseInvImplies ==
  ASSUME CauseInv
  PROVE  RequestBetweenFriendsHasCause /\ CrossedRequestsHaveCause
<1>1. ASSUME NEW r \in docs
      PROVE  /\ Pair(r) \in excused \/ Well(Pair(r))
             /\ r \in DocsOf(Pair(r)) /\ Between(r) = DocsOf(Pair(r))
  BY PairIsFriendship DEF CauseInv, TypeOK, DocsOf, Between
<1>2. RequestBetweenFriendsHasCause
  BY <1>1 DEF RequestBetweenFriendsHasCause, Well, AcceptingFor
<1>3. CrossedRequestsHaveCause
  BY <1>1 DEF CrossedRequestsHaveCause, Well
<1> QED BY <1>2, <1>3

LEMMA AcceptingIsActive ==
  ASSUME NEW call, NEW pair, AcceptingFor(call, pair)
  PROVE  Active(call, pair)
BY DEF AcceptingFor, Accepting, Active, Calls, Idle

\* A step that concerns other pairs.
Untouched(pair) ==
  /\ DocsOf(pair)' = DocsOf(pair)
  /\ pair \in friends' => pair \in friends
  /\ \A h \in Handlers : \/ calls'[h] = calls[h]
                         \/ ~ Active(calls[h], pair) /\ ~ Active(calls'[h], pair)

LEMMA OtherPair ==
  ASSUME NEW pair \in FriendJob!Friendships, Well(pair), Untouched(pair)
  PROVE  Well(pair)'
<1> USE DEF Untouched
<1>1. \A h \in Handlers : /\ Active(calls'[h], pair) => calls'[h] = calls[h]
                          /\ Active(calls[h], pair) => calls'[h] = calls[h]
  OBVIOUS
<1>2. \A h \in Handlers : AcceptingFor(calls[h], pair) => AcceptingFor(calls'[h], pair)
  BY <1>1, AcceptingIsActive
<1> QED BY <1>1, <1>2 DEF Well, CreatingFor

\* A step of the only handler at work on the pair.
LEMMA OwnPair ==
  ASSUME NEW pair, NEW h \in Handlers,
         \A i \in Handlers : i # h => ~ Active(calls'[i], pair),
         CreatingFor(calls'[h], pair) => DocsOf(pair)' = {},
         Active(calls'[h], pair) /\ Creating(calls'[h]) => pair \notin friends',
         \A d, e \in DocsOf(pair)' : d = e,
         pair \in friends' /\ DocsOf(pair)' # {} => AcceptingFor(calls'[h], pair)
  PROVE  Well(pair)'
BY DEF Well, CreatingFor

LEMMA CauseStart ==
  ASSUME CauseInv, NEW h \in Handlers, NEW r \in Requests, Start(h, r),
         NEW pair \in FriendJob!Friendships, pair \notin excused'
  PROVE  Well(pair)'
<1>0. /\ UNCHANGED <<docs, friends>> /\ DocsOf(pair)' = DocsOf(pair)
      /\ calls[h] = Idle /\ ~ Active(calls[h], pair)
      /\ \A i \in Handlers : i # h => calls'[i] = calls[i]
      /\ calls'[h].req = r /\ calls'[h].phase \in {"exist", "find"}
  BY DEF Start, friendJob, DocsOf, Active, CauseInv, TypeOK, Call
<1>1. CASE pair # Pair(r)
  <2>1. pair \notin excused
    BY <1>1 DEF Start
  <2>2. Well(pair)
    BY <2>1 DEF CauseInv
  <2>3. \A i \in Handlers : \/ calls'[i] = calls[i]
                            \/ ~ Active(calls[i], pair) /\ ~ Active(calls'[i], pair)
    BY <1>0, <1>1 DEF Active
  <2> QED BY <1>0, <2>2, <2>3, OtherPair DEF Untouched
<1>2. CASE pair = Pair(r)
  <2>1. ~ Busy(pair) /\ (InOrder(r) \/ Well(pair))
    BY <1>2 DEF Start, CauseInv
  <2>2. \A i \in Handlers : ~ Active(calls[i], pair)
    BY <2>1 DEF Busy
  <2>3. \A i \in Handlers : ~ AcceptingFor(calls[i], pair)
    BY <2>2, AcceptingIsActive
  <2>4. /\ \A d, e \in DocsOf(pair) : d = e
        /\ pair \notin friends \/ DocsOf(pair) = {}
    <3>1. CASE Well(pair)
      BY <2>3, <3>1 DEF Well
    <3>2. CASE InOrder(r)
      BY <1>2, <3>2 DEF InOrder, Between, DocsOf
    <3> QED BY <2>1, <3>1, <3>2
  <2>5. ~ CreatingFor(calls'[h], pair) /\ ~ Creating(calls'[h])
    BY <1>0 DEF CreatingFor, Creating
  <2> QED BY <1>0, <2>2, <2>4, <2>5, OwnPair
<1> QED BY <1>1, <1>2

\* A handler's own step leaves other pairs alone.
LEMMA StepOfHandler ==
  ASSUME TypeOK, NEW h \in Handlers, Continue(h) \/ Hang(h)
  PROVE  /\ calls[h] \in Calls /\ calls[h].phase # "hung"
         /\ \A i \in Handlers : i # h => calls'[i] = calls[i]
         /\ calls'[h] = Idle \/ calls'[h].req = calls[h].req
         /\ excused \subseteq excused'
         /\ \A pair : pair # Pair(calls[h].req) =>
              DocsOf(pair)' = DocsOf(pair) /\ (pair \in friends' => pair \in friends)
<1>1. calls[h] \in Calls /\ calls[h].phase # "hung"
  BY BusyCall DEF Continue, CreateExist, CreateIsFriend, CreatePrepare,
      CreateInsert,
     AcceptFind, AcceptAdd, AcceptReply, CancelExist, CancelDelete, Hang, At, Idle
<1>2. End(h) \/ \E phase \in Phases : Go(h, phase)
  BY DEF Continue, CreateExist, CreateIsFriend, CreatePrepare, CreateInsert,
     AcceptFind, AcceptAdd, AcceptReply, CancelExist, CancelDelete, Hang, Phases
<1>3. /\ \A i \in Handlers : i # h => calls'[i] = calls[i]
      /\ calls'[h] = Idle \/ calls'[h].req = calls[h].req
  BY <1>1, <1>2 DEF End, Go, TypeOK, Calls
<1>4. excused \subseteq excused'
  BY DEF Continue, CreateExist, CreateIsFriend, CreatePrepare, CreateInsert,
     AcceptFind, AcceptAdd, AcceptReply, CancelExist, CancelDelete, Hang
<1>5. \A pair : pair # Pair(calls[h].req) =>
        DocsOf(pair)' = DocsOf(pair) /\ (pair \in friends' => pair \in friends)
  <2>1. CASE CreateInsert(h)
    BY <2>1 DEF CreateInsert, DocsOf, friendJob
  <2>2. CASE AcceptAdd(h)
    BY <2>2 DEF AcceptAdd, DocsOf, friendJob, FriendJob!Befriend
  <2>3. CASE CancelDelete(h)
    BY <2>3 DEF CancelDelete, DocsOf, friendJob, Between
  <2>4. CASE UNCHANGED <<docs, friendJob>>
    BY <2>4 DEF DocsOf, friendJob
  <2> QED BY <2>1, <2>2, <2>3, <2>4 DEF Continue, CreateExist, CreateIsFriend,
             CreatePrepare, AcceptFind, AcceptReply, CancelExist, Hang
<1> QED BY <1>1, <1>3, <1>4, <1>5

LEMMA CauseHandler ==
  ASSUME CauseInv, NEW h \in Handlers, Continue(h) \/ Hang(h),
         NEW pair \in FriendJob!Friendships, pair \notin excused'
  PROVE  Well(pair)'
<1>0. TypeOK /\ Well(pair)
  BY StepOfHandler DEF CauseInv
<1>1. CASE pair # Pair(calls[h].req)
  <2>1. \A i \in Handlers : \/ calls'[i] = calls[i]
                            \/ ~ Active(calls[i], pair) /\ ~ Active(calls'[i], pair)
    BY <1>0, <1>1, StepOfHandler DEF Active
  <2>2. DocsOf(pair)' = DocsOf(pair) /\ (pair \in friends' => pair \in friends)
    BY <1>0, <1>1, StepOfHandler
  <2> QED BY <1>0, <2>1, <2>2, OtherPair DEF Untouched
<1>2. CASE pair = Pair(calls[h].req)
  <2> DEFINE call == calls[h]
  <2>1. /\ call \in Calls /\ Active(call, pair) /\ call # Idle
        /\ \A i \in Handlers : i # h => ~ Active(calls'[i], pair)
        /\ \A i \in Handlers : AcceptingFor(calls[i], pair) => i = h
    BY <1>0, <1>2, StepOfHandler, AcceptingIsActive DEF Active, Well, Calls, Idle
  <2>2. \A d, e \in DocsOf(pair) : d = e
    BY <1>0 DEF Well
  <2>3. pair \in friends /\ DocsOf(pair) # {} => AcceptingFor(call, pair)
    BY <1>0, <2>1 DEF Well
  <2>4. Between(call.req) = DocsOf(pair)
    BY <1>2 DEF Between, DocsOf
  <2>5. ASSUME End(h), UNCHANGED <<docs, friends>>,
               ~ Accepting(call) \/ DocsOf(pair) = {}
        PROVE  Well(pair)'
    <3>1. calls'[h] = Idle /\ DocsOf(pair)' = DocsOf(pair)
      BY <1>0, <2>5 DEF End, TypeOK, DocsOf
    <3>2. ~ Active(calls'[h], pair) /\ ~ CreatingFor(calls'[h], pair)
      BY <3>1 DEF Active, CreatingFor
    <3>3. pair \notin friends \/ DocsOf(pair) = {}
      BY <2>3, <2>5 DEF AcceptingFor
    <3> QED BY <2>1, <2>2, <2>5, <3>1, <3>2, <3>3, OwnPair
  <2>6. ASSUME NEW phase \in Phases, Go(h, phase)
        PROVE  calls'[h] = [call EXCEPT !.phase = phase] /\ calls'[h] \in Calls
    BY <1>0, <2>1, <2>6 DEF Go, TypeOK, Calls
  <2>7. ASSUME UNCHANGED docs PROVE DocsOf(pair)' = DocsOf(pair)
    BY <2>7 DEF DocsOf
  <2>10. CASE CreateExist(h)
    <3>1. ~ Accepting(call) /\ call.op = "create"
      BY <2>10 DEF CreateExist, At, Accepting
    <3>2. CASE DocsOf(pair) # {}
      BY <2>4, <2>5, <2>10, <3>1, <3>2 DEF CreateExist, friendJob
    <3>3. CASE DocsOf(pair) = {}
      <4>1. Go(h, "isFriend") /\ UNCHANGED docs
        BY <2>4, <2>10, <3>3 DEF CreateExist
      <4>2. calls'[h].phase = "isFriend"
        BY <2>1, <2>6, <4>1 DEF Phases, Calls
      <4> QED BY <2>1, <2>7, <3>3, <4>1, <4>2, OwnPair DEF Creating
    <3> QED BY <3>2, <3>3
  <2>11. CASE CreateIsFriend(h)
    <3>1. ~ Accepting(call) /\ CreatingFor(call, pair)
      BY <2>1, <2>11 DEF CreateIsFriend, At, Accepting, CreatingFor
    <3>2. DocsOf(pair) = {}
      BY <1>0, <3>1 DEF Well
    <3>3. CASE End(h)
      BY <2>5, <2>11, <3>1, <3>3 DEF CreateIsFriend, friendJob
    <3>4. CASE ~ End(h)
      BY <1>2, <2>1, <2>7, <2>11, <3>2, <3>4, OwnPair DEF CreateIsFriend, friendJob
    <3> QED BY <3>3, <3>4
  <2>12. CASE CreatePrepare(h)
    <3>1. ~ Accepting(call) /\ CreatingFor(call, pair) /\ Creating(call)
      BY <2>1, <2>12 DEF CreatePrepare, At, Accepting, CreatingFor, Creating
    <3>2. DocsOf(pair) = {} /\ pair \notin friends
      BY <1>0, <2>1, <3>1 DEF Well
    <3>3. CASE End(h)
      BY <2>5, <2>12, <3>1, <3>3 DEF CreatePrepare, friendJob
    <3>4. CASE ~ End(h)
      BY <2>1, <2>7, <2>12, <3>2, <3>4, OwnPair DEF CreatePrepare, friendJob
    <3> QED BY <3>3, <3>4
  <2>13. CASE CreateInsert(h)
    <3>1. CreatingFor(call, pair) /\ Creating(call)
      BY <2>1, <2>13 DEF CreateInsert, At, CreatingFor, Creating
    <3>2. DocsOf(pair) = {} /\ pair \notin friends
      BY <1>0, <2>1, <3>1 DEF Well
    <3>3. calls'[h] = Idle /\ pair \notin friends' /\ docs' = docs \cup {call.req}
      BY <1>0, <2>13, <3>2 DEF CreateInsert, End, TypeOK, friendJob
    <3>4. \A d \in DocsOf(pair)' : d = call.req
      BY <3>2, <3>3 DEF DocsOf
    <3>5. ~ Active(calls'[h], pair) /\ ~ CreatingFor(calls'[h], pair)
      BY <3>3 DEF Active, CreatingFor
    <3> QED BY <2>1, <3>3, <3>4, <3>5, OwnPair
  <2>14. CASE AcceptFind(h)
    <3>1. ~ Accepting(call) /\ call.op = "accept"
      BY <2>14 DEF AcceptFind, At, Accepting
    <3>2. pair \notin friends \/ DocsOf(pair) = {}
      BY <2>3, <3>1 DEF AcceptingFor
    <3>3. CASE End(h)
      BY <2>5, <2>14, <3>1, <3>3 DEF AcceptFind, friendJob
    <3>4. CASE Go(h, "add")
      <4>1. calls'[h].op = "accept"
        BY <2>1, <2>6, <3>1, <3>4 DEF Phases, Calls
      <4> QED BY <2>1, <2>2, <2>7, <2>14, <3>2, <4>1, OwnPair
              DEF AcceptFind, friendJob, CreatingFor, Creating
    <3> QED BY <2>14, <3>3, <3>4 DEF AcceptFind
  <2>15. CASE AcceptAdd(h)
    <3>1. ~ Accepting(call) /\ call.op = "accept"
      BY <2>15 DEF AcceptAdd, At, Accepting
    <3>2. CASE Go(h, "reply")
      <4>1. calls'[h] \in Calls /\ calls'[h].op = "accept" /\ calls'[h].phase = "reply"
              /\ calls'[h].req = call.req
        BY <2>1, <2>6, <3>1, <3>2 DEF Phases, Calls
      <4>2. AcceptingFor(calls'[h], pair)
        BY <1>2, <4>1 DEF AcceptingFor, Accepting
      <4> QED BY <2>1, <2>2, <2>7, <2>15, <4>1, <4>2, OwnPair
              DEF AcceptAdd, CreatingFor, Creating
    <3>3. CASE End(h) /\ UNCHANGED friendJob
      BY <2>5, <2>15, <3>1, <3>3 DEF AcceptAdd, friendJob
    <3> QED BY <2>15, <3>2, <3>3 DEF AcceptAdd
  <2>16. CASE AcceptReply(h) \/ (CancelExist(h) /\ DocsOf(pair) # {})
    <3>1. \E phase \in {"exist", "delete"} : Go(h, phase)
      BY <2>4, <2>16 DEF AcceptReply, CancelExist
    <3>2. UNCHANGED <<docs, friends>> /\ call.op \in {"cancel", "accept"}
      BY <2>16 DEF AcceptReply, CancelExist, At, friendJob
    <3>3. /\ calls'[h] \in Calls /\ calls'[h].op = call.op
          /\ calls'[h].phase \in {"exist", "delete"} /\ calls'[h].req = call.req
      BY <2>1, <2>6, <3>1 DEF Phases, Calls
    <3>4. AcceptingFor(call, pair) => AcceptingFor(calls'[h], pair)
      BY <3>3 DEF AcceptingFor, Accepting
    <3> QED BY <2>1, <2>2, <2>3, <2>7, <3>2, <3>3, <3>4, OwnPair
        DEF CreatingFor, Creating
  <2>17. CASE CancelExist(h) /\ DocsOf(pair) = {}
    BY <2>4, <2>5, <2>17 DEF CancelExist, friendJob
  <2>18. CASE CancelDelete(h)
    <3>1. DocsOf(pair)' = {}
      <4>1. CASE DocsOf(pair) = {}
        BY <2>4, <2>18, <4>1 DEF CancelDelete, DocsOf
      <4>2. CASE DocsOf(pair) # {}
        BY <2>2, <2>4, <2>18, <4>2 DEF CancelDelete, DocsOf
      <4> QED BY <4>1, <4>2
    <3>2. calls'[h] = Idle
      BY <1>0, <2>18 DEF CancelDelete, End, TypeOK
    <3> QED BY <2>1, <3>1, <3>2, OwnPair DEF Active, CreatingFor
  <2>19. CASE Hang(h)
    <3>1. calls'[h].phase = "hung" /\ UNCHANGED <<docs, friends>>
      BY <1>0, <2>1, <2>6, <2>19 DEF Hang, Phases, Calls, friendJob
    <3>2. ~ Accepting(call)
      BY <1>2, <2>19 DEF Hang
    <3> QED BY <2>1, <2>2, <2>3, <2>7, <3>1, <3>2, OwnPair
            DEF Active, CreatingFor, AcceptingFor
  <2> QED BY <2>10, <2>11, <2>12, <2>13, <2>14, <2>15, <2>16, <2>17, <2>18, <2>19
          DEF Continue
<1> QED BY <1>1, <1>2

LEMMA CauseRest ==
  ASSUME CauseInv, NEW pair \in FriendJob!Friendships, pair \notin excused',
         \/ MainAppStops \/ FriendJobForgets \/ FriendJobStops \/ FriendJobBoots
         \/ (\E r \in Requests : Unfriend(r)) \/ UNCHANGED vars
  PROVE  Well(pair)'
<1>1. UNCHANGED docs /\ DocsOf(pair)' = DocsOf(pair) /\ excused \subseteq excused'
  BY DEF MainAppStops, FriendJobForgets, FriendJobStops, FriendJobBoots,
      Unfriend, vars,
         DocsOf
<1>2. Well(pair)
  BY <1>1 DEF CauseInv
<1>3. CASE MainAppStops
  <2>1. \A h \in Handlers : ~ AcceptingFor(calls[h], pair)
    BY <1>3 DEF MainAppStops, AcceptingFor
  <2>2. \A h \in Handlers : calls'[h] = Idle
    BY <1>3 DEF MainAppStops
  <2>3. friends' = friends
    BY <1>3 DEF MainAppStops, friendJob
  <2> QED BY <1>1, <1>2, <2>1, <2>2, <2>3 DEF Well, Active, CreatingFor
<1>4. CASE UNCHANGED calls /\ friends' \subseteq friends
  <2>1. \A i \in Handlers : \/ calls'[i] = calls[i]
                            \/ ~ Active(calls[i], pair) /\ ~ Active(calls'[i], pair)
    BY <1>4
  <2>2. pair \in friends' => pair \in friends
    BY <1>4
  <2> QED BY <1>1, <1>2, <2>1, <2>2, OtherPair DEF Untouched
<1>5. CASE FriendJobBoots
  <2>1. /\ UNCHANGED calls
        /\ \/ pair \notin friends'
           \/ /\ DocsOf(pair) = {}
              /\ \A h \in Handlers : ~ (Creating(calls[h]) /\ Active(calls[h], pair))
    BY <1>5 DEF FriendJobBoots, FriendJob!Boot, DocsOf
  <2> QED BY <1>1, <1>2, <2>1 DEF Well, CreatingFor
<1> QED BY <1>3, <1>4, <1>5 DEF FriendJobForgets, FriendJobStops, Unfriend,
    vars, friendJob,
           FriendJob!Forget, FriendJob!Stop, FriendJob!Unfriend

LEMMA CauseInvStep == CauseInv /\ [Next]_vars => CauseInv'
<1> SUFFICES ASSUME CauseInv, [Next]_vars PROVE CauseInv'
  OBVIOUS
<1>1. TypeOK'
  BY TypeOKStep DEF CauseInv
<1>2. ASSUME NEW pair \in FriendJob!Friendships, pair \notin excused'
      PROVE  Well(pair)'
  BY <1>2, CauseStart, CauseHandler, CauseRest DEF Next, Running, Failing
<1> QED BY <1>1, <1>2 DEF CauseInv, FriendJob!Friendships

LEMMA CauseInvInit == Init => CauseInv
<1> SUFFICES ASSUME Init PROVE CauseInv
  OBVIOUS
<1>1. ASSUME NEW pair PROVE Well(pair)
  BY DEF Init, FriendJob!Init, Well, DocsOf, Active, CreatingFor
<1> QED BY <1>1, TypeOKInit DEF CauseInv

\* However many handlers overlap and stop, for any users: a request between
\* friends has one of the causes.
THEOREM RequestsBetweenFriendsHaveCauses == Spec => []RequestBetweenFriendsHasCause
BY CauseInvInit, CauseInvStep, CauseInvImplies, PTL DEF Spec

\* Two users have requests to each other only where handlers have overlapped,
\* or something died, and all has not been well since.
THEOREM CrossedRequestsHaveCauses == Spec => []CrossedRequestsHaveCause
BY CauseInvInit, CauseInvStep, CauseInvImplies, PTL DEF Spec

-----------------------------------------------------------------------------
(* Data.  What the loops compute for every list is proved by the least     *)
(* number, or list, for which it would be wrong: sets stand for predicates.*)

\* A set of numbers that is not empty has a smallest member.
LEMMA SmallestMember ==
  ASSUME NEW S \in SUBSET Nat, S # {}
  PROVE  \E n \in S : \A m \in S : n <= m
<1> DEFINE R == {ss \in Nat \X Nat : ss[1] < ss[2]}
<1>1. R = OpToRel(<, Nat)
  BY DEF OpToRel
<1>2. IsWellFoundedOn(R, Nat)
  BY <1>1, NatLessThanWellFounded, Zenon
<1>3. PICK n \in S : \A m \in S : ~ (<<m, n>> \in R)
  <2> HIDE DEF R
  <2> QED BY <1>2, WFMin, Zenon
<1>4. ASSUME NEW m \in S PROVE n <= m
  <2>1. <<m, n>> \in Nat \X Nat
    OBVIOUS
  <2>2. ~ (<<m, n>>[1] < <<m, n>>[2])
    BY <1>3, <2>1
  <2> QED BY <2>2
<1> QED BY <1>4

\* Induction over the numbers up to n, with a set for the statement.
LEMMA NumberInduction ==
  ASSUME NEW n \in Nat, NEW S, 0 \in S, \A i \in 1..n : i - 1 \in S => i \in S
  PROVE  \A i \in 0..n : i \in S
<1> SUFFICES ASSUME {i \in 0..n : i \notin S} # {} PROVE FALSE
  OBVIOUS
<1> DEFINE T == {i \in 0..n : i \notin S}
<1>1. PICK i \in T : \A j \in T : i <= j
  <2>1. T \in SUBSET Nat /\ T # {}
    OBVIOUS
  <2> HIDE DEF T
  <2> QED BY <2>1, SmallestMember
<1>2. i \in 1..n /\ i - 1 \in 0..n
  BY <1>1
<1>3. i - 1 \in S
  BY <1>1, <1>2
<1> QED BY <1>1, <1>2, <1>3

\* Induction over lists, with a set for the statement.
LEMMA ListInduction ==
  ASSUME NEW T, NEW S, <<>> \in S,
         \A list \in Seq(T), x \in T : list \in S => Append(list, x) \in S
  PROVE  Seq(T) \subseteq S
<1> SUFFICES ASSUME NEW list \in Seq(T) PROVE list \in S
  OBVIOUS
<1> DEFINE P == {k \in 0..Len(list) : SubSeq(list, 1, k) \in S}
<1>1. Len(list) \in Nat
  BY LenProperties
<1>2. 0 \in P
  <2>1. SubSeq(list, 1, 0) = <<>>
    BY SubSeqEmpty
  <2>2. 0 \in 0..Len(list)
    BY <1>1
  <2> QED BY <2>1, <2>2
<1>3. ASSUME NEW k \in 1..Len(list), k - 1 \in P PROVE k \in P
  <2>1. SubSeq(list, 1, k) = Append(SubSeq(list, 1, k - 1), list[k])
    <3>1. SubSeq(list, 1, k) = SubSeq(list, 1, k - 1) \o <<list[k]>>
      BY <1>1, SubSeqRecursiveSecond
    <3>2. SubSeq(list, 1, k - 1) \in Seq(T) /\ list[k] \in T
      BY <1>1, SubSeqProperties, ElementOfSeq
    <3> QED BY <3>1, <3>2, AppendIsConcat
  <2>2. SubSeq(list, 1, k - 1) \in Seq(T) /\ list[k] \in T
    BY <1>1, SubSeqProperties, ElementOfSeq
  <2>3. SubSeq(list, 1, k - 1) \in S
    BY <1>3
  <2>4. Append(SubSeq(list, 1, k - 1), list[k]) \in S
    BY <2>2, <2>3
  <2>5. k \in 0..Len(list)
    BY <1>1
  <2> QED BY <2>1, <2>4, <2>5
<1>4. \A k \in 0..Len(list) : k \in P
  <2> HIDE DEF P
  <2> QED BY <1>1, <1>2, <1>3, NumberInduction
<1>5. SubSeq(list, 1, Len(list)) \in S
  BY <1>1, <1>4
<1> QED BY <1>5, SubSeqFull

\* The functions that start at base and go on by step.
Goings(n, S, base, step) ==
  {f \in [0..n -> S] : f[0] = base /\ \A i \in 1..n : f[i] = step[<<i, f[i - 1]>>]}
GoesOn(n, S, step) == \A i \in 1..n, x \in S : step[<<i, x>>] \in S

\* There is such a function.
LEMMA Recursion ==
  ASSUME NEW n \in Nat, NEW S, NEW base \in S, NEW step, GoesOn(n, S, step)
  PROVE  Goings(n, S, base, step) # {}
<1> USE DEF GoesOn
<1> DEFINE Goes(f, k) == f[0] = base /\ \A i \in 1..k : f[i] = step[<<i, f[i - 1]>>]
           P == {k \in 0..n : \E f \in [0..k -> S] : Goes(f, k)}
<1>1. 0 \in P
  <2>1. [i \in 0..0 |-> base] \in [0..0 -> S]
    OBVIOUS
  <2>2. Goes([i \in 0..0 |-> base], 0)
    OBVIOUS
  <2>3. 0 \in 0..n
    OBVIOUS
  <2> HIDE DEF Goes
  <2> QED BY <2>1, <2>2, <2>3
<1>2. ASSUME NEW k \in 1..n, k - 1 \in P PROVE k \in P
  <2>1. PICK f \in [0..k - 1 -> S] : Goes(f, k - 1)
    <3> HIDE DEF Goes
    <3> QED BY <1>2
  <2> DEFINE g == [i \in 0..k |-> IF i = k THEN step[<<k, f[k - 1]>>] ELSE f[i]]
  <2>2. g \in [0..k -> S]
    <3>1. f[k - 1] \in S
      BY <2>1
    <3>2. step[<<k, f[k - 1]>>] \in S
      BY <3>1
    <3> QED BY <3>2
  <2>3. Goes(g, k)
    <3>1. g[0] = base
      BY <2>1
    <3>2. ASSUME NEW i \in 1..k PROVE g[i] = step[<<i, g[i - 1]>>]
      <4>1. g[i - 1] = f[i - 1]
        OBVIOUS
      <4>2. CASE i = k
        <5>1. g[k] = step[<<k, f[k - 1]>>]
          OBVIOUS
        <5> HIDE DEF g
        <5> QED BY <4>1, <4>2, <5>1
      <4>3. CASE i # k
        <5>1. i \in 1..k - 1
          BY <4>3
        <5>2. g[i] = f[i]
          BY <4>3
        <5> HIDE DEF g
        <5> QED BY <2>1, <4>1, <5>1, <5>2
      <4> QED BY <4>2, <4>3
    <3> QED BY <3>1, <3>2
  <2>4. k \in 0..n
    OBVIOUS
  <2> HIDE DEF Goes, g
  <2> QED BY <2>2, <2>3, <2>4
<1>3. n \in P
  <2> HIDE DEF P
  <2> QED BY <1>1, <1>2, NumberInduction
<1> QED BY <1>3 DEF Goings
(* Lists and their members.                                                 *)

\* A list that grows by one has the members it had and that one.
LEMMA AppendMembers ==
  ASSUME NEW T, NEW list \in Seq(T), NEW x \in T
  PROVE  /\ Append(list, x) \in Seq(T) /\ Len(Append(list, x)) = Len(list) + 1
         /\ ToSet(Append(list, x)) = ToSet(list) \cup {x}
         /\ Len(list) \in Nat
<1>1. /\ Append(list, x) \in Seq(T) /\ Len(Append(list, x)) = Len(list) + 1
      /\ \A i \in 1..Len(list) : Append(list, x)[i] = list[i]
      /\ Append(list, x)[Len(list) + 1] = x
      /\ Len(list) \in Nat /\ DOMAIN list = 1..Len(list)
  BY AppendProperties, LenProperties
<1>2. DOMAIN Append(list, x) = 1..Len(list) + 1
  BY <1>1, LenProperties
<1>3. 1..Len(list) + 1 = 1..Len(list) \cup {Len(list) + 1}
  BY <1>1
<1>4. ASSUME NEW y PROVE y \in ToSet(Append(list, x)) <=> y \in ToSet(list) \cup {x}
  BY <1>1, <1>2, <1>3 DEF ToSet
<1> QED BY <1>1, <1>4

\* Two lists together have the members of both.
LEMMA ConcatMembers ==
  ASSUME NEW T, NEW s \in Seq(T), NEW t \in Seq(T)
  PROVE  ToSet(s \o t) = ToSet(s) \cup ToSet(t)
<1>1. /\ s \o t \in Seq(T) /\ Len(s \o t) = Len(s) + Len(t)
      /\ \A i \in 1..Len(s) + Len(t) : (s \o t)[i] = IF i <= Len(s) THEN s[i] ELSE t[i - Len(s)]
      /\ Len(s) \in Nat /\ Len(t) \in Nat
      /\ DOMAIN s = 1..Len(s) /\ DOMAIN t = 1..Len(t) /\ DOMAIN (s \o t) = 1..Len(s) + Len(t)
  BY ConcatProperties, LenProperties
<1>2. ASSUME NEW y \in ToSet(s \o t) PROVE y \in ToSet(s) \cup ToSet(t)
  <2>1. PICK i \in 1..Len(s) + Len(t) : y = (s \o t)[i]
    BY <1>1 DEF ToSet
  <2>2. CASE i <= Len(s)
    BY <1>1, <2>1, <2>2 DEF ToSet
  <2>3. CASE ~ (i <= Len(s))
    <3>1. i - Len(s) \in 1..Len(t)
      BY <1>1, <2>3
    <3> QED BY <1>1, <2>1, <2>3, <3>1 DEF ToSet
  <2> QED BY <2>2, <2>3
<1>3. ASSUME NEW y \in ToSet(s) PROVE y \in ToSet(s \o t)
  <2>1. PICK i \in 1..Len(s) : y = s[i]
    BY <1>1 DEF ToSet
  <2>2. i \in 1..Len(s) + Len(t) /\ i <= Len(s)
    BY <1>1
  <2>3. (s \o t)[i] = y
    BY <1>1, <2>1, <2>2
  <2> QED BY <1>1, <2>2, <2>3 DEF ToSet
<1>4. ASSUME NEW y \in ToSet(t) PROVE y \in ToSet(s \o t)
  <2>1. PICK i \in 1..Len(t) : y = t[i]
    BY <1>1 DEF ToSet
  <2>2. i + Len(s) \in 1..Len(s) + Len(t) /\ ~ (i + Len(s) <= Len(s))
        /\ (i + Len(s)) - Len(s) = i
    BY <1>1
  <2>3. (s \o t)[i + Len(s)] = y
    BY <1>1, <2>1, <2>2
  <2> QED BY <1>1, <2>2, <2>3 DEF ToSet
<1> QED BY <1>2, <1>3, <1>4

\* A list is a list of its members.
LEMMA InSeqOfMembers ==
  ASSUME NEW T, NEW list \in Seq(T)
  PROVE  /\ list \in Seq(ToSet(list)) /\ ToSet(list) \subseteq T
         /\ \A i \in 1..Len(list) : list[i] \in ToSet(list)
<1>1. Len(list) \in Nat /\ DOMAIN list = 1..Len(list) /\ list \in [1..Len(list) -> T]
  BY LenProperties
<1>2. list \in [1..Len(list) -> ToSet(list)]
  BY <1>1 DEF ToSet
<1>3. list \in Seq(ToSet(list))
  BY <1>1, <1>2, SeqDef
<1> QED BY <1>1, <1>3 DEF ToSet

\* It is the same to put the last one to the second list or to both together.
LEMMA ConcatOfAppend ==
  ASSUME NEW T, NEW s \in Seq(T), NEW t \in Seq(T), NEW x \in T
  PROVE  s \o Append(t, x) = Append(s \o t, x)
<1>1. <<x>> \in Seq(T) /\ s \o t \in Seq(T)
  BY ConcatProperties
<1>2. Append(t, x) = t \o <<x>> /\ Append(s \o t, x) = (s \o t) \o <<x>>
  BY <1>1, AppendIsConcat
<1>3. (s \o t) \o <<x>> = s \o (t \o <<x>>)
  BY <1>1, ConcatAssociative
<1> QED BY <1>2, <1>3

\* A list without repetitions stays so exactly when the new one is not in it.
LEMMA InjectiveAppend ==
  ASSUME NEW T, NEW list \in Seq(T), NEW x \in T
  PROVE  IsInjective(Append(list, x)) <=> IsInjective(list) /\ x \notin ToSet(list)
<1> DEFINE n == Len(list)
           more == Append(list, x)
<1>1. /\ n \in Nat /\ DOMAIN list = 1..n /\ DOMAIN more = 1..n + 1
      /\ \A i \in 1..n : more[i] = list[i]
      /\ more[n + 1] = x
  <2>1. more \in Seq(T) /\ Len(more) = n + 1
    BY AppendProperties
  <2> QED BY <2>1, AppendProperties, LenProperties
<1> HIDE DEF n, more
<1>2. 1..n + 1 = 1..n \cup {n + 1} /\ n + 1 \notin 1..n
  BY <1>1
<1>3. ASSUME IsInjective(more) PROVE IsInjective(list) /\ x \notin ToSet(list)
  BY <1>1, <1>2, <1>3 DEF IsInjective, ToSet
<1>4. ASSUME IsInjective(list), x \notin ToSet(list) PROVE IsInjective(more)
  BY <1>1, <1>2, <1>4 DEF IsInjective, ToSet
<1> QED BY <1>3, <1>4 DEF more

-----------------------------------------------------------------------------
(* Kept: Array.filter over a list.                                         *)

\* The equation by which Kept is defined has a solution.
LEMMA KeptEquation ==
  ASSUME NEW T, NEW list \in Seq(T), NEW set
  PROVE  \E f : /\ f = [i \in 0..Len(list) |->
                          IF i = 0 THEN <<>>
                          ELSE IF list[i] \in set THEN Append(f[i - 1], list[i]) ELSE f[i - 1]]
                /\ Kept(list, set) = f[Len(list)]
<1> DEFINE n == Len(list)
           Body(f, i) == IF i = 0 THEN <<>>
                         ELSE IF list[i] \in set THEN Append(f[i - 1], list[i]) ELSE f[i - 1]
           step == [p \in (1..n) \X Seq(T) |->
                      IF list[p[1]] \in set THEN Append(p[2], list[p[1]]) ELSE p[2]]
<1>1. n \in Nat
  BY LenProperties
<1>2. ASSUME NEW i \in 1..n, NEW seq \in Seq(T)
      PROVE  step[<<i, seq>>] = (IF list[i] \in set THEN Append(seq, list[i]) ELSE seq)
  <2>1. <<i, seq>> \in (1..n) \X Seq(T)
    OBVIOUS
  <2> QED BY <2>1
<1>3. ASSUME NEW i \in 1..n, NEW seq \in Seq(T) PROVE step[<<i, seq>>] \in Seq(T)
  <2>1. list[i] \in T
    BY ElementOfSeq
  <2>2. Append(seq, list[i]) \in Seq(T)
    BY <2>1, AppendProperties
  <2> HIDE DEF step
  <2> QED BY <1>2, <2>2
<1>4. PICK f \in [0..n -> Seq(T)] : f[0] = <<>> /\ \A i \in 1..n : f[i] = step[<<i, f[i - 1]>>]
  <2>1. GoesOn(n, Seq(T), step)
    <3> HIDE DEF step, n
    <3> QED BY <1>3 DEF GoesOn
  <2>2. Goings(n, Seq(T), <<>>, step) # {}
    <3> <<>> \in Seq(T)
      OBVIOUS
    <3> HIDE DEF step, n
    <3> QED BY <1>1, <2>1, Recursion
  <2> HIDE DEF step, n
  <2> QED BY <2>2 DEF Goings
<1>5. ASSUME NEW i \in 0..n PROVE f[i] = Body(f, i)
  <2>1. CASE i = 0
    BY <1>4, <2>1
  <2>2. CASE i # 0
    <3>1. i \in 1..n /\ i - 1 \in 0..n
      BY <2>2, <1>1
    <3>2. f[i - 1] \in Seq(T)
      BY <3>1
    <3>3. step[<<i, f[i - 1]>>] = IF list[i] \in set THEN Append(f[i - 1], list[i]) ELSE f[i - 1]
      BY <1>2, <3>1, <3>2
    <3> HIDE DEF step
    <3> QED BY <1>4, <2>2, <3>1, <3>3
  <2> QED BY <2>1, <2>2
<1>6. f = [i \in 0..n |-> Body(f, i)]
  <2>1. f = [i \in 0..n |-> f[i]]
    BY <1>4
  <2> HIDE DEF Body
  <2> QED BY <1>5, <2>1
<1> DEFINE g == CHOOSE h : h = [i \in 0..n |-> Body(h, i)]
<1>7. g = [i \in 0..n |-> Body(g, i)]
  <2> HIDE DEF Body
  <2> QED BY <1>6
<1>8. Kept(list, set) = g[n]
  BY DEF Kept
<1> QED BY <1>7, <1>8

\* Nothing of nothing is kept.
LEMMA KeptEmpty == \A set : Kept(<<>>, set) = <<>>
<1> TAKE set
<1>1. <<>> \in Seq({})
  OBVIOUS
<1>2. PICK f : /\ f = [i \in 0..Len(<<>>) |->
                          IF i = 0 THEN <<>>
                          ELSE IF <<>>[i] \in set THEN Append(f[i - 1], <<>>[i]) ELSE f[i - 1]]
               /\ Kept(<<>>, set) = f[Len(<<>>)]
  BY <1>1, KeptEquation
<1>3. Len(<<>>) = 0 /\ 0 \in 0..0
  OBVIOUS
<1> QED BY <1>2, <1>3

\* Whether the last one is kept depends on the last one only.
LEMMA KeptAppend ==
  ASSUME NEW T, NEW list \in Seq(T), NEW x \in T, NEW set
  PROVE  Kept(Append(list, x), set) =
           IF x \in set THEN Append(Kept(list, set), x) ELSE Kept(list, set)
<1> DEFINE n == Len(list)
           more == Append(list, x)
<1>1. n \in Nat /\ more \in Seq(T) /\ Len(more) = n + 1 /\ more[n + 1] = x
      /\ \A i \in 1..n : more[i] = list[i]
  BY AppendProperties, LenProperties
<1>2. PICK f : /\ f = [i \in 0..n |->
                          IF i = 0 THEN <<>>
                          ELSE IF list[i] \in set THEN Append(f[i - 1], list[i]) ELSE f[i - 1]]
               /\ Kept(list, set) = f[n]
  BY KeptEquation
<1>3. PICK g : /\ g = [i \in 0..Len(more) |->
                          IF i = 0 THEN <<>>
                          ELSE IF more[i] \in set THEN Append(g[i - 1], more[i]) ELSE g[i - 1]]
               /\ Kept(more, set) = g[Len(more)]
  <2> HIDE DEF more
  <2> QED BY <1>1, KeptEquation
<1> DEFINE S == {i \in 0..n : g[i] = f[i]}
<1> HIDE DEF more, n
<1>4. 0 \in S
  BY <1>1, <1>2, <1>3
<1>5. ASSUME NEW i \in 1..n, i - 1 \in S PROVE i \in S
  <2>1. i \in 0..n /\ i \in 0..Len(more) /\ i # 0 /\ g[i - 1] = f[i - 1] /\ more[i] = list[i]
    BY <1>1, <1>5
  <2>2. f[i] = IF list[i] \in set THEN Append(f[i - 1], list[i]) ELSE f[i - 1]
    BY <1>2, <2>1
  <2>3. g[i] = IF more[i] \in set THEN Append(g[i - 1], more[i]) ELSE g[i - 1]
    BY <1>3, <2>1
  <2> QED BY <2>1, <2>2, <2>3
<1>6. n \in S
  <2> HIDE DEF S
  <2>1. \A i \in 0..n : i \in S
    BY <1>1, <1>4, <1>5, NumberInduction
  <2> QED BY <1>1, <2>1
<1>7. n + 1 \in 0..Len(more) /\ n + 1 # 0 /\ (n + 1) - 1 = n
  BY <1>1
<1>8. g[n + 1] = IF more[n + 1] \in set THEN Append(g[(n + 1) - 1], more[n + 1]) ELSE g[(n + 1) - 1]
  BY <1>3, <1>7
<1>9. g[n + 1] = IF x \in set THEN Append(f[n], x) ELSE f[n]
  BY <1>1, <1>6, <1>7, <1>8
<1> QED BY <1>1, <1>2, <1>3, <1>9 DEF more

-----------------------------------------------------------------------------
(* Distinct and Loop: the loops of friend-graph.service.ts.                *)

\* Types of the turns of the loops, friend-graph.service.ts:144-153 and :196-231.
LEMMA AddNewType ==
  ASSUME NEW T, NEW set \in Seq(T), NEW u \in T
  PROVE  AddNew(set, u) \in Seq(T)
BY AppendProperties DEF AddNew

\* The equation by which Distinct is defined has a solution.
LEMMA DistinctEquation ==
  ASSUME NEW T, NEW list \in Seq(T)
  PROVE  \E f : /\ f = [i \in 0..Len(list) |->
                          IF i = 0 THEN <<>> ELSE AddNew(f[i - 1], list[i])]
                /\ Distinct(list) = f[Len(list)]
<1> DEFINE n == Len(list)
           Body(f, i) == IF i = 0 THEN <<>> ELSE AddNew(f[i - 1], list[i])
           step == [p \in (1..n) \X Seq(T) |-> AddNew(p[2], list[p[1]])]
<1>1. n \in Nat /\ <<>> \in Seq(T)
  BY LenProperties
<1>2. ASSUME NEW i \in 1..n, NEW x \in Seq(T)
      PROVE  step[<<i, x>>] = AddNew(x, list[i])
  <2>1. <<i, x>> \in (1..n) \X Seq(T)
    OBVIOUS
  <2> QED BY <2>1
<1>3. ASSUME NEW i \in 1..n, NEW x \in Seq(T) PROVE step[<<i, x>>] \in Seq(T)
  <2>1. list[i] \in T
    BY ElementOfSeq
  <2>2. AddNew(x, list[i]) \in Seq(T)
    BY <2>1, AddNewType
  <2> HIDE DEF step
  <2> QED BY <1>2, <2>2
<1>4. PICK f \in [0..n -> Seq(T)] : f[0] = <<>> /\ \A i \in 1..n : f[i] = step[<<i, f[i - 1]>>]
  <2>1. GoesOn(n, Seq(T), step)
    <3> HIDE DEF step, n
    <3> QED BY <1>3 DEF GoesOn
  <2>2. Goings(n, Seq(T), <<>>, step) # {}
    <3> HIDE DEF step, n
    <3> QED BY <1>1, <2>1, Recursion
  <2> HIDE DEF step, n
  <2> QED BY <2>2 DEF Goings
<1>5. ASSUME NEW i \in 0..n PROVE f[i] = Body(f, i)
  <2>1. CASE i = 0
    BY <1>4, <2>1
  <2>2. CASE i # 0
    <3>1. i \in 1..n /\ i - 1 \in 0..n
      BY <2>2, <1>1
    <3>2. f[i - 1] \in Seq(T)
      BY <3>1
    <3>3. step[<<i, f[i - 1]>>] = AddNew(f[i - 1], list[i])
      BY <1>2, <3>1, <3>2
    <3> HIDE DEF step
    <3> QED BY <1>4, <2>2, <3>1, <3>3
  <2> QED BY <2>1, <2>2
<1>6. f = [i \in 0..n |-> Body(f, i)]
  <2>1. f = [i \in 0..n |-> f[i]]
    BY <1>4
  <2> HIDE DEF Body
  <2> QED BY <1>5, <2>1
<1> DEFINE g == CHOOSE h : h = [i \in 0..n |-> Body(h, i)]
<1>7. g = [i \in 0..n |-> Body(g, i)]
  <2> HIDE DEF Body
  <2> QED BY <1>6
<1>8. Distinct(list) = g[n]
  BY DEF Distinct
<1> QED BY <1>7, <1>8

\* No list has nobody.
LEMMA DistinctEmpty ==
  ASSUME NEW T
  PROVE  Distinct(<<>>) = <<>>
<1>1. <<>> \in Seq(T)
  OBVIOUS
<1>2. PICK f : /\ f = [i \in 0..Len(<<>>) |->
                          IF i = 0 THEN <<>> ELSE AddNew(f[i - 1], <<>>[i])]
               /\ Distinct(<<>>) = f[Len(<<>>)]
  BY <1>1, DistinctEquation
<1>3. Len(<<>>) = 0 /\ 0 \in 0..0
  OBVIOUS
<1> QED BY <1>2, <1>3

\* A list that has one more.
LEMMA DistinctAppend ==
  ASSUME NEW T, NEW list \in Seq(T), NEW x \in T
  PROVE  Distinct(Append(list, x)) = AddNew(Distinct(list), x)
<1> DEFINE n == Len(list)
           more == Append(list, x)
<1>1. n \in Nat /\ more \in Seq(T) /\ Len(more) = n + 1 /\ more[n + 1] = x
      /\ \A i \in 1..n : more[i] = list[i]
  BY AppendProperties, LenProperties
<1>2. PICK f : /\ f = [i \in 0..n |->
                          IF i = 0 THEN <<>> ELSE AddNew(f[i - 1], list[i])]
               /\ Distinct(list) = f[n]
  BY DistinctEquation
<1>3. PICK g : /\ g = [i \in 0..Len(more) |->
                          IF i = 0 THEN <<>> ELSE AddNew(g[i - 1], more[i])]
               /\ Distinct(more) = g[Len(more)]
  <2> HIDE DEF more
  <2> QED BY <1>1, DistinctEquation
<1> DEFINE S == {i \in 0..n : g[i] = f[i]}
<1> HIDE DEF more, n
<1>4. 0 \in S
  BY <1>1, <1>2, <1>3
<1>5. ASSUME NEW i \in 1..n, i - 1 \in S PROVE i \in S
  <2>1. i \in 0..n /\ i \in 0..Len(more) /\ i # 0 /\ g[i - 1] = f[i - 1] /\ more[i] = list[i]
    BY <1>1, <1>5
  <2>2. f[i] = AddNew(f[i - 1], list[i])
    BY <1>2, <2>1
  <2>3. g[i] = AddNew(g[i - 1], more[i])
    BY <1>3, <2>1
  <2> QED BY <2>1, <2>2, <2>3
<1>6. n \in S
  <2> HIDE DEF S
  <2>1. \A i \in 0..n : i \in S
    BY <1>1, <1>4, <1>5, NumberInduction
  <2> QED BY <1>1, <2>1
<1>7. n + 1 \in 0..Len(more) /\ n + 1 # 0 /\ (n + 1) - 1 = n
  BY <1>1
<1>8. g[n + 1] = AddNew(g[(n + 1) - 1], more[n + 1])
  BY <1>3, <1>7
<1>9. g[n + 1] = AddNew(f[n], x)
  BY <1>1, <1>6, <1>7, <1>8
<1> QED BY <1>1, <1>2, <1>3, <1>9 DEF more

\* The states of the loops.
Pages(T) == [skip : Nat, take : Nat, found : Seq(T)]

\* One turn makes a page of a page.
LEMMA VisitType ==
  ASSUME NEW T, NEW page \in Pages(T), NEW u \in T, NEW shown, NEW good
  PROVE  Visit(page, u, shown, good) \in Pages(T)
<1>1. page.skip \in Nat /\ page.take \in Nat /\ page.found \in Seq(T)
  BY DEF Pages
<1>2. page = [skip |-> page.skip, take |-> page.take, found |-> page.found]
  BY DEF Pages
<1>3. Append(page.found, u) \in Seq(T)
  BY <1>1, AppendProperties
<1>4. ASSUME NEW s \in Nat, NEW t \in Nat, NEW f \in Seq(T)
      PROVE  [skip |-> s, take |-> t, found |-> f] \in Pages(T)
  BY DEF Pages
<1>5. CASE u \notin shown
  BY <1>5 DEF Visit
<1>6. CASE u \in shown /\ page.skip > 0
  <2>1. Visit(page, u, shown, good) =
          [skip |-> page.skip - 1, take |-> page.take, found |-> page.found]
    BY <1>2, <1>6 DEF Visit
  <2>2. page.skip - 1 \in Nat
    BY <1>1, <1>6
  <2> QED BY <1>1, <1>4, <2>1, <2>2
<1>7. CASE u \in shown /\ ~ (page.skip > 0) /\ page.take = 0
  BY <1>7 DEF Visit
<1>8. CASE u \in shown /\ ~ (page.skip > 0) /\ page.take # 0
  <2>1. Visit(page, u, shown, good) =
          [skip |-> page.skip, take |-> page.take - 1,
           found |-> IF u \in good THEN Append(page.found, u) ELSE page.found]
    BY <1>2, <1>8 DEF Visit
  <2>2. page.take - 1 \in Nat
    BY <1>1, <1>8
  <2>3. (IF u \in good THEN Append(page.found, u) ELSE page.found) \in Seq(T)
    BY <1>1, <1>3
  <2> QED BY <1>1, <1>4, <2>1, <2>2, <2>3
<1> QED BY <1>5, <1>6, <1>7, <1>8

\* The loops start with a page.
LEMMA FilterType ==
  ASSUME NEW T, NEW skip \in Nat, NEW take \in Nat
  PROVE  Filter(skip, take) \in Pages(T)
BY DEF Filter, Pages

\* The equation by which Loop is defined.
Turns(f, list, shown, good, skip, take) ==
  f = [i \in 0..Len(list) |->
         IF i = 0 THEN Filter(skip, take) ELSE Visit(f[i - 1], list[i], shown, good)]

\* It has a solution.
LEMMA LoopEquation ==
  ASSUME NEW T, NEW list \in Seq(T),
         NEW shown, NEW good, NEW skip \in Nat, NEW take \in Nat
  PROVE  \E f : /\ Turns(f, list, shown, good, skip, take)
                /\ Loop(list, shown, good, skip, take) = f[Len(list)]
<1> DEFINE n == Len(list)
           Body(f, i) == IF i = 0 THEN Filter(skip, take) ELSE Visit(f[i - 1], list[i], shown, good)
           step == [p \in (1..n) \X Pages(T) |-> Visit(p[2], list[p[1]], shown, good)]
<1>1. n \in Nat /\ Filter(skip, take) \in Pages(T)
  BY LenProperties, FilterType
<1>2. ASSUME NEW i \in 1..n, NEW x \in Pages(T)
      PROVE  step[<<i, x>>] = Visit(x, list[i], shown, good)
  <2>1. <<i, x>> \in (1..n) \X Pages(T)
    OBVIOUS
  <2> QED BY <2>1
<1>3. ASSUME NEW i \in 1..n, NEW x \in Pages(T) PROVE step[<<i, x>>] \in Pages(T)
  <2>1. list[i] \in T
    BY ElementOfSeq
  <2>2. Visit(x, list[i], shown, good) \in Pages(T)
    BY <2>1, VisitType
  <2> HIDE DEF step
  <2> QED BY <1>2, <2>2
<1>4. PICK f \in [0..n -> Pages(T)] : f[0] = Filter(skip, take) /\ \A i \in 1..n : f[i] = step[<<i, f[i - 1]>>]
  <2>1. GoesOn(n, Pages(T), step)
    <3> HIDE DEF step, n
    <3> QED BY <1>3 DEF GoesOn
  <2>2. Goings(n, Pages(T), Filter(skip, take), step) # {}
    <3> HIDE DEF step, n
    <3> QED BY <1>1, <2>1, Recursion
  <2> HIDE DEF step, n
  <2> QED BY <2>2 DEF Goings
<1>5. ASSUME NEW i \in 0..n PROVE f[i] = Body(f, i)
  <2>1. CASE i = 0
    BY <1>4, <2>1
  <2>2. CASE i # 0
    <3>1. i \in 1..n /\ i - 1 \in 0..n
      BY <2>2, <1>1
    <3>2. f[i - 1] \in Pages(T)
      BY <3>1
    <3>3. step[<<i, f[i - 1]>>] = Visit(f[i - 1], list[i], shown, good)
      BY <1>2, <3>1, <3>2
    <3> HIDE DEF step
    <3> QED BY <1>4, <2>2, <3>1, <3>3
  <2> QED BY <2>1, <2>2
<1>6. f = [i \in 0..n |-> Body(f, i)]
  <2>1. f = [i \in 0..n |-> f[i]]
    BY <1>4
  <2> HIDE DEF Body
  <2> QED BY <1>5, <2>1
<1> DEFINE g == CHOOSE h : h = [i \in 0..n |-> Body(h, i)]
<1>7. g = [i \in 0..n |-> Body(g, i)]
  <2> HIDE DEF Body
  <2> QED BY <1>6
<1>8. Loop(list, shown, good, skip, take) = g[n]
  BY DEF Loop
<1> QED BY <1>7, <1>8 DEF Turns

\* The loop over nobody.
LEMMA LoopEmpty ==
  ASSUME NEW T,
         NEW shown, NEW good, NEW skip \in Nat, NEW take \in Nat
  PROVE  Loop(<<>>, shown, good, skip, take) = Filter(skip, take)
<1>1. <<>> \in Seq(T)
  OBVIOUS
<1>2. PICK f : /\ Turns(f, <<>>, shown, good, skip, take)
               /\ Loop(<<>>, shown, good, skip, take) = f[Len(<<>>)]
  <2> DEFINE none == <<>>
  <2> HIDE DEF none
  <2>1. none \in Seq(T)
    BY <1>1 DEF none
  <2>2. \E f : /\ Turns(f, none, shown, good, skip, take)
               /\ Loop(none, shown, good, skip, take) = f[Len(none)]
    BY <2>1, LoopEquation
  <2> QED BY <2>2 DEF none
<1>3. Len(<<>>) = 0 /\ 0 \in 0..0
  OBVIOUS
<1> QED BY <1>2, <1>3 DEF Turns

\* The last turn of the loop.
LEMMA LoopAppend ==
  ASSUME NEW T, NEW list \in Seq(T), NEW x \in T,
         NEW shown, NEW good, NEW skip \in Nat, NEW take \in Nat
  PROVE  Loop(Append(list, x), shown, good, skip, take) =
           Visit(Loop(list, shown, good, skip, take), x, shown, good)
<1> DEFINE n == Len(list)
           more == Append(list, x)
<1>1. n \in Nat /\ more \in Seq(T) /\ Len(more) = n + 1 /\ more[n + 1] = x
      /\ \A i \in 1..n : more[i] = list[i]
  BY AppendProperties, LenProperties
<1>2. PICK f : /\ Turns(f, list, shown, good, skip, take)
               /\ Loop(list, shown, good, skip, take) = f[n]
  BY LoopEquation
<1>3. PICK g : /\ Turns(g, more, shown, good, skip, take)
               /\ Loop(more, shown, good, skip, take) = g[Len(more)]
  <2> HIDE DEF more
  <2> QED BY <1>1, LoopEquation
<1> DEFINE S == {i \in 0..n : g[i] = f[i]}
<1> HIDE DEF more, n
<1>4. 0 \in S
  BY <1>1, <1>2, <1>3 DEF Turns, n
<1>5. ASSUME NEW i \in 1..n, i - 1 \in S PROVE i \in S
  <2>1. i \in 0..n /\ i \in 0..Len(more) /\ i # 0 /\ g[i - 1] = f[i - 1] /\ more[i] = list[i]
    BY <1>1, <1>5
  <2>2. f[i] = Visit(f[i - 1], list[i], shown, good)
    BY <1>2, <2>1 DEF Turns, n
  <2>3. g[i] = Visit(g[i - 1], more[i], shown, good)
    BY <1>3, <2>1 DEF Turns
  <2> QED BY <2>1, <2>2, <2>3
<1>6. n \in S
  <2> HIDE DEF S
  <2>1. \A i \in 0..n : i \in S
    BY <1>1, <1>4, <1>5, NumberInduction
  <2> QED BY <1>1, <2>1
<1>7. n + 1 \in 0..Len(more) /\ n + 1 # 0 /\ (n + 1) - 1 = n
  BY <1>1
<1>8. g[n + 1] = Visit(g[(n + 1) - 1], more[n + 1], shown, good)
  BY <1>3, <1>7 DEF Turns
<1>9. g[n + 1] = Visit(f[n], x, shown, good)
  BY <1>1, <1>6, <1>7, <1>8
<1> QED BY <1>1, <1>2, <1>3, <1>9 DEF more

-----------------------------------------------------------------------------
(* Lists of lists.                                                         *)

\* The equation by which FlattenSeq is defined.
Joins(f, seqs) ==
  f = [i \in 1..Len(seqs) |-> IF i = 1 THEN seqs[i] ELSE f[i - 1] \o seqs[i]]

\* It has a solution.
LEMMA FlattenEquation ==
  ASSUME NEW T, NEW seqs \in Seq(Seq(T)), Len(seqs) # 0
  PROVE  \E f : Joins(f, seqs) /\ FlattenSeq(seqs) = f[Len(seqs)]
<1> DEFINE n == Len(seqs)
           Body(f, i) == IF i = 1 THEN seqs[i] ELSE f[i - 1] \o seqs[i]
           step == [p \in (1..n) \X Seq(T) |-> p[2] \o seqs[p[1]]]
<1>1. n \in Nat \ {0} /\ <<>> \in Seq(T)
  BY LenProperties
<1>2. ASSUME NEW i \in 1..n, NEW x \in Seq(T) PROVE step[<<i, x>>] = x \o seqs[i]
  <2>1. <<i, x>> \in (1..n) \X Seq(T)
    OBVIOUS
  <2> QED BY <2>1
<1>3. \A i \in 1..n : seqs[i] \in Seq(T)
  BY ElementOfSeq
<1>4. ASSUME NEW i \in 1..n, NEW x \in Seq(T) PROVE step[<<i, x>>] \in Seq(T)
  <2>1. x \o seqs[i] \in Seq(T)
    BY <1>3, ConcatProperties
  <2> HIDE DEF step
  <2> QED BY <1>2, <2>1
<1>5. PICK h \in [0..n -> Seq(T)] : h[0] = <<>> /\ \A i \in 1..n : h[i] = step[<<i, h[i - 1]>>]
  <2>1. GoesOn(n, Seq(T), step)
    <3> HIDE DEF step, n
    <3> QED BY <1>4 DEF GoesOn
  <2>2. Goings(n, Seq(T), <<>>, step) # {}
    <3> HIDE DEF step, n
    <3> QED BY <1>1, <2>1, Recursion
  <2> HIDE DEF step, n
  <2> QED BY <2>2 DEF Goings
<1> DEFINE f == [i \in 1..n |-> h[i]]
<1>6. ASSUME NEW i \in 1..n PROVE f[i] = Body(f, i)
  <2>1. i - 1 \in 0..n /\ h[i - 1] \in Seq(T)
    <3>1. i - 1 \in 0..n
      BY <1>1
    <3> QED BY <3>1
  <2>2. h[i] = h[i - 1] \o seqs[i]
    <3> HIDE DEF step
    <3> QED BY <1>2, <1>5, <2>1
  <2>3. CASE i = 1
    <3>1. h[0] \o seqs[1] = seqs[1]
      BY <1>3, <1>5, <2>3, ConcatEmptySeq
    <3>2. f[1] = h[1] /\ h[1 - 1] = h[0]
      BY <2>3
    <3> HIDE DEF f
    <3> QED BY <2>2, <2>3, <3>1, <3>2
  <2>4. CASE i # 1
    <3>1. i - 1 \in 1..n
      BY <1>1, <2>4
    <3>2. f[i - 1] = h[i - 1] /\ f[i] = h[i]
      BY <3>1
    <3> HIDE DEF f
    <3> QED BY <2>2, <2>4, <3>2
  <2> QED BY <2>3, <2>4
<1>7. f = [i \in 1..n |-> Body(f, i)]
  <2>1. f = [i \in 1..n |-> f[i]]
    OBVIOUS
  <2> HIDE DEF Body, f
  <2> QED BY <1>6, <2>1
<1> DEFINE g == CHOOSE k : k = [i \in 1..n |-> Body(k, i)]
<1>8. g = [i \in 1..n |-> Body(g, i)]
  <2> HIDE DEF Body, f
  <2> QED BY <1>7
<1>9. FlattenSeq(seqs) = g[n]
  BY <1>1 DEF FlattenSeq
<1> QED BY <1>8, <1>9 DEF Joins

\* No lists together are an empty one.
LEMMA FlattenEmpty == FlattenSeq(<<>>) = <<>>
BY DEF FlattenSeq

\* A further list comes after the others.
LEMMA FlattenAppend ==
  ASSUME NEW T, NEW seqs \in Seq(Seq(T)), NEW seq \in Seq(T)
  PROVE  /\ FlattenSeq(Append(seqs, seq)) = FlattenSeq(seqs) \o seq
         /\ FlattenSeq(seqs) \in Seq(T)
<1> DEFINE n == Len(seqs)
           more == Append(seqs, seq)
<1>1. n \in Nat /\ more \in Seq(Seq(T)) /\ Len(more) = n + 1 /\ more[n + 1] = seq
      /\ \A i \in 1..n : more[i] = seqs[i] /\ seqs[i] \in Seq(T)
  BY AppendProperties, LenProperties, ElementOfSeq
<1>2. PICK g : Joins(g, more) /\ FlattenSeq(more) = g[Len(more)]
  <2> HIDE DEF more
  <2>1. Len(more) # 0
    BY <1>1
  <2> QED BY <1>1, <2>1, FlattenEquation
<1> HIDE DEF more
<1>3. CASE n = 0
  <2>1. g[1] = more[1]
    BY <1>1, <1>2, <1>3 DEF Joins
  <2>2. FlattenSeq(more) = seq
    BY <1>1, <1>2, <1>3, <2>1
  <2>3. seqs = <<>>
    BY <1>3
  <2>4. FlattenSeq(seqs) = <<>> /\ <<>> \o seq = seq /\ <<>> \in Seq(T)
    BY <2>3, FlattenEmpty, ConcatEmptySeq
  <2> QED BY <2>2, <2>4 DEF more
<1>4. CASE n # 0
  <2>1. PICK f : Joins(f, seqs) /\ FlattenSeq(seqs) = f[n]
    BY <1>4, FlattenEquation
  <2> DEFINE S == {i \in 0..n : i = 0 \/ (g[i] = f[i] /\ f[i] \in Seq(T))}
  <2> HIDE DEF n
  <2>2. 0 \in S
    BY <1>1
  <2>3. ASSUME NEW i \in 1..n, i - 1 \in S PROVE i \in S
    <3>1. i \in 0..n /\ i \in 1..Len(more) /\ i \in 1..Len(seqs) /\ more[i] = seqs[i]
          /\ seqs[i] \in Seq(T)
      BY <1>1 DEF n
    <3>2. f[i] = IF i = 1 THEN seqs[i] ELSE f[i - 1] \o seqs[i]
      BY <2>1, <3>1 DEF Joins
    <3>3. g[i] = IF i = 1 THEN more[i] ELSE g[i - 1] \o more[i]
      BY <1>2, <3>1 DEF Joins
    <3>4. CASE i = 1
      BY <3>1, <3>2, <3>3, <3>4
    <3>5. CASE i # 1
      <4>1. g[i - 1] = f[i - 1] /\ f[i - 1] \in Seq(T)
        BY <2>3, <3>5
      <4>2. f[i - 1] \o seqs[i] \in Seq(T)
        BY <3>1, <4>1, ConcatProperties
      <4> QED BY <3>1, <3>2, <3>3, <3>5, <4>1, <4>2
    <3> QED BY <3>4, <3>5
  <2>4. n \in S
    <3> HIDE DEF S
    <3>1. \A i \in 0..n : i \in S
      BY <1>1, <2>2, <2>3, NumberInduction
    <3> QED BY <1>1, <3>1
  <2>5. g[n] = f[n] /\ f[n] \in Seq(T)
    BY <1>4, <2>4
  <2>6. n + 1 \in 1..Len(more) /\ n + 1 # 1 /\ (n + 1) - 1 = n
    BY <1>1, <1>4
  <2>7. g[n + 1] = IF n + 1 = 1 THEN more[n + 1] ELSE g[(n + 1) - 1] \o more[n + 1]
    BY <1>2, <2>6 DEF Joins
  <2>8. g[n + 1] = f[n] \o seq
    BY <1>1, <2>5, <2>6, <2>7
  <2> QED BY <1>1, <1>2, <2>1, <2>5, <2>8 DEF more
<1> QED BY <1>3, <1>4

-----------------------------------------------------------------------------
(* What is kept of a list.                                                 *)

\* What Kept keeps: the members that are in the set.
LEMMA KeptType ==
  ASSUME NEW T, NEW list \in Seq(T), NEW set
  PROVE  /\ Kept(list, set) \in Seq(T)
         /\ ToSet(Kept(list, set)) = ToSet(list) \cap set
         /\ Len(Kept(list, set)) <= Len(list)
         /\ Kept(list, set) \in Seq(ToSet(list) \cap set)
<1> DEFINE P(l) == /\ Kept(l, set) \in Seq(T)
                   /\ ToSet(Kept(l, set)) = ToSet(l) \cap set
                   /\ Len(Kept(l, set)) <= Len(l)
<1>1. P(<<>>)
  <2>1. ToSet(<<>>) = {}
    BY DEF ToSet
  <2>2. Len(<<>>) = 0 /\ <<>> \in Seq(T)
    OBVIOUS
  <2>3. Kept(<<>>, set) = <<>>
    BY KeptEmpty
  <2>4. /\ <<>> \in Seq(T)
        /\ ToSet(<<>>) = ToSet(<<>>) \cap set
        /\ Len(<<>>) <= Len(<<>>)
    BY <2>1, <2>2
  <2> QED BY <2>3, <2>4
<1>2. ASSUME NEW l \in Seq(T), NEW x \in T, P(l) PROVE P(Append(l, x))
  <2>1. /\ Append(l, x) \in Seq(T) /\ Len(Append(l, x)) = Len(l) + 1
        /\ ToSet(Append(l, x)) = ToSet(l) \cup {x}
        /\ Len(l) \in Nat
    BY AppendMembers
  <2>2. CASE x \in set
    <3>1. Kept(Append(l, x), set) = Append(Kept(l, set), x)
      BY <2>2, KeptAppend
    <3>2. /\ Append(Kept(l, set), x) \in Seq(T)
          /\ Len(Append(Kept(l, set), x)) = Len(Kept(l, set)) + 1
          /\ ToSet(Append(Kept(l, set), x)) = ToSet(Kept(l, set)) \cup {x}
          /\ Len(Kept(l, set)) \in Nat
      BY <1>2, AppendMembers
    <3>3. Len(Append(Kept(l, set), x)) <= Len(Append(l, x))
      BY <1>2, <2>1, <3>2
    <3>4. ToSet(Append(Kept(l, set), x)) = ToSet(Append(l, x)) \cap set
      BY <1>2, <2>1, <2>2, <3>2
    <3> QED BY <3>1, <3>2, <3>3, <3>4
  <2>3. CASE x \notin set
    <3>1. Kept(Append(l, x), set) = Kept(l, set)
      BY <2>3, KeptAppend
    <3>2. Len(Kept(l, set)) \in Nat
      BY <1>2, LenProperties
    <3>3. Len(Kept(l, set)) <= Len(Append(l, x))
      BY <1>2, <2>1, <3>2
    <3>4. ToSet(Kept(l, set)) = ToSet(Append(l, x)) \cap set
      BY <1>2, <2>1, <2>3
    <3> QED BY <1>2, <3>1, <3>3, <3>4
  <2> QED BY <2>2, <2>3
<1>3. \A l \in Seq(T) : P(l)
  <2> DEFINE S == {l \in Seq(T) : P(l)}
  <2> HIDE DEF P
  <2>1. <<>> \in S
    BY <1>1, EmptySeq
  <2>2. \A l \in Seq(T), x \in T : l \in S => Append(l, x) \in S
    BY <1>2, AppendMembers
  <2>3. Seq(T) \subseteq S
    <3> HIDE DEF S
    <3> QED BY <2>1, <2>2, ListInduction
  <2> QED BY <2>3
<1>4. P(list)
  <2> HIDE DEF P
  <2> QED BY <1>3
<1>5. Kept(list, set) \in Seq(ToSet(Kept(list, set)))
  BY <1>4, InSeqOfMembers
<1> QED BY <1>4, <1>5

\* A list is kept whole by a set that has all its members.
LEMMA KeptAll ==
  ASSUME NEW T, NEW list \in Seq(T), NEW set, ToSet(list) \subseteq set
  PROVE  Kept(list, set) = list
<1> DEFINE P(l) == ToSet(l) \subseteq set => Kept(l, set) = l
<1>1. P(<<>>)
  BY KeptEmpty
<1>2. ASSUME NEW l \in Seq(T), NEW x \in T, P(l) PROVE P(Append(l, x))
  <2>1. ToSet(Append(l, x)) = ToSet(l) \cup {x}
    BY AppendMembers
  <2>2. x \in set => Kept(Append(l, x), set) = Append(Kept(l, set), x)
    BY KeptAppend
  <2> QED BY <1>2, <2>1, <2>2
<1>3. \A l \in Seq(T) : P(l)
  <2> DEFINE S == {l \in Seq(T) : P(l)}
  <2> HIDE DEF P
  <2>1. <<>> \in S
    BY <1>1, EmptySeq
  <2>2. \A l \in Seq(T), x \in T : l \in S => Append(l, x) \in S
    BY <1>2, AppendMembers
  <2>3. Seq(T) \subseteq S
    <3> HIDE DEF S
    <3> QED BY <2>1, <2>2, ListInduction
  <2> QED BY <2>3
<1> QED BY <1>3

\* Keeping and keeping again.
LEMMA KeptTwice ==
  ASSUME NEW T, NEW list \in Seq(T), NEW A, NEW B
  PROVE  Kept(Kept(list, A), B) = Kept(list, A \cap B)
<1> DEFINE P(l) == Kept(Kept(l, A), B) = Kept(l, A \cap B)
<1>1. P(<<>>)
  <2>1. \A set : Kept(<<>>, set) = <<>>
    BY KeptEmpty
  <2> QED BY <2>1
<1>2. ASSUME NEW l \in Seq(T), NEW x \in T, P(l) PROVE P(Append(l, x))
  <2>1. Kept(l, A) \in Seq(T)
    BY KeptType
  <2>2. /\ x \in A => Kept(Append(l, x), A) = Append(Kept(l, A), x)
        /\ x \notin A => Kept(Append(l, x), A) = Kept(l, A)
    BY KeptAppend
  <2>3. /\ x \in B => Kept(Append(Kept(l, A), x), B) = Append(Kept(Kept(l, A), B), x)
        /\ x \notin B => Kept(Append(Kept(l, A), x), B) = Kept(Kept(l, A), B)
    BY <2>1, KeptAppend
  <2> DEFINE C == A \cap B
  <2>4. /\ x \in C => Kept(Append(l, x), C) = Append(Kept(l, C), x)
        /\ x \notin C => Kept(Append(l, x), C) = Kept(l, C)
    <3> HIDE DEF C
    <3> QED BY KeptAppend
  <2>5. CASE x \in A /\ x \in B
    BY <1>2, <2>2, <2>3, <2>4, <2>5
  <2>6. CASE x \in A /\ x \notin B
    BY <1>2, <2>2, <2>3, <2>4, <2>6
  <2>7. CASE x \notin A
    BY <1>2, <2>2, <2>4, <2>7
  <2> QED BY <2>5, <2>6, <2>7
<1>3. \A l \in Seq(T) : P(l)
  <2> DEFINE S == {l \in Seq(T) : P(l)}
  <2> HIDE DEF P
  <2>1. <<>> \in S
    BY <1>1, EmptySeq
  <2>2. \A l \in Seq(T), x \in T : l \in S => Append(l, x) \in S
    BY <1>2, AppendMembers
  <2>3. Seq(T) \subseteq S
    <3> HIDE DEF S
    <3> QED BY <2>1, <2>2, ListInduction
  <2> QED BY <2>3
<1> QED BY <1>3

\* What is kept of two lists one after the other.
LEMMA KeptConcat ==
  ASSUME NEW T, NEW s \in Seq(T), NEW list \in Seq(T), NEW set
  PROVE  Kept(s \o list, set) = Kept(s, set) \o Kept(list, set)
<1> DEFINE P(l) == Kept(s \o l, set) = Kept(s, set) \o Kept(l, set)
<1>0. Kept(s, set) \in Seq(T)
  BY KeptType
<1>1. P(<<>>)
  <2>1. s \o <<>> = s /\ Kept(s, set) \o <<>> = Kept(s, set)
    BY <1>0, ConcatEmptySeq
  <2>2. Kept(<<>>, set) = <<>>
    BY KeptEmpty
  <2> QED BY <2>1, <2>2
<1>2. ASSUME NEW l \in Seq(T), NEW x \in T, P(l) PROVE P(Append(l, x))
  <2>1. s \o l \in Seq(T) /\ Kept(l, set) \in Seq(T)
    BY ConcatProperties, KeptType
  <2>2. s \o Append(l, x) = Append(s \o l, x)
    BY ConcatOfAppend
  <2>3. Kept(s, set) \o Append(Kept(l, set), x) = Append(Kept(s, set) \o Kept(l, set), x)
    BY <1>0, <2>1, ConcatOfAppend
  <2> DEFINE sl == s \o l
  <2>4. /\ x \in set => Kept(Append(sl, x), set) = Append(Kept(sl, set), x)
        /\ x \notin set => Kept(Append(sl, x), set) = Kept(sl, set)
    <3>1. sl \in Seq(T)
      BY <2>1
    <3> HIDE DEF sl
    <3> QED BY <3>1, KeptAppend
  <2>5. /\ x \in set => Kept(Append(l, x), set) = Append(Kept(l, set), x)
        /\ x \notin set => Kept(Append(l, x), set) = Kept(l, set)
    BY KeptAppend
  <2> QED BY <1>2, <2>2, <2>3, <2>4, <2>5
<1>3. \A l \in Seq(T) : P(l)
  <2> DEFINE S == {l \in Seq(T) : P(l)}
  <2> HIDE DEF P
  <2>1. <<>> \in S
    BY <1>1, EmptySeq
  <2>2. \A l \in Seq(T), x \in T : l \in S => Append(l, x) \in S
    BY <1>2, AppendMembers
  <2>3. Seq(T) \subseteq S
    <3> HIDE DEF S
    <3> QED BY <2>1, <2>2, ListInduction
  <2> QED BY <2>3
<1> QED BY <1>3

\* What is kept of a list in which everybody is once has everybody once.
LEMMA KeptInjective ==
  ASSUME NEW T, NEW list \in Seq(T), NEW set, IsInjective(list)
  PROVE  IsInjective(Kept(list, set))
<1> DEFINE P(l) == IsInjective(l) => IsInjective(Kept(l, set))
<1>1. P(<<>>)
  BY KeptEmpty
<1>2. ASSUME NEW l \in Seq(T), NEW x \in T, P(l) PROVE P(Append(l, x))
  <2> SUFFICES ASSUME IsInjective(Append(l, x)) PROVE IsInjective(Kept(Append(l, x), set))
    OBVIOUS
  <2>1. IsInjective(l) /\ x \notin ToSet(l)
    BY InjectiveAppend
  <2>2. Kept(l, set) \in Seq(T) /\ ToSet(Kept(l, set)) \subseteq ToSet(l)
    <3>1. Kept(l, set) \in Seq(T) /\ ToSet(Kept(l, set)) = ToSet(l) \cap set
      BY KeptType
    <3> QED BY <3>1
  <2>3. IsInjective(Append(Kept(l, set), x))
    BY <1>2, <2>1, <2>2, InjectiveAppend
  <2>4. /\ x \in set => Kept(Append(l, x), set) = Append(Kept(l, set), x)
        /\ x \notin set => Kept(Append(l, x), set) = Kept(l, set)
    BY KeptAppend
  <2> QED BY <1>2, <2>1, <2>3, <2>4
<1>3. \A l \in Seq(T) : P(l)
  <2> DEFINE S == {l \in Seq(T) : P(l)}
  <2> HIDE DEF P
  <2>1. <<>> \in S
    BY <1>1, EmptySeq
  <2>2. \A l \in Seq(T), x \in T : l \in S => Append(l, x) \in S
    BY <1>2, AppendMembers
  <2>3. Seq(T) \subseteq S
    <3> HIDE DEF S
    <3> QED BY <2>1, <2>2, ListInduction
  <2> QED BY <2>3
<1> QED BY <1>3

\* Nobody is kept at a later place than before.
LEMMA KeptMovesLeft ==
  ASSUME NEW T, NEW list \in Seq(T), NEW set, NEW k \in 1..Len(list), list[k] \in set
  PROVE  \E j \in 1..Len(Kept(list, set)) : j <= k /\ Kept(list, set)[j] = list[k]
<1> DEFINE P(l) == \A m \in 1..Len(l) : l[m] \in set =>
                     \E j \in 1..Len(Kept(l, set)) : j <= m /\ Kept(l, set)[j] = l[m]
<1>1. P(<<>>)
  OBVIOUS
<1>2. ASSUME NEW l \in Seq(T), NEW x \in T, P(l) PROVE P(Append(l, x))
  <2> SUFFICES ASSUME NEW m \in 1..Len(Append(l, x)), Append(l, x)[m] \in set
               PROVE  \E j \in 1..Len(Kept(Append(l, x), set)) :
                        j <= m /\ Kept(Append(l, x), set)[j] = Append(l, x)[m]
    OBVIOUS
  <2> DEFINE K == Kept(l, set)
  <2>1. /\ K \in Seq(T) /\ Len(K) <= Len(l) /\ Len(K) \in Nat /\ Len(l) \in Nat
        /\ Len(Append(l, x)) = Len(l) + 1 /\ Append(l, x)[Len(l) + 1] = x
        /\ \A i \in 1..Len(l) : Append(l, x)[i] = l[i]
    <3>1. K \in Seq(T) /\ Len(K) <= Len(l)
      BY KeptType
    <3>2. /\ Len(Append(l, x)) = Len(l) + 1 /\ Append(l, x)[Len(l) + 1] = x
          /\ \A i \in 1..Len(l) : Append(l, x)[i] = l[i]
      BY AppendProperties
    <3> HIDE DEF K
    <3> QED BY <3>1, <3>2, LenProperties
  <2>2. /\ Len(Append(K, x)) = Len(K) + 1 /\ Append(K, x)[Len(K) + 1] = x
        /\ \A i \in 1..Len(K) : Append(K, x)[i] = K[i]
    BY <2>1, AppendProperties
  <2>3. /\ x \in set => Kept(Append(l, x), set) = Append(K, x)
        /\ x \notin set => Kept(Append(l, x), set) = K
    BY KeptAppend
  <2> HIDE DEF K
  <2>4. CASE m = Len(l) + 1
    <3>1. Kept(Append(l, x), set) = Append(K, x)
      BY <2>1, <2>3, <2>4
    <3>2. Len(K) + 1 \in 1..Len(Append(K, x)) /\ Len(K) + 1 <= m
      BY <2>1, <2>2, <2>4
    <3> QED BY <2>1, <2>2, <2>4, <3>1, <3>2
  <2>5. CASE m # Len(l) + 1
    <3>1. m \in 1..Len(l) /\ l[m] \in set /\ Append(l, x)[m] = l[m]
      BY <2>1, <2>5
    <3>2. PICK j \in 1..Len(K) : j <= m /\ K[j] = l[m]
      BY <1>2, <3>1 DEF K
    <3>3. Append(K, x)[j] = K[j] /\ j \in 1..Len(Append(K, x))
      BY <2>1, <2>2
    <3> QED BY <2>3, <3>1, <3>2, <3>3
  <2> QED BY <2>4, <2>5
<1>3. \A l \in Seq(T) : P(l)
  <2> DEFINE S == {l \in Seq(T) : P(l)}
  <2> HIDE DEF P
  <2>1. <<>> \in S
    BY <1>1, EmptySeq
  <2>2. \A l \in Seq(T), x \in T : l \in S => Append(l, x) \in S
    BY <1>2, AppendMembers
  <2>3. Seq(T) \subseteq S
    <3> HIDE DEF S
    <3> QED BY <2>1, <2>2, ListInduction
  <2> QED BY <2>3
<1> QED BY <1>3

\* The beginning of a list is kept by a set that has it all.
LEMMA KeptBeginning ==
  ASSUME NEW T, NEW list \in Seq(T), NEW set, NEW k \in 1..Len(list),
         \A i \in 1..k : list[i] \in set
  PROVE  k <= Len(Kept(list, set)) /\ \A i \in 1..k : Kept(list, set)[i] = list[i]
<1> DEFINE P(l) == \A m \in 1..Len(l) : (\A i \in 1..m : l[i] \in set) =>
                     m <= Len(Kept(l, set)) /\ \A i \in 1..m : Kept(l, set)[i] = l[i]
<1>1. P(<<>>)
  OBVIOUS
<1>2. ASSUME NEW l \in Seq(T), NEW x \in T, P(l) PROVE P(Append(l, x))
  <2> SUFFICES ASSUME NEW m \in 1..Len(Append(l, x)), \A i \in 1..m : Append(l, x)[i] \in set
               PROVE  /\ m <= Len(Kept(Append(l, x), set))
                      /\ \A i \in 1..m : Kept(Append(l, x), set)[i] = Append(l, x)[i]
    OBVIOUS
  <2> DEFINE K == Kept(l, set)
  <2>1. /\ K \in Seq(T) /\ Len(K) <= Len(l) /\ Len(K) \in Nat /\ Len(l) \in Nat
        /\ Len(Append(l, x)) = Len(l) + 1 /\ Append(l, x)[Len(l) + 1] = x
        /\ \A i \in 1..Len(l) : Append(l, x)[i] = l[i]
    <3>1. K \in Seq(T) /\ Len(K) <= Len(l)
      BY KeptType
    <3>2. /\ Len(Append(l, x)) = Len(l) + 1 /\ Append(l, x)[Len(l) + 1] = x
          /\ \A i \in 1..Len(l) : Append(l, x)[i] = l[i]
      BY AppendProperties
    <3> HIDE DEF K
    <3> QED BY <3>1, <3>2, LenProperties
  <2>2. /\ Len(Append(K, x)) = Len(K) + 1 /\ Append(K, x)[Len(K) + 1] = x
        /\ \A i \in 1..Len(K) : Append(K, x)[i] = K[i]
    BY <2>1, AppendProperties
  <2>3. /\ x \in set => Kept(Append(l, x), set) = Append(K, x)
        /\ x \notin set => Kept(Append(l, x), set) = K
    BY KeptAppend
  <2>4. CASE m = Len(l) + 1
    <3>1. Append(l, x)[m] \in set /\ x \in set
      BY <2>1, <2>4
    <3>2. \A i \in 1..Len(l) : l[i] \in set
      BY <2>1, <2>4
    <3>3. K = l
      <4>1. ToSet(l) \subseteq set
        BY <3>2, LenProperties DEF ToSet
      <4> QED BY <4>1, KeptAll
    <3> QED BY <2>1, <2>3, <2>4, <3>1, <3>3
  <2>5. CASE m # Len(l) + 1
    <3>1. m \in 1..Len(l) /\ \A i \in 1..m : i \in 1..Len(l) /\ Append(l, x)[i] = l[i]
      BY <2>1, <2>5
    <3>2. m <= Len(K) /\ \A i \in 1..m : K[i] = l[i]
      BY <1>2, <3>1
    <3>3. m <= Len(Append(K, x)) /\ \A i \in 1..m : Append(K, x)[i] = l[i]
      <4> HIDE DEF K
      <4>1. \A i \in 1..m : i \in 1..Len(K)
        BY <2>1, <3>1, <3>2
      <4>2. m <= Len(K) + 1
        BY <2>1, <3>1, <3>2
      <4> QED BY <2>2, <3>2, <4>1, <4>2
    <3> HIDE DEF K
    <3> QED BY <2>3, <3>1, <3>2, <3>3
  <2> QED BY <2>4, <2>5
<1>3. \A l \in Seq(T) : P(l)
  <2> DEFINE S == {l \in Seq(T) : P(l)}
  <2> HIDE DEF P
  <2>1. <<>> \in S
    BY <1>1, EmptySeq
  <2>2. \A l \in Seq(T), x \in T : l \in S => Append(l, x) \in S
    BY <1>2, AppendMembers
  <2>3. Seq(T) \subseteq S
    <3> HIDE DEF S
    <3> QED BY <2>1, <2>2, ListInduction
  <2> QED BY <2>3
<1> QED BY <1>3

-----------------------------------------------------------------------------
(* Pages, and the loops that fill them.                                    *)

\* The members of a page and their places.
LEMMA PageMembers ==
  ASSUME NEW T, NEW list \in Seq(T), NEW skip \in Nat, NEW take \in Nat
  PROVE  /\ PageOf(list, skip, take) \in Seq(T)
         /\ Upto(skip + take, list) \in 0..Len(list)
         /\ Len(PageOf(list, skip, take)) =
              IF Upto(skip + take, list) < skip THEN 0 ELSE Upto(skip + take, list) - skip
         /\ \A i \in 1..Len(PageOf(list, skip, take)) :
              /\ skip + i \in 1..Len(list)
              /\ PageOf(list, skip, take)[i] = list[skip + i]
<1> DEFINE n == Upto(skip + take, list)
           page == PageOf(list, skip, take)
<1>1. n \in 0..Len(list) /\ Len(list) \in Nat
  BY LenProperties DEF Upto
<1>2. page = SubSeq(list, skip + 1, n)
  BY DEF PageOf
<1> HIDE DEF n
<1>3. \A i \in skip + 1..n : list[i] \in T
  <2>1. ASSUME NEW i \in skip + 1..n PROVE list[i] \in T
    <3>1. i \in 1..Len(list)
      BY <1>1
    <3> QED BY <3>1, ElementOfSeq
  <2> QED BY <2>1
<1> HIDE DEF page
<1>4. /\ page \in Seq(T)
      /\ Len(page) = IF skip + 1 <= n THEN n - (skip + 1) + 1 ELSE 0
      /\ \A i \in 1..n - (skip + 1) + 1 : page[i] = list[skip + 1 + i - 1]
  <2>1. skip + 1 \in Int /\ n \in Int
    BY <1>1
  <2> QED BY <1>2, <1>3, <2>1, SubSeqProperties
<1>5. Len(page) = IF n < skip THEN 0 ELSE n - skip
  BY <1>1, <1>4
<1>6. ASSUME NEW i \in 1..Len(page) PROVE skip + i \in 1..Len(list) /\ page[i] = list[skip + i]
  <2>1. i \in 1..n - (skip + 1) + 1 /\ skip + 1 + i - 1 = skip + i /\ skip + i \in 1..Len(list)
    BY <1>1, <1>5
  <2> QED BY <1>4, <2>1
<1> QED BY <1>1, <1>4, <1>5, <1>6 DEF n, page

\* There is nobody in the pages behind the list.
LEMMA PageBehind ==
  ASSUME NEW T, NEW list \in Seq(T), NEW skip \in Nat, NEW take \in Nat, Len(list) <= skip
  PROVE  PageOf(list, skip, take) = <<>>
<1>1. Len(list) \in Nat
  BY LenProperties
<1>2. Upto(skip + take, list) \in Int /\ Upto(skip + take, list) < skip + 1
  BY <1>1 DEF Upto
<1> QED BY <1>2, SubSeqEmpty DEF PageOf

\* One more in the list is in the page when the list ends in it.
LEMMA PageGrows ==
  ASSUME NEW T, NEW list \in Seq(T), NEW x \in T, NEW skip \in Nat, NEW take \in Nat
  PROVE  PageOf(Append(list, x), skip, take) =
           IF skip <= Len(list) /\ Len(list) < skip + take
             THEN Append(PageOf(list, skip, take), x) ELSE PageOf(list, skip, take)
<1> DEFINE more == Append(list, x)
           page == PageOf(list, skip, take)
           grown == PageOf(more, skip, take)
           n == Len(list)
<1>1. /\ n \in Nat /\ more \in Seq(T) /\ Len(more) = n + 1 /\ more[n + 1] = x
      /\ \A i \in 1..n : more[i] = list[i]
  BY AppendProperties, LenProperties
<1>2. /\ page \in Seq(T)
      /\ Len(page) = IF Upto(skip + take, list) < skip THEN 0 ELSE Upto(skip + take, list) - skip
      /\ \A i \in 1..Len(page) : skip + i \in 1..n /\ page[i] = list[skip + i]
  BY PageMembers
<1>3. /\ grown \in Seq(T)
      /\ Len(grown) = IF Upto(skip + take, more) < skip THEN 0 ELSE Upto(skip + take, more) - skip
      /\ \A i \in 1..Len(grown) : skip + i \in 1..n + 1 /\ grown[i] = more[skip + i]
  <2>1. /\ PageOf(more, skip, take) \in Seq(T)
        /\ Len(PageOf(more, skip, take)) =
             IF Upto(skip + take, more) < skip THEN 0 ELSE Upto(skip + take, more) - skip
        /\ \A i \in 1..Len(PageOf(more, skip, take)) :
             skip + i \in 1..Len(more) /\ PageOf(more, skip, take)[i] = more[skip + i]
    <3>1. more \in Seq(T)
      BY <1>1
    <3> HIDE DEF more
    <3> QED BY <3>1, PageMembers
  <2> QED BY <1>1, <2>1
<1>4. Upto(skip + take, list) = (IF skip + take < n THEN skip + take ELSE n)
  BY DEF Upto
<1>5. Upto(skip + take, more) = (IF skip + take < n + 1 THEN skip + take ELSE n + 1)
  BY <1>1 DEF Upto
<1> HIDE DEF more, n, grown, page
<1>6. CASE skip <= n /\ n < skip + take
  <2>1. Len(page) = n - skip /\ Len(grown) = n - skip + 1
    BY <1>1, <1>2, <1>3, <1>4, <1>5, <1>6
  <2>2. /\ Append(page, x) \in Seq(T) /\ Len(Append(page, x)) = Len(page) + 1
        /\ \A i \in 1..Len(page) : Append(page, x)[i] = page[i]
        /\ Append(page, x)[Len(page) + 1] = x
    BY <1>2, AppendProperties
  <2>3. ASSUME NEW i \in 1..Len(grown) PROVE grown[i] = Append(page, x)[i]
    <3>1. CASE i = n - skip + 1
      <4>1. skip + i = n + 1 /\ i = Len(page) + 1
        BY <1>1, <1>6, <2>1, <3>1
      <4> QED BY <1>1, <1>3, <2>2, <4>1
    <3>2. CASE i # n - skip + 1
      <4>1. i \in 1..Len(page)
        BY <1>1, <1>6, <2>1, <3>2
      <4>2. skip + i \in 1..n /\ page[i] = list[skip + i] /\ grown[i] = more[skip + i]
        BY <1>2, <1>3, <4>1
      <4> QED BY <1>1, <2>2, <4>1, <4>2
    <3> QED BY <3>1, <3>2
  <2>4. grown = Append(page, x)
    <3>1. Len(grown) = Len(Append(page, x))
      BY <1>1, <1>6, <2>1, <2>2
    <3> DEFINE p == Append(page, x)
    <3>2. p \in Seq(T) /\ Len(grown) = Len(p) /\ \A i \in 1..Len(grown) : grown[i] = p[i]
      BY <2>2, <2>3, <3>1
    <3>3. grown = p
      <4> HIDE DEF p
      <4> QED BY <1>3, <3>2, SeqEqual
    <3> QED BY <3>3
  <2> QED BY <1>6, <2>4 DEF more, grown, page, n
<1>7. CASE ~ (skip <= n /\ n < skip + take)
  <2>1. Len(grown) = Len(page)
    BY <1>1, <1>2, <1>3, <1>4, <1>5, <1>7
  <2>2. ASSUME NEW i \in 1..Len(grown) PROVE grown[i] = page[i]
    <3>1. skip + i \in 1..n /\ page[i] = list[skip + i] /\ grown[i] = more[skip + i]
      BY <1>2, <1>3, <2>1
    <3> QED BY <1>1, <3>1
  <2>3. grown = page
    BY <1>2, <1>3, <2>1, <2>2, SeqEqual
  <2> QED BY <1>7, <2>3 DEF more, grown, page, n
<1> QED BY <1>6, <1>7

\* What the loops over friendIds and over friendOfFriends find is the page of
\* those they may show, without those that are not good enough: skip and take
\* count both.
Looped(list, shown, good, skip, take) ==
  LET n == Len(Kept(list, shown))
  IN [skip |-> IF n < skip THEN skip - n ELSE 0,
      take |-> IF n <= skip THEN take
               ELSE IF n < skip + take THEN skip + take - n ELSE 0,
      found |-> Kept(PageOf(Kept(list, shown), skip, take), good)]

\* For every list, whatever may be shown and whatever is good enough: the loop
\* gives the closed form.
THEOREM LoopsFind ==
  ASSUME NEW T, NEW list \in Seq(T),
         NEW shown, NEW good, NEW skip \in Nat, NEW take \in Nat
  PROVE  Loop(list, shown, good, skip, take) = Looped(list, shown, good, skip, take)
<1> DEFINE P(l) == Loop(l, shown, good, skip, take) = Looped(l, shown, good, skip, take)
<1>1. P(<<>>)
  <2>1. Loop(<<>>, shown, good, skip, take) = Filter(skip, take)
    BY LoopEmpty
  <2>2. Kept(<<>>, shown) = <<>> /\ Kept(<<>>, good) = <<>> /\ Len(<<>>) = 0
    BY KeptEmpty
  <2>3. PageOf(<<>>, skip, take) = <<>>
    <3>1. Upto(skip + take, <<>>) = 0
      BY <2>2 DEF Upto
    <3>2. SubSeq(<<>>, skip + 1, 0) = <<>>
      BY SubSeqEmpty
    <3> QED BY <3>1, <3>2 DEF PageOf
  <2>4. /\ (IF 0 < skip THEN skip - 0 ELSE 0) = skip
        /\ (IF 0 <= skip THEN take ELSE IF 0 < skip + take THEN skip + take - 0 ELSE 0) = take
    OBVIOUS
  <2>5. Looped(<<>>, shown, good, skip, take) = [skip |-> skip, take |-> take, found |-> <<>>]
    BY <2>2, <2>3, <2>4 DEF Looped
  <2> QED BY <2>1, <2>5 DEF Filter
<1>2. ASSUME NEW l \in Seq(T), NEW x \in T, P(l) PROVE P(Append(l, x))
  <2> DEFINE E == Kept(l, shown)
             n == Len(E)
             page == PageOf(E, skip, take)
             before == Looped(l, shown, good, skip, take)
             more == Append(l, x)
             after == Looped(more, shown, good, skip, take)
  <2>1. Loop(more, shown, good, skip, take) = Visit(before, x, shown, good)
    <3>1. Loop(Append(l, x), shown, good, skip, take) = Visit(Loop(l, shown, good, skip, take), x, shown, good)
      BY LoopAppend
    <3> QED BY <1>2, <3>1
  <2>2. E \in Seq(T) /\ n \in Nat /\ page \in Seq(T)
    <3>1. E \in Seq(T)
      BY KeptType
    <3> HIDE DEF E
    <3> QED BY <3>1, LenProperties, PageMembers
  <2>3. before = [skip |-> IF n < skip THEN skip - n ELSE 0,
                  take |-> IF n <= skip THEN take
                           ELSE IF n < skip + take THEN skip + take - n ELSE 0,
                  found |-> Kept(page, good)]
    BY DEF Looped
  <2>4. Kept(more, shown) = IF x \in shown THEN Append(E, x) ELSE E
    BY KeptAppend
  <2>5. CASE x \notin shown
    <3>1. Visit(before, x, shown, good) = before
      BY <2>5 DEF Visit
    <3>2. after = before
      BY <2>4, <2>5 DEF Looped
    <3> HIDE DEF after, before, more
    <3> QED BY <2>1, <3>1, <3>2 DEF after, more
  <2>6. CASE x \in shown
    <3> DEFINE grown == PageOf(Append(E, x), skip, take)
    <3>1. Len(Append(E, x)) = n + 1
      <4> HIDE DEF E
      <4> QED BY <2>2, AppendProperties
    <3>2. grown = IF skip <= n /\ n < skip + take THEN Append(page, x) ELSE page
      <4>1. E \in Seq(T)
        BY <2>2
      <4> HIDE DEF E
      <4> QED BY <4>1, PageGrows
    <3>3. after = [skip |-> IF n + 1 < skip THEN skip - (n + 1) ELSE 0,
                   take |-> IF n + 1 <= skip THEN take
                            ELSE IF n + 1 < skip + take THEN skip + take - (n + 1) ELSE 0,
                   found |-> Kept(grown, good)]
      BY <2>4, <2>6, <3>1 DEF Looped
    <3>4. Kept(Append(page, x), good) = IF x \in good THEN Append(Kept(page, good), x) ELSE Kept(page, good)
      <4>1. page \in Seq(T)
        BY <2>2
      <4> HIDE DEF page
      <4> QED BY <4>1, KeptAppend
    <3>5. n \in Nat
      BY <2>2
    <3> DEFINE kept == Kept(page, good)
    <3>50. before.skip = (IF n < skip THEN skip - n ELSE 0)
           /\ before.take = (IF n <= skip THEN take
                           ELSE IF n < skip + take THEN skip + take - n ELSE 0)
           /\ before.found = kept
           /\ before = [skip |-> before.skip, take |-> before.take, found |-> before.found]
      BY <2>3
    <3> HIDE DEF E, n, page, grown, before, after, more
    <3>6. CASE n < skip
      <4>1. before.skip > 0 /\ before.skip = skip - n /\ before.take = take
        BY <3>5, <3>50, <3>6
      <4>2. Visit(before, x, shown, good) = [skip |-> skip - n - 1, take |-> take, found |-> kept]
        BY <2>6, <3>50, <4>1 DEF Visit
      <4>3. after = [skip |-> skip - n - 1, take |-> take, found |-> kept]
        <5>1. /\ (IF n + 1 < skip THEN skip - (n + 1) ELSE 0) = skip - n - 1
              /\ n + 1 <= skip
          BY <3>5, <3>6
        <5>2. grown = page
          BY <3>2, <3>5, <3>6
        <5> QED BY <3>3, <5>1, <5>2
      <4> QED BY <2>1, <4>2, <4>3 DEF after, more
    <3>7. CASE ~ (n < skip) /\ n < skip + take
      <4>1. before.skip = 0 /\ before.take = skip + take - n /\ skip + take - n \in Nat /\ skip + take - n # 0
        BY <3>5, <3>50, <3>7
      <4>2. Visit(before, x, shown, good) =
              [skip |-> 0, take |-> skip + take - n - 1,
               found |-> IF x \in good THEN Append(kept, x) ELSE kept]
        <5> DEFINE t == skip + take - n
        <5>1. before = [skip |-> 0, take |-> t, found |-> kept] /\ t \in Nat /\ t # 0
          BY <3>50, <4>1
        <5> HIDE DEF t
        <5>2. Visit(before, x, shown, good) = [before EXCEPT !.take = @ - 1,
                    !.found = IF x \in good THEN Append(@, x) ELSE @]
          BY <2>6, <5>1 DEF Visit
        <5>3. Visit(before, x, shown, good) =
                [skip |-> 0, take |-> t - 1, found |-> IF x \in good THEN Append(kept, x) ELSE kept]
          BY <5>1, <5>2
        <5>4. t - 1 = skip + take - n - 1
          BY <3>5 DEF t
        <5> QED BY <5>3, <5>4
      <4>3. after = [skip |-> 0, take |-> skip + take - n - 1,
                     found |-> IF x \in good THEN Append(kept, x) ELSE kept]
        <5>1. /\ (IF n + 1 < skip THEN skip - (n + 1) ELSE 0) = 0
              /\ (IF n + 1 <= skip THEN take
                            ELSE IF n + 1 < skip + take THEN skip + take - (n + 1) ELSE 0) = skip + take - n - 1
          BY <3>5, <3>7
        <5>2. grown = Append(page, x)
          BY <3>2, <3>5, <3>7
        <5> QED BY <3>3, <3>4, <5>1, <5>2
      <4> QED BY <2>1, <4>2, <4>3 DEF after, more
    <3>8. CASE ~ (n < skip) /\ ~ (n < skip + take)
      <4>1. before.skip = 0 /\ before.take = 0
        BY <3>5, <3>50, <3>8
      <4>2. Visit(before, x, shown, good) = before
        BY <2>6, <4>1 DEF Visit
      <4>3. after = [skip |-> 0, take |-> 0, found |-> kept]
        <5>1. /\ (IF n + 1 < skip THEN skip - (n + 1) ELSE 0) = 0
              /\ (IF n + 1 <= skip THEN take
                            ELSE IF n + 1 < skip + take THEN skip + take - (n + 1) ELSE 0) = 0
          BY <3>5, <3>8
        <5>2. grown = page
          BY <3>2, <3>5, <3>8
        <5> QED BY <3>3, <5>1, <5>2
      <4> QED BY <2>1, <3>50, <4>1, <4>2, <4>3 DEF after, more
    <3> QED BY <3>5, <3>6, <3>7, <3>8
  <2> QED BY <2>5, <2>6
<1>3. \A l \in Seq(T) : P(l)
  <2> DEFINE S == {l \in Seq(T) : P(l)}
  <2> HIDE DEF P
  <2>1. <<>> \in S
    BY <1>1, EmptySeq
  <2>2. \A l \in Seq(T), x \in T : l \in S => Append(l, x) \in S
    BY <1>2, AppendMembers
  <2>3. Seq(T) \subseteq S
    <3> HIDE DEF S
    <3> QED BY <2>1, <2>2, ListInduction
  <2> QED BY <2>3
<1> QED BY <1>3

-----------------------------------------------------------------------------
(* Friends of friends.                                                     *)

\* The set that is filled one by one has everybody of the list, once.
LEMMA DistinctMembers ==
  ASSUME NEW T, NEW list \in Seq(T)
  PROVE  /\ Distinct(list) \in Seq(T)
         /\ ToSet(Distinct(list)) = ToSet(list)
         /\ IsInjective(Distinct(list))
<1> DEFINE P(l) == /\ Distinct(l) \in Seq(T)
                   /\ ToSet(Distinct(l)) = ToSet(l)
                   /\ IsInjective(Distinct(l))
<1>1. P(<<>>)
  <2>1. Distinct(<<>>) = <<>>
    BY DistinctEmpty
  <2>2. <<>> \in Seq(T) /\ IsInjective(<<>>)
    BY DEF IsInjective
  <2> QED BY <2>1, <2>2
<1>2. ASSUME NEW l \in Seq(T), NEW x \in T, P(l) PROVE P(Append(l, x))
  <2> DEFINE d == Distinct(l)
  <2>1. Distinct(Append(l, x)) = AddNew(d, x)
    BY DistinctAppend
  <2>2. ToSet(Append(l, x)) = ToSet(l) \cup {x}
    BY AppendMembers
  <2>3. d \in Seq(T) /\ ToSet(d) = ToSet(l) /\ IsInjective(d)
    BY <1>2
  <2> HIDE DEF d
  <2>4. AddNew(d, x) \in Seq(T)
    BY <2>3, AddNewType
  <2>5. CASE x \in ToSet(d)
    BY <2>1, <2>2, <2>3, <2>5 DEF AddNew
  <2>6. CASE x \notin ToSet(d)
    <3>1. AddNew(d, x) = Append(d, x)
      BY <2>6 DEF AddNew
    <3>2. ToSet(Append(d, x)) = ToSet(d) \cup {x}
      BY <2>3, AppendMembers
    <3>3. IsInjective(Append(d, x))
      BY <2>3, <2>6, InjectiveAppend
    <3> QED BY <2>1, <2>2, <2>3, <2>4, <3>1, <3>2, <3>3
  <2> QED BY <2>5, <2>6
<1>3. \A l \in Seq(T) : P(l)
  <2> DEFINE S == {l \in Seq(T) : P(l)}
  <2> HIDE DEF P
  <2>1. <<>> \in S
    BY <1>1, EmptySeq
  <2>2. \A l \in Seq(T), x \in T : l \in S => Append(l, x) \in S
    BY <1>2, AppendMembers
  <2>3. Seq(T) \subseteq S
    <3> HIDE DEF S
    <3> QED BY <2>1, <2>2, ListInduction
  <2> QED BY <2>3
<1> QED BY <1>3

\* Whoever is in one of the lists is in all of them one after the other.
LEMMA FlattenMembers ==
  ASSUME NEW T0, NEW seqs \in Seq(Seq(T0))
  PROVE  /\ FlattenSeq(seqs) \in Seq(T0)
         /\ ToSet(FlattenSeq(seqs)) = UNION {ToSet(seq) : seq \in ToSet(seqs)}
<1> DEFINE T == Seq(T0)
           P(l) == /\ FlattenSeq(l) \in Seq(T0)
                   /\ ToSet(FlattenSeq(l)) = UNION {ToSet(seq) : seq \in ToSet(l)}
<1>1. P(<<>>)
  <2>1. FlattenSeq(<<>>) = <<>> /\ <<>> \in Seq(T0)
    BY FlattenEmpty
  <2>2. ToSet(<<>>) = {}
    BY DEF ToSet
  <2> QED BY <2>1, <2>2
<1>2. ASSUME NEW l \in Seq(T), NEW x \in T, P(l) PROVE P(Append(l, x))
  <2>1. FlattenSeq(Append(l, x)) = FlattenSeq(l) \o x
    BY FlattenAppend
  <2>2. ToSet(Append(l, x)) = ToSet(l) \cup {x}
    <3> HIDE DEF T
    <3> QED BY AppendMembers
  <2>3. FlattenSeq(l) \o x \in Seq(T0) /\ ToSet(FlattenSeq(l) \o x) = ToSet(FlattenSeq(l)) \cup ToSet(x)
    BY <1>2, ConcatMembers, ConcatProperties
  <2> QED BY <1>2, <2>1, <2>2, <2>3
<1>3. \A l \in Seq(T) : P(l)
  <2> DEFINE S == {l \in Seq(T) : P(l)}
  <2> HIDE DEF P
  <2>1. <<>> \in S
    BY <1>1, EmptySeq
  <2>2. \A l \in Seq(T), x \in T : l \in S => Append(l, x) \in S
    BY <1>2, AppendMembers
  <2>3. Seq(T) \subseteq S
    <3> HIDE DEF S
    <3> QED BY <2>1, <2>2, ListInduction
  <2> QED BY <2>3
<1> HIDE DEF P
<1>4. P(seqs)
  BY <1>3
<1> QED BY <1>4 DEF P

\* A list with everybody once is as long as they are many.
LEMMA OnceEach ==
  ASSUME NEW T, IsFiniteSet(T), NEW list \in Seq(T), IsInjective(list)
  PROVE  Len(list) = Cardinality(ToSet(list)) /\ Len(list) <= Cardinality(T)
<1>1. Len(list) \in Nat /\ DOMAIN list = 1..Len(list) /\ list \in [1..Len(list) -> T]
  BY LenProperties
<1>2. ToSet(list) \subseteq T /\ list \in [1..Len(list) -> ToSet(list)]
  BY <1>1 DEF ToSet
<1>3. list \in Bijection(1..Len(list), ToSet(list))
  BY <1>1, <1>2 DEF Bijection, Injection, Surjection, IsInjective, ToSet
<1>4. ExistsBijection(1..Len(list), ToSet(list))
  BY <1>3 DEF ExistsBijection
<1>5. Cardinality(ToSet(list)) = Len(list)
  BY <1>1, <1>4, FS_CountingElements
<1>6. Cardinality(ToSet(list)) <= Cardinality(T)
  BY <1>2, FS_Subset
<1> QED BY <1>5, <1>6

\* The list of a set, in any order.
LEMMA ListOfSet ==
  ASSUME NEW S, IsFiniteSet(S)
  PROVE  SetToSeq(S) \in Seq(S)
<1>1. Cardinality(S) \in Nat /\ ExistsBijection(1..Cardinality(S), S)
  BY FS_CardinalityType
<1>2. PICK f : f \in Bijection(1..Cardinality(S), S)
  BY <1>1 DEF ExistsBijection
<1>3. f \in [1..Cardinality(S) -> S] /\ IsInjective(f)
  BY <1>2 DEF Bijection, Injection, IsInjective
<1>4. SetToSeq(S) \in [1..Cardinality(S) -> S]
  BY <1>3 DEF SetToSeq
<1> QED BY <1>1, <1>4

(* The queries of the graph.                                                *)

GraphType == persons \subseteq Persons /\ friendsOf \in [Persons -> Seq(Persons)]

\* The friends of friends are listed once each.
LEMMA FriendsOfFriends ==
  ASSUME GraphType, NEW u \in Persons
  PROVE  /\ FriendOfFriends(u) \in Seq(Persons)
         /\ IsInjective(FriendOfFriends(u))
         /\ ToSet(FriendOfFriends(u)) = UNION {FriendIds(v) : v \in FriendIds(u)}
<1> DEFINE mine == friendsOf[u]
           theirs == [i \in 1..Len(mine) |-> friendsOf[mine[i]]]
<1>1. mine \in Seq(Persons) /\ Len(mine) \in Nat /\ DOMAIN mine = 1..Len(mine)
      /\ \A i \in 1..Len(mine) : mine[i] \in Persons
  BY LenProperties, ElementOfSeq DEF GraphType
<1>2. theirs \in Seq(Seq(Persons))
  BY <1>1 DEF GraphType
<1>3. ToSet(theirs) = {friendsOf[v] : v \in ToSet(mine)}
  BY <1>1 DEF ToSet
<1> HIDE DEF theirs
<1>4. /\ FlattenSeq(theirs) \in Seq(Persons)
      /\ ToSet(FlattenSeq(theirs)) = UNION {ToSet(seq) : seq \in ToSet(theirs)}
  BY <1>2, FlattenMembers
<1>5. FriendOfFriends(u) = Distinct(FlattenSeq(theirs))
  BY DEF FriendOfFriends, theirs
<1>6. UNION {ToSet(seq) : seq \in ToSet(theirs)} = UNION {FriendIds(v) : v \in FriendIds(u)}
  BY <1>3 DEF FriendIds
<1> QED BY <1>4, <1>5, <1>6, DistinctMembers

\* The count of a peer is that of the friends in common.
LEMMA MutualFriends ==
  ASSUME GraphType, IsFiniteSet(Persons), NEW u \in persons, NEW v \in persons, IsInjective(friendsOf[v])
  PROVE  MutualCount(u, v) = Cardinality(FriendIds(v) \cap FriendIds(u))
<1> DEFINE list == friendsOf[v]
           both == Kept(list, FriendIds(u))
<1>1. list \in Seq(Persons) /\ IsInjective(list)
  BY DEF GraphType
<1> HIDE DEF list
<1>2. /\ both \in Seq(Persons) /\ ToSet(both) = ToSet(list) \cap FriendIds(u)
      /\ IsInjective(both)
  BY <1>1, KeptType, KeptInjective
<1>3. Len(both) = Cardinality(ToSet(both))
  <2> HIDE DEF both
  <2> QED BY <1>2, OnceEach
<1>4. {u, v} \subseteq persons
  OBVIOUS
<1> QED BY <1>2, <1>3, <1>4 DEF MutualCount, FriendIds, list

-----------------------------------------------------------------------------
(* The graph.                                                              *)

\* In the graph everybody's friends are there once, they are friends of each
\* other, and nobody keeps an id that has left.
GraphInv ==
  /\ GraphType
  /\ \A u \in Persons : IsInjective(friendsOf[u])
  /\ \A u, v \in Persons : v \in FriendIds(u) => u \in FriendIds(v)
  /\ \A u \in Persons : FriendIds(u) \subseteq persons \ {u}

\* Whom a new friendship, the end of one and the end of a user leave as friends.
LEMMA WithoutMembers ==
  ASSUME NEW list \in Seq(Persons), NEW u
  PROVE  /\ Without(list, u) \in Seq(Persons)
         /\ ToSet(Without(list, u)) = ToSet(list) \ {u}
         /\ IsInjective(list) => IsInjective(Without(list, u))
         /\ u \notin ToSet(list) => Without(list, u) = list
<1> DEFINE P == Persons \ {u}
<1>1. Without(list, u) = Kept(list, P)
  BY DEF Without
<1>2. ToSet(list) \subseteq Persons
  BY InSeqOfMembers
<1>3. u \notin ToSet(list) => ToSet(list) \subseteq P
  BY <1>2
<1>4. ToSet(list) \cap P = ToSet(list) \ {u}
  BY <1>2
<1> HIDE DEF P
<1>5. Kept(list, P) \in Seq(Persons) /\ ToSet(Kept(list, P)) = ToSet(list) \cap P
  BY KeptType
<1>6. IsInjective(list) => IsInjective(Kept(list, P))
  BY KeptInjective
<1>7. ToSet(list) \subseteq P => Kept(list, P) = list
  BY KeptAll
<1> QED BY <1>1, <1>3, <1>4, <1>5, <1>6, <1>7

\* What addRelationship does to the friends of everybody.
LEMMA AddEffect ==
  ASSUME GraphInv, NEW u \in Persons, NEW v \in Persons, AddRelationship(u, v)
  PROVE  /\ u # v /\ v \notin FriendIds(u) /\ u \notin FriendIds(v)
         /\ friendsOf' \in [Persons -> Seq(Persons)]
         /\ friendsOf'[u] = Append(friendsOf[u], v)
         /\ friendsOf'[v] = Append(friendsOf[v], u)
         /\ \A w \in Persons \ {u, v} : friendsOf'[w] = friendsOf[w]
         /\ FriendIds(u)' = FriendIds(u) \cup {v}
         /\ FriendIds(v)' = FriendIds(v) \cup {u}
<1>1. u # v /\ v \notin FriendIds(u) /\ u \notin FriendIds(v)
  BY DEF AddRelationship, GraphInv
<1>2. friendsOf' = [friendsOf EXCEPT ![u] = Append(friendsOf[u], v), ![v] = Append(friendsOf[v], u)]
  BY <1>1 DEF AddRelationship, Added, FriendIds, GraphInv, GraphType
<1>3. friendsOf[u] \in Seq(Persons) /\ friendsOf[v] \in Seq(Persons)
  BY DEF GraphInv, GraphType
<1>4. /\ Append(friendsOf[u], v) \in Seq(Persons) /\ ToSet(Append(friendsOf[u], v)) = FriendIds(u) \cup {v}
      /\ Append(friendsOf[v], u) \in Seq(Persons) /\ ToSet(Append(friendsOf[v], u)) = FriendIds(v) \cup {u}
  BY <1>3, AppendMembers DEF FriendIds
<1>5. /\ friendsOf' \in [Persons -> Seq(Persons)]
      /\ friendsOf'[u] = Append(friendsOf[u], v)
      /\ friendsOf'[v] = Append(friendsOf[v], u)
      /\ \A w \in Persons \ {u, v} : friendsOf'[w] = friendsOf[w]
  BY <1>1, <1>2, <1>4 DEF GraphInv, GraphType
<1> QED BY <1>1, <1>4, <1>5 DEF FriendIds

\* What removeRelationship does to them.
LEMMA RemoveEffect ==
  ASSUME GraphInv, NEW u \in Persons, NEW v \in Persons, RemoveRelationship(u, v)
  PROVE  /\ u # v /\ v \in FriendIds(u) /\ u \in FriendIds(v)
         /\ friendsOf' \in [Persons -> Seq(Persons)]
         /\ friendsOf'[u] = Without(friendsOf[u], v)
         /\ friendsOf'[v] = Without(friendsOf[v], u)
         /\ \A w \in Persons \ {u, v} : friendsOf'[w] = friendsOf[w]
         /\ FriendIds(u)' = FriendIds(u) \ {v}
         /\ FriendIds(v)' = FriendIds(v) \ {u}
<1>1. u # v /\ v \in FriendIds(u) /\ u \in FriendIds(v)
  BY DEF RemoveRelationship, GraphInv
<1>2. friendsOf' = [friendsOf EXCEPT ![u] = Without(@, v), ![v] = Without(@, u)]
  BY DEF RemoveRelationship
<1>3. friendsOf[u] \in Seq(Persons) /\ friendsOf[v] \in Seq(Persons)
  BY DEF GraphInv, GraphType
<1>4. /\ Without(friendsOf[u], v) \in Seq(Persons) /\ ToSet(Without(friendsOf[u], v)) = FriendIds(u) \ {v}
      /\ Without(friendsOf[v], u) \in Seq(Persons) /\ ToSet(Without(friendsOf[v], u)) = FriendIds(v) \ {u}
  BY <1>3, WithoutMembers DEF FriendIds
<1>5. /\ friendsOf' \in [Persons -> Seq(Persons)]
      /\ friendsOf'[u] = Without(friendsOf[u], v)
      /\ friendsOf'[v] = Without(friendsOf[v], u)
      /\ \A w \in Persons \ {u, v} : friendsOf'[w] = friendsOf[w]
  BY <1>1, <1>2, <1>4 DEF GraphInv, GraphType
<1> QED BY <1>1, <1>4, <1>5 DEF FriendIds

\* What deleteUser does to them.
LEMMA DeleteEffect ==
  ASSUME GraphInv, NEW u \in Persons, DeleteUser(u)
  PROVE  /\ friendsOf' \in [Persons -> Seq(Persons)]
         /\ friendsOf'[u] = <<>>
         /\ \A w \in Persons \ {u} : friendsOf'[w] = Without(friendsOf[w], u)
         /\ FriendIds(u)' = {}
         /\ \A w \in Persons \ {u} : FriendIds(w)' = FriendIds(w) \ {u}
         /\ \A w \in Persons \ {u} : u \notin FriendIds(w) => friendsOf'[w] = friendsOf[w]
<1>1. friendsOf' = [v \in Persons |-> IF v = u THEN <<>> ELSE Without(friendsOf[v], u)]
  BY DEF DeleteUser
<1>2. ASSUME NEW w \in Persons
      PROVE  /\ Without(friendsOf[w], u) \in Seq(Persons)
             /\ ToSet(Without(friendsOf[w], u)) = FriendIds(w) \ {u}
             /\ u \notin FriendIds(w) => Without(friendsOf[w], u) = friendsOf[w]
  <2>1. friendsOf[w] \in Seq(Persons)
    BY DEF GraphInv, GraphType
  <2> QED BY <2>1, WithoutMembers DEF FriendIds
<1>3. ToSet(<<>>) = {} /\ <<>> \in Seq(Persons)
  BY DEF ToSet
<1>4. /\ friendsOf' \in [Persons -> Seq(Persons)]
      /\ friendsOf'[u] = <<>>
      /\ \A w \in Persons \ {u} : friendsOf'[w] = Without(friendsOf[w], u)
  BY <1>1, <1>2, <1>3
<1> QED BY <1>2, <1>3, <1>4 DEF FriendIds

\* Only these three change the graph.
LEMMA OtherSteps ==
  ASSUME [QueriesNext]_queriesVars
  PROVE  \/ \E u, v \in Persons : AddRelationship(u, v) \/ RemoveRelationship(u, v)
         \/ \E u \in Persons : DeleteUser(u)
         \/ UNCHANGED graph
BY DEF QueriesNext, queriesVars, graph, CreateRequest, DeleteRequest,
    StartReading, ReadFriends, ReadRequests,
   ReadNames, StopReading, StartMaking, GetMutual, GetOthers, ExcludeAlreadyFriend,
   AddMutualFriendCount, Store, Quietly

\* The first friendships are such a graph.
LEMMA GraphInitially ==
  ASSUME QueriesInit
  PROVE  GraphInv
BY FriendQueriesAssumption, InSeqOfMembers DEF QueriesInit, GraphInv, GraphType,
    FriendIds

\* Every change keeps the graph so.
LEMMA GraphGoesOn ==
  ASSUME GraphInv, [QueriesNext]_queriesVars
  PROVE  GraphInv'
<1>1. ASSUME NEW u \in Persons, NEW v \in Persons, AddRelationship(u, v) PROVE GraphInv'
  <2>1. /\ u # v /\ v \notin FriendIds(u) /\ u \notin FriendIds(v)
        /\ friendsOf' \in [Persons -> Seq(Persons)]
        /\ friendsOf'[u] = Append(friendsOf[u], v)
        /\ friendsOf'[v] = Append(friendsOf[v], u)
        /\ \A w \in Persons \ {u, v} : friendsOf'[w] = friendsOf[w]
        /\ FriendIds(u)' = FriendIds(u) \cup {v}
        /\ FriendIds(v)' = FriendIds(v) \cup {u}
    BY <1>1, AddEffect
  <2>2. persons' = persons \cup {u, v}
    BY <1>1 DEF AddRelationship
  <2>3. \A w \in Persons \ {u, v} : FriendIds(w)' = FriendIds(w)
    BY <2>1 DEF FriendIds
  <2> DEFINE F == [w \in Persons |-> FriendIds(w)]
             G == [w \in Persons |-> FriendIds(w)']
  <2>4. GraphType'
    BY <2>1, <2>2 DEF GraphInv, GraphType
  <2>5. \A w \in Persons : IsInjective(friendsOf'[w])
    <3>1. /\ IsInjective(Append(friendsOf[u], v))
          /\ IsInjective(Append(friendsOf[v], u))
      BY <2>1, InjectiveAppend DEF GraphInv, GraphType, FriendIds
    <3> QED BY <2>1, <3>1 DEF GraphInv
  <2>6. /\ \A w, x \in Persons : x \in F[w] => w \in F[x]
        /\ \A w \in Persons : F[w] \subseteq persons \ {w}
        /\ G[u] = F[u] \cup {v} /\ G[v] = F[v] \cup {u}
        /\ \A w \in Persons \ {u, v} : G[w] = F[w]
    BY <2>1, <2>3 DEF GraphInv
  <2> HIDE DEF F
  <2>7. /\ \A w, x \in Persons : x \in G[w] => w \in G[x]
        /\ \A w \in Persons : G[w] \subseteq persons' \ {w}
    <3> HIDE DEF G
    <3> QED BY <2>1, <2>2, <2>6 DEF GraphInv, GraphType
  <2>8. /\ \A w, x \in Persons : x \in FriendIds(w)' => w \in FriendIds(x)'
        /\ \A w \in Persons : FriendIds(w)' \subseteq persons' \ {w}
    BY <2>7
  <2> QED BY <2>4, <2>5, <2>8 DEF GraphInv
<1>2. ASSUME NEW u \in Persons, NEW v \in Persons, RemoveRelationship(u, v) PROVE GraphInv'
  <2>1. /\ u # v /\ v \in FriendIds(u) /\ u \in FriendIds(v)
        /\ friendsOf' \in [Persons -> Seq(Persons)]
        /\ friendsOf'[u] = Without(friendsOf[u], v)
        /\ friendsOf'[v] = Without(friendsOf[v], u)
        /\ \A w \in Persons \ {u, v} : friendsOf'[w] = friendsOf[w]
        /\ FriendIds(u)' = FriendIds(u) \ {v}
        /\ FriendIds(v)' = FriendIds(v) \ {u}
    BY <1>2, RemoveEffect
  <2>2. persons' = persons
    BY <1>2 DEF RemoveRelationship
  <2>3. \A w \in Persons \ {u, v} : FriendIds(w)' = FriendIds(w)
    BY <2>1 DEF FriendIds
  <2> DEFINE F == [w \in Persons |-> FriendIds(w)]
             G == [w \in Persons |-> FriendIds(w)']
  <2>4. GraphType'
    BY <2>1, <2>2 DEF GraphInv, GraphType
  <2>5. \A w \in Persons : IsInjective(friendsOf'[w])
    <3>1. /\ IsInjective(Without(friendsOf[u], v))
          /\ IsInjective(Without(friendsOf[v], u))
      BY WithoutMembers DEF GraphInv, GraphType
    <3> QED BY <2>1, <3>1 DEF GraphInv
  <2>6. /\ \A w, x \in Persons : x \in F[w] => w \in F[x]
        /\ \A w \in Persons : F[w] \subseteq persons \ {w}
        /\ G[u] = F[u] \ {v} /\ G[v] = F[v] \ {u}
        /\ \A w \in Persons \ {u, v} : G[w] = F[w]
    BY <2>1, <2>3 DEF GraphInv
  <2> HIDE DEF F
  <2>7. /\ \A w, x \in Persons : x \in G[w] => w \in G[x]
        /\ \A w \in Persons : G[w] \subseteq persons' \ {w}
    <3> HIDE DEF G
    <3> QED BY <2>1, <2>2, <2>6 DEF GraphInv, GraphType
  <2>8. /\ \A w, x \in Persons : x \in FriendIds(w)' => w \in FriendIds(x)'
        /\ \A w \in Persons : FriendIds(w)' \subseteq persons' \ {w}
    BY <2>7
  <2> QED BY <2>4, <2>5, <2>8 DEF GraphInv
<1>3. ASSUME NEW u \in Persons, DeleteUser(u) PROVE GraphInv'
  <2>1. /\ friendsOf' \in [Persons -> Seq(Persons)]
        /\ friendsOf'[u] = <<>>
        /\ \A w \in Persons \ {u} : friendsOf'[w] = Without(friendsOf[w], u)
        /\ FriendIds(u)' = {}
        /\ \A w \in Persons \ {u} : FriendIds(w)' = FriendIds(w) \ {u}
    BY <1>3, DeleteEffect
  <2>2. persons' = persons \ {u}
    BY <1>3 DEF DeleteUser
  <2>3. GraphType'
    BY <2>1, <2>2 DEF GraphInv, GraphType
  <2>4. \A w \in Persons : IsInjective(friendsOf'[w])
    <3>1. IsInjective(<<>>)
      BY DEF IsInjective
    <3>2. \A w \in Persons : IsInjective(Without(friendsOf[w], u))
      BY WithoutMembers DEF GraphInv, GraphType
    <3> QED BY <2>1, <3>1, <3>2
  <2>5. \A w, x \in Persons : x \in FriendIds(w)' => w \in FriendIds(x)'
    BY <2>1 DEF GraphInv
  <2>6. \A w \in Persons : FriendIds(w)' \subseteq persons' \ {w}
    BY <2>1, <2>2 DEF GraphInv
  <2> QED BY <2>3, <2>4, <2>5, <2>6 DEF GraphInv
<1>4. ASSUME UNCHANGED graph PROVE GraphInv'
  BY <1>4 DEF graph, GraphInv, GraphType, FriendIds
<1> QED BY <1>1, <1>2, <1>3, <1>4, OtherSteps

-----------------------------------------------------------------------------
(* Types of the queries.                                                   *)

\* A page of friends is one of the list of those that the search includes.
LEMMA PageOfFriends ==
  ASSUME GraphInv, NEW u \in Persons, NEW skip \in Nat, NEW take \in Nat, NEW search
  PROVE  GetFriendsByUserId(u, skip, take, search) =
           PageOf(Kept(friendsOf[u], Includes(search)), skip, take)
<1> DEFINE list == friendsOf[u]
           I == Includes(search)
           E == Kept(list, I)
           shown == persons \cap I
<1>1. list \in Seq(Persons) /\ ToSet(list) \subseteq persons
  BY DEF GraphInv, GraphType, FriendIds
<1>2. GetFriendsByUserId(u, skip, take, search) = Loop(list, shown, Persons, skip, take).found
  BY DEF GetFriendsByUserId
<1>3. Kept(list, shown) = E
  <2> HIDE DEF I, list
  <2>1. Kept(list, persons) = list
    BY <1>1, KeptAll
  <2>2. Kept(Kept(list, persons), I) = Kept(list, persons \cap I)
    BY <1>1, KeptTwice
  <2> QED BY <2>1, <2>2
<1>4. Loop(list, shown, Persons, skip, take) = Looped(list, shown, Persons, skip, take)
  <2> HIDE DEF list, shown
  <2> QED BY <1>1, LoopsFind
<1> DEFINE page == PageOf(E, skip, take)
<1>5. page \in Seq(Persons)
  <2>1. E \in Seq(Persons)
    <3> HIDE DEF I, list
    <3> QED BY <1>1, KeptType
  <2> HIDE DEF E
  <2> QED BY <2>1, PageMembers
<1>6. Kept(page, Persons) = page
  <2> HIDE DEF page
  <2>1. ToSet(page) \subseteq Persons
    BY <1>5, InSeqOfMembers
  <2> QED BY <1>5, <2>1, KeptAll
<1>7. Looped(list, shown, Persons, skip, take).found = Kept(PageOf(Kept(list, shown), skip, take), Persons)
  BY DEF Looped
<1> QED BY <1>2, <1>3, <1>4, <1>6, <1>7

\* A page of strangers is one of the friends of friends that are not friends,
\* without those that have too few mutual friends.
Strangers(u, search) ==
  Kept(FriendOfFriends(u), (persons \cap Includes(search)) \ ({u} \cup FriendIds(u)))

\* A page of strangers is one of the list of those that the search includes,
\* without those with too few mutual friends: it may be shorter than asked for.
LEMMA PageOfStrangers ==
  ASSUME GraphInv, NEW u \in Persons, NEW skip \in Nat, NEW take \in Nat, NEW search, NEW min
  PROVE  /\ GetMutualFriendsOfUser(u, skip, take, search, min) =
              Kept(PageOf(Strangers(u, search), skip, take), {v \in persons : MutualCount(u, v) >= min})
         /\ Strangers(u, search) \in Seq(Persons)
         /\ GetMutualFriendsOfUser(u, skip, take, search, min) \in Seq(Persons)
<1> DEFINE list == FriendOfFriends(u)
           shown == (persons \cap Includes(search)) \ ({u} \cup FriendIds(u))
           good == {v \in persons : MutualCount(u, v) >= min}
           page == PageOf(Strangers(u, search), skip, take)
<1>1. list \in Seq(Persons)
  BY FriendsOfFriends DEF GraphInv
<1>2. GetMutualFriendsOfUser(u, skip, take, search, min) = Loop(list, shown, good, skip, take).found
  BY DEF GetMutualFriendsOfUser
<1>3. Loop(list, shown, good, skip, take) = Looped(list, shown, good, skip, take)
  <2> HIDE DEF list, shown, good
  <2> QED BY <1>1, LoopsFind
<1>4. Looped(list, shown, good, skip, take).found = Kept(PageOf(Kept(list, shown), skip, take), good)
  <2> HIDE DEF list, shown, good
  <2> QED BY DEF Looped
<1>5. Strangers(u, search) = Kept(list, shown)
  BY DEF Strangers
<1>6. Strangers(u, search) \in Seq(Persons)
  <2> HIDE DEF list, shown
  <2>1. Kept(list, shown) \in Seq(Persons)
    BY <1>1, KeptType
  <2> QED BY <1>5, <2>1
<1>7. page \in Seq(Persons)
  BY <1>6, PageMembers
<1>8. Kept(page, good) \in Seq(Persons)
  <2> HIDE DEF page, good
  <2> QED BY <1>7, KeptType
<1> QED BY <1>2, <1>3, <1>4, <1>5, <1>6, <1>8

\* Mutual friends are counted by a number.
LEMMA CountType ==
  ASSUME GraphType, NEW u \in Persons, NEW v \in Persons
  PROVE  MutualCount(u, v) \in Nat
<1>1. friendsOf[v] \in Seq(Persons)
  BY DEF GraphType
<1>2. Kept(friendsOf[v], FriendIds(u)) \in Seq(Persons)
  <2> DEFINE F == FriendIds(u)
  <2> HIDE DEF F
  <2> QED BY <1>1, KeptType
<1>3. Len(Kept(friendsOf[v], FriendIds(u))) \in Nat
  BY <1>2, LenProperties
<1> QED BY <1>3 DEF MutualCount

\* The generations there may be.
Makings == UNION {Making(us) : us \in SUBSET Persons}

QueriesInv == GraphInv /\ QueriesTypeOK

\* The other variables keep their types.
LEMMA TypeInitially ==
  ASSUME QueriesInit
  PROVE  QueriesTypeOK
BY FriendQueriesAssumption DEF QueriesInit, QueriesTypeOK

\* What generateRecommendation goes on with is a generation again.
LEMMA MakingSteps ==
  ASSUME QueriesInv,
         StartMaking \/ GetMutual \/ GetOthers \/ ExcludeAlreadyFriend \/ AddMutualFriendCount
  PROVE  making' \in Makings
<1> USE DEF QueriesInv, QueriesTypeOK
<1>1. CASE StartMaking
  <2>1. Nobody \in [{} -> Entries]
    BY DEF Nobody, Entries
  <2>2. making' \in Making({})
    BY <1>1, <2>1 DEF StartMaking, Making
  <2> QED BY <2>2 DEF Makings, Making
<1>2. CASE GetMutual
  <2> DEFINE us == ToSet(GetMutualFriendsOfUser(Me, 0, TakeMutual, FALSE, MinMutual))
             list == [u \in us |-> [type |-> "mutualCount", count |-> MutualCount(Me, u)]]
  <2>1. us \subseteq Persons
    <3> DEFINE page == GetMutualFriendsOfUser(Me, 0, TakeMutual, FALSE, MinMutual)
    <3>1. Me \in Persons /\ TakeMutual \in Nat
      BY FriendQueriesAssumption
    <3>2. page \in Seq(Persons)
      BY <3>1, PageOfStrangers
    <3> HIDE DEF page
    <3>3. ToSet(page) \subseteq Persons
      BY <3>2, InSeqOfMembers
    <3> QED BY <3>3 DEF page
  <2>2. \A u \in us : MutualCount(Me, u) \in Nat
    BY <2>1, CountType, FriendQueriesAssumption DEF GraphInv
  <2>3. making \in Makings
    BY <1>2 DEF GetMutual, Makes, Makings
  <2>4. making' = [making EXCEPT !.phase = "others", !.list = list]
    BY <1>2 DEF GetMutual
  <2> HIDE DEF us
  <2>5. list \in [us -> Entries]
    BY <2>2 DEF Entries, Types
  <2> HIDE DEF list
  <2>6. making' \in Making(us)
    <3>1. PICK s \in SUBSET Persons : making \in Making(s)
      BY <2>3 DEF Makings
    <3> QED BY ONLY <2>4, <2>5, <3>1 DEF Making
  <2> QED BY <2>1, <2>6 DEF Makings
<1>3. CASE GetOthers
  <2>1. making \in Makings
    BY <1>3 DEF GetOthers, Makes, Makings
  <2>2. PICK common, province \in Alike :
          making' = [making EXCEPT !.phase = "exclude", !.common = common, !.province = province]
    BY <1>3 DEF GetOthers
  <2>3. common \subseteq Persons /\ province \subseteq Persons
    BY FriendQueriesAssumption
  <2>4. PICK s \in SUBSET Persons : making \in Making(s)
    BY <2>1 DEF Makings
  <2>5. making' \in Making(s)
    BY ONLY <2>2, <2>3, <2>4 DEF Making
  <2> QED BY <2>5 DEF Makings
<1>4. CASE ExcludeAlreadyFriend
  <2>1. making \in Makings
    BY <1>4 DEF ExcludeAlreadyFriend, Makes, Makings
  <2>2. making' = [making EXCEPT !.phase = "count", !.common = making.common \ GetUser(Me),
                                 !.province = making.province \ GetUser(Me)]
    BY <1>4 DEF ExcludeAlreadyFriend
  <2>4. PICK s \in SUBSET Persons : making \in Making(s)
    BY <2>1 DEF Makings
  <2>5. making' \in Making(s)
    BY ONLY <2>2, <2>4 DEF Making
  <2> QED BY <2>5 DEF Makings
<1>5. CASE AddMutualFriendCount
  <2> DEFINE others == making.common \cup making.province
             us == DOMAIN making.list \cup others
             list == [u \in us |->
                      IF u \in others
                        THEN [type |-> IF u \in making.province THEN "province"
                                       ELSE "commonInterest",
                              count |-> MutualCount(Me, u)]
                        ELSE making.list[u]]
  <2>1. making \in Makings
    BY <1>5 DEF AddMutualFriendCount, Makes, Makings
  <2>2. making' = [making EXCEPT !.phase = "store", !.list = list]
    BY <1>5 DEF AddMutualFriendCount
  <2>3. /\ others \subseteq Persons /\ DOMAIN making.list \subseteq Persons
        /\ \A u \in DOMAIN making.list : making.list[u] \in Entries
    BY <2>1 DEF Makings, Making
  <2>4. \A u \in others : MutualCount(Me, u) \in Nat
    BY <2>3, CountType, FriendQueriesAssumption DEF GraphInv
  <2> HIDE DEF others
  <2>5. \A u \in us : list[u] \in Entries
    <3>1. ASSUME NEW u \in others PROVE list[u] \in Entries
      <4>1. list[u] = [type |-> IF u \in making.province THEN "province"
                                       ELSE "commonInterest", count |-> MutualCount(Me, u)]
        OBVIOUS
      <4> HIDE DEF list
      <4> QED BY <2>4, <4>1 DEF Entries, Types
    <3>2. ASSUME NEW u \in DOMAIN making.list \ others PROVE list[u] \in Entries
      BY <2>3
    <3> HIDE DEF list
    <3> QED BY <3>1, <3>2
  <2>6. list \in [us -> Entries]
    BY <2>5
  <2>7. us \subseteq Persons
    BY <2>3
  <2> HIDE DEF us, list
  <2>8. making' \in Making(us)
    <3>1. PICK s \in SUBSET Persons : making \in Making(s)
      BY <2>1 DEF Makings
    <3> QED BY ONLY <2>2, <2>6, <3>1 DEF Making
  <2> QED BY <2>7, <2>8 DEF Makings
<1> QED BY <1>1, <1>2, <1>3, <1>4, <1>5

\* What a reader goes on with is a reading again.
LEMMA ReadingSteps ==
  ASSUME QueriesInv,
         \/ ReadFriends \/ ReadRequests \/ ReadNames
         \/ \E kind \in {"friends", "requests"}, search \in BOOLEAN : StartReading(kind, search)
  PROVE  reading' \in Readings
<1> USE DEF QueriesInv, QueriesTypeOK
<1>1. CASE ReadFriends
  <2> DEFINE page == GetFriendsByUserId(Me, reading.skip, Take, reading.search)
  <2>1. reading \in Readings /\
        reading' = [reading EXCEPT !.skip = reading.skip + Take, !.got = reading.got \o page]
    BY <1>1 DEF ReadFriends, Reads
  <2>2. reading.skip \in Nat /\ reading.got \in Seq(Persons) /\ Take \in Nat
    BY <2>1, FriendQueriesAssumption DEF Readings
  <2>3. page = PageOf(Kept(friendsOf[Me], Includes(reading.search)), reading.skip, Take)
    BY <2>2, PageOfFriends, FriendQueriesAssumption
  <2>4. Kept(friendsOf[Me], Includes(reading.search)) \in Seq(Persons)
    <3> DEFINE I == Includes(reading.search)
    <3> HIDE DEF I
    <3>1. friendsOf[Me] \in Seq(Persons)
      BY FriendQueriesAssumption
    <3> QED BY <3>1, KeptType
  <2> HIDE DEF page
  <2>5. page \in Seq(Persons)
    <3> DEFINE list == Kept(friendsOf[Me], Includes(reading.search))
    <3> HIDE DEF list
    <3> QED BY <2>2, <2>3, <2>4, PageMembers DEF list
  <2>6. reading.got \o page \in Seq(Persons) /\ reading.skip + Take \in Nat
    BY <2>2, <2>5, ConcatProperties
  <2> QED BY <2>1, <2>6 DEF Readings
<1>2. CASE ReadRequests
  <2>1. reading \in Readings /\
        reading' = [reading EXCEPT !.phase = "names", !.ids = PageOf(requests, reading.skip, Take)]
    BY <1>2 DEF ReadRequests, Reads
  <2>2. reading.skip \in Nat /\ Take \in Nat
    BY <2>1, FriendQueriesAssumption DEF Readings
  <2>3. PageOf(requests, reading.skip, Take) \in Seq(Persons)
    BY <2>2, PageMembers
  <2> QED BY <2>1, <2>3 DEF Readings
<1>3. CASE ReadNames
  <2> DEFINE page == Named(reading.ids, GetUserByIds(reading.ids))
  <2>1. reading \in Readings /\
        reading' = [reading EXCEPT !.phase = "page", !.skip = reading.skip + Take, !.ids = <<>>,
                                !.got = reading.got \o page]
    BY <1>3 DEF ReadNames, Reads
  <2>2. reading.skip \in Nat /\ Take \in Nat /\ reading.ids \in Seq(Persons) /\ reading.got \in Seq(Persons)
    BY <2>1, FriendQueriesAssumption DEF Readings
  <2>3. page \in Seq(Persons)
    <3> DEFINE names == ToSet(GetUserByIds(reading.ids))
    <3> HIDE DEF names
    <3>1. Kept(reading.ids, names) \in Seq(Persons)
      BY <2>2, KeptType
    <3> QED BY <3>1 DEF Named, names
  <2> HIDE DEF page
  <2>4. reading.got \o page \in Seq(Persons) /\ reading.skip + Take \in Nat /\ <<>> \in Seq(Persons)
    BY <2>2, <2>3, ConcatProperties
  <2> QED BY <2>1, <2>4 DEF Readings
<1>4. CASE \E kind \in {"friends", "requests"}, search \in BOOLEAN : StartReading(kind, search)
  <2>1. PICK kind \in {"friends", "requests"}, search \in BOOLEAN : StartReading(kind, search)
    BY <1>4
  <2> DEFINE I == Includes(search)
             first == IF kind = "requests" THEN requests ELSE Kept(friendsOf[Me], I)
  <2>2. Kept(friendsOf[Me], I) \in Seq(Persons)
    <3> HIDE DEF I
    <3>1. friendsOf[Me] \in Seq(Persons)
      BY FriendQueriesAssumption
    <3> QED BY <3>1, KeptType
  <2>3. reading' = [phase |-> "page", kind |-> kind, search |-> search, skip |-> 0,
                 ids |-> <<>>, got |-> <<>>, known |-> persons, first |-> first]
    BY <2>1 DEF StartReading
  <2>4. first \in Seq(Persons) /\ <<>> \in Seq(Persons)
    BY <2>2
  <2> HIDE DEF first
  <2> QED BY <2>3, <2>4 DEF Readings
<1> QED BY <1>1, <1>2, <1>3, <1>4

\* Every step keeps the types.
LEMMA TypeGoesOn ==
  ASSUME QueriesInv, [QueriesNext]_queriesVars
  PROVE  QueriesTypeOK'
<1> USE DEF QueriesInv, QueriesTypeOK
<1>1. persons' \subseteq Persons /\ friendsOf' \in [Persons -> Seq(Persons)]
  BY GraphGoesOn DEF GraphInv, GraphType
<1>2. ASSUME NEW u \in Persons, NEW v \in Persons,
             AddRelationship(u, v) \/ RemoveRelationship(u, v) \/ DeleteUser(u)
      PROVE  QueriesTypeOK'
  <2>1. changes' \in 0..MaxChanges
    BY <1>2, FriendQueriesAssumption DEF AddRelationship, RemoveRelationship,
        DeleteUser, Change
  <2>2. FriendIds(u) \subseteq Persons /\ FriendIds(Me) \subseteq Persons
    BY FriendQueriesAssumption DEF GraphInv
  <2>3. touched' \subseteq Persons /\ removed' \subseteq Persons
    BY <1>2, <2>2, FriendQueriesAssumption DEF AddRelationship,
        RemoveRelationship, DeleteUser, Touch, Leave
  <2> QED BY <1>1, <1>2, <2>1, <2>3 DEF AddRelationship, RemoveRelationship,
      DeleteUser
<1>3. ASSUME NEW u \in Persons, CreateRequest(u) PROVE QueriesTypeOK'
  <2>1. changes' \in 0..MaxChanges
    BY <1>3, FriendQueriesAssumption DEF CreateRequest, Change
  <2>2. Append(requests, u) \in Seq(Persons)
    BY AppendMembers
  <2> QED BY <1>1, <1>3, <2>1, <2>2 DEF CreateRequest
<1>4. ASSUME NEW u \in Persons, DeleteRequest(u) PROVE QueriesTypeOK'
  <2>1. changes' \in 0..MaxChanges
    BY <1>4, FriendQueriesAssumption DEF DeleteRequest, Change
  <2>2. Without(requests, u) \in Seq(Persons)
    BY WithoutMembers
  <2>3. removed' \subseteq Persons
    BY <1>4 DEF DeleteRequest, Leave
  <2> QED BY <1>1, <1>4, <2>1, <2>2, <2>3 DEF DeleteRequest
<1>5. ASSUME \/ ReadFriends \/ ReadRequests \/ ReadNames
             \/ \E kind \in {"friends", "requests"}, search \in BOOLEAN : StartReading(kind, search)
      PROVE  QueriesTypeOK'
  <2>1. reading' \in Readings
    BY <1>5, ReadingSteps
  <2> QED BY <1>1, <1>5, <2>1 DEF ReadFriends, ReadRequests, ReadNames,
      StartReading, Quietly
<1>6. ASSUME StopReading PROVE QueriesTypeOK'
  BY <1>1, <1>6 DEF StopReading, Quietly
<1>7. ASSUME StartMaking \/ GetMutual \/ GetOthers \/ ExcludeAlreadyFriend \/ AddMutualFriendCount
      PROVE  QueriesTypeOK'
  <2>1. making' \in Makings
    BY <1>7, MakingSteps
  <2> QED BY <1>1, <1>7, <2>1 DEF StartMaking, GetMutual, GetOthers,
      ExcludeAlreadyFriend, AddMutualFriendCount, Quietly, Makings
<1>8. ASSUME Store PROVE QueriesTypeOK'
  <2>1. DOMAIN making.list \subseteq Persons
    BY <1>8 DEF Store, Makes, Making
  <2>2. IsFiniteSet(DOMAIN making.list)
    BY <2>1, FriendQueriesAssumption, FS_Subset
  <2>3. stored' \in Seq(DOMAIN making.list)
    BY <1>8, <2>2, ListOfSet DEF Store
  <2>4. stored' \in Seq(Persons)
    BY <2>1, <2>3, SeqMonotonic
  <2> QED BY <1>1, <1>8, <2>4 DEF Store, Quietly
<1>9. CASE UNCHANGED queriesVars
  BY <1>9 DEF queriesVars, graph
<1> QED BY <1>2, <1>3, <1>4, <1>5, <1>6, <1>7, <1>8, <1>9 DEF QueriesNext

\* Every variable keeps its type, and the graph stays as described, for any
\* number of persons and of changes.
THEOREM QueriesTypeCorrect == QueriesSpec => []QueriesInv
<1>1. QueriesInit => QueriesInv
  BY GraphInitially, TypeInitially DEF QueriesInv
<1>2. QueriesInv /\ [QueriesNext]_queriesVars => QueriesInv'
  BY GraphGoesOn, TypeGoesOn DEF QueriesInv
<1> QED BY <1>1, <1>2, PTL DEF QueriesSpec

-----------------------------------------------------------------------------
(* The list of recommendations in the making.                              *)

\* Whoever is not touched keeps their friends and stays, or stays away.
LEMMA UntouchedStay ==
  ASSUME QueriesInv, [QueriesNext]_queriesVars, making # Resting, making' # Resting
  PROVE  /\ touched \subseteq touched'
         /\ \A w \in Persons \ touched' :
               friendsOf'[w] = friendsOf[w] /\ (w \in persons' <=> w \in persons)
<1> USE DEF QueriesInv
<1>1. ASSUME NEW u \in Persons, NEW v \in Persons, AddRelationship(u, v) \/ RemoveRelationship(u, v)
      PROVE  /\ touched \subseteq touched'
             /\ \A w \in Persons \ touched' :
               friendsOf'[w] = friendsOf[w] /\ (w \in persons' <=> w \in persons)
  <2>1. touched' = touched \cup {u, v}
    BY <1>1 DEF AddRelationship, RemoveRelationship, Touch
  <2>2. \A w \in Persons \ {u, v} : friendsOf'[w] = friendsOf[w]
    BY <1>1, AddEffect, RemoveEffect
  <2>3. persons' = persons \cup {u, v} \/ persons' = persons
    BY <1>1 DEF AddRelationship, RemoveRelationship
  <2> QED BY <2>1, <2>2, <2>3
<1>2. ASSUME NEW u \in Persons, DeleteUser(u)
      PROVE  /\ touched \subseteq touched'
             /\ \A w \in Persons \ touched' :
               friendsOf'[w] = friendsOf[w] /\ (w \in persons' <=> w \in persons)
  <2>1. touched' = touched \cup ({u} \cup FriendIds(u)) /\ persons' = persons \ {u}
    BY <1>2 DEF DeleteUser, Touch
  <2>2. \A w \in Persons \ {u} : u \notin FriendIds(w) => friendsOf'[w] = friendsOf[w]
    BY <1>2, DeleteEffect
  <2>3. \A w \in Persons : u \in FriendIds(w) => w \in FriendIds(u)
    BY DEF GraphInv
  <2> QED BY <2>1, <2>2, <2>3
<1>3. ASSUME UNCHANGED graph
      PROVE  \A w \in Persons \ touched' :
               friendsOf'[w] = friendsOf[w] /\ (w \in persons' <=> w \in persons)
  BY <1>3 DEF graph
<1>4. ASSUME ~ (\E u, v \in Persons : AddRelationship(u, v) \/ RemoveRelationship(u, v)),
             ~ (\E u \in Persons : DeleteUser(u))
      PROVE  touched' = touched
  <2>1. ~ Store
    BY DEF Store
  <2> QED BY <1>4, <2>1 DEF QueriesNext, queriesVars, CreateRequest,
      DeleteRequest, StartReading, ReadFriends, ReadRequests,
   ReadNames, StopReading, StartMaking, GetMutual, GetOthers, ExcludeAlreadyFriend, AddMutualFriendCount
<1> QED BY <1>1, <1>2, <1>3, <1>4, OtherSteps

\* While a list is made, whom it names and whom it will.
MakingInv ==
  making # Resting =>
    /\ Me \notin DOMAIN making.list \cup making.common \cup making.province
    /\ \A u \in DOMAIN making.list :
         /\ u \in FriendIds(Me) => u \in touched
         /\ {u, Me} \cap touched = {} => making.list[u].count = MutualCount(Me, u)
    /\ making.phase \in {"count", "store"} =>
         \A u \in making.common \cup making.province : u \in FriendIds(Me) => u \in touched

\* Changes of the graph touch whom they concern.
LEMMA MakingMeanwhile ==
  ASSUME QueriesInv, QueriesInv', MakingInv, [QueriesNext]_queriesVars, making' = making
  PROVE  MakingInv'
<1> USE DEF QueriesInv
<1> SUFFICES ASSUME making # Resting PROVE MakingInv'
  BY DEF MakingInv
<1>0. Me \in Persons /\ making \in Makings
  BY FriendQueriesAssumption DEF QueriesTypeOK, Makings
<1>1. /\ touched \subseteq touched'
      /\ \A w \in Persons \ touched' :
               friendsOf'[w] = friendsOf[w] /\ (w \in persons' <=> w \in persons)
  BY UntouchedStay
<1>2. DOMAIN making.list \cup making.common \cup making.province \subseteq Persons
  BY <1>0 DEF Makings, Making
<1>3. ASSUME NEW u \in Persons, u \in FriendIds(Me)', u \notin touched'
      PROVE  u \in FriendIds(Me) /\ u \notin touched
  <2>1. Me \in FriendIds(u)'
    BY <1>0, <1>3 DEF GraphInv
  <2>2. Me \in FriendIds(u)
    BY <1>1, <1>3, <2>1 DEF FriendIds
  <2> QED BY <1>0, <1>1, <1>3, <2>2 DEF GraphInv
<1>4. ASSUME NEW u \in Persons, {u, Me} \cap touched' = {}
      PROVE  MutualCount(Me, u)' = MutualCount(Me, u) /\ {u, Me} \cap touched = {}
  <2>1. /\ friendsOf'[u] = friendsOf[u] /\ friendsOf'[Me] = friendsOf[Me]
        /\ (u \in persons' <=> u \in persons) /\ (Me \in persons' <=> Me \in persons)
    BY <1>0, <1>1, <1>4
  <2> QED BY <1>1, <1>4, <2>1 DEF MutualCount, FriendIds
<1>5. ASSUME NEW u \in DOMAIN making.list, u \in FriendIds(Me)' PROVE u \in touched'
  BY <1>2, <1>3, <1>5 DEF MakingInv
<1>6. ASSUME NEW u \in DOMAIN making.list, {u, Me} \cap touched' = {}
      PROVE  making.list[u].count = MutualCount(Me, u)'
  BY <1>2, <1>4, <1>6 DEF MakingInv
<1>7. ASSUME making.phase \in {"count", "store"}, NEW u \in making.common \cup making.province, u \in FriendIds(Me)'
      PROVE  u \in touched'
  BY <1>2, <1>3, <1>7 DEF MakingInv
<1> QED BY <1>5, <1>6, <1>7 DEF MakingInv

\* The strangers that are friends of friends.
LEMMA MutualAreStrangers ==
  ASSUME GraphInv, NEW u \in Persons, NEW skip \in Nat, NEW take \in Nat, NEW search, NEW min
  PROVE  ToSet(GetMutualFriendsOfUser(u, skip, take, search, min)) \subseteq persons \ ({u} \cup FriendIds(u))
<1> DEFINE list == FriendOfFriends(u)
           shown == (persons \cap Includes(search)) \ ({u} \cup FriendIds(u))
           good == {v \in persons : MutualCount(u, v) >= min}
           found == Strangers(u, search)
           page == PageOf(found, skip, take)
<1>1. list \in Seq(Persons)
  BY FriendsOfFriends DEF GraphInv
<1>2. found \in Seq(Persons) /\ ToSet(found) = ToSet(list) \cap shown
  <2>1. found = Kept(list, shown)
    BY DEF Strangers
  <2> HIDE DEF found, list, shown
  <2> QED BY <1>1, <2>1, KeptType
<1>3. page \in Seq(Persons) /\ ToSet(page) \subseteq ToSet(found)
  <2> HIDE DEF found
  <2>1. /\ PageOf(found, skip, take) \in Seq(Persons)
        /\ \A i \in 1..Len(PageOf(found, skip, take)) :
              /\ skip + i \in 1..Len(found)
              /\ PageOf(found, skip, take)[i] = found[skip + i]
    BY <1>2, PageMembers
  <2> HIDE DEF page
  <2>2. DOMAIN page = 1..Len(page) /\ DOMAIN found = 1..Len(found)
    BY <1>2, <2>1, LenProperties DEF page
  <2> QED BY <2>1, <2>2 DEF page, ToSet
<1>4. ToSet(Kept(page, good)) = ToSet(page) \cap good
  <2> HIDE DEF page, good
  <2> QED BY <1>3, KeptType
<1>5. GetMutualFriendsOfUser(u, skip, take, search, min) = Kept(page, good)
  BY PageOfStrangers
<1>6. shown \subseteq persons \ ({u} \cup FriendIds(u))
  OBVIOUS
<1> HIDE DEF page, good, found, list, shown
<1> QED BY <1>2, <1>3, <1>4, <1>5, <1>6

\* Each answer that is put into the list in the making keeps what is said of it.
LEMMA MakingGoesOn ==
  ASSUME QueriesInv, QueriesInv', MakingInv, [QueriesNext]_queriesVars
  PROVE  MakingInv'
<1> USE DEF QueriesInv
<1>0. Me \in Persons
  BY FriendQueriesAssumption
<1>1. CASE making' = making
  BY <1>1, MakingMeanwhile
<1>2. CASE StartMaking
  <2>1. making' = [phase |-> "mutual", common |-> {}, province |-> {}, list |-> Nobody]
    BY <1>2 DEF StartMaking
  <2>2. DOMAIN Nobody = {}
    BY DEF Nobody
  <2> QED BY <2>1, <2>2 DEF MakingInv
<1>3. CASE GetMutual
  <2> DEFINE us == ToSet(GetMutualFriendsOfUser(Me, 0, TakeMutual, FALSE, MinMutual))
             list == [u \in us |-> [type |-> "mutualCount", count |-> MutualCount(Me, u)]]
  <2>1. us \subseteq persons \ ({Me} \cup FriendIds(Me))
    BY <1>0, FriendQueriesAssumption, MutualAreStrangers
  <2>2. making \in Makings /\ making # Resting
    BY <1>3 DEF GetMutual, Makes, QueriesTypeOK, Makings
  <2>3. making' = [making EXCEPT !.phase = "others", !.list = list]
    BY <1>3 DEF GetMutual
  <2>4. /\ making'.phase = "others" /\ making'.list = list
        /\ making'.common = making.common /\ making'.province = making.province
    BY <2>2, <2>3 DEF Makings, Making
  <2>5. UNCHANGED <<graph, touched>>
    BY <1>3 DEF GetMutual, Quietly
  <2>6. /\ FriendIds(Me)' = FriendIds(Me)
        /\ \A u \in Persons : MutualCount(Me, u)' = MutualCount(Me, u)
    BY <2>5 DEF graph, FriendIds, MutualCount
  <2>7. us \subseteq Persons
    BY <2>1 DEF QueriesTypeOK
  <2> HIDE DEF us
  <2>8. DOMAIN list = us /\ \A u \in us : list[u].count = MutualCount(Me, u)
    OBVIOUS
  <2> HIDE DEF list
  <2>9. \A u \in DOMAIN list : u \notin FriendIds(Me)' /\ list[u].count = MutualCount(Me, u)'
    BY <2>1, <2>6, <2>7, <2>8
  <2>10. Me \notin DOMAIN list \cup making.common \cup making.province
    BY <2>1, <2>2, <2>8 DEF MakingInv
  <2> QED BY <2>4, <2>9, <2>10 DEF MakingInv
<1>4. CASE GetOthers
  <2>1. making \in Makings /\ making # Resting
    BY <1>4 DEF GetOthers, Makes, QueriesTypeOK, Makings
  <2>2. PICK common, province \in Alike :
          making' = [making EXCEPT !.phase = "exclude", !.common = common, !.province = province]
    BY <1>4 DEF GetOthers
  <2>3. Me \notin common \cup province
    BY FriendQueriesAssumption
  <2>4. /\ making'.phase = "exclude" /\ making'.list = making.list
        /\ making'.common = common /\ making'.province = province
    BY <2>1, <2>2 DEF Makings, Making
  <2>5. UNCHANGED <<graph, touched>>
    BY <1>4 DEF GetOthers, Quietly
  <2>6. /\ FriendIds(Me)' = FriendIds(Me)
        /\ \A u \in Persons : MutualCount(Me, u)' = MutualCount(Me, u)
    BY <2>5 DEF graph, FriendIds, MutualCount
  <2>7. DOMAIN making.list \subseteq Persons
    BY <2>1 DEF Makings, Making
  <2> QED BY <2>1, <2>3, <2>4, <2>5, <2>6, <2>7 DEF MakingInv
<1>5. CASE ExcludeAlreadyFriend
  <2>1. making \in Makings /\ making # Resting
    BY <1>5 DEF ExcludeAlreadyFriend, Makes, QueriesTypeOK, Makings
  <2>2. making' = [making EXCEPT !.phase = "count", !.common = making.common \ GetUser(Me),
                                 !.province = making.province \ GetUser(Me)]
    BY <1>5 DEF ExcludeAlreadyFriend
  <2>3. FriendIds(Me) \subseteq GetUser(Me)
    BY <1>0 DEF GetUser, GraphInv, GraphType
  <2>4. /\ making'.phase = "count" /\ making'.list = making.list
        /\ making'.common = making.common \ GetUser(Me)
        /\ making'.province = making.province \ GetUser(Me)
    BY <2>1, <2>2 DEF Makings, Making
  <2>5. UNCHANGED <<graph, touched>>
    BY <1>5 DEF ExcludeAlreadyFriend, Quietly
  <2>6. /\ FriendIds(Me)' = FriendIds(Me)
        /\ \A u \in Persons : MutualCount(Me, u)' = MutualCount(Me, u)
    BY <2>5 DEF graph, FriendIds, MutualCount
  <2>7. DOMAIN making.list \subseteq Persons
    BY <2>1 DEF Makings, Making
  <2> QED BY <2>1, <2>3, <2>4, <2>5, <2>6, <2>7 DEF MakingInv
<1>6. CASE AddMutualFriendCount
  <2> DEFINE others == making.common \cup making.province
             us == DOMAIN making.list \cup others
             list == [u \in us |->
                      IF u \in others
                        THEN [type |-> IF u \in making.province THEN "province"
                                       ELSE "commonInterest",
                              count |-> MutualCount(Me, u)]
                        ELSE making.list[u]]
  <2>1. making \in Makings /\ making # Resting /\ making.phase = "count"
    BY <1>6 DEF AddMutualFriendCount, Makes, QueriesTypeOK, Makings
  <2>2. making' = [making EXCEPT !.phase = "store", !.list = list]
    BY <1>6 DEF AddMutualFriendCount
  <2>3. /\ making'.phase = "store" /\ making'.list = list
        /\ making'.common = making.common /\ making'.province = making.province
    BY <2>1, <2>2 DEF Makings, Making
  <2>4. UNCHANGED <<graph, touched>>
    BY <1>6 DEF AddMutualFriendCount, Quietly
  <2>5. /\ FriendIds(Me)' = FriendIds(Me)
        /\ \A u \in Persons : MutualCount(Me, u)' = MutualCount(Me, u)
    BY <2>4 DEF graph, FriendIds, MutualCount
  <2>6. us \subseteq Persons
    BY <2>1 DEF Makings, Making
  <2>7. /\ DOMAIN list = us
        /\ \A u \in others : list[u].count = MutualCount(Me, u)
        /\ \A u \in us \ others : list[u] = making.list[u]
    OBVIOUS
  <2>8. us \ others \subseteq DOMAIN making.list /\ us = DOMAIN making.list \cup others
    OBVIOUS
  <2> HIDE DEF us, list
  <2>9. Me \notin us /\ \A u \in others : u \in FriendIds(Me) => u \in touched
    BY <2>1, <2>8 DEF MakingInv
  <2>10. \A u \in us : u \in FriendIds(Me) => u \in touched
    BY <2>1, <2>8, <2>9 DEF MakingInv
  <2> HIDE DEF others
  <2>11. ASSUME NEW u \in us, {u, Me} \cap touched = {} PROVE list[u].count = MutualCount(Me, u)
    <3>1. CASE u \in others
      BY <2>7, <3>1
    <3>2. CASE u \notin others
      BY <2>1, <2>7, <2>8, <2>11, <3>2 DEF MakingInv
    <3> QED BY <3>1, <3>2
  <2>12. Me \notin us \cup making'.common \cup making'.province
    BY <2>3, <2>9, <2>8 DEF others
  <2>13. \A u \in making'.common \cup making'.province : u \in FriendIds(Me)' => u \in touched'
    BY <2>3, <2>4, <2>5, <2>9 DEF others
  <2>14. \A u \in us : /\ u \in FriendIds(Me)' => u \in touched'
                       /\ {u, Me} \cap touched' = {} => list[u].count = MutualCount(Me, u)'
    BY <2>4, <2>5, <2>6, <2>10, <2>11
  <2> QED BY <2>3, <2>7, <2>12, <2>13, <2>14 DEF MakingInv
<1>7. CASE Store
  BY <1>7 DEF Store, MakingInv
<1>8. \/ making' = making \/ StartMaking \/ GetMutual \/ GetOthers \/ ExcludeAlreadyFriend
      \/ AddMutualFriendCount \/ Store
  BY DEF QueriesNext, queriesVars, AddRelationship, RemoveRelationship,
      DeleteUser, CreateRequest,
     DeleteRequest, StartReading, ReadFriends, ReadRequests, ReadNames, StopReading
<1> QED BY <1>1, <1>2, <1>3, <1>4, <1>5, <1>6, <1>7, <1>8

\* For any users and any changes meanwhile: the list about to be stored by
\* generateRecommendation (friend-recommendation.service.ts:77-113) does not name
\* its user, and names a friend or a wrong count only after a change.
THEOREM OnlyStrangersStored == QueriesSpec => []StrangersOnly
<1>1. QueriesInit => QueriesInv /\ MakingInv
  BY GraphInitially, TypeInitially DEF QueriesInv, QueriesInit, MakingInv
<1>2. QueriesInv /\ MakingInv /\ [QueriesNext]_queriesVars => (QueriesInv /\ MakingInv)'
  <2>1. QueriesInv /\ [QueriesNext]_queriesVars => QueriesInv'
    BY GraphGoesOn, TypeGoesOn DEF QueriesInv
  <2> QED BY <2>1, MakingGoesOn
<1>3. MakingInv => StrangersOnly
  BY DEF MakingInv, StrangersOnly, Makes
<1> QED BY <1>1, <1>2, <1>3, PTL DEF QueriesSpec

-----------------------------------------------------------------------------
(* Lists that change.                                                      *)

\* The list that Me reads, as it is now.
Current(kind, search) ==
  IF kind = "requests" THEN requests ELSE Kept(friendsOf[Me], Includes(search))

\* A list that becomes another one loses only some, and its other members move
\* to the left or stay, those before the first loss in their places.
Bears(list, later, gone) ==
  /\ \A p \in 1..Len(list) : list[p] \notin gone =>
       \E q \in 1..Len(later) : q <= p /\ later[q] = list[p]
  /\ \A k \in 1..Len(list) : (\A i \in 1..k : list[i] \notin gone) =>
       k <= Len(later) /\ \A i \in 1..k : later[i] = list[i]

\* A list bears itself.
LEMMA BearsNothing ==
  ASSUME NEW list \in Seq(Persons), NEW gone
  PROVE  Bears(list, list, gone)
<1>1. Len(list) \in Nat
  BY LenProperties
<1> QED BY <1>1 DEF Bears

\* It bears what comes last.
LEMMA BearsAppend ==
  ASSUME NEW list \in Seq(Persons), NEW x \in Persons, NEW gone
  PROVE  Bears(list, Append(list, x), gone)
<1>1. /\ Len(list) \in Nat /\ Len(Append(list, x)) = Len(list) + 1
      /\ \A i \in 1..Len(list) : Append(list, x)[i] = list[i]
  BY LenProperties, AppendProperties
<1>2. \A p \in 1..Len(list) : p \in 1..Len(Append(list, x)) /\ p <= p /\ p <= Len(Append(list, x))
        /\ \A i \in 1..p : i \in 1..Len(list)
  BY <1>1
<1> QED BY <1>1, <1>2 DEF Bears

\* It bears what is taken out of it, when that is said to be gone.
LEMMA BearsKept ==
  ASSUME NEW list \in Seq(Persons), NEW set, NEW gone, ToSet(list) \ set \subseteq gone
  PROVE  Bears(list, Kept(list, set), gone)
<1>1. \A i \in 1..Len(list) : list[i] \in ToSet(list)
  BY InSeqOfMembers
<1>2. Len(list) \in Nat
  BY LenProperties
<1>3. ASSUME NEW p \in 1..Len(list), list[p] \notin gone
      PROVE  \E q \in 1..Len(Kept(list, set)) : q <= p /\ Kept(list, set)[q] = list[p]
  <2>1. list[p] \in set
    BY <1>1, <1>3
  <2> QED BY <2>1, KeptMovesLeft
<1>4. ASSUME NEW k \in 1..Len(list), \A i \in 1..k : list[i] \notin gone
      PROVE  k <= Len(Kept(list, set)) /\ \A i \in 1..k : Kept(list, set)[i] = list[i]
  <2>1. \A i \in 1..k : list[i] \in set
    BY <1>1, <1>2, <1>4
  <2> QED BY <2>1, KeptBeginning
<1> QED BY <1>3, <1>4 DEF Bears

\* A search of the friends without one is the search without that one.
LEMMA SearchWithout ==
  ASSUME NEW list \in Seq(Persons), NEW I, NEW u
  PROVE  Kept(Without(list, u), I) = Without(Kept(list, I), u)
<1> DEFINE P == Persons \ {u}
<1>1. Without(list, u) = Kept(list, P) /\ Without(Kept(list, I), u) = Kept(Kept(list, I), P)
  BY DEF Without
<1> HIDE DEF P
<1>2. Kept(Kept(list, P), I) = Kept(list, P \cap I) /\ Kept(Kept(list, I), P) = Kept(list, I \cap P)
  BY KeptTwice
<1>3. P \cap I = I \cap P
  OBVIOUS
<1> QED BY <1>1, <1>2, <1>3

\* The requests are from, or to, different users, and never from Me to Me.
RequestsInv == IsInjective(requests) /\ Me \notin ToSet(requests)

\* Nobody is asked twice at a time, and Me does not ask Me.
LEMMA RequestsGoOn ==
  ASSUME QueriesInv, RequestsInv, [QueriesNext]_queriesVars
  PROVE  RequestsInv'
<1> USE DEF QueriesInv, QueriesTypeOK
<1>1. ASSUME NEW u \in Persons, CreateRequest(u) PROVE RequestsInv'
  <2>1. u # Me /\ u \notin ToSet(requests) /\ requests' = Append(requests, u)
    BY <1>1 DEF CreateRequest
  <2>2. IsInjective(Append(requests, u))
    BY <2>1, InjectiveAppend DEF RequestsInv
  <2>3. ToSet(Append(requests, u)) = ToSet(requests) \cup {u}
    BY AppendMembers
  <2> QED BY <2>1, <2>2, <2>3 DEF RequestsInv
<1>2. ASSUME NEW u \in Persons, DeleteRequest(u) PROVE RequestsInv'
  <2>1. requests' = Without(requests, u)
    BY <1>2 DEF DeleteRequest
  <2>2. /\ ToSet(Without(requests, u)) = ToSet(requests) \ {u}
        /\ IsInjective(requests) => IsInjective(Without(requests, u))
    BY WithoutMembers
  <2> QED BY <2>1, <2>2 DEF RequestsInv
<1>3. CASE UNCHANGED requests
  BY <1>3 DEF RequestsInv
<1>4. \/ \E u \in Persons : CreateRequest(u) \/ DeleteRequest(u)
      \/ UNCHANGED requests
  BY DEF QueriesNext, queriesVars, AddRelationship, RemoveRelationship, DeleteUser,
     StartReading, ReadFriends, ReadRequests, ReadNames, StopReading, StartMaking, GetMutual,
     GetOthers, ExcludeAlreadyFriend, AddMutualFriendCount, Store, Quietly
<1> QED BY <1>1, <1>2, <1>3, <1>4

\* The list that is read has users in it, each once.
LEMMA CurrentType ==
  ASSUME QueriesInv, RequestsInv, NEW kind, NEW search
  PROVE  Current(kind, search) \in Seq(Persons) /\ IsInjective(Current(kind, search))
<1> DEFINE I == Includes(search)
           F == friendsOf[Me]
<1>1. F \in Seq(Persons) /\ IsInjective(F)
  BY FriendQueriesAssumption DEF QueriesInv, GraphInv, GraphType
<1>2. Kept(F, I) \in Seq(Persons) /\ IsInjective(Kept(F, I))
  <2> HIDE DEF F, I
  <2>1. Kept(F, I) \in Seq(Persons)
    BY <1>1, KeptType
  <2>2. IsInjective(Kept(F, I))
    BY <1>1, KeptInjective
  <2> QED BY <2>1, <2>2
<1> QED BY <1>2 DEF Current, RequestsInv, QueriesInv, QueriesTypeOK

\* So has the list after a step.
LEMMA CurrentTypeLater ==
  ASSUME QueriesInv', RequestsInv', NEW kind, NEW search
  PROVE  Current(kind, search)' \in Seq(Persons) /\ IsInjective(Current(kind, search)')
<1> DEFINE I == Includes(search)
           F == friendsOf'[Me]
<1>1. F \in Seq(Persons) /\ IsInjective(F)
  BY FriendQueriesAssumption DEF QueriesInv, GraphInv, GraphType
<1>2. Kept(F, I) \in Seq(Persons) /\ IsInjective(Kept(F, I))
  <2> HIDE DEF F, I
  <2>1. Kept(F, I) \in Seq(Persons)
    BY <1>1, KeptType
  <2>2. IsInjective(Kept(F, I))
    BY <1>1, KeptInjective
  <2> QED BY <2>1, <2>2
<1> QED BY <1>2 DEF Current, Includes, RequestsInv, QueriesInv, QueriesTypeOK

\* What happens to the list while Me reads it.
LEMMA CurrentBears ==
  ASSUME QueriesInv, RequestsInv, [QueriesNext]_queriesVars, reading # Resting, reading' = reading,
         NEW kind, NEW search
  PROVE  /\ removed \subseteq removed'
         /\ persons \ (removed' \cup {Me}) \subseteq persons'
         /\ Bears(Current(kind, search), Current(kind, search)', removed')
<1> DEFINE I == Includes(search)
           F == friendsOf[Me]
           E == Kept(F, I)
           list == Current(kind, search)
<1>0. Me \in Persons /\ F \in Seq(Persons) /\ requests \in Seq(Persons)
  BY FriendQueriesAssumption DEF QueriesInv, QueriesTypeOK
<1>1. E \in Seq(Persons) /\ ToSet(E) \subseteq FriendIds(Me)
  <2>1. ToSet(F) = FriendIds(Me)
    BY DEF FriendIds
  <2> HIDE DEF F, I
  <2>2. Kept(F, I) \in Seq(Persons) /\ ToSet(Kept(F, I)) = ToSet(F) \cap I
    BY <1>0, KeptType
  <2> QED BY <2>1, <2>2
<1>2. /\ Current(kind, search) = IF kind = "requests" THEN requests ELSE E
      /\ Current(kind, search)' = IF kind = "requests" THEN requests' ELSE Kept(friendsOf'[Me], I)
  BY DEF Current, Includes
<1>3. ASSUME UNCHANGED requests, Bears(E, Kept(friendsOf'[Me], I), removed')
      PROVE  Bears(Current(kind, search), Current(kind, search)', removed')
  <2>1. Bears(requests, requests, removed')
    BY <1>0, BearsNothing
  <2> HIDE DEF E
  <2> QED BY <1>2, <1>3, <2>1
<1>4. ASSUME friendsOf'[Me] = F PROVE Bears(E, Kept(friendsOf'[Me], I), removed')
  <2>1. Kept(friendsOf'[Me], I) = E
    BY <1>4
  <2> HIDE DEF E
  <2> QED BY <1>1, <2>1, BearsNothing
<1>5. ASSUME NEW u \in Persons, friendsOf'[Me] = Without(F, u), u \in removed'
      PROVE  Bears(E, Kept(friendsOf'[Me], I), removed')
  <2>1. Kept(Without(F, u), I) = Without(E, u)
    <3> HIDE DEF F, I
    <3> QED BY <1>0, SearchWithout
  <2> DEFINE P == Persons \ {u}
  <2>2. Without(E, u) = Kept(E, P)
    BY DEF Without
  <2>3. ToSet(E) \subseteq Persons
    <3> HIDE DEF E
    <3> QED BY <1>1, InSeqOfMembers
  <2>4. ToSet(E) \ P \subseteq removed'
    BY <1>5, <2>3
  <2>5. Bears(E, Kept(E, P), removed')
    <3> HIDE DEF E, P
    <3> QED BY <1>1, <2>4, BearsKept
  <2>6. Kept(friendsOf'[Me], I) = Kept(Without(F, u), I)
    BY <1>5
  <2> HIDE DEF E, P
  <2> QED BY <2>1, <2>2, <2>5, <2>6
<1>6. ASSUME NEW u \in Persons, friendsOf'[Me] = Append(F, u)
      PROVE  Bears(E, Kept(friendsOf'[Me], I), removed')
  <2>1. Kept(Append(F, u), I) = IF u \in I THEN Append(E, u) ELSE E
    <3> HIDE DEF F, I
    <3> QED BY <1>0, KeptAppend
  <2>2. Bears(E, Append(E, u), removed') /\ Bears(E, E, removed')
    <3> HIDE DEF E
    <3> QED BY <1>1, BearsAppend, BearsNothing
  <2>3. Kept(friendsOf'[Me], I) = Kept(Append(F, u), I)
    BY <1>6
  <2> HIDE DEF E
  <2> QED BY <2>1, <2>2, <2>3
<1>7. ASSUME NEW u \in Persons, NEW v \in Persons, AddRelationship(u, v)
      PROVE  /\ removed \subseteq removed'
             /\ persons \ (removed' \cup {Me}) \subseteq persons'
             /\ Bears(Current(kind, search), Current(kind, search)', removed')
  <2>1. UNCHANGED <<requests, removed>> /\ persons \subseteq persons'
    BY <1>7 DEF AddRelationship
  <2>2. \/ \E w \in Persons : friendsOf'[Me] = Append(F, w)
        \/ friendsOf'[Me] = F
    BY <1>0, <1>7, AddEffect DEF QueriesInv
  <2> HIDE DEF F, I, E
  <2> QED BY <1>3, <1>4, <1>6, <2>1, <2>2
<1>8. ASSUME NEW u \in Persons, NEW v \in Persons, RemoveRelationship(u, v)
      PROVE  /\ removed \subseteq removed'
             /\ persons \ (removed' \cup {Me}) \subseteq persons'
             /\ Bears(Current(kind, search), Current(kind, search)', removed')
  <2>1. UNCHANGED <<requests, persons>> /\ removed' = removed \cup (IF Me \in {u, v} THEN {u, v} ELSE {})
    BY <1>8 DEF RemoveRelationship, Leave
  <2>2. \/ \E w \in Persons : friendsOf'[Me] = Without(F, w) /\ w \in removed'
        \/ friendsOf'[Me] = F
    <3>1. /\ friendsOf'[u] = Without(friendsOf[u], v)
          /\ friendsOf'[v] = Without(friendsOf[v], u)
          /\ \A w \in Persons \ {u, v} : friendsOf'[w] = friendsOf[w]
      BY <1>8, RemoveEffect DEF QueriesInv
    <3> QED BY <1>0, <2>1, <3>1
  <2> HIDE DEF F, I, E
  <2> QED BY <1>3, <1>4, <1>5, <2>1, <2>2
<1>9. ASSUME NEW u \in Persons, DeleteUser(u)
      PROVE  /\ removed \subseteq removed'
             /\ persons \ (removed' \cup {Me}) \subseteq persons'
             /\ Bears(Current(kind, search), Current(kind, search)', removed')
  <2>1. /\ UNCHANGED requests /\ persons' = persons \ {u}
        /\ removed' = removed \cup (IF u = Me THEN FriendIds(Me) ELSE {u})
    BY <1>9 DEF DeleteUser, Leave
  <2>2. CASE u # Me
    <3>1. friendsOf'[Me] = Without(F, u)
      BY <1>0, <1>9, <2>2, DeleteEffect DEF QueriesInv
    <3> HIDE DEF F, I, E
    <3> QED BY <1>3, <1>5, <2>1, <2>2, <3>1
  <2>3. CASE u = Me
    <3>1. friendsOf'[Me] = <<>>
      BY <1>9, <2>3, DeleteEffect DEF QueriesInv
    <3>2. Kept(friendsOf'[Me], I) = <<>>
      <4> HIDE DEF I
      <4> QED BY <3>1, KeptEmpty
    <3>3. ToSet(E) \subseteq removed'
      <4> HIDE DEF E
      <4> QED BY <1>1, <2>1, <2>3
    <3> HIDE DEF E
    <3>4. Len(E) \in Nat /\ \A i \in 1..Len(E) : E[i] \in removed'
      BY <1>1, <3>3, InSeqOfMembers, LenProperties
    <3>5. Bears(E, Kept(friendsOf'[Me], I), removed')
      <4> DEFINE D == Kept(friendsOf'[Me], I)
      <4> HIDE DEF D
      <4>1. ASSUME NEW k \in 1..Len(E), \A i \in 1..k : E[i] \notin removed' PROVE FALSE
        <5>1. k \in 1..k
          BY <3>4
        <5> QED BY <3>4, <4>1, <5>1
      <4>2. Bears(E, D, removed')
        BY <3>4, <4>1 DEF Bears
      <4> QED BY <4>2 DEF D
    <3> QED BY <1>3, <2>1, <2>3, <3>5
  <2> QED BY <2>2, <2>3
<1>10. ASSUME NEW u \in Persons, CreateRequest(u) \/ DeleteRequest(u)
       PROVE  /\ removed \subseteq removed'
              /\ persons \ (removed' \cup {Me}) \subseteq persons'
              /\ Bears(Current(kind, search), Current(kind, search)', removed')
  <2>1. removed \subseteq removed' /\ UNCHANGED graph
    BY <1>10 DEF CreateRequest, DeleteRequest, Leave
  <2>2. Bears(requests, requests', removed')
    <3>1. CASE CreateRequest(u)
      <4>1. requests' = Append(requests, u)
        BY <3>1 DEF CreateRequest
      <4> QED BY <1>0, <4>1, BearsAppend
    <3>2. CASE DeleteRequest(u)
      <4> DEFINE P == Persons \ {u}
      <4>1. requests' = Kept(requests, P) /\ u \in removed'
        BY <3>2 DEF DeleteRequest, Without, Leave
      <4>2. ToSet(requests) \ P \subseteq removed'
        <5>1. ToSet(requests) \subseteq Persons
          BY <1>0, InSeqOfMembers
        <5> QED BY <4>1, <5>1
      <4> HIDE DEF P
      <4> QED BY <1>0, <4>1, <4>2, BearsKept
    <3> QED BY <1>10, <3>1, <3>2
  <2>3. Bears(E, Kept(friendsOf'[Me], I), removed')
    <3>1. friendsOf'[Me] = F
      BY <2>1 DEF graph
    <3> HIDE DEF E, F, I
    <3> QED BY <1>4, <3>1
  <2>4. Bears(Current(kind, search), Current(kind, search)', removed')
    <3> HIDE DEF E
    <3> QED BY <1>2, <2>2, <2>3
  <2> QED BY <2>1, <2>4 DEF graph
<1>11. ASSUME UNCHANGED <<graph, requests>>, removed' = removed
       PROVE  /\ removed \subseteq removed'
              /\ persons \ (removed' \cup {Me}) \subseteq persons'
              /\ Bears(Current(kind, search), Current(kind, search)', removed')
  <2>1. friendsOf'[Me] = F /\ UNCHANGED requests
    BY <1>11 DEF graph
  <2>2. Bears(Current(kind, search), Current(kind, search)', removed')
    <3> HIDE DEF E, F, I
    <3> QED BY <1>3, <1>4, <2>1
  <2> QED BY <1>11, <2>2 DEF graph
<1>12. \/ \E u, v \in Persons : AddRelationship(u, v) \/ RemoveRelationship(u, v)
       \/ \E u \in Persons : DeleteUser(u) \/ CreateRequest(u) \/ DeleteRequest(u)
       \/ UNCHANGED <<graph, requests, removed>>
  <2>1. ~ StopReading
    BY DEF StopReading
  <2> QED BY <2>1 DEF QueriesNext, queriesVars, StartReading, ReadFriends,
      ReadRequests, ReadNames, StartMaking, GetMutual,
     GetOthers, ExcludeAlreadyFriend, AddMutualFriendCount, Store, Quietly
<1> QED BY <1>7, <1>8, <1>9, <1>10, <1>11, <1>12

-----------------------------------------------------------------------------
(* Reading page by page.                                                   *)

\* The beginning of the list that there was first is there until somebody of it leaves.
Begins(list, first, gone) ==
  \A k \in 1..Len(first) : (\A i \in 1..k : first[i] \notin gone) =>
    k <= Len(list) /\ \A i \in 1..k : list[i] = first[i]

\* The first n of that list have been read unless somebody before has left.
Covers(first, n, known, read, gone) ==
  \A k \in 1..Upto(n, first) :
    (first[k] \in known /\ \A i \in 1..k : first[i] \notin gone) => first[k] \in read

\* Those read who have not left are among the first n.
Behind(list, read, n, gone) ==
  \A x \in read \ gone : \E p \in 1..Len(list) : p <= n /\ list[p] = x

OnceOnly(got, gone) ==
  \A i, j \in 1..Len(got) : (i < j /\ got[i] = got[j]) => got[i] \in gone

\* These survive what happens to the list.
LEMMA ReadingBears ==
  ASSUME NEW list \in Seq(Persons), NEW later \in Seq(Persons), NEW gone, NEW left, gone \subseteq left,
         Bears(list, later, left),
         NEW first \in Seq(Persons), NEW got \in Seq(Persons), NEW read, NEW known, NEW n \in Nat
  PROVE  /\ Begins(list, first, gone) => Begins(later, first, left)
         /\ Covers(first, n, known, read, gone) => Covers(first, n, known, read, left)
         /\ Behind(list, read, n, gone) => Behind(later, read, n, left)
         /\ OnceOnly(got, gone) => OnceOnly(got, left)
<1>0. Len(list) \in Nat /\ Len(later) \in Nat /\ Len(first) \in Nat
  BY LenProperties
<1>1. ASSUME Begins(list, first, gone) PROVE Begins(later, first, left)
  <2> SUFFICES ASSUME NEW k \in 1..Len(first), \A i \in 1..k : first[i] \notin left
               PROVE  k <= Len(later) /\ \A i \in 1..k : later[i] = first[i]
    BY DEF Begins
  <2>1. k <= Len(list) /\ \A i \in 1..k : list[i] = first[i]
    BY <1>1 DEF Begins
  <2>2. k \in 1..Len(list) /\ \A i \in 1..k : list[i] \notin left
    BY <1>0, <2>1
  <2>3. k <= Len(later) /\ \A i \in 1..k : later[i] = list[i]
    BY <2>2 DEF Bears
  <2> QED BY <2>1, <2>3
<1>2. ASSUME Covers(first, n, known, read, gone) PROVE Covers(first, n, known, read, left)
  BY <1>2 DEF Covers
<1>3. ASSUME Behind(list, read, n, gone) PROVE Behind(later, read, n, left)
  <2> SUFFICES ASSUME NEW x \in read \ left
               PROVE  \E p \in 1..Len(later) : p <= n /\ later[p] = x
    BY DEF Behind
  <2>1. PICK p \in 1..Len(list) : p <= n /\ list[p] = x
    BY <1>3 DEF Behind
  <2>2. PICK q \in 1..Len(later) : q <= p /\ later[q] = list[p]
    BY <2>1 DEF Bears
  <2>3. q <= n
    BY <1>0, <2>1, <2>2
  <2> QED BY <2>1, <2>2, <2>3
<1>4. ASSUME OnceOnly(got, gone) PROVE OnceOnly(got, left)
  BY <1>4 DEF OnceOnly
<1> QED BY <1>1, <1>2, <1>3, <1>4

\* And a page more.
LEMMA ReadingPage ==
  ASSUME NEW list \in Seq(Persons), IsInjective(list), NEW gone,
         NEW first \in Seq(Persons), NEW read, NEW known, NEW skip \in Nat, NEW take \in Nat,
         Begins(list, first, gone), Covers(first, skip, known, read, gone), Behind(list, read, skip, gone)
  PROVE  LET page == PageOf(list, skip, take)
         IN  /\ page \in Seq(Persons) /\ IsInjective(page)
             /\ ToSet(page) \cap read \subseteq gone
             /\ Covers(first, skip + take, known, read \cup ToSet(page), gone)
             /\ Behind(list, read \cup ToSet(page), skip + take, gone)
<1> DEFINE page == PageOf(list, skip, take)
<1>1. /\ page \in Seq(Persons)
      /\ Upto(skip + take, list) \in 0..Len(list)
      /\ Len(page) = IF Upto(skip + take, list) < skip THEN 0 ELSE Upto(skip + take, list) - skip
      /\ \A i \in 1..Len(page) : skip + i \in 1..Len(list) /\ page[i] = list[skip + i]
  BY PageMembers
<1> HIDE DEF page
<1>2. Len(list) \in Nat /\ DOMAIN list = 1..Len(list) /\ DOMAIN page = 1..Len(page) /\ Len(page) \in Nat
      /\ Len(first) \in Nat
  BY <1>1, LenProperties
<1>3. \A p, q \in 1..Len(list) : list[p] = list[q] => p = q
  BY <1>2 DEF IsInjective
<1>4. IsInjective(page)
  <2>1. ASSUME NEW i \in 1..Len(page), NEW j \in 1..Len(page), page[i] = page[j] PROVE i = j
    <3>1. skip + i = skip + j
      BY <1>1, <1>3, <2>1
    <3> QED BY <1>2, <3>1
  <2> QED BY <1>2, <2>1 DEF IsInjective
<1>5. Upto(skip + take, list) = (IF skip + take < Len(list) THEN skip + take ELSE Len(list))
  BY DEF Upto
<1>6. Len(page) <= take
  BY <1>1, <1>2, <1>5
<1>7. ASSUME NEW x \in ToSet(page) PROVE \E i \in 1..Len(page) : page[i] = x
  BY <1>2 DEF ToSet
<1>8. ASSUME NEW x \in ToSet(page), x \in read, x \notin gone PROVE FALSE
  <2>1. PICK p \in 1..Len(list) : p <= skip /\ list[p] = x
    BY <1>8 DEF Behind
  <2>2. PICK i \in 1..Len(page) : page[i] = x
    BY <1>7
  <2>3. p = skip + i
    BY <1>1, <1>3, <2>1, <2>2
  <2> QED BY <1>2, <2>1, <2>3
<1>9. Behind(list, read \cup ToSet(page), skip + take, gone)
  <2>1. ASSUME NEW x \in read \ gone PROVE \E p \in 1..Len(list) : p <= skip + take /\ list[p] = x
    <3>1. PICK p \in 1..Len(list) : p <= skip /\ list[p] = x
      BY DEF Behind
    <3>2. p <= skip + take
      BY <1>2, <3>1
    <3> QED BY <3>1, <3>2
  <2>2. ASSUME NEW x \in ToSet(page) PROVE \E p \in 1..Len(list) : p <= skip + take /\ list[p] = x
    <3>1. PICK i \in 1..Len(page) : page[i] = x
      BY <1>7
    <3>2. skip + i \in 1..Len(list) /\ list[skip + i] = x /\ skip + i <= skip + take
      BY <1>1, <1>2, <1>6, <3>1
    <3> QED BY <3>2
  <2> QED BY <2>1, <2>2 DEF Behind
<1>10. Covers(first, skip + take, known, read \cup ToSet(page), gone)
  <2> SUFFICES ASSUME NEW k \in 1..Upto(skip + take, first), first[k] \in known,
                      \A i \in 1..k : first[i] \notin gone
               PROVE  first[k] \in read \cup ToSet(page)
    BY DEF Covers
  <2>1. k \in 1..Len(first) /\ k <= skip + take
    BY <1>2 DEF Upto
  <2>2. CASE k <= skip
    <3>1. k \in 1..Upto(skip, first)
      BY <1>2, <2>1, <2>2 DEF Upto
    <3> QED BY <3>1 DEF Covers
  <2>3. CASE ~ (k <= skip)
    <3>1. k <= Len(list) /\ list[k] = first[k]
      <4>1. k <= Len(list) /\ \A i \in 1..k : list[i] = first[i]
        BY <2>1 DEF Begins
      <4> QED BY <2>1, <4>1
    <3>2. k - skip \in 1..Len(page) /\ skip + (k - skip) = k
      BY <1>1, <1>2, <1>5, <2>1, <2>3, <3>1
    <3>3. page[k - skip] = list[k]
      BY <1>1, <3>2
    <3> QED BY <1>2, <3>1, <3>2, <3>3 DEF ToSet
  <2> QED BY <2>2, <2>3
<1> QED BY <1>1, <1>4, <1>8, <1>9, <1>10 DEF page

\* A page with nobody shown before, except who has left, repeats nobody.
LEMMA OnceOnlyConcat ==
  ASSUME NEW got \in Seq(Persons), NEW page \in Seq(Persons), NEW gone,
         OnceOnly(got, gone), IsInjective(page), ToSet(page) \cap ToSet(got) \subseteq gone
  PROVE  OnceOnly(got \o page, gone)
<1> DEFINE both == got \o page
<1>1. /\ Len(both) = Len(got) + Len(page) /\ Len(got) \in Nat /\ Len(page) \in Nat
      /\ \A i \in 1..Len(got) + Len(page) : both[i] = IF i <= Len(got) THEN got[i] ELSE page[i - Len(got)]
      /\ DOMAIN page = 1..Len(page) /\ DOMAIN got = 1..Len(got)
  BY ConcatProperties, LenProperties
<1> HIDE DEF both
<1>2. ASSUME NEW i \in 1..Len(both), NEW j \in 1..Len(both), i < j, both[i] = both[j]
      PROVE  both[i] \in gone
  <2>1. CASE j <= Len(got)
    BY <1>1, <1>2, <2>1 DEF OnceOnly
  <2>2. CASE ~ (j <= Len(got)) /\ i <= Len(got)
    <3>1. j - Len(got) \in 1..Len(page) /\ i \in 1..Len(got)
      BY <1>1, <2>2
    <3>2. both[j] = page[j - Len(got)] /\ both[i] = got[i]
      BY <1>1, <2>2
    <3>3. both[j] \in ToSet(page) /\ both[i] \in ToSet(got)
      BY <1>1, <3>1, <3>2 DEF ToSet
    <3> QED BY <1>2, <3>3
  <2>3. CASE ~ (j <= Len(got)) /\ ~ (i <= Len(got))
    <3>1. j - Len(got) \in 1..Len(page) /\ i - Len(got) \in 1..Len(page) /\ j - Len(got) # i - Len(got)
      BY <1>1, <1>2, <2>3
    <3>2. both[j] = page[j - Len(got)] /\ both[i] = page[i - Len(got)]
      BY <1>1, <2>3
    <3> QED BY <1>1, <1>2, <3>1, <3>2 DEF IsInjective
  <2> QED BY <2>1, <2>2, <2>3
<1> QED BY <1>2 DEF OnceOnly, both

Reached == IF reading.phase = "names" THEN reading.skip + Take ELSE reading.skip
Read == ToSet(reading.got) \cup ToSet(reading.ids)
ReadList == Current(reading.kind, reading.search)

\* What a reader has seen of the list that there was first and of the list as it is.
ReadingInv ==
  reading # Resting =>
    /\ reading.phase = "page" => reading.ids = <<>>
    /\ reading.phase = "names" => reading.kind = "requests"
    /\ reading.kind = "requests" => Me \notin ToSet(reading.first)
    /\ reading.known \ (removed \cup {Me}) \subseteq persons
    /\ Begins(ReadList, reading.first, removed)
    /\ Covers(reading.first, Reached, reading.known, Read, removed)
    /\ Behind(ReadList, Read, Reached, removed)
    /\ OnceOnly(reading.got, removed)
    /\ IsInjective(reading.ids) /\ ToSet(reading.ids) \cap ToSet(reading.got) \subseteq removed

\* Changes between two pages keep the invariant.
LEMMA ReadingMeanwhile ==
  ASSUME QueriesInv, QueriesInv', RequestsInv, RequestsInv', ReadingInv,
         [QueriesNext]_queriesVars, reading' = reading
  PROVE  ReadingInv'
<1> SUFFICES ASSUME reading # Resting PROVE ReadingInv'
  BY DEF ReadingInv
<1> DEFINE list == Current(reading.kind, reading.search)
           later == Current(reading.kind, reading.search)'
<1>1. /\ removed \subseteq removed'
      /\ persons \ (removed' \cup {Me}) \subseteq persons'
      /\ Bears(list, later, removed')
  BY CurrentBears
<1>2. list \in Seq(Persons) /\ later \in Seq(Persons)
  BY CurrentType, CurrentTypeLater
<1>3. /\ reading.first \in Seq(Persons) /\ reading.got \in Seq(Persons)
      /\ reading.skip \in Nat /\ Take \in Nat
  BY FriendQueriesAssumption DEF QueriesInv, QueriesTypeOK, Readings
<1>4. Reached \in Nat /\ Reached' = Reached /\ Read' = Read
  BY <1>3 DEF Reached, Read
<1> DEFINE first == reading.first
           got == reading.got
           known == reading.known
           n == Reached
           read == Read
<1>6. /\ Begins(list, first, removed)
      /\ Covers(first, n, known, read, removed)
      /\ Behind(list, read, n, removed)
      /\ OnceOnly(got, removed)
  BY DEF ReadingInv, ReadList
<1>7. /\ Begins(later, first, removed')
      /\ Covers(first, n, known, read, removed')
      /\ Behind(later, read, n, removed')
      /\ OnceOnly(got, removed')
  <2>1. /\ list \in Seq(Persons) /\ later \in Seq(Persons) /\ first \in Seq(Persons) /\ got \in Seq(Persons)
        /\ n \in Nat /\ removed \subseteq removed' /\ Bears(list, later, removed')
    BY <1>1, <1>2, <1>3, <1>4
  <2> HIDE DEF list, later, first, got, known, n, read
  <2> QED BY <1>6, <2>1, ReadingBears
<1>8. /\ Begins(ReadList, reading.first, removed)'
      /\ Covers(reading.first, Reached, reading.known, Read, removed)'
      /\ Behind(ReadList, Read, Reached, removed)'
      /\ OnceOnly(reading.got, removed)'
  <2>1. ReadList' = later /\ reading' = reading
    BY DEF ReadList
  <2> HIDE DEF later, n, read
  <2>2. Begins(ReadList, reading.first, removed)'
    BY <1>7, <2>1 DEF Begins
  <2>3. Covers(reading.first, Reached, reading.known, Read, removed)'
    BY <1>4, <1>7, <2>1 DEF Covers, Upto, n, read
  <2>4. Behind(ReadList, Read, Reached, removed)'
    BY <1>4, <1>7, <2>1 DEF Behind, n, read
  <2>5. OnceOnly(reading.got, removed)'
    BY <1>7, <2>1 DEF OnceOnly
  <2> QED BY <2>2, <2>3, <2>4, <2>5
<1> HIDE DEF list, later, first, got, known, n, read
<1>9. /\ reading'.phase = "page" => reading'.ids = <<>>
      /\ reading'.phase = "names" => reading'.kind = "requests"
      /\ reading'.kind = "requests" => Me \notin ToSet(reading'.first)
      /\ reading'.known \ (removed' \cup {Me}) \subseteq persons'
      /\ IsInjective(reading'.ids) /\ ToSet(reading'.ids) \cap ToSet(reading'.got) \subseteq removed'
  <2>1. /\ reading.phase = "page" => reading.ids = <<>>
        /\ reading.phase = "names" => reading.kind = "requests"
        /\ reading.kind = "requests" => Me \notin ToSet(reading.first)
        /\ reading.known \ (removed \cup {Me}) \subseteq persons
        /\ IsInjective(reading.ids) /\ ToSet(reading.ids) \cap ToSet(reading.got) \subseteq removed
    BY DEF ReadingInv
  <2> QED BY <1>1, <2>1
<1> QED BY <1>8, <1>9 DEF ReadingInv

\* The steps that do not change what is read leave the list alone.
LEMMA CurrentStays ==
  ASSUME UNCHANGED <<graph, requests>>, NEW kind, NEW search
  PROVE  Current(kind, search)' = Current(kind, search)
BY DEF graph, Current, Includes

\* A page of friends keeps it.
LEMMA ReadsFriends ==
  ASSUME QueriesInv, RequestsInv, ReadingInv, ReadFriends
  PROVE  ReadingInv'
<1> DEFINE list == ReadList
           first == reading.first
           got == reading.got
           known == reading.known
           skip == reading.skip
           read == ToSet(got)
           page == PageOf(list, skip, Take)
           both == got \o page
<1>1. /\ reading \in Readings /\ reading # Resting /\ reading.phase = "page" /\ reading.kind = "friends"
      /\ UNCHANGED <<graph, requests, removed>>
      /\ reading' = [reading EXCEPT !.skip = skip + Take,
            !.got = got \o GetFriendsByUserId(Me, skip, Take, reading.search)]
  BY DEF ReadFriends, Reads, Quietly, QueriesInv, QueriesTypeOK
<1>2. Me \in Persons /\ Take \in Nat
  BY FriendQueriesAssumption
<1>3. /\ first \in Seq(Persons) /\ got \in Seq(Persons)
      /\ skip \in Nat /\ list \in Seq(Persons) /\ IsInjective(list)
  BY <1>1, CurrentType DEF Readings, ReadList
<1>4. GetFriendsByUserId(Me, skip, Take, reading.search) = page
  <2>1. list = Kept(friendsOf[Me], Includes(reading.search))
    BY <1>1 DEF Current, ReadList
  <2> QED BY <1>2, <1>3, <2>1, PageOfFriends DEF QueriesInv
<1>5. IsInjective(<<>>) /\ ToSet(<<>>) = {}
  BY DEF IsInjective, ToSet
<1>6. /\ reading.ids = <<>> /\ Begins(list, first, removed)
      /\ Covers(first, skip, known, read, removed)
      /\ Behind(list, read, skip, removed)
      /\ OnceOnly(got, removed)
  <2>1. reading.ids = <<>> /\ Reached = skip
    BY <1>1 DEF ReadingInv, Reached
  <2>2. Read = read
    BY <1>5, <2>1 DEF Read
  <2> QED BY <1>1, <2>1, <2>2 DEF ReadingInv
<1>7. /\ page \in Seq(Persons) /\ IsInjective(page)
      /\ ToSet(page) \cap read \subseteq removed
      /\ Covers(first, skip + Take, known, read \cup ToSet(page), removed)
      /\ Behind(list, read \cup ToSet(page), skip + Take, removed)
  <2> HIDE DEF list, first, got, known, skip, read
  <2> QED BY <1>2, <1>3, <1>6, ReadingPage
<1>8. OnceOnly(both, removed) /\ ToSet(both) = read \cup ToSet(page)
  <2> HIDE DEF list, page, got
  <2> QED BY <1>3, <1>6, <1>7, OnceOnlyConcat, ConcatMembers
<1>9. reading' = [reading EXCEPT !.skip = skip + Take, !.got = both]
  <2> HIDE DEF page
  <2> QED BY <1>1, <1>4
<1> HIDE DEF both, page
<1>10. /\ reading'.phase = "page" /\ reading'.kind = "friends" /\ reading'.search = reading.search
       /\ reading'.skip = skip + Take /\ reading'.ids = <<>> /\ reading'.got = both
       /\ reading'.first = first /\ reading'.known = known
  BY <1>1, <1>6, <1>9 DEF Readings
<1>11. ReadList' = list
  BY <1>1, <1>10, CurrentStays DEF ReadList, Current, Includes, graph
<1>12. Reached' = skip + Take /\ Read' = read \cup ToSet(page)
  BY <1>5, <1>8, <1>10 DEF Reached, Read
<1>13. known \ (removed' \cup {Me}) \subseteq persons'
  BY <1>1 DEF ReadingInv, graph
<1> HIDE DEF list, first, got, known, skip, read
<1>14. /\ Begins(ReadList, reading.first, removed)'
       /\ Covers(reading.first, Reached, reading.known, Read, removed)'
       /\ Behind(ReadList, Read, Reached, removed)'
       /\ OnceOnly(reading.got, removed)'
  <2>1. Begins(ReadList, reading.first, removed)'
    BY <1>1, <1>6, <1>10, <1>11 DEF Begins
  <2>2. Covers(reading.first, Reached, reading.known, Read, removed)'
    BY <1>1, <1>7, <1>10, <1>12 DEF Covers, Upto
  <2>3. Behind(ReadList, Read, Reached, removed)'
    BY <1>1, <1>7, <1>11, <1>12 DEF Behind
  <2>4. OnceOnly(reading.got, removed)'
    BY <1>1, <1>8, <1>10 DEF OnceOnly
  <2> QED BY <2>1, <2>2, <2>3, <2>4
<1> QED BY <1>5, <1>10, <1>13, <1>14 DEF ReadingInv

\* A page of requests without names keeps it.
LEMMA ReadsRequests ==
  ASSUME QueriesInv, RequestsInv, ReadingInv, ReadRequests
  PROVE  ReadingInv'
<1> DEFINE list == ReadList
           first == reading.first
           got == reading.got
           known == reading.known
           skip == reading.skip
           read == ToSet(got)
           page == PageOf(list, skip, Take)
<1>1. /\ reading \in Readings /\ reading # Resting /\ reading.phase = "page" /\ reading.kind = "requests"
      /\ UNCHANGED <<graph, requests, removed>>
      /\ reading' = [reading EXCEPT !.phase = "names", !.ids = PageOf(requests, skip, Take)]
  BY DEF ReadRequests, Reads, Quietly, QueriesInv, QueriesTypeOK
<1>2. Me \in Persons /\ Take \in Nat
  BY FriendQueriesAssumption
<1>3. /\ first \in Seq(Persons) /\ got \in Seq(Persons)
      /\ skip \in Nat /\ list \in Seq(Persons) /\ IsInjective(list)
  BY <1>1, CurrentType DEF Readings, ReadList
<1>4. PageOf(requests, skip, Take) = page
  BY <1>1 DEF Current, ReadList
<1>5. ToSet(<<>>) = {}
  BY DEF ToSet
<1>6. /\ Begins(list, first, removed)
      /\ Covers(first, skip, known, read, removed)
      /\ Behind(list, read, skip, removed)
      /\ OnceOnly(got, removed)
  <2>1. reading.ids = <<>> /\ Reached = skip
    BY <1>1 DEF ReadingInv, Reached
  <2>2. Read = read
    BY <1>5, <2>1 DEF Read
  <2> QED BY <1>1, <2>1, <2>2 DEF ReadingInv
<1>7. /\ page \in Seq(Persons) /\ IsInjective(page)
      /\ ToSet(page) \cap read \subseteq removed
      /\ Covers(first, skip + Take, known, read \cup ToSet(page), removed)
      /\ Behind(list, read \cup ToSet(page), skip + Take, removed)
  <2> HIDE DEF list, first, got, known, skip, read
  <2> QED BY <1>2, <1>3, <1>6, ReadingPage
<1>8. reading' = [reading EXCEPT !.phase = "names", !.ids = page]
  <2> HIDE DEF page
  <2> QED BY <1>1, <1>4
<1> HIDE DEF page
<1>9. /\ reading'.phase = "names" /\ reading'.kind = "requests" /\ reading'.search = reading.search
      /\ reading'.skip = skip /\ reading'.ids = page /\ reading'.got = got
      /\ reading'.first = first /\ reading'.known = known
  BY <1>1, <1>8 DEF Readings
<1>10. ReadList' = list
  BY <1>1, <1>9, CurrentStays DEF ReadList, Current, Includes, graph
<1>11. Reached' = skip + Take /\ Read' = read \cup ToSet(page)
  BY <1>9 DEF Reached, Read
<1>12. known \ (removed' \cup {Me}) \subseteq persons' /\ Me \notin ToSet(first)
  BY <1>1 DEF ReadingInv, graph
<1> HIDE DEF list, first, got, known, skip
<1>13. /\ Begins(ReadList, reading.first, removed)'
       /\ Covers(reading.first, Reached, reading.known, Read, removed)'
       /\ Behind(ReadList, Read, Reached, removed)'
       /\ OnceOnly(reading.got, removed)'
  <2> HIDE DEF read
  <2> QED BY <1>1, <1>6, <1>7, <1>9, <1>10, <1>11 DEF Begins, Covers, Behind,
      OnceOnly, Upto
<1>14. /\ IsInjective(reading'.ids) /\ ToSet(reading'.ids) \cap ToSet(reading'.got) \subseteq removed'
  BY <1>1, <1>7, <1>9
<1> QED BY <1>9, <1>12, <1>13, <1>14 DEF ReadingInv

\* The names keep it: who was there at first and has not left has one.
LEMMA ReadsNames ==
  ASSUME QueriesInv, RequestsInv, ReadingInv, ReadNames
  PROVE  ReadingInv'
<1> DEFINE list == ReadList
           first == reading.first
           got == reading.got
           known == reading.known
           skip == reading.skip
           ids == reading.ids
           page == Named(ids, GetUserByIds(ids))
           both == got \o page
<1>1. /\ reading \in Readings /\ reading # Resting /\ reading.phase = "names" /\ reading.kind = "requests"
      /\ UNCHANGED <<graph, requests, removed>>
      /\ reading' = [reading EXCEPT !.phase = "page", !.skip = skip + Take, !.ids = <<>>, !.got = both]
  BY DEF ReadNames, Reads, Quietly, QueriesInv, QueriesTypeOK
<1>2. Me \in Persons /\ Take \in Nat
  BY FriendQueriesAssumption
<1>3. /\ first \in Seq(Persons) /\ got \in Seq(Persons) /\ ids \in Seq(Persons)
      /\ skip \in Nat /\ list \in Seq(Persons) /\ IsInjective(list)
  BY <1>1, CurrentType DEF Readings, ReadList
<1>4. IsInjective(<<>>) /\ ToSet(<<>>) = {}
  BY DEF IsInjective, ToSet
<1>5. /\ Begins(list, first, removed)
      /\ Covers(first, skip + Take, known, ToSet(got) \cup ToSet(ids), removed)
      /\ Behind(list, ToSet(got) \cup ToSet(ids), skip + Take, removed)
      /\ OnceOnly(got, removed) /\ IsInjective(ids) /\ ToSet(ids) \cap ToSet(got) \subseteq removed
      /\ known \ (removed \cup {Me}) \subseteq persons
      /\ Me \notin ToSet(first)
  BY <1>1 DEF ReadingInv, Reached, Read
<1>6. page \in Seq(Persons) /\ ToSet(page) = ToSet(ids) \cap persons /\ IsInjective(page)
  <2> DEFINE names == ToSet(Kept(ids, persons))
  <2> HIDE DEF ids
  <2>1. names = ToSet(ids) \cap persons
    BY <1>3, KeptType
  <2>2. page = Kept(ids, names)
    BY DEF Named, GetUserByIds
  <2> HIDE DEF names, page
  <2>3. /\ Kept(ids, names) \in Seq(Persons) /\ ToSet(Kept(ids, names)) = ToSet(ids) \cap names
    BY <1>3, KeptType
  <2>4. IsInjective(Kept(ids, names))
    BY <1>3, <1>5, KeptInjective
  <2> QED BY <2>1, <2>2, <2>3, <2>4
<1> HIDE DEF page
<1>7. OnceOnly(both, removed) /\ ToSet(both) = ToSet(got) \cup ToSet(page)
  <2>1. ToSet(page) \cap ToSet(got) \subseteq removed
    BY <1>5, <1>6
  <2> HIDE DEF got
  <2> QED BY <1>3, <1>5, <1>6, <2>1, OnceOnlyConcat, ConcatMembers
<1> HIDE DEF both
<1>8. /\ reading'.phase = "page" /\ reading'.kind = "requests" /\ reading'.search = reading.search
      /\ reading'.skip = skip + Take /\ reading'.ids = <<>> /\ reading'.got = both
      /\ reading'.first = first /\ reading'.known = known
  BY <1>1 DEF Readings
<1>9. ReadList' = list
  BY <1>1, <1>8, CurrentStays DEF ReadList, Current, Includes, graph
<1>10. Reached' = skip + Take /\ Read' = ToSet(got) \cup ToSet(page)
  BY <1>4, <1>7, <1>8 DEF Reached, Read
<1>11. known \ (removed' \cup {Me}) \subseteq persons'
  BY <1>1, <1>5 DEF graph
<1>12. Covers(first, skip + Take, known, ToSet(got) \cup ToSet(page), removed)
  <2> HIDE DEF list, first, got, known, skip, ids
  <2> SUFFICES ASSUME NEW k \in 1..Upto(skip + Take, first), first[k] \in known,
                      \A i \in 1..k : first[i] \notin removed
               PROVE  first[k] \in ToSet(got) \cup ToSet(page)
    BY DEF Covers
  <2>1. first[k] \in ToSet(got) \cup ToSet(ids)
    BY <1>5 DEF Covers
  <2>2. Len(first) \in Nat /\ DOMAIN first = 1..Len(first)
    BY <1>3, LenProperties
  <2>3. k \in 1..Len(first) /\ k \in 1..k
    BY <1>2, <1>3, <2>2 DEF Upto
  <2>4. first[k] # Me /\ first[k] \notin removed
    BY <1>5, <2>2, <2>3 DEF ToSet
  <2> QED BY <1>5, <1>6, <2>1, <2>4
<1>13. Behind(list, ToSet(got) \cup ToSet(page), skip + Take, removed)
  BY <1>5, <1>6 DEF Behind
<1> HIDE DEF list, first, got, known, skip, ids
<1>14. /\ Begins(ReadList, reading.first, removed)'
       /\ Covers(reading.first, Reached, reading.known, Read, removed)'
       /\ Behind(ReadList, Read, Reached, removed)'
       /\ OnceOnly(reading.got, removed)'
  BY <1>1, <1>5, <1>7, <1>8, <1>9, <1>10, <1>12, <1>13 DEF Begins, Covers,
      Behind, OnceOnly, Upto
<1> QED BY <1>4, <1>5, <1>8, <1>11, <1>14 DEF ReadingInv

\* It holds when the reading begins.
LEMMA ReadsFromNow ==
  ASSUME QueriesInv, RequestsInv, NEW kind, NEW search, StartReading(kind, search)
  PROVE  ReadingInv'
<1> DEFINE list == Current(kind, search)
<1>1. /\ UNCHANGED <<graph, requests, removed>>
      /\ reading' = [phase |-> "page", kind |-> kind, search |-> search, skip |-> 0,
                 ids |-> <<>>, got |-> <<>>, known |-> persons, first |-> list]
  BY DEF StartReading, Quietly, Current
<1>2. list \in Seq(Persons)
  BY CurrentType
<1> HIDE DEF list
<1>3. /\ reading'.phase = "page" /\ reading'.kind = kind /\ reading'.search = search
      /\ reading'.skip = 0 /\ reading'.ids = <<>> /\ reading'.got = <<>>
      /\ reading'.first = list /\ reading'.known = persons
  BY <1>1
<1>4. ReadList' = list
  BY <1>1, <1>3 DEF ReadList, Current, Includes, graph, list
<1>5. IsInjective(<<>>) /\ ToSet(<<>>) = {} /\ Len(<<>>) = 0
  BY DEF IsInjective, ToSet
<1>6. Reached' = 0 /\ Read' = {}
  BY <1>3, <1>5 DEF Reached, Read
<1>7. Begins(list, list, removed)
  <2>1. Len(list) \in Nat
    BY <1>2, LenProperties
  <2> QED BY <2>1 DEF Begins
<1>8. Covers(list, 0, persons, {}, removed) /\ Behind(list, {}, 0, removed) /\ OnceOnly(<<>>, removed)
  <2>1. Len(list) \in Nat
    BY <1>2, LenProperties
  <2>2. Upto(0, list) = 0
    BY <2>1 DEF Upto
  <2> QED BY <2>2, <1>5 DEF Covers, Behind, OnceOnly
<1>9. kind = "requests" => Me \notin ToSet(list)
  BY DEF RequestsInv, Current, list
<1>10. /\ Begins(ReadList, reading.first, removed)'
       /\ Covers(reading.first, Reached, reading.known, Read, removed)'
       /\ Behind(ReadList, Read, Reached, removed)'
       /\ OnceOnly(reading.got, removed)'
  BY <1>1, <1>3, <1>4, <1>6, <1>7, <1>8 DEF Begins, Covers, Behind, OnceOnly, Upto
<1>11. persons \ (removed' \cup {Me}) \subseteq persons'
  BY <1>1 DEF graph
<1> QED BY <1>3, <1>5, <1>9, <1>10, <1>11 DEF ReadingInv

\* Every step keeps the invariant.
LEMMA ReadingGoesOn ==
  ASSUME QueriesInv, QueriesInv', RequestsInv, RequestsInv', ReadingInv, [QueriesNext]_queriesVars
  PROVE  ReadingInv'
<1>1. CASE reading' = reading
  BY <1>1, ReadingMeanwhile
<1>2. CASE StopReading
  BY <1>2 DEF StopReading, ReadingInv
<1>3. \/ reading' = reading \/ ReadFriends \/ ReadRequests \/ ReadNames \/ StopReading
      \/ \E kind \in {"friends", "requests"}, search \in BOOLEAN : StartReading(kind, search)
  BY DEF QueriesNext, queriesVars, AddRelationship, RemoveRelationship,
      DeleteUser, CreateRequest,
     DeleteRequest, StartMaking, GetMutual, GetOthers, ExcludeAlreadyFriend,
     AddMutualFriendCount, Store
<1> QED BY <1>1, <1>2, <1>3, ReadsFriends, ReadsRequests, ReadsNames, ReadsFromNow

\* For any users, pages of any size and any changes in between: whoever reads a
\* list page by page (friends.service.ts:22-43, :149-162) misses only who comes
\* after somebody that left, and sees twice only who left and came back.
THEOREM ReadersKeepUp == QueriesSpec => []ReadersMissNobody
<1> DEFINE Inv == QueriesInv /\ RequestsInv /\ ReadingInv
<1>1. QueriesInit => Inv
  <2>1. QueriesInit => RequestsInv /\ ReadingInv
    BY DEF QueriesInit, RequestsInv, ReadingInv, IsInjective, ToSet
  <2> QED BY <2>1, GraphInitially, TypeInitially DEF QueriesInv
<1>2. Inv /\ [QueriesNext]_queriesVars => Inv'
  <2>1. QueriesInv /\ [QueriesNext]_queriesVars => QueriesInv'
    BY GraphGoesOn, TypeGoesOn DEF QueriesInv
  <2> QED BY <2>1, RequestsGoOn, ReadingGoesOn
<1>3. Inv => ReadersMissNobody
  <2> SUFFICES ASSUME Inv, reading # Resting, reading.phase = "page" PROVE ReadersMissNobody
    BY DEF ReadersMissNobody, Reads
  <2>1. reading.ids = <<>> /\ Reached = reading.skip /\ ToSet(<<>>) = {}
    BY DEF ReadingInv, Reached, ToSet
  <2>2. Read = ToSet(reading.got)
    BY <2>1 DEF Read
  <2>3. Covers(reading.first, reading.skip, reading.known, ToSet(reading.got), removed) /\ OnceOnly(reading.got, removed)
    BY <2>1, <2>2 DEF ReadingInv
  <2> QED BY <2>3 DEF ReadersMissNobody, Covers, OnceOnly
<1> QED BY <1>1, <1>2, <1>3, PTL DEF QueriesSpec

-----------------------------------------------------------------------------
(* Paging hides nobody.                                                    *)

\* The windows of a list are full, and together they show everybody.
LEMMA WindowsShowAll ==
  ASSUME NEW T, NEW list \in Seq(T), NEW size \in Nat \ {0}
  PROVE  LET windows == GetRecommendation(list, size)
         IN /\ \A window \in windows : Len(window) = Upto(size, list)
            /\ UNION {ToSet(window) : window \in windows} = ToSet(list)
<1> DEFINE n == Len(list)
           last == IF n > size THEN n - size ELSE 0
           Window(start) == PageOf(list, start, size)
           windows == GetRecommendation(list, size)
<1>1. n \in Nat /\ DOMAIN list = 1..n /\ last \in Nat
  BY LenProperties
<1>2. windows = {Window(start) : start \in 0..last}
  BY DEF GetRecommendation
<1>3. ASSUME NEW start \in 0..last
      PROVE  /\ Window(start) \in Seq(T) /\ DOMAIN Window(start) = 1..Len(Window(start))
             /\ Len(Window(start)) = Upto(size, list)
             /\ \A i \in 1..Len(Window(start)) : start + i \in 1..n /\ Window(start)[i] = list[start + i]
  <2>1. start \in Nat
    BY <1>1
  <2>2. /\ PageOf(list, start, size) \in Seq(T)
        /\ Len(PageOf(list, start, size)) =
              IF Upto(start + size, list) < start THEN 0 ELSE Upto(start + size, list) - start
        /\ \A i \in 1..Len(PageOf(list, start, size)) :
              /\ start + i \in 1..Len(list)
              /\ PageOf(list, start, size)[i] = list[start + i]
    <3>1. size \in Nat
      OBVIOUS
    <3> HIDE DEF n, last, windows
    <3> QED BY <2>1, <3>1, PageMembers
  <2>3. Upto(start + size, list) = (IF start + size < n THEN start + size ELSE n)
    BY DEF Upto
  <2>4. Upto(size, list) = (IF size < n THEN size ELSE n)
    BY DEF Upto
  <2>5. (IF Upto(start + size, list) < start THEN 0 ELSE Upto(start + size, list) - start) = Upto(size, list)
    <3> HIDE DEF n
    <3> QED BY <1>1, <2>1, <2>3, <2>4
  <2> DEFINE page == PageOf(list, start, size)
  <2> HIDE DEF page
  <2>6. DOMAIN page = 1..Len(page)
    BY <2>2, LenProperties DEF page
  <2> QED BY <2>2, <2>5, <2>6 DEF page
<1> HIDE DEF windows, Window
<1>4. \A window \in windows : Len(window) = Upto(size, list)
  BY <1>2, <1>3
<1>5. ASSUME NEW x \in UNION {ToSet(window) : window \in windows} PROVE x \in ToSet(list)
  <2>1. PICK start \in 0..last : x \in ToSet(Window(start))
    BY <1>2
  <2>2. PICK i \in 1..Len(Window(start)) : x = Window(start)[i]
    BY <1>3, <2>1 DEF ToSet
  <2>3. start + i \in 1..n /\ x = list[start + i]
    BY <1>3, <2>2
  <2> QED BY <1>1, <2>3 DEF ToSet
<1>6. ASSUME NEW x \in ToSet(list) PROVE x \in UNION {ToSet(window) : window \in windows}
  <2>1. PICK p \in 1..n : x = list[p]
    BY <1>1 DEF ToSet
  <2> DEFINE start == IF p - 1 <= last THEN p - 1 ELSE last
  <2> HIDE DEF n
  <2>2. start \in 0..last /\ p - start \in 1..(IF size < n THEN size ELSE n) /\ start + (p - start) = p
    BY <1>1
  <2>3. Upto(size, list) = (IF size < n THEN size ELSE n)
    BY DEF Upto, n
  <2> HIDE DEF start
  <2>4. p - start \in 1..Len(Window(start)) /\ Window(start)[p - start] = x
    <3>1. /\ Len(Window(start)) = Upto(size, list)
          /\ \A i \in 1..Len(Window(start)) : start + i \in 1..n /\ Window(start)[i] = list[start + i]
      BY <1>3, <2>2
    <3>2. p - start \in 1..Len(Window(start))
      BY <2>2, <2>3, <3>1
    <3> QED BY <2>1, <2>2, <3>1, <3>2
  <2>5. x \in ToSet(Window(start))
    BY <1>3, <2>2, <2>4 DEF ToSet
  <2> QED BY <1>2, <2>2, <2>5
<1> QED BY <1>4, <1>5, <1>6 DEF windows

\* The beginning of a list and the next page of it.
LEMMA PagesAdjoin ==
  ASSUME NEW T, NEW list \in Seq(T), NEW skip \in Nat, NEW take \in Nat
  PROVE  /\ PageOf(list, 0, skip) \o PageOf(list, skip, take) = PageOf(list, 0, skip + take)
         /\ PageOf(list, 0, 0) = <<>>
         /\ Len(list) <= skip => PageOf(list, 0, skip) = list
<1> DEFINE n == Len(list)
<1>1. n \in Nat
  BY LenProperties
<1>2. /\ PageOf(list, 0, skip) = SubSeq(list, 1, Upto(skip, list))
      /\ PageOf(list, 0, skip + take) = SubSeq(list, 1, Upto(skip + take, list))
      /\ PageOf(list, skip, take) = SubSeq(list, skip + 1, Upto(skip + take, list))
  BY DEF PageOf
<1>3. /\ Upto(skip, list) = (IF skip < n THEN skip ELSE n)
      /\ Upto(skip + take, list) = (IF skip + take < n THEN skip + take ELSE n)
  BY DEF Upto
<1>4. PageOf(list, 0, skip) \o PageOf(list, skip, take) = PageOf(list, 0, skip + take)
  <2>1. CASE skip <= n
    <3> DEFINE m == Upto(skip + take, list)
    <3>1. Upto(skip, list) = skip /\ m \in skip..n /\ skip \in 0..n
      <4> HIDE DEF n
      <4> QED BY <1>1, <1>3, <2>1
    <3>2. SubSeq(list, 1, skip) \o SubSeq(list, skip + 1, m) = SubSeq(list, 1, m)
      <4>1. 1 \in 1..n + 1 /\ skip \in 1 - 1 .. n
        BY <1>1, <3>1
      <4> HIDE DEF m
      <4> QED BY <3>1, <4>1, ConcatAdjacentSubSeq
    <3> QED BY <1>2, <3>1, <3>2
  <2>2. CASE ~ (skip <= n)
    <3>1. PageOf(list, skip, take) = <<>>
      BY <1>1, <2>2, PageBehind
    <3>2. Upto(skip, list) = n /\ Upto(skip + take, list) = n
      <4> HIDE DEF n
      <4> QED BY <1>1, <1>3, <2>2
    <3>3. PageOf(list, 0, skip) = list /\ PageOf(list, 0, skip + take) = list
      BY <1>2, <3>2, SubSeqFull
    <3> QED BY <3>1, <3>3, ConcatEmptySeq
  <2> QED BY <2>1, <2>2
<1>5. PageOf(list, 0, 0) = <<>>
  <2>1. Upto(0, list) = 0
    BY <1>1 DEF Upto
  <2>2. SubSeq(list, 1, 0) = <<>>
    BY SubSeqEmpty
  <2> QED BY <2>1, <2>2 DEF PageOf
<1>6. Len(list) <= skip => PageOf(list, 0, skip) = list
  <2>1. Len(list) <= skip => Upto(skip, list) = n
    <3> HIDE DEF n
    <3> QED BY <1>1, <1>3 DEF n
  <2> QED BY <1>2, <2>1, SubSeqFull
<1> QED BY <1>4, <1>5, <1>6

\* The pages one after the other are the list.
LEMMA PagesOneByOne ==
  ASSUME NEW T, NEW list \in Seq(T), NEW good, NEW size \in Nat \ {0}, NEW pages, NEW N \in Nat,
         Len(list) <= N,
         pages = [k \in 1..N |-> Kept(PageOf(list, (k - 1) * size, size), good)]
  PROVE  FlattenSeq(pages) = Kept(list, good)
<1> DEFINE Page(k) == Kept(PageOf(list, (k - 1) * size, size), good)
           First(n) == [k \in 1..n |-> Page(k)]
           Upper(n) == Kept(PageOf(list, 0, n * size), good)
           S == {n \in 0..N : FlattenSeq(First(n)) = Upper(n)}
<1>1. \A k \in 1..N : (k - 1) * size \in Nat /\ k * size \in Nat /\ (k - 1) * size + size = k * size
  OBVIOUS
<1>2. ASSUME NEW k \in 1..N PROVE PageOf(list, (k - 1) * size, size) \in Seq(T) /\ Page(k) \in Seq(T)
  <2> DEFINE m == (k - 1) * size
             page == PageOf(list, m, size)
  <2>1. m \in Nat
    BY <1>1
  <2>2. page \in Seq(T)
    <3> HIDE DEF m
    <3> QED BY <2>1, PageMembers
  <2>3. Kept(page, good) \in Seq(T)
    <3> HIDE DEF page
    <3> QED BY <2>2, KeptType
  <2> QED BY <2>2, <2>3
<1>3. 0 \in S
  <2>1. First(0) = <<>>
    OBVIOUS
  <2>2. Upper(0) = <<>>
    <3>1. PageOf(list, 0, 0) = <<>> /\ 0 * size = 0
      BY PagesAdjoin
    <3>2. Kept(<<>>, good) = <<>>
      BY KeptEmpty
    <3> QED BY <3>1, <3>2
  <2> HIDE DEF First, Upper
  <2> QED BY <2>1, <2>2, FlattenEmpty
<1>4. ASSUME NEW n \in 1..N, n - 1 \in S PROVE n \in S
  <2> DEFINE m == (n - 1) * size
             before == PageOf(list, 0, m)
             page == PageOf(list, m, size)
  <2>1. m \in Nat /\ m + size = n * size
    BY <1>1
  <2>2. before \o page = PageOf(list, 0, n * size)
    <3>1. before \o page = PageOf(list, 0, m + size)
      <4> HIDE DEF m
      <4> QED BY <2>1, PagesAdjoin
    <3> HIDE DEF m, before, page
    <3> QED BY <2>1, <3>1
  <2>3. before \in Seq(T) /\ page \in Seq(T)
    <3> HIDE DEF m
    <3> QED BY <2>1, PageMembers
  <2>4. Kept(before \o page, good) = Kept(before, good) \o Kept(page, good)
    <3> HIDE DEF before, page
    <3> QED BY <2>3, KeptConcat
  <2>5. First(n) = Append(First(n - 1), Page(n))
    <3> HIDE DEF Page
    <3> QED OBVIOUS
  <2>6. First(n - 1) \in Seq(Seq(T)) /\ Page(n) \in Seq(T)
    <3>1. \A k \in 1..n - 1 : k \in 1..N
      OBVIOUS
    <3>2. \A k \in 1..n - 1 : Page(k) \in Seq(T)
      <4> HIDE DEF Page
      <4> QED BY <1>2, <3>1
    <3> HIDE DEF Page
    <3> QED BY <1>2, <3>2
  <2>7. FlattenSeq(Append(First(n - 1), Page(n))) = FlattenSeq(First(n - 1)) \o Page(n)
    <3> DEFINE s == First(n - 1)
               p == Page(n)
    <3> HIDE DEF s, p
    <3>1. FlattenSeq(Append(s, p)) = FlattenSeq(s) \o p
      <4>1. s \in Seq(Seq(T)) /\ p \in Seq(T)
        BY <2>6 DEF s, p
      <4> QED BY <4>1, FlattenAppend
    <3> QED BY <3>1 DEF s, p
  <2>8. FlattenSeq(First(n - 1)) = Kept(before, good) /\ Page(n) = Kept(page, good)
    BY <1>4
  <2> HIDE DEF First, before, page
  <2>9. FlattenSeq(First(n)) = Upper(n)
    BY <2>2, <2>4, <2>5, <2>7, <2>8
  <2> QED BY <2>9
<1>5. N \in S
  <2>1. \A n \in 0..N : n \in S
    <3> HIDE DEF S
    <3> QED BY <1>3, <1>4, NumberInduction
  <2> HIDE DEF S
  <2> QED BY <2>1
<1>6. N * size \in Nat /\ N <= N * size
  OBVIOUS
<1>7. PageOf(list, 0, N * size) = list
  <2> DEFINE m == N * size
  <2>1. m \in Nat /\ Len(list) <= m
    <3>1. m \in Nat /\ N <= m
      BY <1>6
    <3>2. Len(list) \in Nat
      BY LenProperties
    <3> HIDE DEF m
    <3> QED BY <3>1, <3>2
  <2> HIDE DEF m
  <2>2. PageOf(list, 0, m) = list
    BY <2>1, PagesAdjoin
  <2> QED BY <2>2 DEF m
<1>8. pages = First(N)
  OBVIOUS
<1>9. FlattenSeq(First(N)) = Kept(PageOf(list, 0, N * size), good)
  BY <1>5
<1> HIDE DEF First
<1> QED BY <1>7, <1>8, <1>9

\* The pages of strangers hold together all that have enough friends in common.
LEMMA PagesShowAll ==
  ASSUME QueriesInv, NEW size \in Nat \ {0}, NEW min \in Nat \ {0}
  PROVE  LET Page(k) == GetMutualFriendsOfUser(Me, (k - 1) * size, size, FALSE, min)
             found == FlattenSeq([k \in 1..Cardinality(Persons) |-> Page(k)])
         IN /\ ToSet(found) = {u \in persons \ (FriendIds(Me) \cup {Me}) :
                                 Cardinality(FriendIds(u) \cap FriendIds(Me)) >= min}
            /\ Len(found) = Cardinality(ToSet(found))
<1> DEFINE N == Cardinality(Persons)
           Page(k) == GetMutualFriendsOfUser(Me, (k - 1) * size, size, FALSE, min)
           pages == [k \in 1..N |-> Page(k)]
           found == FlattenSeq(pages)
           E == Strangers(Me, FALSE)
           list == FriendOfFriends(Me)
           shown == (persons \cap Includes(FALSE)) \ ({Me} \cup FriendIds(Me))
           good == {v \in persons : MutualCount(Me, v) >= min}
<1>1. Me \in Persons /\ IsFiniteSet(Persons) /\ N \in Nat
  BY FriendQueriesAssumption, FS_CardinalityType
<1>2. GraphInv /\ GraphType
  BY DEF QueriesInv, GraphInv
<1>3. /\ list \in Seq(Persons) /\ IsInjective(list)
      /\ ToSet(list) = UNION {FriendIds(v) : v \in FriendIds(Me)}
  BY <1>1, <1>2, FriendsOfFriends
<1>4. E \in Seq(Persons) /\ IsInjective(E) /\ ToSet(E) = ToSet(list) \cap shown
  <2>1. E = Kept(list, shown)
    BY DEF Strangers
  <2> HIDE DEF E, list, shown
  <2>2. Kept(list, shown) \in Seq(Persons) /\ ToSet(Kept(list, shown)) = ToSet(list) \cap shown
    BY <1>3, KeptType
  <2>3. IsInjective(Kept(list, shown))
    BY <1>3, KeptInjective
  <2> QED BY <2>1, <2>2, <2>3
<1>5. Len(E) <= N
  <2> HIDE DEF E
  <2> QED BY <1>1, <1>4, OnceEach
<1>6. ASSUME NEW k \in 1..N PROVE Page(k) = Kept(PageOf(E, (k - 1) * size, size), good)
  <2> DEFINE m == (k - 1) * size
  <2>1. m \in Nat
    OBVIOUS
  <2>2. GetMutualFriendsOfUser(Me, m, size, FALSE, min) = Kept(PageOf(E, m, size), good)
    <3>1. size \in Nat
      OBVIOUS
    <3> HIDE DEF m
    <3>2. \A search : GetMutualFriendsOfUser(Me, m, size, search, min) =
                        Kept(PageOf(Strangers(Me, search), m, size), {v \in persons : MutualCount(Me, v) >= min})
      BY <1>1, <1>2, <2>1, <3>1, PageOfStrangers
    <3>3. GetMutualFriendsOfUser(Me, m, size, FALSE, min) =
            Kept(PageOf(Strangers(Me, FALSE), m, size), {v \in persons : MutualCount(Me, v) >= min})
      BY <3>2, Zenon
    <3> QED BY <3>3
  <2> QED BY <2>2
<1>7. pages = [k \in 1..N |-> Kept(PageOf(E, (k - 1) * size, size), good)]
  <2> HIDE DEF Page, E, good, N
  <2> QED BY <1>6
<1>8. found = Kept(E, good)
  <2> HIDE DEF pages, E, good, N
  <2> QED BY <1>1, <1>4, <1>5, <1>7, PagesOneByOne
<1>9. /\ found \in Seq(Persons) /\ ToSet(found) = ToSet(E) \cap good
      /\ IsInjective(found)
  <2> HIDE DEF found, E, good
  <2>1. Kept(E, good) \in Seq(Persons) /\ ToSet(Kept(E, good)) = ToSet(E) \cap good
    BY <1>4, KeptType
  <2>2. IsInjective(Kept(E, good))
    BY <1>4, KeptInjective
  <2> QED BY <1>8, <2>1, <2>2
<1>10. Len(found) = Cardinality(ToSet(found))
  <2> HIDE DEF found
  <2> QED BY <1>1, <1>9, OnceEach
<1>11. ASSUME NEW u \in persons
       PROVE  /\ u \in good <=> Cardinality(FriendIds(u) \cap FriendIds(Me)) >= min
              /\ Cardinality(FriendIds(u) \cap FriendIds(Me)) >= min => u \in ToSet(list)
  <2> DEFINE both == FriendIds(u) \cap FriendIds(Me)
  <2>1. u \in Persons
    BY <1>2 DEF GraphType
  <2>2. Cardinality({}) = 0
    BY FS_EmptySet
  <2>3. u \in good <=> Cardinality(both) >= min
    <3>1. CASE Me \in persons
      <4>1. MutualCount(Me, u) = Cardinality(both)
        BY <1>1, <1>2, <2>1, <3>1, MutualFriends DEF GraphInv
      <4> QED BY <4>1
    <3>2. CASE Me \notin persons
      <4>1. FriendIds(Me) = {}
        <5>1. ASSUME NEW v \in FriendIds(Me) PROVE FALSE
          <6>1. v \in Persons
            BY <1>1, <1>2 DEF GraphInv, GraphType
          <6>2. Me \in FriendIds(v) /\ FriendIds(v) \subseteq persons
            BY <1>1, <1>2, <5>1, <6>1 DEF GraphInv
          <6> QED BY <3>2, <6>2
        <5> QED BY <5>1
      <4>2. both = {}
        BY <4>1
      <4>3. MutualCount(Me, u) = 0
        BY <3>2 DEF MutualCount
      <4> HIDE DEF both
      <4> QED BY <2>2, <4>2, <4>3
    <3> QED BY <3>1, <3>2
  <2>4. ASSUME Cardinality(both) >= min PROVE u \in ToSet(list)
    <3>1. both # {}
      <4> HIDE DEF both
      <4> QED BY <2>2, <2>4
    <3>2. PICK v : v \in FriendIds(u) /\ v \in FriendIds(Me)
      BY <3>1
    <3>3. v \in Persons
      BY <1>1, <1>2, <3>2 DEF GraphInv, GraphType
    <3>4. u \in FriendIds(v)
      BY <1>2, <2>1, <3>2, <3>3 DEF GraphInv
    <3> HIDE DEF list
    <3> QED BY <1>3, <3>2, <3>4
  <2> QED BY <2>3, <2>4
<1>12. shown = persons \ (FriendIds(Me) \cup {Me})
  BY <1>2 DEF Includes, GraphType
<1>13. ToSet(found) = {u \in persons \ (FriendIds(Me) \cup {Me}) :
                                 Cardinality(FriendIds(u) \cap FriendIds(Me)) >= min}
  <2>1. good \subseteq persons
    OBVIOUS
  <2> HIDE DEF found, E, good, list, shown
  <2> QED BY <1>4, <1>9, <1>11, <1>12, <2>1
<1> QED BY <1>10, <1>13

\* For any graph, any list and pages of any size: the windows of getRecommendation
\* and the pages of getMutualFriendsOfUser show everybody they are to show.
THEOREM PagingHidesNobody == QueriesSpec => []EveryoneMayBeShown
<1>1. QueriesInv => EveryoneMayBeShown
  <2> SUFFICES ASSUME QueriesInv, NEW size \in 1..Cardinality(Persons)
      PROVE  LET windows == GetRecommendation(stored, size)
             IN /\ \A window \in windows : Len(window) = Upto(size, stored)
                /\ UNION {ToSet(window) : window \in windows} = ToSet(stored)
                /\ \A min \in 1..2 :
                     LET Page(k) == GetMutualFriendsOfUser(Me, (k - 1) * size, size, FALSE, min)
                         found == FlattenSeq([k \in 1..Cardinality(Persons) |-> Page(k)])
                     IN /\ ToSet(found) = {u \in persons \ (FriendIds(Me) \cup {Me}) :
                                             Cardinality(FriendIds(u) \cap FriendIds(Me)) >= min}
                        /\ Len(found) = Cardinality(ToSet(found))
    BY DEF EveryoneMayBeShown
  <2>1. size \in Nat \ {0} /\ stored \in Seq(Persons)
    BY FriendQueriesAssumption, FS_CardinalityType DEF QueriesInv, QueriesTypeOK
  <2>2. LET windows == GetRecommendation(stored, size)
        IN /\ \A window \in windows : Len(window) = Upto(size, stored)
           /\ UNION {ToSet(window) : window \in windows} = ToSet(stored)
    BY <2>1, WindowsShowAll
  <2>3. ASSUME NEW min \in 1..2
        PROVE  LET Page(k) == GetMutualFriendsOfUser(Me, (k - 1) * size, size, FALSE, min)
                   found == FlattenSeq([k \in 1..Cardinality(Persons) |-> Page(k)])
               IN /\ ToSet(found) = {u \in persons \ (FriendIds(Me) \cup {Me}) :
                                       Cardinality(FriendIds(u) \cap FriendIds(Me)) >= min}
                  /\ Len(found) = Cardinality(ToSet(found))
    <3>1. min \in Nat \ {0}
      OBVIOUS
    <3> QED BY <2>1, <3>1, PagesShowAll
  <2> QED BY <2>2, <2>3
<1> QED BY <1>1, QueriesTypeCorrect, PTL

=============================================================================
