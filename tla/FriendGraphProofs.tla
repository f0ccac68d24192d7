------------------------- MODULE FriendGraphProofs -------------------------
(***************************************************************************)
(* Proofs about FriendGraph for every set of users, any number of calls in *)
(* flight and every bound: the type invariant, the single cause of         *)
(* one-sided friendships, symmetry and current profiles when calls are     *)
(* handled one at a time, the refinement of Friendship, which changes are  *)
(* announced, and what a file that cannot be loaded means.                 *)
(***************************************************************************)
EXTENDS FriendGraph, TLAPS

-----------------------------------------------------------------------------
(* What the operators on graphs return.  Below these lemmas a graph is     *)
(* only seen through its domain and FriendIds.                             *)

\* A graph is a function on a set of users.
LEMMA GraphElim ==
  ASSUME NEW g \in Graphs
  PROVE  /\ DOMAIN g \subseteq Users
         /\ g \in [DOMAIN g -> Person]
         /\ \A u : FriendIds(g, u) \subseteq Users
BY DEF Graphs, Person, FriendIds

LEMMA GraphIntro ==
  ASSUME NEW ids \in SUBSET Users, NEW g \in [ids -> Person]
  PROVE  g \in Graphs
BY DEF Graphs

LEMMA RowsElim ==
  ASSUME NEW rows \in Rows
  PROVE  DOMAIN rows \subseteq Users /\ rows \in [DOMAIN rows -> Profile]
BY DEF Rows

LEMMA RowsIntro ==
  ASSUME NEW ids \in SUBSET Users, NEW rows \in [ids -> Profile]
  PROVE  rows \in Rows
BY DEF Rows

LEMMA EmptyGraphFacts ==
  EmptyGraph \in Graphs /\ \A u : FriendIds(EmptyGraph, u) = {}
<1>1. EmptyGraph \in [{} -> Person]
  BY DEF EmptyGraph
<1>2. EmptyGraph \in Graphs
  BY <1>1, GraphIntro
<1>3. \A u : FriendIds(EmptyGraph, u) = {}
  BY DEF EmptyGraph, FriendIds
<1> QED BY <1>2, <1>3

LEMMA SetRowsFacts ==
  ASSUME NEW g \in Graphs, NEW rows \in Rows
  PROVE  /\ SetRows(g, rows) \in Graphs
         /\ DOMAIN SetRows(g, rows) = DOMAIN g \cup DOMAIN rows
         /\ \A w : FriendIds(SetRows(g, rows), w)
                     = IF w \in DOMAIN rows THEN {} ELSE FriendIds(g, w)
<1>1. DOMAIN g \subseteq Users /\ g \in [DOMAIN g -> Person]
  BY GraphElim
<1>2. DOMAIN rows \subseteq Users /\ rows \in [DOMAIN rows -> Profile]
  BY RowsElim
<1>3. SetRows(g, rows) \in [DOMAIN g \cup DOMAIN rows -> Person]
  BY <1>1, <1>2 DEF SetRows, Person
<1>4. SetRows(g, rows) \in Graphs
  BY <1>1, <1>2, <1>3, GraphIntro
<1>5. \A w : FriendIds(SetRows(g, rows), w)
               = IF w \in DOMAIN rows THEN {} ELSE FriendIds(g, w)
  BY DEF SetRows, FriendIds
<1> QED BY <1>3, <1>4, <1>5 DEF SetRows

LEMMA LinkFacts ==
  ASSUME NEW g \in Graphs, NEW u \in DOMAIN g, NEW v \in DOMAIN g
  PROVE  /\ Link(g, u, v) \in Graphs
         /\ DOMAIN Link(g, u, v) = DOMAIN g
         /\ \A w : FriendIds(Link(g, u, v), w)
                     = CASE w = u -> FriendIds(g, u) \cup {v}
                         [] w = v -> FriendIds(g, v) \cup {u}
                         [] OTHER -> FriendIds(g, w)
<1>1. DOMAIN g \subseteq Users /\ g \in [DOMAIN g -> Person]
  BY GraphElim
<1>2. Link(g, u, v) \in [DOMAIN g -> Person]
  BY <1>1 DEF Link, Person
<1>3. Link(g, u, v) \in Graphs
  BY <1>1, <1>2, GraphIntro
<1>4. \A w : FriendIds(Link(g, u, v), w)
               = CASE w = u -> FriendIds(g, u) \cup {v}
                   [] w = v -> FriendIds(g, v) \cup {u}
                   [] OTHER -> FriendIds(g, w)
  BY <1>1 DEF Link, FriendIds, Person
<1> QED BY <1>2, <1>3, <1>4 DEF Link

LEMMA UnlinkFacts ==
  ASSUME NEW g \in Graphs, NEW u \in DOMAIN g, NEW v \in DOMAIN g
  PROVE  /\ Unlink(g, u, v) \in Graphs
         /\ DOMAIN Unlink(g, u, v) = DOMAIN g
         /\ \A w : FriendIds(Unlink(g, u, v), w)
                     = CASE w = u -> FriendIds(g, u) \ {v}
                         [] w = v -> FriendIds(g, v) \ {u}
                         [] OTHER -> FriendIds(g, w)
<1>1. DOMAIN g \subseteq Users /\ g \in [DOMAIN g -> Person]
  BY GraphElim
<1>2. Unlink(g, u, v) \in [DOMAIN g -> Person]
  BY <1>1 DEF Unlink, Person
<1>3. Unlink(g, u, v) \in Graphs
  BY <1>1, <1>2, GraphIntro
<1>4. \A w : FriendIds(Unlink(g, u, v), w)
               = CASE w = u -> FriendIds(g, u) \ {v}
                   [] w = v -> FriendIds(g, v) \ {u}
                   [] OTHER -> FriendIds(g, w)
  BY <1>1 DEF Unlink, FriendIds, Person
<1> QED BY <1>2, <1>3, <1>4 DEF Unlink

LEMMA DropUserFacts ==
  ASSUME NEW g \in Graphs, NEW u \in DOMAIN g
  PROVE  /\ DropUser(g, u) \in Graphs
         /\ DOMAIN DropUser(g, u) = DOMAIN g \ {u}
         /\ \A w : FriendIds(DropUser(g, u), w)
                     = IF w = u THEN {}
                       ELSE IF w \in FriendIds(g, u) THEN FriendIds(g, w) \ {u}
                       ELSE FriendIds(g, w)
<1>1. DOMAIN g \subseteq Users /\ g \in [DOMAIN g -> Person]
  BY GraphElim
<1>2. DropUser(g, u) \in [DOMAIN g \ {u} -> Person]
  BY <1>1 DEF DropUser, Person
<1>3. DropUser(g, u) \in Graphs
  BY <1>1, <1>2, GraphIntro
<1>4. \A w : FriendIds(DropUser(g, u), w)
               = IF w = u THEN {}
                 ELSE IF w \in FriendIds(g, u) THEN FriendIds(g, w) \ {u}
                 ELSE FriendIds(g, w)
  BY <1>1 DEF DropUser, FriendIds, Person
<1> QED BY <1>2, <1>3, <1>4 DEF DropUser

LEMMA SyncPersonFacts ==
  ASSUME NEW g \in Graphs, NEW u \in Users, NEW row \in Profile
  PROVE  /\ SyncPerson(g, u, row) \in Graphs
         /\ DOMAIN SyncPerson(g, u, row) = DOMAIN g \cup {u}
         /\ \A w : FriendIds(SyncPerson(g, u, row), w) = FriendIds(g, w)
<1>1. DOMAIN g \subseteq Users /\ g \in [DOMAIN g -> Person]
      /\ FriendIds(g, u) \subseteq Users
  BY GraphElim
<1>2. SyncPerson(g, u, row) \in [DOMAIN g \cup {u} -> Person]
  BY <1>1 DEF SyncPerson, Person
<1>3. SyncPerson(g, u, row) \in Graphs
  BY <1>1, <1>2, GraphIntro
<1>4. \A w : FriendIds(SyncPerson(g, u, row), w) = FriendIds(g, w)
  BY DEF SyncPerson, FriendIds
<1> QED BY <1>2, <1>3, <1>4 DEF SyncPerson

-----------------------------------------------------------------------------
(* The type invariant.                                                     *)

LEMMA NewJob ==
  ASSUME NEW op \in {"add", "prepare", "sync"},
         NEW phase \in {"query", "ensured"},
         NEW u \in Users, NEW v \in Users, NEW missing \in SUBSET Users
  PROVE  Job(op, phase, u, v, missing) \in Jobs
<1>1. EmptyRows \in Rows
  <2>1. EmptyRows \in [{} -> Profile]
    BY DEF EmptyRows
  <2> QED BY <2>1, RowsIntro
<1> QED BY <1>1 DEF Job, Jobs

LEMMA LookupRows ==
  ASSUME TypeOK, NEW ids \in SUBSET Users
  PROVE  Lookup(ids) \in Rows
<1>1. Lookup(ids) \in [{w \in ids : InTable(w)} -> Profile]
  BY DEF Lookup, TypeOK
<1> QED BY <1>1, RowsIntro

LEMMA InboxFacts ==
  /\ <<>> \in Seq(UserEvents)
  /\ \A queue \in Seq(UserEvents), kind \in {"CHANGED", "DELETED"}, u \in Users :
       Append(queue, [kind |-> kind, user |-> u]) \in Seq(UserEvents)
<1>1. <<>> \in Seq(UserEvents)
  OBVIOUS
<1>2. \A kind \in {"CHANGED", "DELETED"}, u \in Users :
        [kind |-> kind, user |-> u] \in UserEvents
  BY DEF UserEvents
<1>3. \A queue \in Seq(UserEvents), e \in UserEvents :
        Append(queue, e) \in Seq(UserEvents)
  OBVIOUS
<1> QED BY <1>1, <1>2, <1>3

\* A call that is not idle is a full record.
LEMMA BusyJob ==
  ASSUME TypeOK, NEW h \in Handlers, jobs[h].phase # "idle"
  PROVE  jobs[h] \in Jobs
BY DEF TypeOK, Idle

LEMMA TypeOKInit == Init => TypeOK
<1> SUFFICES ASSUME Init PROVE TypeOK
  OBVIOUS
<1>1. graph \in Graphs /\ file \in Graphs
  BY EmptyGraphFacts DEF Init
<1>2. profile \in [Users -> Profile]
  BY FriendGraphAssumption DEF Init, Profile, Versions
<1>3. sql \in [Users -> Lifecycles]
  BY DEF Init, Lifecycles
<1>4. jobs \in [Handlers -> Jobs \cup {Idle}]
  BY DEF Init
<1>5. inbox \in Seq(UserEvents)
  BY InboxFacts DEF Init
<1> QED BY <1>1, <1>2, <1>3, <1>4, <1>5 DEF Init, TypeOK

LEMMA TypeOKStep == TypeOK /\ [Next]_vars => TypeOK'
<1> SUFFICES ASSUME TypeOK, [Next]_vars PROVE TypeOK'
  OBVIOUS
<1> USE DEF TypeOK
<1>1. ASSUME NEW kind \in {"CHANGED", "DELETED"}, NEW u \in Users,
             Publish(kind, u)
      PROVE  inbox' \in Seq(UserEvents)
  BY <1>1, InboxFacts DEF Publish
<1>2. CASE MainApp
  <2> SUFFICES ASSUME NEW u \in Users,
                      \/ Register(u) \/ UpdateProfile(u) \/ AnnounceChange(u)
                      \/ AnnounceDelete(u) \/ SoftDelete(u)
               PROVE  TypeOK'
    BY <1>2 DEF MainApp
  <2>1. CASE Register(u)
    BY <2>1 DEF Register, process, storage, Lifecycles
  <2>2. CASE UpdateProfile(u)
    BY <2>2 DEF UpdateProfile, process, storage
  <2>3. CASE AnnounceDelete(u)
    BY <2>3, <1>1 DEF AnnounceDelete, process, storage, Lifecycles
  <2>4. CASE SoftDelete(u)
    BY <2>4 DEF SoftDelete, process, storage, Lifecycles
  <2>5. CASE AnnounceChange(u)
    BY <2>5, <1>1 DEF AnnounceChange, process, storage
  <2> QED BY <2>1, <2>2, <2>3, <2>4, <2>5
<1>3. ASSUME NEW h \in Handlers, NEW op \in {"add", "prepare"},
             NEW u \in Users, NEW v \in Users, StartEnsure(h, op, u, v)
      PROVE  TypeOK'
  <2> DEFINE missing == {u, v} \ DOMAIN graph
             phase == IF missing = {} THEN "ensured" ELSE "query"
  <2>1. Job(op, phase, u, v, missing) \in Jobs
    BY NewJob
  <2>2. jobs' \in [Handlers -> Jobs \cup {Idle}]
    BY <1>3, <2>1 DEF StartEnsure
  <2> QED BY <1>3, <2>2 DEF StartEnsure, tables, storage
<1>4. ASSUME NEW u \in Users, NEW v \in Users, RemoveRelationship(u, v)
      PROVE  TypeOK'
  <2>1. graph' \in Graphs
    BY <1>4, UnlinkFacts DEF RemoveRelationship
  <2>2. emitted' \subseteq Pairs
    BY <1>4 DEF RemoveRelationship, Pairs
  <2> QED BY <1>4, <2>1, <2>2 DEF RemoveRelationship, tables, storage
<1>5. ASSUME NEW h \in Handlers, StartSync(h)
      PROVE  TypeOK'
  <2>1. Head(inbox) \in UserEvents /\ inbox' \in Seq(UserEvents)
    BY <1>5 DEF StartSync
  <2>2. Job("sync", "query", Head(inbox).user, Head(inbox).user,
            {Head(inbox).user}) \in Jobs
    BY <2>1, NewJob DEF UserEvents
  <2>3. jobs' \in [Handlers -> Jobs \cup {Idle}]
    BY <1>5, <2>2 DEF StartSync
  <2> QED BY <1>5, <2>1, <2>3 DEF StartSync, tables, storage
<1>6. ASSUME NEW h \in Handlers, DbRead(h)
      PROVE  TypeOK'
  <2>1. jobs[h] \in Jobs
    BY <1>6, BusyJob DEF DbRead
  <2>2. Lookup(jobs[h].missing) \in Rows
    BY <2>1, LookupRows DEF Jobs
  <2>3. jobs' \in [Handlers -> Jobs \cup {Idle}]
    BY <1>6, <2>1, <2>2 DEF DbRead, Jobs
  <2> QED BY <1>6, <2>3 DEF DbRead, tables, storage
<1>7. ASSUME NEW h \in Handlers, EnsureAnswered(h)
      PROVE  TypeOK'
  <2>1. jobs[h] \in Jobs /\ jobs[h].rows \in Rows
    BY <1>7, BusyJob DEF EnsureAnswered, Jobs
  <2>2. jobs' \in [Handlers -> Jobs \cup {Idle}]
    BY <1>7, <2>1 DEF EnsureAnswered, Finish, Jobs
  <2>3. graph' \in Graphs
    <3>1. SetRows(graph, jobs[h].rows) \in Graphs
      BY <2>1, SetRowsFacts
    <3> QED BY <1>7, <3>1 DEF EnsureAnswered
  <2>4. clobbered' \subseteq Users
    BY <1>7, <2>1, GraphElim DEF EnsureAnswered, Overwritten
  <2> QED BY <1>7, <2>2, <2>3, <2>4 DEF EnsureAnswered, tables, storage
<1>8. ASSUME NEW h \in Handlers, FinishAdd(h)
      PROVE  TypeOK'
  <2>1. jobs[h] \in Jobs /\ jobs[h].user1 \in Users /\ jobs[h].user2 \in Users
    BY <1>8, BusyJob DEF FinishAdd, Jobs
  <2>2. graph' \in Graphs
    BY <1>8, <2>1, LinkFacts DEF FinishAdd
  <2>3. emitted' \subseteq Pairs
    BY <1>8, <2>1 DEF FinishAdd, Pairs
  <2> QED BY <1>8, <2>2, <2>3 DEF FinishAdd, Finish, tables, storage
<1>9. ASSUME NEW h \in Handlers, FinishPrepare(h)
      PROVE  TypeOK'
  BY <1>9 DEF FinishPrepare, Finish, tables, storage
<1>10. ASSUME NEW h \in Handlers, FinishSync(h)
       PROVE  TypeOK'
  <2>1. jobs[h] \in Jobs /\ jobs[h].rows \in Rows
    BY <1>10, BusyJob DEF FinishSync, Jobs
  <2>2. ASSUME jobs[h].user1 \in DOMAIN jobs[h].rows
        PROVE  SyncPerson(graph, jobs[h].user1, jobs[h].rows[jobs[h].user1])
                 \in Graphs
    <3>1. jobs[h].user1 \in Users
          /\ jobs[h].rows[jobs[h].user1] \in Profile
      BY <2>1, <2>2, RowsElim DEF Jobs
    <3> QED BY <3>1, SyncPersonFacts
  <2>3. graph' \in Graphs
    BY <1>10, <2>2 DEF FinishSync
  <2> QED BY <1>10, <2>3 DEF FinishSync, Finish, tables, storage
<1>11. CASE DeleteUser
  <2> DEFINE u == Head(inbox).user
  <2>1. inbox' \in Seq(UserEvents)
    BY <1>11 DEF DeleteUser
  <2>2. graph' = IF u \in DOMAIN graph THEN DropUser(graph, u) ELSE graph
    BY <1>11 DEF DeleteUser
  <2>3. graph' \in Graphs
    <3> HIDE DEF u
    <3> QED BY <2>2, DropUserFacts
  <2> QED BY <1>11, <2>1, <2>3 DEF DeleteUser, tables, storage
<1>12. CASE Boot
  BY <1>12 DEF Boot, tables, storage
<1>13. CASE Stopping
  <2>1. graph' \in Graphs
    BY <1>13, EmptyGraphFacts
    DEF Stopping, GracefulStop, Crash, KilledDuringSave, Halt
  <2>2. /\ up' \in BOOLEAN
        /\ jobs' \in [Handlers -> Jobs \cup {Idle}]
        /\ inbox' \in Seq(UserEvents)
        /\ emitted' \subseteq Pairs
    BY <1>13, InboxFacts DEF Stopping, GracefulStop, Crash, KilledDuringSave, Halt
  <2>3. /\ file' \in Graphs
        /\ torn' \in BOOLEAN
        /\ UNCHANGED <<tables, clobbered>>
    BY <1>13 DEF Stopping, GracefulStop, Crash, KilledDuringSave, storage
  <2> QED BY <2>1, <2>2, <2>3 DEF tables
<1>14. CASE UNCHANGED vars
  BY <1>14 DEF vars, tables, process, storage
<1> QED
  BY <1>2, <1>3, <1>4, <1>5, <1>6, <1>7, <1>8, <1>9, <1>10, <1>11, <1>12,
     <1>13, <1>14
  DEF Next, Running, Requests, Continue

\* Every variable keeps its type, in any number of users, calls and versions.
THEOREM TypeCorrect == Spec => []TypeOK
<1> QED BY TypeOKInit, TypeOKStep, PTL DEF Spec

-----------------------------------------------------------------------------
(* One-sided friendships.                                                  *)

\* Between stop and boot the memory is empty and no call is in flight.
MemoryEmptyWhenDown ==
  ~up => /\ graph = EmptyGraph
         /\ \A h \in Handlers : jobs[h] = Idle

\* The inductive invariant: what is one-sided in the graph or in the file is
\* so because of a clobbered user.  Types are needed to know that the sets
\* of friends are what the lemmas above say.
OneSidedInv == TypeOK /\ MemoryEmptyWhenDown /\ OneSidedOnlyWhereClobbered

LEMMA OneSidedInit == Init => OneSidedInv
<1> SUFFICES ASSUME Init PROVE OneSidedInv
  OBVIOUS
<1>1. TypeOK
  BY TypeOKInit
<1>2. \A u : FriendIds(graph, u) = {} /\ FriendIds(file, u) = {}
  BY EmptyGraphFacts DEF Init
<1>3. OneSidedOnlyWhereClobbered
  BY <1>2 DEF OneSidedOnlyWhereClobbered, OneSided
<1>4. MemoryEmptyWhenDown
  BY DEF Init, MemoryEmptyWhenDown
<1> QED BY <1>1, <1>3, <1>4 DEF OneSidedInv

LEMMA MemoryEmptyWhenDownStep ==
  TypeOK /\ MemoryEmptyWhenDown /\ [Next]_vars => MemoryEmptyWhenDown'
<1> SUFFICES ASSUME TypeOK, MemoryEmptyWhenDown, [Next]_vars
             PROVE  MemoryEmptyWhenDown'
  OBVIOUS
<1>1. ASSUME NEW h \in Handlers, Continue(h)
      PROVE  up /\ UNCHANGED up
  <2>1. jobs[h].phase # "idle"
    BY <1>1 DEF Continue, DbRead, EnsureAnswered, FinishAdd, FinishPrepare,
                FinishSync
  <2>2. up
    BY <2>1 DEF MemoryEmptyWhenDown, TypeOK, Idle
  <2> QED BY <1>1, <2>2 DEF Continue, DbRead, EnsureAnswered, FinishAdd,
                            FinishPrepare, FinishSync
<1>2. CASE MainApp
  BY <1>2 DEF MainApp, Register, UpdateProfile, AnnounceChange, AnnounceDelete, SoftDelete,
              process, MemoryEmptyWhenDown, Idle
<1>3. CASE Requests
  <2>1. up /\ UNCHANGED up
    BY <1>3 DEF Requests, StartEnsure, RemoveRelationship
  <2> QED BY <2>1 DEF MemoryEmptyWhenDown
<1>4. CASE \E h \in Handlers : StartSync(h) \/ Continue(h)
  BY <1>4, <1>1 DEF StartSync, MemoryEmptyWhenDown
<1>5. CASE DeleteUser \/ Boot
  BY <1>5 DEF DeleteUser, Boot, MemoryEmptyWhenDown
<1>6. CASE Stopping
  BY <1>6 DEF Stopping, GracefulStop, Crash, KilledDuringSave, Halt,
              MemoryEmptyWhenDown
<1>7. CASE UNCHANGED vars
  BY <1>7 DEF vars, process, MemoryEmptyWhenDown
<1> QED
  BY <1>2, <1>3, <1>4, <1>5, <1>6, <1>7 DEF Next, Running

LEMMA OneSidedStep ==
  ASSUME OneSidedInv, [Next]_vars
  PROVE  OneSidedOnlyWhereClobbered'
<1> USE DEF OneSidedInv, OneSided
<1>0. TypeOK /\ graph \in Graphs /\ file \in Graphs
  BY DEF TypeOK
<1>1. CASE UNCHANGED <<graph, file, clobbered>>
  BY <1>1 DEF OneSidedOnlyWhereClobbered
<1>2. ASSUME NEW h \in Handlers, EnsureAnswered(h)
      PROVE  OneSidedOnlyWhereClobbered'
  <2>1. CASE UNCHANGED graph /\ UNCHANGED clobbered
    BY <1>2, <2>1, <1>1 DEF EnsureAnswered, storage
  <2>2. CASE /\ graph' = SetRows(graph, jobs[h].rows)
             /\ clobbered' = clobbered \cup Overwritten(graph, jobs[h].rows)
    <3> DEFINE rows == jobs[h].rows
    <3>1. rows \in Rows
      BY <1>0, <1>2, BusyJob DEF EnsureAnswered, Jobs
    <3>5. graph' = SetRows(graph, rows)
      BY <2>2
    <3>2. \A w : FriendIds(graph', w)
                   = IF w \in DOMAIN rows THEN {} ELSE FriendIds(graph, w)
      <4> HIDE DEF rows
      <4>1. \A w : FriendIds(SetRows(graph, rows), w)
                     = IF w \in DOMAIN rows THEN {} ELSE FriendIds(graph, w)
        BY <1>0, <3>1, SetRowsFacts
      <4> QED BY <3>5, <4>1
    <3>3. \A w \in DOMAIN rows : FriendIds(graph, w) # {} => w \in clobbered'
      BY <2>2 DEF FriendIds, Overwritten
    <3>4. UNCHANGED file /\ clobbered \subseteq clobbered'
      BY <1>2, <2>2 DEF EnsureAnswered, storage
    <3> HIDE DEF rows
    <3> QED BY <3>2, <3>3, <3>4 DEF OneSidedOnlyWhereClobbered
  <2> QED BY <1>2, <2>1, <2>2 DEF EnsureAnswered
<1>3. ASSUME NEW h \in Handlers, FinishAdd(h)
      PROVE  OneSidedOnlyWhereClobbered'
  <2> DEFINE u == jobs[h].user1
             v == jobs[h].user2
  <2>1. CASE {u, v} \subseteq DOMAIN graph /\ graph' = Link(graph, u, v)
    <3>1. \A w : FriendIds(graph', w)
                   = CASE w = u -> FriendIds(graph, u) \cup {v}
                       [] w = v -> FriendIds(graph, v) \cup {u}
                       [] OTHER -> FriendIds(graph, w)
      <4>1. u \in DOMAIN graph /\ v \in DOMAIN graph /\ graph' = Link(graph, u, v)
        BY <2>1
      <4> HIDE DEF u, v
      <4> QED BY <1>0, <4>1, LinkFacts
    <3>2. UNCHANGED <<file, clobbered>>
      BY <1>3 DEF FinishAdd, storage
    <3> HIDE DEF u, v
    <3> QED BY <3>1, <3>2 DEF OneSidedOnlyWhereClobbered
  <2>2. CASE UNCHANGED graph
    BY <1>3, <2>2, <1>1 DEF FinishAdd, storage
  <2> QED BY <1>3, <2>1, <2>2 DEF FinishAdd
<1>4. ASSUME NEW u \in Users, NEW v \in Users, RemoveRelationship(u, v)
      PROVE  OneSidedOnlyWhereClobbered'
  <2>1. \A w : FriendIds(graph', w)
                 = CASE w = u -> FriendIds(graph, u) \ {v}
                     [] w = v -> FriendIds(graph, v) \ {u}
                     [] OTHER -> FriendIds(graph, w)
    BY <1>0, <1>4, UnlinkFacts DEF RemoveRelationship
  <2>2. UNCHANGED <<file, clobbered>>
    BY <1>4 DEF RemoveRelationship, storage
  <2> QED BY <2>1, <2>2 DEF OneSidedOnlyWhereClobbered
<1>5. ASSUME NEW h \in Handlers, FinishSync(h)
      PROVE  OneSidedOnlyWhereClobbered'
  <2> DEFINE u == jobs[h].user1
  <2>1. \A w : FriendIds(graph', w) = FriendIds(graph, w)
    <3>1. CASE UNCHANGED graph
      BY <3>1
    <3>2. CASE /\ u \in DOMAIN jobs[h].rows
               /\ graph' = SyncPerson(graph, u, jobs[h].rows[u])
      <4>1. u \in Users /\ jobs[h].rows[u] \in Profile
        BY <1>0, <1>5, <3>2, BusyJob, RowsElim DEF FinishSync, Jobs
      <4> DEFINE row == jobs[h].rows[u]
      <4>2. graph' = SyncPerson(graph, u, row) /\ row \in Profile
        BY <3>2, <4>1
      <4> HIDE DEF u, row
      <4>3. \A w : FriendIds(SyncPerson(graph, u, row), w)
                     = FriendIds(graph, w)
        BY <1>0, <4>1, <4>2, SyncPersonFacts
      <4> QED BY <4>2, <4>3
    <3> QED BY <1>5, <3>1, <3>2 DEF FinishSync
  <2>2. UNCHANGED <<file, clobbered>>
    BY <1>5 DEF FinishSync, storage
  <2> QED BY <2>1, <2>2 DEF OneSidedOnlyWhereClobbered
<1>6. CASE DeleteUser
  <2> DEFINE u == Head(inbox).user
  <2>1. UNCHANGED <<file, clobbered>>
    BY <1>6 DEF DeleteUser, storage
  <2>2. graph' = IF u \in DOMAIN graph THEN DropUser(graph, u) ELSE graph
    BY <1>6 DEF DeleteUser
  <2> HIDE DEF u
  <2>3. CASE u \in DOMAIN graph
    <3>1. \A w : FriendIds(graph', w)
                   = IF w = u THEN {}
                     ELSE IF w \in FriendIds(graph, u)
                       THEN FriendIds(graph, w) \ {u}
                     ELSE FriendIds(graph, w)
      <4>1. graph' = DropUser(graph, u)
        BY <2>2, <2>3
      <4>2. \A w : FriendIds(DropUser(graph, u), w)
                     = IF w = u THEN {}
                       ELSE IF w \in FriendIds(graph, u)
                         THEN FriendIds(graph, w) \ {u}
                       ELSE FriendIds(graph, w)
        BY <1>0, <2>3, DropUserFacts
      <4> QED BY <4>1, <4>2
    <3> QED BY <2>1, <3>1 DEF OneSidedOnlyWhereClobbered
  <2>4. CASE u \notin DOMAIN graph
    BY <2>1, <2>2, <2>4, <1>1
  <2> QED BY <2>3, <2>4
<1>7. CASE Boot
  BY <1>7 DEF Boot, storage, OneSidedOnlyWhereClobbered
<1>8. CASE Stopping
  <2>1. \A u : FriendIds(graph', u) = {}
    BY <1>8, EmptyGraphFacts
    DEF Stopping, GracefulStop, Crash, KilledDuringSave, Halt
  <2>2. (file' = graph \/ file' = file) /\ UNCHANGED clobbered
    BY <1>8 DEF Stopping, GracefulStop, Crash, KilledDuringSave, storage
  <2> QED BY <2>1, <2>2 DEF OneSidedOnlyWhereClobbered
<1>9. CASE MainApp
  BY <1>9, <1>1 DEF MainApp, Register, UpdateProfile, AnnounceChange, AnnounceDelete,
                    SoftDelete, process, storage
<1>10. ASSUME NEW h \in Handlers, NEW op, NEW u, NEW v,
              \/ StartEnsure(h, op, u, v) \/ StartSync(h)
              \/ DbRead(h) \/ FinishPrepare(h)
       PROVE  OneSidedOnlyWhereClobbered'
  BY <1>10, <1>1 DEF StartEnsure, StartSync, DbRead, FinishPrepare, storage
<1>11. CASE UNCHANGED vars
  BY <1>11, <1>1 DEF vars, process, storage
<1> QED
  BY <1>2, <1>3, <1>4, <1>5, <1>6, <1>7, <1>8, <1>9, <1>10, <1>11
  DEF Next, Running, Requests, Continue

\* Whatever runs concurrently, a friendship held by one side only can be
\* blamed on ensureUser: the other side was overwritten by it.
THEOREM OneSidedCorrect == Spec => []OneSidedOnlyWhereClobbered
<1>1. OneSidedInv /\ [Next]_vars => OneSidedInv'
  BY TypeOKStep, MemoryEmptyWhenDownStep, OneSidedStep DEF OneSidedInv
<1>2. OneSidedInv => OneSidedOnlyWhereClobbered
  BY DEF OneSidedInv
<1> QED BY OneSidedInit, <1>1, <1>2, PTL DEF Spec

-----------------------------------------------------------------------------
(* Calls handled one at a time.                                            *)

\* Nobody puts a Person into the graph while an ensureUser that had missed
\* it waits for the database.
MissingStaysMissing ==
  \A h \in Handlers :
    /\ jobs[h].phase \in {"query", "answer"}
    /\ jobs[h].op # "sync"
    => jobs[h].missing \cap DOMAIN graph = {}

SerialInv == /\ OneSidedInv
             /\ MissingStaysMissing
             /\ clobbered = {}

LEMMA MissingStaysMissingStep ==
  ASSUME \A h1, h2 \in Handlers : h1 = h2,
         SerialInv, [Next]_vars
  PROVE  MissingStaysMissing'
<1> USE DEF SerialInv, OneSidedInv
<1>1. CASE UNCHANGED <<graph, jobs>>
  BY <1>1 DEF MissingStaysMissing
<1>2. CASE MainApp
  BY <1>2, <1>1 DEF MainApp, Register, UpdateProfile, AnnounceChange, AnnounceDelete,
                    SoftDelete, process
<1>3. ASSUME NEW h \in Handlers, NEW op \in {"add", "prepare"},
             NEW u \in Users, NEW v \in Users, StartEnsure(h, op, u, v)
      PROVE  MissingStaysMissing'
  <2>1. jobs'[h].missing = {u, v} \ DOMAIN graph
    BY <1>3 DEF StartEnsure, Job, TypeOK
  <2>2. UNCHANGED graph
    BY <1>3 DEF StartEnsure
  <2> QED BY <2>1, <2>2 DEF MissingStaysMissing
<1>4. ASSUME NEW u \in Users, NEW v \in Users, RemoveRelationship(u, v)
      PROVE  MissingStaysMissing'
  <2>1. DOMAIN graph' = DOMAIN graph /\ UNCHANGED jobs
    BY <1>4 DEF RemoveRelationship, Unlink
  <2> QED BY <2>1 DEF MissingStaysMissing
<1>5. ASSUME NEW h \in Handlers, StartSync(h)
      PROVE  MissingStaysMissing'
  <2>1. jobs'[h].op = "sync"
    BY <1>5 DEF StartSync, Job, TypeOK
  <2> QED BY <2>1 DEF MissingStaysMissing
<1>6. ASSUME NEW h \in Handlers, DbRead(h)
      PROVE  MissingStaysMissing'
  <2>1. jobs[h] \in Jobs
    BY <1>6, BusyJob DEF DbRead
  <2>2. /\ jobs'[h].op = jobs[h].op
        /\ jobs'[h].missing = jobs[h].missing
        /\ jobs[h].phase = "query"
        /\ UNCHANGED graph
    BY <1>6, <2>1 DEF DbRead, TypeOK, Jobs
  <2> QED BY <2>2 DEF MissingStaysMissing
<1>7. ASSUME NEW h \in Handlers,
             \/ EnsureAnswered(h) \/ FinishAdd(h)
             \/ FinishPrepare(h) \/ FinishSync(h)
      PROVE  MissingStaysMissing'
  <2>1. jobs[h] \in Jobs
    BY <1>7, BusyJob DEF EnsureAnswered, FinishAdd, FinishPrepare, FinishSync
  <2>2. jobs'[h].phase \in {"ensured", "idle"}
    BY <1>7, <2>1 DEF EnsureAnswered, FinishAdd, FinishPrepare, FinishSync,
                      Finish, Idle, TypeOK, Jobs
  <2> QED BY <2>2 DEF MissingStaysMissing
<1>8. CASE DeleteUser
  <2>1. DOMAIN graph' \subseteq DOMAIN graph /\ UNCHANGED jobs
    BY <1>8 DEF DeleteUser, DropUser
  <2> QED BY <2>1 DEF MissingStaysMissing
<1>9. CASE Boot \/ Stopping
  <2>1. \A h \in Handlers : jobs'[h] = Idle
    BY <1>9 DEF Boot, Stopping, GracefulStop, Crash, KilledDuringSave, Halt,
                MemoryEmptyWhenDown
  <2> QED BY <2>1 DEF MissingStaysMissing, Idle
<1>10. CASE UNCHANGED vars
  BY <1>10, <1>1 DEF vars, process
<1> QED
  BY <1>2, <1>3, <1>4, <1>5, <1>6, <1>7, <1>8, <1>9, <1>10
  DEF Next, Running, Requests, Continue

LEMMA NobodyClobberedStep ==
  ASSUME SerialInv, [Next]_vars
  PROVE  clobbered' = {}
<1> USE DEF SerialInv
<1>1. ASSUME NEW h \in Handlers, EnsureAnswered(h)
      PROVE  clobbered' = {}
  <2>1. CASE UNCHANGED clobbered
    BY <2>1
  <2>2. CASE /\ DOMAIN jobs[h].rows = jobs[h].missing
             /\ clobbered' = clobbered \cup Overwritten(graph, jobs[h].rows)
    <3>1. jobs[h].missing \cap DOMAIN graph = {}
      BY <1>1 DEF EnsureAnswered, MissingStaysMissing
    <3> QED BY <2>2, <3>1 DEF Overwritten
  <2> QED BY <1>1, <2>1, <2>2 DEF EnsureAnswered
<1>2. CASE UNCHANGED clobbered
  BY <1>2
<1> QED
  BY <1>1, <1>2
  DEF Next, Running, Stopping, MainApp, Requests, Continue, vars,
      Register, UpdateProfile, AnnounceChange, AnnounceDelete, SoftDelete,
      StartEnsure, StartSync, DbRead, FinishAdd, FinishPrepare, FinishSync,
      RemoveRelationship, DeleteUser, GracefulStop, Crash, KilledDuringSave,
      Boot

\* If at most one asynchronous call is in flight, the graph stays symmetric
\* through every add, sync, removal, deletion, stop, crash and boot: the
\* overlap of calls is the only thing that breaks a friendship in two.
THEOREM SerialSymmetric ==
  ASSUME \A h1, h2 \in Handlers : h1 = h2
  PROVE  Spec => []Symmetric
<1>1. Init => SerialInv
  <2> SUFFICES ASSUME Init PROVE SerialInv
    OBVIOUS
  <2>1. jobs = [h \in Handlers |-> Idle] /\ clobbered = {}
    BY DEF Init
  <2> QED BY <2>1, OneSidedInit DEF SerialInv, MissingStaysMissing, Idle
<1>2. SerialInv /\ [Next]_vars => SerialInv'
  <2> SUFFICES ASSUME SerialInv, [Next]_vars PROVE SerialInv'
    OBVIOUS
  <2>1. OneSidedInv'
    BY TypeOKStep, MemoryEmptyWhenDownStep, OneSidedStep
    DEF SerialInv, OneSidedInv
  <2> QED BY <2>1, MissingStaysMissingStep, NobodyClobberedStep DEF SerialInv
<1>3. SerialInv => Symmetric
  BY DEF SerialInv, OneSidedInv, OneSidedOnlyWhereClobbered, Symmetric
<1> QED BY <1>1, <1>2, <1>3, PTL DEF Spec

-----------------------------------------------------------------------------
(* Friendship is implemented.                                              *)

\* Two ways to write one unordered pair.
LEMMA PairEquality ==
  ASSUME NEW u, NEW v, NEW x, NEW y, {u, v} = {x, y}
  PROVE  (u = x /\ v = y) \/ (u = y /\ v = x)
OBVIOUS

LEMMA MutualPairsElim ==
  ASSUME NEW g, NEW pair \in MutualPairs(g)
  PROVE  \E u, v \in Users : u # v /\ pair = {u, v} /\ IsFriend(g, u, v)
BY DEF MutualPairs

LEMMA MutualPairsMember ==
  ASSUME NEW g, NEW u \in Users, NEW v \in Users, u # v
  PROVE  {u, v} \in MutualPairs(g) <=> IsFriend(g, u, v)
<1>1. ASSUME IsFriend(g, u, v) PROVE {u, v} \in MutualPairs(g)
  BY <1>1 DEF MutualPairs
<1>2. ASSUME {u, v} \in MutualPairs(g) PROVE IsFriend(g, u, v)
  <2>1. PICK x, y \in Users : {u, v} = {x, y} /\ IsFriend(g, x, y)
    BY <1>2, MutualPairsElim
  <2>2. (u = x /\ v = y) \/ (u = y /\ v = x)
    BY <2>1, PairEquality
  <2> QED BY <2>1, <2>2 DEF IsFriend
<1> QED BY <1>1, <1>2

\* Graphs with the same friend sets have the same mutual pairs.
LEMMA MutualPairsSame ==
  ASSUME NEW g, NEW f,
         \A u, v \in Users : IsFriend(f, u, v) <=> IsFriend(g, u, v)
  PROVE  MutualPairs(f) = MutualPairs(g)
BY DEF MutualPairs

\* Emptying the friend sets of some users, and taking them out of the sets
\* of others, forgets exactly their pairs.
LEMMA MutualPairsForget ==
  ASSUME NEW g, NEW f, NEW us,
         \A u, v \in Users :
           IsFriend(f, u, v) <=> IsFriend(g, u, v) /\ u \notin us /\ v \notin us
  PROVE  MutualPairs(f) = {pair \in MutualPairs(g) : pair \cap us = {}}
<1>1. ASSUME NEW pair \in MutualPairs(f)
      PROVE  pair \in MutualPairs(g) /\ pair \cap us = {}
  <2>1. PICK u, v \in Users : u # v /\ pair = {u, v} /\ IsFriend(f, u, v)
    BY <1>1, MutualPairsElim
  <2>2. IsFriend(g, u, v) /\ u \notin us /\ v \notin us
    BY <2>1
  <2> QED BY <2>1, <2>2, MutualPairsMember
<1>2. ASSUME NEW pair \in MutualPairs(g), pair \cap us = {}
      PROVE  pair \in MutualPairs(f)
  <2>1. PICK u, v \in Users : u # v /\ pair = {u, v} /\ IsFriend(g, u, v)
    BY <1>2, MutualPairsElim
  <2>2. IsFriend(f, u, v)
    BY <1>2, <2>1
  <2> QED BY <2>1, <2>2, MutualPairsMember
<1> QED BY <1>1, <1>2

\* x, y are the two of u, v in some order.
SamePair(x, y, u, v) == (x = u /\ y = v) \/ (x = v /\ y = u)

LEMMA SamePairFact ==
  \A x, y, u, v : SamePair(x, y, u, v) <=> {x, y} = {u, v}
BY PairEquality DEF SamePair

LEMMA MutualPairsLink ==
  ASSUME NEW g, NEW f, NEW u \in Users, NEW v \in Users, u # v,
         \A x, y \in Users :
           IsFriend(f, x, y) <=> IsFriend(g, x, y) \/ SamePair(x, y, u, v)
  PROVE  MutualPairs(f) = MutualPairs(g) \cup {{u, v}}
<1>1. ASSUME NEW pair \in MutualPairs(f)
      PROVE  pair \in MutualPairs(g) \cup {{u, v}}
  <2>1. PICK x, y \in Users : x # y /\ pair = {x, y} /\ IsFriend(f, x, y)
    BY <1>1, MutualPairsElim
  <2>2. CASE SamePair(x, y, u, v)
    BY <2>1, <2>2, SamePairFact
  <2>3. CASE IsFriend(g, x, y)
    BY <2>1, <2>3, MutualPairsMember
  <2> QED BY <2>1, <2>2, <2>3
<1>2. ASSUME NEW pair \in MutualPairs(g)
      PROVE  pair \in MutualPairs(f)
  <2>1. PICK x, y \in Users : x # y /\ pair = {x, y} /\ IsFriend(g, x, y)
    BY <1>2, MutualPairsElim
  <2> QED BY <2>1, MutualPairsMember
<1>3. {u, v} \in MutualPairs(f)
  <2>1. IsFriend(f, u, v)
    BY DEF SamePair
  <2> QED BY <2>1, MutualPairsMember
<1> QED BY <1>1, <1>2, <1>3

\* What one operation on a graph does to its mutual pairs.
LEMMA LinkPairs ==
  ASSUME NEW g \in Graphs, NEW u \in DOMAIN g, NEW v \in DOMAIN g, u # v
  PROVE  MutualPairs(Link(g, u, v)) = MutualPairs(g) \cup {{u, v}}
<1>1. u \in Users /\ v \in Users
  BY GraphElim
<1>2. \A w : FriendIds(Link(g, u, v), w)
               = CASE w = u -> FriendIds(g, u) \cup {v}
                   [] w = v -> FriendIds(g, v) \cup {u}
                   [] OTHER -> FriendIds(g, w)
  BY LinkFacts
<1>3. \A x, y \in Users : IsFriend(Link(g, u, v), x, y)
                            <=> IsFriend(g, x, y) \/ SamePair(x, y, u, v)
  BY <1>2 DEF IsFriend, SamePair
<1> QED BY <1>1, <1>3, MutualPairsLink

LEMMA UnlinkPairs ==
  ASSUME NEW g \in Graphs, NEW u \in DOMAIN g, NEW v \in DOMAIN g
  PROVE  MutualPairs(Unlink(g, u, v)) = MutualPairs(g) \ {{u, v}}
<1>1. u \in Users /\ v \in Users
  BY GraphElim
<1>2. \A w : FriendIds(Unlink(g, u, v), w)
               = CASE w = u -> FriendIds(g, u) \ {v}
                   [] w = v -> FriendIds(g, v) \ {u}
                   [] OTHER -> FriendIds(g, w)
  BY UnlinkFacts
<1>3. \A x, y \in Users :
        \/ x = y
        \/ IsFriend(Unlink(g, u, v), x, y)
             <=> IsFriend(g, x, y) /\ ~SamePair(x, y, u, v)
  BY <1>2 DEF IsFriend, SamePair
<1>4. ASSUME NEW pair \in MutualPairs(Unlink(g, u, v))
      PROVE  pair \in MutualPairs(g) /\ pair # {u, v}
  <2>1. PICK x, y \in Users :
          x # y /\ pair = {x, y} /\ IsFriend(Unlink(g, u, v), x, y)
    BY <1>4, MutualPairsElim
  <2>2. IsFriend(g, x, y) /\ ~SamePair(x, y, u, v)
    BY <1>3, <2>1
  <2> QED BY <2>1, <2>2, SamePairFact, MutualPairsMember
<1>5. ASSUME NEW pair \in MutualPairs(g), pair # {u, v}
      PROVE  pair \in MutualPairs(Unlink(g, u, v))
  <2>1. PICK x, y \in Users : x # y /\ pair = {x, y} /\ IsFriend(g, x, y)
    BY <1>5, MutualPairsElim
  <2>2. IsFriend(Unlink(g, u, v), x, y)
    BY <1>3, <1>5, <2>1, SamePairFact
  <2> QED BY <2>1, <2>2, MutualPairsMember
<1> QED BY <1>4, <1>5

LEMMA DropUserPairs ==
  ASSUME NEW g \in Graphs, NEW u \in DOMAIN g
  PROVE  MutualPairs(DropUser(g, u))
           = {pair \in MutualPairs(g) : pair \cap {u} = {}}
<1>1. \A w : FriendIds(DropUser(g, u), w)
               = IF w = u THEN {}
                 ELSE IF w \in FriendIds(g, u) THEN FriendIds(g, w) \ {u}
                 ELSE FriendIds(g, w)
  BY DropUserFacts
<1>2. \A x, y \in Users :
        IsFriend(DropUser(g, u), x, y)
          <=> IsFriend(g, x, y) /\ x \notin {u} /\ y \notin {u}
  BY <1>1 DEF IsFriend
<1> DEFINE us == {u}
<1>3. \A x, y \in Users :
        IsFriend(DropUser(g, u), x, y)
          <=> IsFriend(g, x, y) /\ x \notin us /\ y \notin us
  BY <1>2
<1>4. MutualPairs(DropUser(g, u)) = {pair \in MutualPairs(g) : pair \cap us = {}}
  <2> HIDE DEF us
  <2> QED BY <1>3, MutualPairsForget
<1> QED BY <1>4

LEMMA SetRowsPairs ==
  ASSUME NEW g \in Graphs, NEW rows \in Rows
  PROVE  MutualPairs(SetRows(g, rows))
           = {pair \in MutualPairs(g) : pair \cap DOMAIN rows = {}}
<1>1. \A w : FriendIds(SetRows(g, rows), w)
               = IF w \in DOMAIN rows THEN {} ELSE FriendIds(g, w)
  BY SetRowsFacts
<1>2. \A x, y \in Users :
        IsFriend(SetRows(g, rows), x, y)
          <=> IsFriend(g, x, y) /\ x \notin DOMAIN rows /\ y \notin DOMAIN rows
  BY <1>1 DEF IsFriend
<1> QED BY <1>2, MutualPairsForget

LEMMA SyncPersonPairs ==
  ASSUME NEW g \in Graphs, NEW u \in Users, NEW row \in Profile
  PROVE  MutualPairs(SyncPerson(g, u, row)) = MutualPairs(g)
<1>1. \A w : FriendIds(SyncPerson(g, u, row), w) = FriendIds(g, w)
  BY SyncPersonFacts
<1>2. \A x, y \in Users :
        IsFriend(SyncPerson(g, u, row), x, y) <=> IsFriend(g, x, y)
  BY <1>1 DEF IsFriend
<1> QED BY <1>2, MutualPairsSame

LEMMA EmptyGraphPairs == MutualPairs(EmptyGraph) = {}
BY EmptyGraphFacts DEF MutualPairs, IsFriend

\* addRelationship never links a user with himself.
AddsTwoUsers ==
  \A h \in Handlers : jobs[h].phase # "idle" /\ jobs[h].op = "add"
                       => jobs[h].user1 # jobs[h].user2

RefineInv == TypeOK /\ MemoryEmptyWhenDown /\ AddsTwoUsers

LEMMA AddsTwoUsersStep ==
  TypeOK /\ AddsTwoUsers /\ [Next]_vars => AddsTwoUsers'
<1> SUFFICES ASSUME TypeOK, AddsTwoUsers, [Next]_vars PROVE AddsTwoUsers'
  OBVIOUS
<1>1. ASSUME NEW h \in Handlers, NEW op \in {"add", "prepare"},
             NEW u \in Users, NEW v \in Users, StartEnsure(h, op, u, v)
      PROVE  AddsTwoUsers'
  <2>1. jobs'[h].user1 = u /\ jobs'[h].user2 = v /\ u # v
    BY <1>1 DEF StartEnsure, Job, TypeOK
  <2>2. \A i \in Handlers : i # h => jobs'[i] = jobs[i]
    BY <1>1 DEF StartEnsure, TypeOK
  <2> QED BY <2>1, <2>2 DEF AddsTwoUsers
<1>2. ASSUME NEW h \in Handlers, StartSync(h)
      PROVE  AddsTwoUsers'
  <2>1. jobs'[h].op = "sync"
    BY <1>2 DEF StartSync, Job, TypeOK
  <2>2. \A i \in Handlers : i # h => jobs'[i] = jobs[i]
    BY <1>2 DEF StartSync, TypeOK
  <2> QED BY <2>1, <2>2 DEF AddsTwoUsers
<1>3. ASSUME NEW h \in Handlers, Continue(h)
      PROVE  AddsTwoUsers'
  <2>1. jobs[h].phase # "idle"
    BY <1>3 DEF Continue, DbRead, EnsureAnswered, FinishAdd, FinishPrepare,
                FinishSync
  <2>2. jobs[h] \in Jobs
    BY <2>1, BusyJob
  <2>3. \/ jobs'[h] = Idle
        \/ /\ jobs'[h].op = jobs[h].op
           /\ jobs'[h].user1 = jobs[h].user1
           /\ jobs'[h].user2 = jobs[h].user2
    BY <1>3, <2>2 DEF Continue, DbRead, EnsureAnswered, FinishAdd,
                      FinishPrepare, FinishSync, Finish, TypeOK, Jobs
  <2>4. \A i \in Handlers : i # h => jobs'[i] = jobs[i]
    BY <1>3 DEF Continue, DbRead, EnsureAnswered, FinishAdd,
                FinishPrepare, FinishSync, Finish, TypeOK
  <2> QED BY <2>1, <2>3, <2>4 DEF AddsTwoUsers, Idle
<1>4. CASE Stopping
  <2>1. \A h \in Handlers : jobs'[h].phase = "idle"
    BY <1>4 DEF Stopping, GracefulStop, Crash, KilledDuringSave, Halt, Idle
  <2> QED BY <2>1 DEF AddsTwoUsers
<1>5. CASE UNCHANGED jobs
  BY <1>5 DEF AddsTwoUsers
<1> QED
  BY <1>1, <1>2, <1>3, <1>4, <1>5
  DEF Next, Running, Requests, MainApp, Register, UpdateProfile,
      AnnounceChange, AnnounceDelete, SoftDelete, RemoveRelationship, DeleteUser, Boot,
      vars, process

LEMMA RefineStep ==
  ASSUME RefineInv, [Next]_vars
  PROVE  [Abstract!Next]_(Abstract!vars)
<1> USE DEF RefineInv
<1>0. TypeOK /\ graph \in Graphs /\ file \in Graphs
  BY DEF TypeOK
<1>1. CASE UNCHANGED <<up, graph, file>>
  BY <1>1 DEF Abstract!vars
<1>2. ASSUME NEW h \in Handlers, Continue(h)
      PROVE  up /\ UNCHANGED <<up, file>>
  <2>1. jobs[h].phase # "idle"
    BY <1>2 DEF Continue, DbRead, EnsureAnswered, FinishAdd, FinishPrepare,
                FinishSync
  <2>2. up
    BY <2>1 DEF MemoryEmptyWhenDown, TypeOK, Idle
  <2> QED BY <1>2, <2>2 DEF Continue, DbRead, EnsureAnswered, FinishAdd,
                            FinishPrepare, FinishSync, storage
<1>3. ASSUME NEW us \in SUBSET Users, up, UNCHANGED <<up, file>>,
             MutualPairs(graph')
               = {pair \in MutualPairs(graph) : pair \cap us = {}}
      PROVE  Abstract!Next
  <2>1. Abstract!Forget(us)
    BY <1>3 DEF Abstract!Forget
  <2> QED BY <2>1 DEF Abstract!Next
<1>4. ASSUME NEW h \in Handlers, EnsureAnswered(h)
      PROVE  [Abstract!Next]_(Abstract!vars)
  <2>1. up /\ UNCHANGED <<up, file>>
    BY <1>2, <1>4 DEF Continue
  <2>2. CASE UNCHANGED graph
    BY <1>1, <2>1, <2>2
  <2>3. CASE graph' = SetRows(graph, jobs[h].rows)
    <3> DEFINE rows == jobs[h].rows
    <3>1. rows \in Rows /\ DOMAIN rows \in SUBSET Users
      BY <1>0, <1>4, BusyJob, RowsElim DEF EnsureAnswered, Jobs
    <3>2. graph' = SetRows(graph, rows)
      BY <2>3
    <3> HIDE DEF rows
    <3>3. MutualPairs(SetRows(graph, rows))
            = {pair \in MutualPairs(graph) : pair \cap DOMAIN rows = {}}
      BY <1>0, <3>1, SetRowsPairs
    <3>4. MutualPairs(graph')
            = {pair \in MutualPairs(graph) : pair \cap DOMAIN rows = {}}
      BY <3>2, <3>3
    <3> QED BY <1>3, <2>1, <3>1, <3>4
  <2> QED BY <1>4, <2>2, <2>3 DEF EnsureAnswered
<1>5. ASSUME NEW h \in Handlers, FinishAdd(h)
      PROVE  [Abstract!Next]_(Abstract!vars)
  <2> DEFINE u == jobs[h].user1
             v == jobs[h].user2
  <2>1. up /\ UNCHANGED <<up, file>>
    BY <1>2, <1>5 DEF Continue
  <2>2. CASE UNCHANGED graph
    BY <1>1, <2>1, <2>2
  <2>3. CASE {u, v} \subseteq DOMAIN graph /\ graph' = Link(graph, u, v)
    <3>1. /\ u \in Users /\ v \in Users /\ u # v
          /\ u \in DOMAIN graph /\ v \in DOMAIN graph
          /\ graph' = Link(graph, u, v)
      BY <1>0, <1>5, <2>3, BusyJob DEF FinishAdd, Jobs, AddsTwoUsers
    <3> HIDE DEF u, v
    <3>2. MutualPairs(Link(graph, u, v)) = MutualPairs(graph) \cup {{u, v}}
      BY <1>0, <3>1, LinkPairs
    <3>3. MutualPairs(graph') = MutualPairs(graph) \cup {{u, v}}
      BY <3>1, <3>2
    <3>4. {u, v} \in Abstract!Friendships
      BY <3>1 DEF Abstract!Friendships
    <3>5. Abstract!Befriend({u, v})
      BY <2>1, <3>3 DEF Abstract!Befriend
    <3> QED BY <3>4, <3>5 DEF Abstract!Next
  <2> QED BY <1>5, <2>2, <2>3 DEF FinishAdd
<1>6. ASSUME NEW u \in Users, NEW v \in Users, RemoveRelationship(u, v)
      PROVE  [Abstract!Next]_(Abstract!vars)
  <2>1. up /\ UNCHANGED <<up, file>>
    BY <1>6 DEF RemoveRelationship, storage
  <2>2. MutualPairs(Unlink(graph, u, v)) = MutualPairs(graph) \ {{u, v}}
    BY <1>0, <1>6, UnlinkPairs DEF RemoveRelationship
  <2>3. MutualPairs(graph') = MutualPairs(graph) \ {{u, v}}
    BY <1>6, <2>2 DEF RemoveRelationship
  <2>4. CASE u # v
    <3>1. {u, v} \in Abstract!Friendships
      BY <2>4 DEF Abstract!Friendships
    <3>2. Abstract!Unfriend({u, v})
      BY <2>1, <2>3 DEF Abstract!Unfriend
    <3> QED BY <3>1, <3>2 DEF Abstract!Next
  <2>5. CASE u = v
    <3>1. {u, v} \notin MutualPairs(graph)
      BY <2>5, MutualPairsElim
    <3>2. MutualPairs(graph') = MutualPairs(graph)
      BY <2>3, <3>1
    <3> QED BY <2>1, <3>2 DEF Abstract!vars
  <2> QED BY <2>4, <2>5
<1>7. ASSUME NEW h \in Handlers, FinishSync(h)
      PROVE  [Abstract!Next]_(Abstract!vars)
  <2> DEFINE u == jobs[h].user1
             row == jobs[h].rows[u]
  <2>1. up /\ UNCHANGED <<up, file>>
    BY <1>2, <1>7 DEF Continue
  <2>2. CASE UNCHANGED graph
    BY <1>1, <2>1, <2>2
  <2>3. CASE u \in DOMAIN jobs[h].rows /\ graph' = SyncPerson(graph, u, row)
    <3>1. /\ u \in Users /\ row \in Profile
          /\ graph' = SyncPerson(graph, u, row)
      BY <1>0, <1>7, <2>3, BusyJob, RowsElim DEF FinishSync, Jobs
    <3> HIDE DEF u, row
    <3>2. MutualPairs(SyncPerson(graph, u, row)) = MutualPairs(graph)
      BY <1>0, <3>1, SyncPersonPairs
    <3>3. MutualPairs(graph') = MutualPairs(graph)
      BY <3>1, <3>2
    <3> QED BY <2>1, <3>3 DEF Abstract!vars
  <2> QED BY <1>7, <2>2, <2>3 DEF FinishSync
<1>8. CASE DeleteUser
  <2> DEFINE u == Head(inbox).user
  <2>1. up /\ UNCHANGED <<up, file>>
    BY <1>8 DEF DeleteUser, storage
  <2>2. graph' = IF u \in DOMAIN graph THEN DropUser(graph, u) ELSE graph
    BY <1>8 DEF DeleteUser
  <2> HIDE DEF u
  <2>3. CASE u \in DOMAIN graph
    <3>1. {u} \in SUBSET Users
      BY <1>0, <2>3, GraphElim
    <3>2. MutualPairs(DropUser(graph, u))
            = {pair \in MutualPairs(graph) : pair \cap {u} = {}}
      BY <1>0, <2>3, DropUserPairs
    <3>3. graph' = DropUser(graph, u)
      BY <2>2, <2>3
    <3>4. MutualPairs(graph')
            = {pair \in MutualPairs(graph) : pair \cap {u} = {}}
      BY <3>2, <3>3
    <3>5. Abstract!Forget({u})
      BY <2>1, <3>4 DEF Abstract!Forget
    <3> QED BY <3>1, <3>5 DEF Abstract!Next
  <2>4. CASE u \notin DOMAIN graph
    BY <1>1, <2>1, <2>2, <2>4
  <2> QED BY <2>3, <2>4
<1>9. CASE Boot
  <2>1. Abstract!Boot
    BY <1>9 DEF Boot, storage, Abstract!Boot
  <2> QED BY <2>1 DEF Abstract!Next
<1>10. CASE Stopping
  <2>1. up /\ ~up' /\ up' = FALSE /\ graph' = EmptyGraph
    BY <1>10 DEF Stopping, GracefulStop, Crash, KilledDuringSave, Halt
  <2>2. file' = graph \/ file' = file
    BY <1>10 DEF Stopping, GracefulStop, Crash, KilledDuringSave, storage
  <2>3. MutualPairs(graph') = {}
    BY <2>1, EmptyGraphPairs
  <2>4. MutualPairs(file') \in {MutualPairs(file), MutualPairs(graph)}
    BY <2>2
  <2>5. Abstract!Stop
    BY <2>1, <2>3, <2>4 DEF Abstract!Stop
  <2> QED BY <2>5 DEF Abstract!Next
<1>11. CASE MainApp
  BY <1>11, <1>1 DEF MainApp, Register, UpdateProfile, AnnounceChange, AnnounceDelete,
                     SoftDelete, process, storage
<1>12. ASSUME NEW h \in Handlers, NEW op, NEW u, NEW v,
              \/ StartEnsure(h, op, u, v) \/ StartSync(h)
              \/ DbRead(h) \/ FinishPrepare(h)
       PROVE  [Abstract!Next]_(Abstract!vars)
  BY <1>12, <1>1 DEF StartEnsure, StartSync, DbRead, FinishPrepare, storage
<1>13. CASE UNCHANGED vars
  BY <1>13, <1>1 DEF vars, process, storage
<1> QED
  BY <1>4, <1>5, <1>6, <1>7, <1>8, <1>9, <1>10, <1>11, <1>12, <1>13
  DEF Next, Running, Requests, Continue

LEMMA RefineInvInit == Init => RefineInv
<1> SUFFICES ASSUME Init PROVE RefineInv
  OBVIOUS
<1>1. up = FALSE /\ graph = EmptyGraph /\ jobs = [h \in Handlers |-> Idle]
  BY DEF Init
<1>2. MemoryEmptyWhenDown /\ AddsTwoUsers
  BY <1>1 DEF MemoryEmptyWhenDown, AddsTwoUsers, Idle
<1> QED BY <1>2, TypeOKInit DEF RefineInv

\* To its clients friend-job is the set of mutual friendships of Friendship:
\* overlapping calls, deletions, stops, crashes and boots show them nothing
\* but one pair added, one removed, some users forgotten, or a restart.
THEOREM Refinement == Spec => ImplementsFriendship
<1>1. Init => RefineInv
  BY RefineInvInit
<1>2. RefineInv /\ [Next]_vars => RefineInv'
  BY TypeOKStep, MemoryEmptyWhenDownStep, AddsTwoUsersStep DEF RefineInv
<1>3. Init => Abstract!Init
  BY EmptyGraphPairs DEF Init, Abstract!Init
<1>4. RefineInv /\ [Next]_vars => [Abstract!Next]_(Abstract!vars)
  BY RefineStep
<1> QED BY <1>1, <1>2, <1>3, <1>4, PTL DEF Spec, ImplementsFriendship, Abstract!Spec

-----------------------------------------------------------------------------
(* Changes are announced.                                                  *)

\* What one operation on a graph does to the friendship of x and y.
LEMMA LinkFriends ==
  ASSUME NEW g \in Graphs, NEW u \in DOMAIN g, NEW v \in DOMAIN g,
         NEW x, NEW y, {x, y} # {u, v}
  PROVE  IsFriend(Link(g, u, v), x, y) = IsFriend(g, x, y)
<1>1. ~SamePair(x, y, u, v)
  BY SamePairFact
<1>2. \A w : FriendIds(Link(g, u, v), w)
               = CASE w = u -> FriendIds(g, u) \cup {v}
                   [] w = v -> FriendIds(g, v) \cup {u}
                   [] OTHER -> FriendIds(g, w)
  BY LinkFacts
<1> QED BY <1>1, <1>2 DEF IsFriend, SamePair

LEMMA UnlinkFriends ==
  ASSUME NEW g \in Graphs, NEW u \in DOMAIN g, NEW v \in DOMAIN g,
         NEW x, NEW y, {x, y} # {u, v}
  PROVE  IsFriend(Unlink(g, u, v), x, y) = IsFriend(g, x, y)
<1>1. ~SamePair(x, y, u, v)
  BY SamePairFact
<1>2. \A w : FriendIds(Unlink(g, u, v), w)
               = CASE w = u -> FriendIds(g, u) \ {v}
                   [] w = v -> FriendIds(g, v) \ {u}
                   [] OTHER -> FriendIds(g, w)
  BY UnlinkFacts
<1> QED BY <1>1, <1>2 DEF IsFriend, SamePair

LEMMA DropUserFriends ==
  ASSUME NEW g \in Graphs, NEW u \in DOMAIN g, NEW x, NEW y, u \notin {x, y}
  PROVE  IsFriend(DropUser(g, u), x, y) = IsFriend(g, x, y)
<1>1. \A w : FriendIds(DropUser(g, u), w)
               = IF w = u THEN {}
                 ELSE IF w \in FriendIds(g, u) THEN FriendIds(g, w) \ {u}
                 ELSE FriendIds(g, w)
  BY DropUserFacts
<1> QED BY <1>1 DEF IsFriend

LEMMA SetRowsFriends ==
  ASSUME NEW g \in Graphs, NEW rows \in Rows, NEW x, NEW y,
         {x, y} \cap DOMAIN rows = {}
  PROVE  IsFriend(SetRows(g, rows), x, y) = IsFriend(g, x, y)
<1>1. \A w : FriendIds(SetRows(g, rows), w)
               = IF w \in DOMAIN rows THEN {} ELSE FriendIds(g, w)
  BY SetRowsFacts
<1> QED BY <1>1 DEF IsFriend

LEMMA SyncPersonFriends ==
  ASSUME NEW g \in Graphs, NEW u \in Users, NEW row \in Profile,
         NEW x, NEW y
  PROVE  IsFriend(SyncPerson(g, u, row), x, y) = IsFriend(g, x, y)
<1>1. \A w : FriendIds(SyncPerson(g, u, row), w) = FriendIds(g, w)
  BY SyncPersonFacts
<1> QED BY <1>1 DEF IsFriend

\* What FriendshipChangesAnnounced asks of one step and one pair.
Explained(u, v) ==
  \/ {u, v} \in emitted'
  \/ ~ {u, v} \subseteq DOMAIN graph'
  \/ up' # up
  \/ \E h \in Handlers : /\ jobs[h].phase = "answer"
                        /\ jobs'[h].phase = "ensured"
                        /\ {u, v} \cap jobs[h].missing # {}

LEMMA AnnouncedStep ==
  ASSUME TypeOK, [Next]_vars, NEW x \in Users, NEW y \in Users,
         IsFriend(graph, x, y) # IsFriend(graph', x, y)
  PROVE  Explained(x, y)
<1>0. graph \in Graphs
  BY DEF TypeOK
<1>1. CASE UNCHANGED graph
  BY <1>1
<1>2. ASSUME NEW h \in Handlers, EnsureAnswered(h)
      PROVE  Explained(x, y)
  <2> DEFINE rows == jobs[h].rows
  <2>1. jobs[h] \in Jobs
    BY <1>2, BusyJob DEF EnsureAnswered
  <2>2. CASE UNCHANGED graph
    BY <2>2, <1>1
  <2>3. CASE /\ DOMAIN jobs[h].rows = jobs[h].missing
             /\ graph' = SetRows(graph, jobs[h].rows)
             /\ jobs' = [jobs EXCEPT ![h].phase = "ensured"]
    <3>1. rows \in Rows /\ graph' = SetRows(graph, rows)
      BY <2>1, <2>3 DEF Jobs
    <3>2. {x, y} \cap DOMAIN rows # {}
      <4> HIDE DEF rows
      <4> QED BY <1>0, <3>1, SetRowsFriends
    <3>3. jobs'[h].phase = "ensured"
      BY <2>1, <2>3 DEF TypeOK, Jobs
    <3> QED BY <1>2, <2>3, <3>2, <3>3 DEF EnsureAnswered, Explained
  <2> QED BY <1>2, <2>2, <2>3 DEF EnsureAnswered
<1>3. ASSUME NEW h \in Handlers, FinishAdd(h)
      PROVE  Explained(x, y)
  <2> DEFINE u == jobs[h].user1
             v == jobs[h].user2
  <2>1. CASE UNCHANGED graph
    BY <2>1, <1>1
  <2>2. CASE /\ {u, v} \subseteq DOMAIN graph
             /\ graph' = Link(graph, u, v)
             /\ emitted' = {{u, v}}
    <3>1. /\ u \in DOMAIN graph /\ v \in DOMAIN graph
          /\ graph' = Link(graph, u, v) /\ emitted' = {{u, v}}
      BY <2>2
    <3> HIDE DEF u, v
    <3>2. {x, y} = {u, v}
      BY <1>0, <3>1, LinkFriends
    <3> QED BY <3>1, <3>2 DEF Explained
  <2> QED BY <1>3, <2>1, <2>2 DEF FinishAdd
<1>4. ASSUME NEW u \in Users, NEW v \in Users, RemoveRelationship(u, v)
      PROVE  Explained(x, y)
  <2>1. /\ u \in DOMAIN graph /\ v \in DOMAIN graph
        /\ graph' = Unlink(graph, u, v) /\ emitted' = {{u, v}}
    BY <1>4 DEF RemoveRelationship
  <2>2. {x, y} = {u, v}
    BY <1>0, <2>1, UnlinkFriends
  <2> QED BY <2>1, <2>2 DEF Explained
<1>5. ASSUME NEW h \in Handlers, FinishSync(h)
      PROVE  Explained(x, y)
  <2> DEFINE u == jobs[h].user1
             row == jobs[h].rows[u]
  <2>1. CASE UNCHANGED graph
    BY <2>1, <1>1
  <2>2. CASE u \in DOMAIN jobs[h].rows /\ graph' = SyncPerson(graph, u, row)
    <3>1. /\ u \in Users /\ row \in Profile
          /\ graph' = SyncPerson(graph, u, row)
      BY <1>5, <2>2, BusyJob, RowsElim DEF FinishSync, Jobs
    <3> HIDE DEF u, row
    <3> QED BY <1>0, <3>1, SyncPersonFriends
  <2> QED BY <1>5, <2>1, <2>2 DEF FinishSync
<1>6. CASE DeleteUser
  <2> DEFINE u == Head(inbox).user
  <2>1. graph' = IF u \in DOMAIN graph THEN DropUser(graph, u) ELSE graph
    BY <1>6 DEF DeleteUser
  <2> HIDE DEF u
  <2>2. CASE u \in DOMAIN graph
    <3>1. graph' = DropUser(graph, u)
      BY <2>1, <2>2
    <3>2. u \in {x, y}
      BY <1>0, <2>2, <3>1, DropUserFriends
    <3>3. u \notin DOMAIN graph'
      BY <1>0, <2>2, <3>1, DropUserFacts
    <3> QED BY <3>2, <3>3 DEF Explained
  <2>3. CASE u \notin DOMAIN graph
    BY <2>1, <2>3, <1>1
  <2> QED BY <2>2, <2>3
<1>7. CASE Boot \/ Stopping
  BY <1>7 DEF Boot, Stopping, GracefulStop, Crash, KilledDuringSave, Halt,
              Explained
<1> QED
  BY <1>1, <1>2, <1>3, <1>4, <1>5, <1>6, <1>7
  DEF Next, Running, Requests, Continue, MainApp, Register, UpdateProfile,
      AnnounceChange, AnnounceDelete, SoftDelete, StartEnsure, StartSync,
      DbRead, FinishPrepare, vars, process

\* Recommendations live on RELATIONSHIP_CHANGED: a friendship made or ended
\* without it was overwritten by an ensureUser that had missed one of the
\* two, or lost a Person, or the process stopped or booted.
THEOREM ChangesAnnounced == Spec => FriendshipChangesAnnounced
<1>1. TypeOK /\ [Next]_vars
        => [\A u, v \in Users :
              IsFriend(graph, u, v) # IsFriend(graph', u, v)
                => \/ {u, v} \in emitted'
                   \/ ~ {u, v} \subseteq DOMAIN graph'
                   \/ up' # up
                   \/ \E h \in Handlers : /\ jobs[h].phase = "answer"
                                         /\ jobs'[h].phase = "ensured"
                                         /\ {u, v} \cap jobs[h].missing # {}]_vars
  BY AnnouncedStep DEF Explained
<1> QED BY TypeOKInit, TypeOKStep, <1>1, PTL
        DEF Spec, FriendshipChangesAnnounced

-----------------------------------------------------------------------------
(* What a quiet graph shows.                                               *)

\* What one operation on a graph shows of w.
LEMMA ShownByLink ==
  ASSUME NEW g \in Graphs, NEW u, NEW v, NEW w \in DOMAIN g
  PROVE  Link(g, u, v)[w].profile = g[w].profile
<1>1. g[w] \in Person
  BY GraphElim
<1> QED BY <1>1 DEF Link, Person

LEMMA ShownByUnlink ==
  ASSUME NEW g \in Graphs, NEW u, NEW v, NEW w \in DOMAIN g
  PROVE  Unlink(g, u, v)[w].profile = g[w].profile
<1>1. g[w] \in Person
  BY GraphElim
<1> QED BY <1>1 DEF Unlink, Person

LEMMA ShownByDropUser ==
  ASSUME NEW g \in Graphs, NEW u \in DOMAIN g, NEW w \in DOMAIN g \ {u}
  PROVE  DropUser(g, u)[w].profile = g[w].profile
<1>1. g[w] \in Person
  BY GraphElim
<1> QED BY <1>1 DEF DropUser, Person

LEMMA ShownBySetRows ==
  ASSUME NEW g, NEW rows, NEW w \in DOMAIN g \cup DOMAIN rows
  PROVE  SetRows(g, rows)[w].profile
           = IF w \in DOMAIN rows THEN rows[w] ELSE g[w].profile
BY DEF SetRows

LEMMA ShownBySyncPerson ==
  ASSUME NEW g, NEW u, NEW row, NEW w \in DOMAIN g \cup {u}
  PROVE  SyncPerson(g, u, row)[w].profile
           = IF w = u THEN row ELSE g[w].profile
BY DEF SyncPerson

\* The queue loses nothing but what is read, and an event is last in it once
\* published.
OnItsWay(queue, e) == \E i \in 1 .. Len(queue) : queue[i] = e

LEMMA OnItsWayAppend ==
  ASSUME NEW queue \in Seq(UserEvents), NEW e \in UserEvents
  PROVE  /\ OnItsWay(Append(queue, e), e)
         /\ \A f : OnItsWay(queue, f) => OnItsWay(Append(queue, e), f)
<1>1. OnItsWay(Append(queue, e), e)
  <2>1. Len(queue) + 1 \in 1 .. Len(Append(queue, e))
    OBVIOUS
  <2>2. Append(queue, e)[Len(queue) + 1] = e
    OBVIOUS
  <2> QED BY <2>1, <2>2 DEF OnItsWay
<1>2. ASSUME NEW f, OnItsWay(queue, f) PROVE OnItsWay(Append(queue, e), f)
  <2>1. PICK i \in 1 .. Len(queue) : queue[i] = f
    BY <1>2 DEF OnItsWay
  <2>2. i \in 1 .. Len(Append(queue, e)) /\ Append(queue, e)[i] = f
    BY <2>1
  <2> QED BY <2>2 DEF OnItsWay
<1> QED BY <1>1, <1>2

LEMMA OnItsWayTail ==
  ASSUME NEW queue \in Seq(UserEvents), queue # <<>>,
         NEW e, OnItsWay(queue, e), e # Head(queue)
  PROVE  OnItsWay(Tail(queue), e)
<1>1. PICK i \in 1 .. Len(queue) : queue[i] = e
  BY DEF OnItsWay
<1>2. i # 1
  BY <1>1
<1>3. i - 1 \in 1 .. Len(Tail(queue)) /\ Tail(queue)[i - 1] = e
  BY <1>1, <1>2
<1> QED BY <1>3 DEF OnItsWay

\* A change of u not yet told to the service, or told and not yet read.
Changed(u) == [kind |-> "CHANGED", user |-> u]
Awaited(u) == u \in unannounced \/ OnItsWay(inbox, Changed(u))

\* A syncUser that is going to show the current row of u, or one since
\* changed again.
BeingSynced(u) ==
  \E h \in Handlers :
    /\ jobs[h].phase \in {"query", "answer"}
    /\ jobs[h].op = "sync"
    /\ jobs[h].user1 = u
    /\ jobs[h].phase = "answer" => u \in DOMAIN jobs[h].rows

FromFile(u) == u \in DOMAIN file /\ graph[u].profile = file[u].profile

\* A person shown with an old profile is about to be repaired, unless a boot
\* loaded the profile from the file.
Repaired(u) ==
  \/ ~InTable(u)
  \/ graph[u].profile = profile[u]
  \/ FromFile(u)
  \/ Awaited(u)
  \/ BeingSynced(u)

GraphRepaired == \A u \in DOMAIN graph : Repaired(u)

\* So is a row on its way from the database.
RowsRepaired ==
  \A h \in Handlers :
    jobs[h].phase = "answer"
      => \A u \in DOMAIN jobs[h].rows :
           ~InTable(u) \/ jobs[h].rows[u] = profile[u] \/ Awaited(u)

\* Nobody is known to the service before he registers, so a user who has no
\* row while he is known will never have one again.
KnownAreRegistered ==
  \A u \in Users :
    sql[u] = "absent"
      => /\ u \notin DOMAIN graph
         /\ u \notin DOMAIN file
         /\ \A h \in Handlers :
              jobs[h].phase = "answer" => u \notin DOMAIN jobs[h].rows

\* A syncUser asks for its user only.
SyncAsksForItsUser ==
  \A h \in Handlers :
    jobs[h].phase \in {"query", "answer"} /\ jobs[h].op = "sync"
      => jobs[h].missing = {jobs[h].user1}

FreshInv == /\ TypeOK
            /\ MemoryEmptyWhenDown
            /\ SyncAsksForItsUser
            /\ KnownAreRegistered
            /\ RowsRepaired
            /\ GraphRepaired

LEMMA FreshInit == Init => FreshInv
<1> SUFFICES ASSUME Init PROVE FreshInv
  OBVIOUS
<1>1. /\ DOMAIN graph = {} /\ DOMAIN file = {}
      /\ \A h \in Handlers : jobs[h].phase = "idle"
  BY DEF Init, EmptyGraph, Idle
<1>2. TypeOK
  BY TypeOKInit
<1>3. MemoryEmptyWhenDown
  BY DEF Init, MemoryEmptyWhenDown
<1>4. SyncAsksForItsUser /\ RowsRepaired /\ GraphRepaired
  BY <1>1 DEF SyncAsksForItsUser, RowsRepaired, GraphRepaired
<1>5. KnownAreRegistered
  BY <1>1 DEF KnownAreRegistered
<1> QED BY <1>2, <1>3, <1>4, <1>5 DEF FreshInv

\* What an action may do to the calls in flight.
LEMMA JobSteps ==
  ASSUME TypeOK, [Next]_vars, NEW h \in Handlers, jobs'[h] # jobs[h]
  PROVE  \/ jobs'[h] = Idle
         \/ jobs'[h].phase = "ensured"
         \/ /\ jobs[h] = Idle
            /\ jobs'[h].phase = "query"
            /\ \/ jobs'[h].op # "sync"
               \/ jobs'[h].missing = {jobs'[h].user1}
         \/ /\ jobs[h] \in Jobs
            /\ DbRead(h)
            /\ jobs'[h].phase = "answer"
            /\ jobs'[h].op = jobs[h].op
            /\ jobs'[h].user1 = jobs[h].user1
            /\ jobs'[h].missing = jobs[h].missing
            /\ jobs'[h].rows = Lookup(jobs[h].missing)
<1> USE DEF TypeOK
<1>1. ASSUME NEW i \in Handlers, NEW op \in {"add", "prepare"},
             NEW u \in Users, NEW v \in Users, StartEnsure(i, op, u, v)
      PROVE  \/ jobs'[h].phase = "ensured"
             \/ jobs[h] = Idle /\ jobs'[h].phase = "query" /\ jobs'[h].op # "sync"
  BY <1>1 DEF StartEnsure, Job
<1>2. ASSUME NEW i \in Handlers, StartSync(i)
      PROVE  /\ jobs[h] = Idle
             /\ jobs'[h].phase = "query"
             /\ jobs'[h].missing = {jobs'[h].user1}
  BY <1>2 DEF StartSync, Job
<1>3. ASSUME NEW i \in Handlers, DbRead(i)
      PROVE  /\ jobs[h] \in Jobs
             /\ DbRead(h)
             /\ jobs'[h].phase = "answer"
             /\ jobs'[h].op = jobs[h].op
             /\ jobs'[h].user1 = jobs[h].user1
             /\ jobs'[h].missing = jobs[h].missing
             /\ jobs'[h].rows = Lookup(jobs[h].missing)
  <2>1. i = h /\ jobs[h] \in Jobs
    BY <1>3, BusyJob DEF DbRead
  <2> QED BY <1>3, <2>1 DEF DbRead, Jobs
<1>4. ASSUME NEW i \in Handlers, EnsureAnswered(i)
      PROVE  jobs'[h] = Idle \/ jobs'[h].phase = "ensured"
  <2>1. i = h /\ jobs[h] \in Jobs
    BY <1>4, BusyJob DEF EnsureAnswered, Finish
  <2> QED BY <1>4, <2>1 DEF EnsureAnswered, Finish, Jobs
<1>5. ASSUME NEW i \in Handlers,
             FinishAdd(i) \/ FinishPrepare(i) \/ FinishSync(i)
      PROVE  jobs'[h] = Idle
  BY <1>5 DEF FinishAdd, FinishPrepare, FinishSync, Finish
<1>6. CASE Stopping
  BY <1>6 DEF Stopping, GracefulStop, Crash, KilledDuringSave, Halt
<1>7. UNCHANGED jobs => FALSE
  OBVIOUS
<1> QED
  BY <1>1, <1>2, <1>3, <1>4, <1>5, <1>6, <1>7
  DEF Next, Running, Requests, MainApp, Register, UpdateProfile,
      AnnounceChange, AnnounceDelete, SoftDelete, Continue,
      RemoveRelationship, DeleteUser, Boot, vars, process

LEMMA SyncAsksForItsUserStep ==
  ASSUME TypeOK, SyncAsksForItsUser, [Next]_vars
  PROVE  SyncAsksForItsUser'
<1> SUFFICES ASSUME NEW h \in Handlers,
                    jobs'[h].phase \in {"query", "answer"}, jobs'[h].op = "sync"
             PROVE  jobs'[h].missing = {jobs'[h].user1}
  BY DEF SyncAsksForItsUser
<1>1. CASE jobs'[h] = jobs[h]
  BY <1>1 DEF SyncAsksForItsUser
<1>2. CASE DbRead(h) /\ jobs'[h].op = jobs[h].op
           /\ jobs'[h].user1 = jobs[h].user1
           /\ jobs'[h].missing = jobs[h].missing
  BY <1>2 DEF SyncAsksForItsUser, DbRead
<1> QED BY <1>1, <1>2, JobSteps DEF Idle

\* Persons come from rows, and rows from the table.
LEMMA KnownAreRegisteredStep ==
  ASSUME TypeOK, MemoryEmptyWhenDown, KnownAreRegistered, [Next]_vars
  PROVE  KnownAreRegistered'
<1> SUFFICES ASSUME NEW u \in Users, sql'[u] = "absent"
             PROVE  /\ u \notin DOMAIN graph'
                    /\ u \notin DOMAIN file'
                    /\ \A h \in Handlers :
                         jobs'[h].phase = "answer" => u \notin DOMAIN jobs'[h].rows
  BY DEF KnownAreRegistered
<1>1. sql[u] = "absent"
  BY DEF Next, Running, MainApp, Requests, Continue, Stopping, Register,
         UpdateProfile, AnnounceChange, AnnounceDelete, SoftDelete,
         StartEnsure, StartSync, DbRead, EnsureAnswered, FinishAdd,
         FinishPrepare, FinishSync, RemoveRelationship, DeleteUser,
         GracefulStop, Crash, KilledDuringSave, Boot, vars, tables, TypeOK
<1>2. /\ u \notin DOMAIN graph /\ u \notin DOMAIN file
      /\ \A h \in Handlers :
           jobs[h].phase = "answer" => u \notin DOMAIN jobs[h].rows
  BY <1>1 DEF KnownAreRegistered
<1>3. ASSUME NEW h \in Handlers, jobs'[h].phase = "answer"
      PROVE  u \notin DOMAIN jobs'[h].rows
  <2>1. u \notin DOMAIN Lookup(jobs[h].missing)
    BY <1>1 DEF Lookup, InTable
  <2>2. CASE jobs'[h] = jobs[h]
    BY <1>2, <1>3, <2>2
  <2> QED BY <1>3, <2>1, <2>2, JobSteps DEF Idle
<1>4. u \notin DOMAIN file'
  BY <1>2 DEF Next, Running, MainApp, Requests, Continue, Stopping, Register,
         UpdateProfile, AnnounceChange, AnnounceDelete, SoftDelete,
         StartEnsure, StartSync, DbRead, EnsureAnswered, FinishAdd,
         FinishPrepare, FinishSync, RemoveRelationship, DeleteUser,
         GracefulStop, Crash, KilledDuringSave, Boot, vars, storage
<1>5. u \notin DOMAIN graph'
  <2>1. ASSUME NEW h \in Handlers, EnsureAnswered(h)
        PROVE  u \notin DOMAIN graph'
    BY <2>1, <1>2 DEF EnsureAnswered, SetRows
  <2>2. ASSUME NEW h \in Handlers, FinishAdd(h)
        PROVE  u \notin DOMAIN graph'
    BY <2>2, <1>2 DEF FinishAdd, Link
  <2>3. ASSUME NEW h \in Handlers, FinishSync(h)
        PROVE  u \notin DOMAIN graph'
    BY <2>3, <1>2 DEF FinishSync, SyncPerson
  <2>4. ASSUME NEW v, NEW w, RemoveRelationship(v, w)
        PROVE  u \notin DOMAIN graph'
    BY <2>4, <1>2 DEF RemoveRelationship, Unlink
  <2>5. CASE DeleteUser
    BY <2>5, <1>2 DEF DeleteUser, DropUser
  <2>6. CASE Boot \/ Stopping
    BY <2>6, <1>2 DEF Boot, Stopping, GracefulStop, Crash, KilledDuringSave,
                      Halt, EmptyGraph
  <2>7. CASE UNCHANGED graph
    BY <2>7, <1>2
  <2> QED
    BY <2>1, <2>2, <2>3, <2>4, <2>5, <2>6, <2>7
    DEF Next, Running, Requests, Continue, MainApp, Register, UpdateProfile,
        AnnounceChange, AnnounceDelete, SoftDelete, StartEnsure, StartSync,
        DbRead, FinishPrepare, vars, process
<1> QED BY <1>3, <1>4, <1>5

\* main-app's steps: a change is awaited until it is told, and told to a
\* service that is up it stays on its way; who loses his row was known.
LEMMA MainAppFacts ==
  ASSUME TypeOK, MainApp
  PROVE  /\ UNCHANGED <<up, graph, jobs, file>>
         /\ \A w \in Users :
              /\ up /\ Awaited(w) => Awaited(w)'
              /\ profile'[w] # profile[w] => Awaited(w)'
              /\ ~InTable(w) /\ InTable(w)' => sql[w] = "absent"
<1>1. PICK u \in Users : \/ Register(u) \/ UpdateProfile(u)
                         \/ AnnounceChange(u) \/ AnnounceDelete(u)
                         \/ SoftDelete(u)
  BY DEF MainApp
<1>2. UNCHANGED <<up, graph, jobs, file>>
  BY <1>1 DEF Register, UpdateProfile, AnnounceChange, AnnounceDelete,
              SoftDelete, process, storage
<1>3. ASSUME NEW w \in Users
      PROVE  /\ profile'[w] # profile[w] => Awaited(w)'
             /\ ~InTable(w) /\ InTable(w)' => sql[w] = "absent"
  BY <1>1 DEF Register, UpdateProfile, AnnounceChange, AnnounceDelete,
              SoftDelete, InTable, Awaited, TypeOK, Lifecycles
<1>4. ASSUME NEW kind \in {"CHANGED", "DELETED"}, Publish(kind, u), up
      PROVE  /\ OnItsWay(inbox', [kind |-> kind, user |-> u])
             /\ \A f : OnItsWay(inbox, f) => OnItsWay(inbox', f)
  <2>1. [kind |-> kind, user |-> u] \in UserEvents
    BY DEF UserEvents
  <2>2. inbox' = Append(inbox, [kind |-> kind, user |-> u])
        /\ inbox \in Seq(UserEvents)
    BY <1>4 DEF Publish, TypeOK
  <2> QED BY <2>1, <2>2, OnItsWayAppend
<1>5. ASSUME NEW w \in Users, up, Awaited(w)
      PROVE  Awaited(w)'
  <2>1. CASE Register(u) \/ SoftDelete(u)
    BY <1>5, <2>1 DEF Register, SoftDelete, Awaited
  <2>2. CASE UpdateProfile(u)
    BY <1>5, <2>2 DEF UpdateProfile, Awaited
  <2>3. CASE AnnounceChange(u)
    BY <1>4, <1>5, <2>3 DEF AnnounceChange, Awaited, Changed
  <2>4. CASE AnnounceDelete(u)
    BY <1>4, <1>5, <2>4 DEF AnnounceDelete, Awaited
  <2> QED BY <1>1, <2>1, <2>2, <2>3, <2>4
<1> QED BY <1>2, <1>3, <1>5

\* Of the service's own steps only a StartSync takes a change off its way,
\* to sync its user, and a stop forgets them all.
LEMMA ServiceFacts ==
  ASSUME TypeOK, [Next]_vars, ~MainApp
  PROVE  /\ UNCHANGED tables
         /\ \A w \in Users :
              Awaited(w) => \/ Awaited(w)'
                            \/ Stopping
                            \/ \E h \in Handlers : /\ StartSync(h)
                                                  /\ BeingSynced(w)'
<1>1. UNCHANGED tables
  BY DEF Next, Running, Requests, Continue, Stopping,
         StartEnsure, StartSync, DbRead, EnsureAnswered, FinishAdd,
         FinishPrepare, FinishSync, RemoveRelationship, DeleteUser,
         GracefulStop, Crash, KilledDuringSave, Boot, vars
<1>2. ASSUME NEW w \in Users, Awaited(w), ~Stopping
      PROVE  \/ Awaited(w)'
             \/ \E h \in Handlers : StartSync(h) /\ BeingSynced(w)'
  <2>1. CASE w \in unannounced
    BY <1>1, <2>1 DEF tables, Awaited
  <2>2. CASE OnItsWay(inbox, Changed(w)) /\ UNCHANGED inbox
    BY <2>2 DEF Awaited
  <2>3. CASE OnItsWay(inbox, Changed(w)) /\ inbox # <<>>
             /\ inbox' = Tail(inbox) /\ Changed(w) # Head(inbox)
    BY <2>3, OnItsWayTail DEF Awaited, TypeOK
  <2>4. CASE DeleteUser
    BY <1>2, <2>1, <2>3, <2>4 DEF DeleteUser, Awaited, Changed
  <2>5. ASSUME NEW h \in Handlers, StartSync(h)
        PROVE  Awaited(w)' \/ BeingSynced(w)'
    <3>1. CASE Changed(w) = Head(inbox)
      <4>1. /\ jobs'[h].phase = "query"
            /\ jobs'[h].op = "sync"
            /\ jobs'[h].user1 = w
        BY <2>5, <3>1 DEF StartSync, Job, Changed, TypeOK
      <4> QED BY <4>1 DEF BeingSynced
    <3>2. CASE Changed(w) # Head(inbox)
      BY <1>2, <2>1, <2>3, <2>5, <3>2 DEF StartSync, Awaited
    <3> QED BY <3>1, <3>2
  <2>6. CASE UNCHANGED inbox
    BY <1>2, <2>1, <2>2, <2>6 DEF Awaited
  <2> QED
    BY <1>2, <2>4, <2>5, <2>6
    DEF Next, Running, Requests, Continue, StartEnsure, DbRead,
        EnsureAnswered, FinishAdd, FinishPrepare, FinishSync,
        RemoveRelationship, Boot, vars
<1> QED BY <1>1, <1>2

LEMMA SyncReadsAnEvent ==
  ASSUME TypeOK, NEW h \in Handlers, StartSync(h)
  PROVE  inbox' # inbox
<1>1. inbox \in Seq(UserEvents) /\ inbox # <<>> /\ inbox' = Tail(inbox)
  BY DEF StartSync, TypeOK
<1>2. Len(inbox') = Len(inbox) - 1 /\ Len(inbox) \in Nat
  BY <1>1
<1> QED BY <1>2

LEMMA RowsRepairedStep ==
  ASSUME \A h1, h2 \in Handlers : h1 = h2, FreshInv, [Next]_vars
  PROVE  RowsRepaired'
<1> USE DEF FreshInv
<1> SUFFICES ASSUME NEW h \in Handlers, jobs'[h].phase = "answer",
                    NEW u \in DOMAIN jobs'[h].rows
             PROVE  InTable(u)' => jobs'[h].rows[u] = profile'[u] \/ Awaited(u)'
  BY DEF RowsRepaired
<1>1. CASE MainApp
  <2>1. UNCHANGED <<up, jobs>>
    BY <1>1, MainAppFacts
  <2>2. jobs[h] \in Jobs /\ up /\ u \in Users
    <3>1. jobs[h] \in Jobs
      BY <2>1, BusyJob
    <3> QED BY <2>1, <3>1, RowsElim DEF Jobs, MemoryEmptyWhenDown, Idle
  <2>3. sql[u] # "absent"
    BY <2>1, <2>2 DEF KnownAreRegistered
  <2>4. ~InTable(u) \/ jobs[h].rows[u] = profile[u] \/ Awaited(u)
    BY <2>1 DEF RowsRepaired
  <2> QED BY <1>1, <2>1, <2>2, <2>3, <2>4, MainAppFacts
<1>2. CASE ~MainApp
  <2>1. UNCHANGED tables
    BY <1>2, ServiceFacts
  <2>2. CASE jobs'[h] = jobs[h]
    <3>1. jobs[h] \in Jobs /\ u \in Users
      <4>1. jobs[h] \in Jobs
        BY <2>2, BusyJob
      <4> QED BY <2>2, <4>1, RowsElim DEF Jobs
    <3>2. ~InTable(u) \/ jobs[h].rows[u] = profile[u] \/ Awaited(u)
      BY <2>2 DEF RowsRepaired
    <3>3. ~Stopping
      BY <2>2 DEF Stopping, GracefulStop, Crash, KilledDuringSave, Halt, Idle
    \* The only call is under way: no sync can start beside it.
    <3>4. ~ \E i \in Handlers : StartSync(i)
      BY <2>2 DEF StartSync, Idle
    <3>5. Awaited(u) => Awaited(u)'
      BY <1>2, <3>1, <3>3, <3>4, ServiceFacts
    <3> QED BY <2>1, <2>2, <3>2, <3>5 DEF InTable, tables
  <2>3. CASE jobs'[h].rows = Lookup(jobs[h].missing)
    BY <2>1, <2>3 DEF Lookup, tables
  <2> QED BY <2>2, <2>3, JobSteps DEF Idle
<1> QED BY <1>1, <1>2

LEMMA GraphRepairedStep ==
  ASSUME FreshInv, [Next]_vars
  PROVE  GraphRepaired'
<1> USE DEF FreshInv
<1>0. TypeOK /\ graph \in Graphs
  BY DEF TypeOK
<1>1. CASE MainApp
  <2> SUFFICES ASSUME NEW w \in DOMAIN graph PROVE Repaired(w)'
    BY <1>0, <1>1, MainAppFacts DEF GraphRepaired
  <2>1. w \in Users /\ Repaired(w)
    BY <1>0, GraphElim DEF GraphRepaired
  <2>2. up /\ sql[w] # "absent"
    BY <2>1 DEF MemoryEmptyWhenDown, EmptyGraph, KnownAreRegistered
  <2>3. UNCHANGED <<graph, jobs, file>>
        /\ (Awaited(w) => Awaited(w)')
        /\ (profile'[w] # profile[w] => Awaited(w)')
        /\ (~InTable(w) => ~InTable(w)')
    BY <1>0, <1>1, <2>1, <2>2, MainAppFacts
  <2>4. (FromFile(w) => FromFile(w)') /\ (BeingSynced(w) => BeingSynced(w)')
    BY <2>3 DEF FromFile, BeingSynced
  <2> QED BY <2>1, <2>3, <2>4 DEF Repaired
<1>2. CASE Stopping
  BY <1>2 DEF Stopping, GracefulStop, Crash, KilledDuringSave, Halt,
              EmptyGraph, GraphRepaired
<1>3. CASE Boot
  BY <1>3 DEF Boot, storage, GraphRepaired, Repaired, FromFile
<1>4. CASE ~MainApp /\ ~Stopping /\ ~Boot
  <2>1. UNCHANGED tables
    BY <1>0, <1>4, ServiceFacts
  <2>2. UNCHANGED file
    BY <1>4 DEF Next, Running, Requests, Continue, StartEnsure, StartSync,
                DbRead, EnsureAnswered, FinishAdd, FinishPrepare, FinishSync,
                RemoveRelationship, DeleteUser, vars, storage
  \* A person shown as before needs no new argument, unless his sync ends.
  <2>3. ASSUME NEW w \in DOMAIN graph,
               graph'[w].profile = graph[w].profile,
               BeingSynced(w) => BeingSynced(w)' \/ ~InTable(w)
        PROVE  Repaired(w)'
    <3>1. w \in Users /\ Repaired(w)
      BY <1>0, GraphElim DEF GraphRepaired
    <3>2. Awaited(w) => Awaited(w)' \/ BeingSynced(w)'
      BY <1>0, <1>4, <3>1, ServiceFacts
    <3>3. (~InTable(w) => ~InTable(w)') /\ (FromFile(w) => FromFile(w)')
          /\ profile'[w] = profile[w]
      BY <2>1, <2>2, <2>3 DEF tables, InTable, FromFile
    <3> QED BY <2>3, <3>1, <3>2, <3>3 DEF Repaired
  \* A sync goes on while its call does.
  <2>4. ASSUME NEW h \in Handlers, jobs[h].op # "sync" \/ jobs[h] = Idle,
               \A i \in Handlers : i # h => jobs'[i] = jobs[i],
               NEW w, BeingSynced(w)
        PROVE  BeingSynced(w)'
    <3>1. PICK i \in Handlers :
            /\ jobs[i].phase \in {"query", "answer"}
            /\ jobs[i].op = "sync"
            /\ jobs[i].user1 = w
            /\ jobs[i].phase = "answer" => w \in DOMAIN jobs[i].rows
      BY <2>4 DEF BeingSynced
    <3>2. jobs'[i] = jobs[i]
      BY <2>4, <3>1 DEF Idle
    <3> QED BY <3>1, <3>2 DEF BeingSynced
  <2>5. CASE UNCHANGED <<graph, jobs>>
    BY <2>3, <2>5 DEF GraphRepaired, BeingSynced
  <2>6. ASSUME NEW h \in Handlers, NEW op, NEW u, NEW v,
               StartEnsure(h, op, u, v) \/ StartSync(h) \/ FinishPrepare(h)
        PROVE  GraphRepaired'
    <3>1. UNCHANGED graph
      BY <2>6 DEF StartEnsure, StartSync, FinishPrepare
    <3>2. jobs[h].op # "sync" \/ jobs[h] = Idle
      BY <2>6 DEF StartEnsure, StartSync, FinishPrepare
    <3>3. \A i \in Handlers : i # h => jobs'[i] = jobs[i]
      BY <1>0, <2>6 DEF StartEnsure, StartSync, FinishPrepare, Finish, TypeOK
    <3>4. \A w : BeingSynced(w) => BeingSynced(w)'
      BY <2>4, <3>2, <3>3
    <3> QED BY <2>3, <3>1, <3>4 DEF GraphRepaired
  <2>7. ASSUME NEW h \in Handlers, DbRead(h)
        PROVE  GraphRepaired'
    <3>1. jobs[h] \in Jobs
      BY <1>0, <2>7, BusyJob DEF DbRead
    <3>2. \A i \in Handlers : i # h => jobs'[i] = jobs[i]
      BY <1>0, <2>7 DEF DbRead, TypeOK
    <3>3. /\ jobs'[h].phase = "answer"
          /\ jobs'[h].op = jobs[h].op
          /\ jobs'[h].user1 = jobs[h].user1
          /\ jobs'[h].rows = Lookup(jobs[h].missing)
      BY <1>0, <2>7, <3>1 DEF DbRead, TypeOK, Jobs
    <3>4. ASSUME NEW w \in DOMAIN graph, BeingSynced(w)
          PROVE  BeingSynced(w)' \/ ~InTable(w)
      <4>1. PICK i \in Handlers :
              /\ jobs[i].phase \in {"query", "answer"}
              /\ jobs[i].op = "sync"
              /\ jobs[i].user1 = w
              /\ jobs[i].phase = "answer" => w \in DOMAIN jobs[i].rows
        BY <3>4 DEF BeingSynced
      <4>2. CASE i # h
        BY <3>2, <4>1, <4>2 DEF BeingSynced
      <4>3. CASE i = h
        <5>1. jobs[h].missing = {w}
          BY <4>1, <4>3 DEF SyncAsksForItsUser
        <5>2. InTable(w) => w \in DOMAIN jobs'[h].rows
          BY <3>3, <5>1 DEF Lookup
        <5> QED BY <3>3, <4>1, <4>3, <5>2 DEF BeingSynced
      <4> QED BY <4>2, <4>3
    <3>5. UNCHANGED graph
      BY <2>7 DEF DbRead
    <3> QED BY <2>3, <3>4, <3>5 DEF GraphRepaired
  \* A person built from a row is as good as the row.
  <2>8. ASSUME NEW h \in Handlers, jobs[h].phase = "answer",
               NEW w \in DOMAIN jobs[h].rows,
               graph'[w].profile = jobs[h].rows[w],
               ~ \E i \in Handlers : StartSync(i)
        PROVE  Repaired(w)'
    <3>1. w \in Users
      BY <1>0, <2>8, BusyJob, RowsElim DEF Jobs
    <3>2. ~InTable(w) \/ jobs[h].rows[w] = profile[w] \/ Awaited(w)
      BY <2>8 DEF RowsRepaired
    <3>3. Awaited(w) => Awaited(w)'
      BY <1>0, <1>4, <2>8, <3>1, ServiceFacts
    <3>4. (~InTable(w) => ~InTable(w)') /\ profile'[w] = profile[w]
      BY <2>1 DEF tables, InTable
    <3> QED BY <2>8, <3>2, <3>3, <3>4 DEF Repaired
  <2>9. ASSUME NEW h \in Handlers, EnsureAnswered(h)
        PROVE  GraphRepaired'
    <3>1. ~ \E i \in Handlers : StartSync(i)
      BY <1>0, <2>9, SyncReadsAnEvent DEF EnsureAnswered
    <3>2. \A w : BeingSynced(w) => BeingSynced(w)'
      <4>1. \A i \in Handlers : i # h => jobs'[i] = jobs[i]
        BY <1>0, <2>9 DEF EnsureAnswered, Finish, TypeOK
      <4> QED BY <2>4, <2>9, <4>1 DEF EnsureAnswered
    <3>3. CASE UNCHANGED graph
      BY <2>3, <3>2, <3>3 DEF GraphRepaired
    <3>4. CASE graph' = SetRows(graph, jobs[h].rows)
      <4> SUFFICES ASSUME NEW w \in DOMAIN graph' PROVE Repaired(w)'
        BY DEF GraphRepaired
      <4>1. w \in DOMAIN graph \cup DOMAIN jobs[h].rows
        BY <3>4 DEF SetRows
      <4>2. graph'[w].profile = IF w \in DOMAIN jobs[h].rows
                                  THEN jobs[h].rows[w] ELSE graph[w].profile
        BY <3>4, <4>1, ShownBySetRows
      <4>3. CASE w \in DOMAIN jobs[h].rows
        BY <2>8, <2>9, <3>1, <4>2, <4>3 DEF EnsureAnswered
      <4>4. CASE w \notin DOMAIN jobs[h].rows
        BY <2>3, <3>2, <4>1, <4>2, <4>4
      <4> QED BY <4>3, <4>4
    <3> QED BY <2>9, <3>3, <3>4 DEF EnsureAnswered
  <2>10. ASSUME NEW h \in Handlers, FinishAdd(h)
         PROVE  GraphRepaired'
    <3>1. \A w : BeingSynced(w) => BeingSynced(w)'
      <4>1. \A i \in Handlers : i # h => jobs'[i] = jobs[i]
        BY <1>0, <2>10 DEF FinishAdd, Finish, TypeOK
      <4> QED BY <2>4, <2>10, <4>1 DEF FinishAdd
    <3>2. /\ DOMAIN graph' = DOMAIN graph
          /\ \A w \in DOMAIN graph : graph'[w].profile = graph[w].profile
      <4>1. CASE UNCHANGED graph
        BY <4>1
      <4>2. CASE graph' = Link(graph, jobs[h].user1, jobs[h].user2)
        BY <1>0, <4>2, ShownByLink DEF Link
      <4> QED BY <2>10, <4>1, <4>2 DEF FinishAdd
    <3> QED BY <2>3, <3>1, <3>2 DEF GraphRepaired
  <2>11. ASSUME NEW h \in Handlers, FinishSync(h)
         PROVE  GraphRepaired'
    <3> DEFINE u == jobs[h].user1
    <3>1. ~ \E i \in Handlers : StartSync(i)
      BY <1>0, <2>11, SyncReadsAnEvent DEF FinishSync
    <3>2. \A i \in Handlers : i # h => jobs'[i] = jobs[i]
      BY <1>0, <2>11 DEF FinishSync, Finish, TypeOK
    <3>3. ASSUME NEW w, BeingSynced(w), w # u \/ u \notin DOMAIN jobs[h].rows
          PROVE  BeingSynced(w)'
      <4>1. PICK i \in Handlers :
              /\ jobs[i].phase \in {"query", "answer"}
              /\ jobs[i].op = "sync"
              /\ jobs[i].user1 = w
              /\ jobs[i].phase = "answer" => w \in DOMAIN jobs[i].rows
        BY <3>3 DEF BeingSynced
      <4>2. i # h
        BY <2>11, <3>3, <4>1 DEF FinishSync
      <4> QED BY <3>2, <4>1, <4>2 DEF BeingSynced
    <3>4. CASE u \notin DOMAIN jobs[h].rows /\ UNCHANGED graph
      BY <2>3, <3>3, <3>4 DEF GraphRepaired
    <3>5. CASE /\ u \in DOMAIN jobs[h].rows
               /\ graph' = SyncPerson(graph, u, jobs[h].rows[u])
      <4> SUFFICES ASSUME NEW w \in DOMAIN graph' PROVE Repaired(w)'
        BY DEF GraphRepaired
      <4>1. w \in DOMAIN graph \cup {u}
        BY <3>5 DEF SyncPerson
      <4>2. graph'[w].profile = IF w = u THEN jobs[h].rows[u]
                                         ELSE graph[w].profile
        BY <3>5, <4>1, ShownBySyncPerson
      <4>3. CASE w = u
        BY <2>8, <2>11, <3>1, <3>5, <4>2, <4>3 DEF FinishSync
      <4>4. CASE w # u
        BY <2>3, <3>3, <4>1, <4>2, <4>4
      <4> QED BY <4>3, <4>4
    <3> QED BY <2>11, <3>4, <3>5 DEF FinishSync
  <2>12. ASSUME NEW u, NEW v, RemoveRelationship(u, v)
         PROVE  GraphRepaired'
    <3>1. \A w : BeingSynced(w) => BeingSynced(w)'
      BY <2>12 DEF RemoveRelationship, BeingSynced
    <3>2. /\ DOMAIN graph' = DOMAIN graph
          /\ \A w \in DOMAIN graph : graph'[w].profile = graph[w].profile
      BY <1>0, <2>12, ShownByUnlink DEF RemoveRelationship, Unlink
    <3> QED BY <2>3, <3>1, <3>2 DEF GraphRepaired
  <2>13. CASE DeleteUser
    <3> DEFINE u == Head(inbox).user
    <3>1. \A w : BeingSynced(w) => BeingSynced(w)'
      BY <2>13 DEF DeleteUser, BeingSynced
    <3>2. graph' = IF u \in DOMAIN graph THEN DropUser(graph, u) ELSE graph
      BY <2>13 DEF DeleteUser
    <3> HIDE DEF u
    <3>3. /\ DOMAIN graph' \subseteq DOMAIN graph
          /\ \A w \in DOMAIN graph' : graph'[w].profile = graph[w].profile
      <4>1. CASE u \in DOMAIN graph
        <5>1. graph' = DropUser(graph, u)
          BY <3>2, <4>1
        <5>2. DOMAIN graph' = DOMAIN graph \ {u}
          BY <1>0, <4>1, <5>1, DropUserFacts
        <5> QED BY <1>0, <4>1, <5>1, <5>2, ShownByDropUser
      <4>2. CASE u \notin DOMAIN graph
        BY <3>2, <4>2
      <4> QED BY <4>1, <4>2
    <3> QED BY <2>3, <3>1, <3>3 DEF GraphRepaired
  <2> QED
    BY <1>4, <2>5, <2>6, <2>7, <2>9, <2>10, <2>11, <2>12, <2>13
    DEF Next, Running, Requests, Continue, vars, process
<1> QED BY <1>1, <1>2, <1>3, <1>4

\* With one call in flight at a time, a graph at rest shows every person as
\* the users' table does, or as the file it was loaded from did: whatever
\* the order of updates, deletions, requests, stops and boots, no CHANGED
\* event is read too early to repair what an older row put there.
THEOREM SerialFresh ==
  ASSUME \A h1, h2 \in Handlers : h1 = h2
  PROVE  Spec => []FreshWhenQuiet
<1>1. FreshInv /\ [Next]_vars => FreshInv'
  <2> SUFFICES ASSUME FreshInv, [Next]_vars PROVE FreshInv'
    OBVIOUS
  <2>1. RowsRepaired' /\ GraphRepaired'
    BY RowsRepairedStep, GraphRepairedStep
  <2> QED BY <2>1, TypeOKStep, MemoryEmptyWhenDownStep,
             SyncAsksForItsUserStep, KnownAreRegisteredStep DEF FreshInv
<1>2. FreshInv => FreshWhenQuiet
  <2> SUFFICES ASSUME FreshInv, unannounced = {}, inbox = <<>>,
                      \A h \in Handlers : jobs[h] = Idle,
                      NEW u \in DOMAIN graph
               PROVE  ~InTable(u) \/ graph[u].profile = profile[u] \/ FromFile(u)
    BY DEF FreshWhenQuiet, FromFile
  <2>1. ~Awaited(u)
    BY DEF Awaited, OnItsWay
  <2>2. ~BeingSynced(u)
    BY DEF BeingSynced, Idle
  <2> QED BY <2>1, <2>2 DEF FreshInv, GraphRepaired, Repaired
<1> QED BY FreshInit, <1>1, <1>2, PTL DEF Spec

-----------------------------------------------------------------------------
(* Boots.                                                                  *)

RunsOnlyOnLoadableFile == up => Loadable

\* Every step keeps a running process on a loadable file, and leaves an
\* unloadable one as it is: the file changes only when a running process
\* stops.
LEMMA LoadableStep ==
  ASSUME RunsOnlyOnLoadableFile, [Next]_vars
  PROVE  RunsOnlyOnLoadableFile' /\ (~Loadable => ~Loadable')
<1> USE DEF RunsOnlyOnLoadableFile
<1>1. ASSUME UNCHANGED <<up, storage>>
      PROVE  RunsOnlyOnLoadableFile' /\ (~Loadable => ~Loadable')
  BY <1>1 DEF Loadable, storage
<1>2. CASE Stopping
  <2>1. up /\ ~up'
    BY <1>2 DEF Stopping, GracefulStop, Crash, KilledDuringSave, Halt
  <2> QED BY <2>1
<1>3. CASE Boot
  BY <1>3 DEF Boot, storage, Loadable
<1> QED
  BY <1>1, <1>2, <1>3
  DEF Next, Running, MainApp, Requests, Continue, vars, process,
      Register, UpdateProfile, AnnounceChange, AnnounceDelete, SoftDelete,
      StartEnsure, StartSync, DbRead, EnsureAnswered, FinishAdd,
      FinishPrepare, FinishSync, RemoveRelationship, DeleteUser

\* Once the file holds a nameless person or half a text, no process of the
\* service is ever up again: none boots on it, and none that runs could
\* have left it there without having stopped.
THEOREM BadFileFinal == Spec => BadFileIsFinal
<1>1. Init => RunsOnlyOnLoadableFile
  BY DEF Init, RunsOnlyOnLoadableFile
<1>2. RunsOnlyOnLoadableFile /\ [Next]_vars
        => RunsOnlyOnLoadableFile' /\ (~Loadable => ~Loadable')
  BY LoadableStep
<1>3. RunsOnlyOnLoadableFile /\ ~Loadable => ~up
  BY DEF RunsOnlyOnLoadableFile
<1> QED BY <1>1, <1>2, <1>3, PTL DEF Spec, BadFileIsFinal

=============================================================================
