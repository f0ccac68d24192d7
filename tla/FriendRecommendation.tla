----------------------- MODULE FriendRecommendation -----------------------
(***************************************************************************)
(* apps/friend-recommendation: one stored list of recommended friends per  *)
(* user, kept current by jobs of a bull queue.  The queue is taken from    *)
(* its right end: changes are pushed there (lifo), creations and deletions *)
(* of users at the left end.  Each @Process adds one loop to the queue, so *)
(* that several jobs run at once; a job stops at each await.               *)
(*                                                                         *)
(* A list has three parts, by RecommendationType.  Whom a part names is    *)
(* left out: a part is known by the version of the data (a user's friends, *)
(* address or interests) it was computed from.                             *)
(***************************************************************************)
EXTENDS Naturals, Sequences, FiniteSets

CONSTANTS
  Users,       \* the ids a user can have
  Loops,       \* jobs that may run at once
  MaxModified, \* changes written into a list before it is made anew
  MaxChanges,  \* bound: changes of profiles, interests and friendships
  MaxJobs      \* bound: events and saves to come, jobs waiting and running

ASSUME RecommendationAssumption ==
  /\ IsFiniteSet(Loops) /\ Loops # {}
  /\ MaxModified \in Nat \ {0}
  /\ MaxChanges \in Nat

VARIABLES
  account,     \* the users' table: "none", "active" or "gone" (soft-deleted)
  source,      \* the version of each kind of data of each user
  unsent,      \* events whose data is saved and which are still to be sent
  unsaved,     \* changes whose event is sent and which are still to be saved
  changes,     \* bound: how many changes have been made
  queue,       \* the jobs waiting
  jobs,        \* what each loop is at
  todo,        \* the users the INIT job has not come to
  tasks,       \* for each loop, how far it is with each user
  docs,        \* for each user, the stored documents
  unannounced, \* history: users created without a CREATED event
  early,       \* history: users whose interests were saved after their job
  disturbed    \* history: users two jobs worked on at once, see Disturb

main_app == <<account, source, unsent, unsaved, changes, unannounced>>
working  == <<jobs, todo, tasks>>
vars == <<main_app, queue, working, docs, early, disturbed>>

-----------------------------------------------------------------------------
Kinds == {"mutualCount", "province", "commonInterest"}
Ops   == Kinds \cup {"created", "deleted", "init"}

\* RELATIONSHIP_CHANGED is about two users, any other job about one; INIT
\* finds its users itself.
Job(op, users) == [op |-> op, users |-> users]
Jobs == [op : Ops \ {"init"}, users : SUBSET Users] \cup {Job("init", {})}

Parts == [kind : Kinds, version : Nat]
Part(u, kind) == [kind |-> kind, version |-> source[u][kind]]

Task == [phase : {"none", "fetch", "check", "pull", "push", "generate", "mutual",
                  "interest", "store", "delete"},
         got : SUBSET Parts]
NoTask == [phase |-> "none", got |-> {}]

Docs == [parts : SUBSET Parts, modified : Nat]

TypeOK ==
  /\ account \in [Users -> {"none", "active", "gone"}]
  /\ source \in [Users -> [Kinds -> Nat]]
  /\ unsent \subseteq Jobs
  /\ unsaved \subseteq Jobs
  /\ changes \in Nat
  /\ queue \in Seq(Jobs)
  /\ jobs \in [Loops -> Ops \cup {"idle", "initEach"}]
  /\ todo \subseteq Users
  /\ tasks \in [Loops -> [Users -> Task]]
  /\ docs \in [Users -> Seq(Docs)]
  /\ unannounced \subseteq Users
  /\ early \subseteq Users
  /\ disturbed \subseteq Users

\* Either the service has been running since there were no users, or it
\* starts for the first time: the mark is stored and INIT is queued.
Init ==
  /\ account \in [Users -> {"none", "active"}]
  /\ queue = IF \E u \in Users : account[u] = "active"
             THEN <<Job("init", {})>> ELSE <<>>
  /\ source = [u \in Users |-> [k \in Kinds |-> 0]]
  /\ unsent = {}
  /\ unsaved = {}
  /\ changes = 0
  /\ jobs = [s \in Loops |-> "idle"]
  /\ todo = {}
  /\ tasks = [s \in Loops |-> [u \in Users |-> NoTask]]
  /\ docs = [u \in Users |-> <<>>]
  /\ unannounced = {}
  /\ early = {}
  /\ disturbed = {}

-----------------------------------------------------------------------------
(* The queue.                                                              *)

\* Mutant: USER_DELETE without lifo: false.
EnqueueDeletionLifo(job) ==
  queue' = IF job.op = "created" THEN <<job>> \o queue ELSE Append(queue, job)

\* queue.add: USER_CREATED and USER_DELETE with lifo: false, else the default.
Enqueue(job) ==
  queue' = IF job.op \in {"created", "deleted"} THEN <<job>> \o queue
                                                ELSE Append(queue, job)

InitPending == \/ \E i \in 1 .. Len(queue) : queue[i].op = "init"
               \/ \E s \in Loops : jobs[s] \in {"init", "initEach"}

\* The bounds: jobs on their way, and changes made.
Room ==
  Cardinality(unsent) + Cardinality(unsaved) + Len(queue)
    + Cardinality({s \in Loops : jobs[s] # "idle"}) < MaxJobs

CountChange == changes < MaxChanges /\ changes' = changes + 1

InFlight(u) == \E s \in Loops : tasks[s][u] # NoTask

\* These users cannot be expected to have their list right: two jobs are at
\* them at once, or INIT makes lists while they come or go.
Disturb(users) == disturbed' = disturbed \cup users

-----------------------------------------------------------------------------
(* main-app and friend-job.                                                *)

\* Registration, also by an administrator: the row, (the mail,) the event.
Register(u) ==
  /\ Room
  /\ account[u] = "none"
  /\ account' = [account EXCEPT ![u] = "active"]
  /\ unsent' = unsent \cup {Job("created", {u})}
  /\ Disturb(IF InitPending THEN {u} ELSE {})
  /\ UNCHANGED <<source, unsaved, changes, unannounced, queue, working, docs, early>>

\* The mail of a registration fails: the row stays, the event is never sent.
MailFails(u) ==
  /\ Job("created", {u}) \in unsent
  /\ unsent' = unsent \ {Job("created", {u})}
  /\ unannounced' = unannounced \cup {u}
  /\ UNCHANGED <<account, source, unsaved, changes, queue, working, docs, early, disturbed>>

\* Saved first, then the event.  No route's DTO lets an address pass, so that
\* the address a list depends on stays what registration made it.
UpdateProfile(u) ==
  LET job == Job("province", {u})
  IN /\ Room /\ CountChange
     /\ account[u] = "active"
     /\ job \notin unsent
     /\ unsent' = unsent \cup {job}
     /\ UNCHANGED <<account, source, unsaved, unannounced, queue, working, docs,
                    early, disturbed>>

\* The event first, then the rows of user_interest.
ChangeInterests(u) ==
  LET job == Job("commonInterest", {u})
  IN /\ account[u] = "active"
     /\ job \notin unsaved
     /\ Room /\ CountChange
     /\ Enqueue(job)
     /\ unsaved' = unsaved \cup {job}
     /\ UNCHANGED <<account, source, unsent, unannounced, working, docs, early, disturbed>>

\* The event first, then the soft delete.
Delete(u) ==
  LET job == Job("deleted", {u})
  IN /\ account[u] = "active"
     /\ job \notin unsaved
     /\ Room
     /\ Enqueue(job)
     /\ unsaved' = unsaved \cup {job}
     /\ Disturb(IF InitPending \/ Job("created", {u}) \in unsent THEN {u} ELSE {})
     /\ UNCHANGED <<account, source, unsent, changes, unannounced, working, docs, early>>

\* friend-job adds or removes a friendship, then tells of it.
ChangeFriendship(u, v) ==
  /\ Room /\ CountChange
  /\ u # v
  /\ account[u] = "active" /\ account[v] = "active"
  /\ source' = [w \in Users |-> IF w \in {u, v}
                                THEN [source[w] EXCEPT !["mutualCount"] = @ + 1]
                                ELSE source[w]]
  /\ unsent' = unsent \cup {Job("mutualCount", {u, v})}
  /\ UNCHANGED <<account, unsaved, unannounced, queue, working, docs, early, disturbed>>

\* The event arrives and its handler queues the job.
Send(job) ==
  /\ job \in unsent
  /\ unsent' = unsent \ {job}
  /\ Enqueue(job)
  /\ UNCHANGED <<account, source, unsaved, changes, unannounced, working, docs, early, disturbed>>

SaveInterests(u) ==
  LET job == Job("commonInterest", {u})
  IN /\ job \in unsaved
     /\ unsaved' = unsaved \ {job}
     /\ source' = [source EXCEPT ![u]["commonInterest"] = @ + 1]
     /\ early' = IF \E i \in 1 .. Len(queue) : queue[i] = job
                 THEN early ELSE early \cup {u}
     /\ UNCHANGED <<account, unsent, changes, unannounced, queue, working, docs, disturbed>>

SoftDelete(u) ==
  /\ Job("deleted", {u}) \in unsaved
  /\ unsaved' = unsaved \ {Job("deleted", {u})}
  /\ account' = [account EXCEPT ![u] = "gone"]
  /\ UNCHANGED <<source, unsent, changes, unannounced, queue, working, docs, early, disturbed>>

-----------------------------------------------------------------------------
(* The consumer and the processor.                                         *)

FirstPhase(op) == CASE op = "created" -> "generate"
                    [] op = "deleted" -> "delete"
                    [] OTHER -> "fetch"

\* A free loop takes the job at the right end.
Take(s) ==
  LET job == queue[Len(queue)]
  IN /\ jobs[s] = "idle"
     /\ queue # <<>>
     /\ queue' = SubSeq(queue, 1, Len(queue) - 1)
     /\ jobs' = [jobs EXCEPT ![s] = job.op]
     /\ tasks' = [tasks EXCEPT ![s] =
          [u \in Users |-> IF u \in job.users
                           THEN [phase |-> FirstPhase(job.op), got |-> {}]
                           ELSE NoTask]]
     /\ Disturb({u \in job.users : InFlight(u)})
     /\ UNCHANGED <<main_app, todo, docs, early>>

At(s, u, phase) == tasks[s][u].phase = phase

Go(s, u, phase, got) ==
  /\ tasks' = [tasks EXCEPT ![s][u] = [phase |-> phase, got |-> got]]
  /\ UNCHANGED <<jobs, todo>>

\* Mutant: the loop takes the next job only when all of them are free.
EndBlocked(s, u) ==
  /\ tasks' = [tasks EXCEPT ![s][u] = NoTask]
  /\ jobs' = [jobs EXCEPT ![s] = "ended"]
  /\ UNCHANGED todo

\* The work for this user is over, or has failed; Promise.all ends with the
\* last of its users, INIT goes on to the next.
End(s, u) ==
  /\ tasks' = [tasks EXCEPT ![s][u] = NoTask]
  /\ jobs' = IF jobs[s] = "initEach" \/ \E v \in Users \ {u} : tasks[s][v] # NoTask
             THEN jobs ELSE [jobs EXCEPT ![s] = "idle"]
  /\ UNCHANGED todo

\* The query of the provider, with findOneBy before it for an address.
Fetch(s, u) ==
  /\ At(s, u, "fetch")
  /\ IF jobs[s] = "province" /\ account[u] # "active"
     THEN End(s, u)
     ELSE Go(s, u, "check", {Part(u, jobs[s])})
  /\ UNCHANGED <<main_app, queue, docs, early, disturbed>>

\* Mutant: the list is never made anew.
CheckOnlyExists(s, u) ==
  /\ At(s, u, "check")
  /\ IF docs[u] = <<>> THEN End(s, u) ELSE Go(s, u, "pull", tasks[s][u].got)
  /\ UNCHANGED <<main_app, queue, docs, early, disturbed>>

\* findOne: without a document the destructuring throws and the job fails.
Check(s, u) ==
  /\ At(s, u, "check")
  /\ IF docs[u] = <<>>
     THEN End(s, u)
     ELSE IF docs[u][1].modified >= MaxModified
          THEN Go(s, u, "generate", {})
          ELSE Go(s, u, "pull", tasks[s][u].got)
  /\ UNCHANGED <<main_app, queue, docs, early, disturbed>>

\* Mutant: the old part is left in the list.
PullNothing(s, u) ==
  /\ At(s, u, "pull")
  /\ Go(s, u, "push", tasks[s][u].got)
  /\ UNCHANGED <<main_app, queue, docs, early, disturbed>>

\* updateMany with $pull.
Pull(s, u) ==
  /\ At(s, u, "pull")
  /\ docs' = [docs EXCEPT ![u] = [i \in 1 .. Len(docs[u]) |->
       [docs[u][i] EXCEPT !.parts = {p \in @ : p.kind # jobs[s]}]]]
  /\ Go(s, u, "push", tasks[s][u].got)
  /\ UNCHANGED <<main_app, queue, early, disturbed>>

\* updateOne changes the first document of the user, if there is one.
UpdateFirst(u, doc) ==
  docs' = IF docs[u] = <<>> THEN docs ELSE [docs EXCEPT ![u][1] = doc]

\* updateOne with $push and $inc.
Push(s, u) ==
  /\ At(s, u, "push")
  /\ UpdateFirst(u, [parts |-> docs[u][1].parts \cup tasks[s][u].got,
                     modified |-> docs[u][1].modified + 1])
  /\ End(s, u)
  /\ UNCHANGED <<main_app, queue, early, disturbed>>

\* generateRecommendation: the user's row, which has the address, or nothing;
\* then friends of friends, then interests.
Generate(s, u) ==
  /\ At(s, u, "generate")
  /\ IF account[u] = "active" THEN Go(s, u, "mutual", {Part(u, "province")})
                              ELSE Go(s, u, "store", {})
  /\ UNCHANGED <<main_app, queue, docs, early, disturbed>>

GenerateMutual(s, u) ==
  /\ At(s, u, "mutual")
  /\ Go(s, u, "interest", tasks[s][u].got \cup {Part(u, "mutualCount")})
  /\ UNCHANGED <<main_app, queue, docs, early, disturbed>>

GenerateInterest(s, u) ==
  /\ At(s, u, "interest")
  /\ Go(s, u, "store", tasks[s][u].got \cup {Part(u, "commonInterest")})
  /\ UNCHANGED <<main_app, queue, docs, early, disturbed>>

\* A new list is inserted for a creation and by INIT, and replaces the old
\* one after a change.
Store(s, u) ==
  LET doc == [parts |-> tasks[s][u].got, modified |-> 0]
  IN /\ At(s, u, "store")
     /\ IF jobs[s] \in {"created", "initEach"}
        THEN docs' = [docs EXCEPT ![u] = Append(docs[u], doc)]
        ELSE UpdateFirst(u, doc)
     /\ End(s, u)
     /\ UNCHANGED <<main_app, queue, early, disturbed>>

\* deleteOne.
DeleteDoc(s, u) ==
  /\ At(s, u, "delete")
  /\ docs' = [docs EXCEPT ![u] = IF docs[u] = <<>> THEN <<>> ELSE Tail(docs[u])]
  /\ End(s, u)
  /\ UNCHANGED <<main_app, queue, early, disturbed>>

\* INIT reads the ids of all users and saves a list for one after the other.
InitRead(s) ==
  /\ jobs[s] = "init"
  /\ todo' = {u \in Users : account[u] = "active"}
  /\ jobs' = [jobs EXCEPT ![s] = "initEach"]
  /\ UNCHANGED <<main_app, queue, tasks, docs, early, disturbed>>

InitNext(s) ==
  /\ jobs[s] = "initEach"
  /\ \A u \in Users : tasks[s][u] = NoTask
  /\ \/ \E u \in todo :
          /\ todo' = todo \ {u}
          /\ tasks' = [tasks EXCEPT ![s][u] = [phase |-> "generate", got |-> {}]]
          /\ Disturb(IF InFlight(u) THEN {u} ELSE {})
          /\ UNCHANGED jobs
     \/ /\ todo = {}
        /\ jobs' = [jobs EXCEPT ![s] = "idle"]
        /\ UNCHANGED <<todo, tasks, disturbed>>
  /\ UNCHANGED <<main_app, queue, docs, early>>

-----------------------------------------------------------------------------
MainApp == \E u \in Users :
  \/ Register(u) \/ MailFails(u)
  \/ UpdateProfile(u) \/ ChangeInterests(u) \/ Delete(u)
  \/ SaveInterests(u) \/ SoftDelete(u)
  \/ \E v \in Users : ChangeFriendship(u, v)

Work(s, u) == \/ Fetch(s, u) \/ Check(s, u) \/ Pull(s, u) \/ Push(s, u)
              \/ Generate(s, u) \/ GenerateMutual(s, u) \/ GenerateInterest(s, u)
              \/ Store(s, u) \/ DeleteDoc(s, u)

Loop(s) == Take(s) \/ InitRead(s) \/ InitNext(s) \/ \E u \in Users : Work(s, u)

Next == MainApp \/ (\E job \in unsent : Send(job)) \/ (\E s \in Loops : Loop(s))

Spec == Init /\ [][Next]_vars

-----------------------------------------------------------------------------
(* Properties.                                                             *)

Quiet == /\ unsent = {} /\ unsaved = {} /\ queue = <<>>
         /\ \A s \in Loops : jobs[s] = "idle"

\* At rest, each user has one list, and who is deleted, or was never
\* announced, has none; users that two jobs worked on at once, or that came or
\* went during INIT, are excepted.  This is what lifo: false is for: a
\* deletion overtaking its creation would leave the list of a deleted user.
\* (friend-recommendation.controller.ts syncUserCreated, syncUserDeleted)
OneListPerUser ==
  Quiet => \A u \in Users \ disturbed :
    Len(docs[u]) = IF account[u] = "active" /\ u \notin unannounced THEN 1 ELSE 0

\* At rest, a list is computed from the current data, although changes are
\* processed last in first out and those of a user without a list fail: all
\* but lists disturbed as above, and interests saved only after the job their
\* early event started.  (processor.onUserChange, interests.controller)
CurrentAtRest ==
  Quiet => \A u \in Users \ disturbed : \A i \in 1 .. Len(docs[u]) :
    \A p \in docs[u][i].parts :
      p = Part(u, p.kind) \/ (p.kind = "commonInterest" /\ u \in early)

\* The tasks that will count a change in this user's list.
Counting(u) == {s \in Loops : tasks[s][u].phase \in {"pull", "push"}}

\* A list takes at most maxModifiedCount changes before it is made anew, and
\* more only by jobs that had checked the count before another raised it: one
\* for each loop, and only for a user two jobs were at.
\* (processor.onUserChange, maxModifiedCount)
ModifiedBounded ==
  \A u \in Users : \A i \in 1 .. Len(docs[u]) :
    docs[u][i].modified + Cardinality(Counting(u))
      <= IF u \in disturbed THEN MaxModified - 1 + Cardinality(Loops) ELSE MaxModified

=============================================================================
