---------------------------- MODULE FriendGraph ----------------------------
(***************************************************************************)
(* The friend-job service (apps/friend-job): an in-memory graph of         *)
(* persons, filled on demand from the SQL table of users, saved to a file  *)
(* on a graceful stop and loaded from it at boot.                          *)
(*                                                                         *)
(* Handlers are asynchronous functions on one event loop.  A handler runs  *)
(* atomically up to its next await; there any other handler may run.  The  *)
(* awaits are userRepo.find / findOne (sent, executed by the database,     *)
(* answered: three instants) and the return of ensureUser.  deleteUser and *)
(* removeRelationship have no await and are single steps.                  *)
(*                                                                         *)
(* The users' table belongs to main-app: Register, UpdateProfile,          *)
(* AnnounceDelete and SoftDelete are its writes and the events it sends.   *)
(* Redis pub/sub keeps the order of one publisher and drops what arrives   *)
(* while no subscriber is up.                                              *)
(***************************************************************************)
EXTENDS Naturals, Sequences, FiniteSets

CONSTANTS
  Users,           \* the ids a request can name
  Handlers,        \* the asynchronous calls that may be in flight together
  MayBeNameless,   \* users whose name an update may set to NULL
  MaxProfile,      \* bound: how often one user's shown names change
  MaxInbox         \* bound: updates being made and events on their way

ASSUME FriendGraphAssumption ==
  /\ MayBeNameless \subseteq Users
  /\ MaxProfile \in Nat
  /\ MaxInbox \in Nat

VARIABLES
  sql,        \* the users' table: lifecycle of each row
  profile,    \* the users' table: names and alias, as a version
  unannounced, \* main-app: users updated whose CHANGED is not sent yet
  up,         \* the process runs
  graph,      \* FriendGraphService.graph: Map<number, Person>
  file,       \* the graph as last saved by FriendGraphLocalStorage
  torn,       \* the file holds half a JSON text
  jobs,       \* the asynchronous calls in flight
  inbox,      \* CHANGED and DELETED events on their way
  emitted,    \* output: the RELATIONSHIP_CHANGED events of the last step
  clobbered   \* history: users whose Person, with friends, was overwritten

tables == <<sql, profile, unannounced>>
process == <<up, graph, jobs>>
storage == <<file, torn>>
vars == <<tables, process, storage, inbox, emitted, clobbered>>

-----------------------------------------------------------------------------
Versions == 0 .. MaxProfile
Lifecycles == {"absent", "alive", "deleting", "deleted"}
\* What a row shows of a user; an update may set a name to NULL, as the
\* @IsOptional of its DTO lets null pass.
Profile == [version : Versions, named : BOOLEAN]
Person == [friendIds : SUBSET Users, profile : Profile]
Pairs == {{u, v} : u, v \in Users}
UserEvents == [kind : {"CHANGED", "DELETED"}, user : Users]

\* A Map<number, Person> holds the ids of its domain.
Graphs == UNION {[ids -> Person] : ids \in SUBSET Users}
Rows == UNION {[ids -> Profile] : ids \in SUBSET Users}
EmptyRows == [u \in {} |-> [version |-> 0, named |-> TRUE]]
EmptyGraph == [u \in {} |-> [friendIds |-> {}, profile |-> EmptyRows[u]]]

Idle == [phase |-> "idle"]
Jobs == [op : {"add", "prepare", "sync"},
         phase : {"query", "answer", "ensured"},
         user1 : Users, user2 : Users,
         missing : SUBSET Users,
         rows : Rows]
Job(op, phase, u, v, missing) ==
  [op |-> op, phase |-> phase, user1 |-> u, user2 |-> v,
   missing |-> missing, rows |-> EmptyRows]

FriendIds(g, u) == IF u \in DOMAIN g THEN g[u].friendIds ELSE {}

\* isFriend: the relation counts only when both Persons hold it.
IsFriend(g, u, v) == v \in FriendIds(g, u) /\ u \in FriendIds(g, v)

\* graph.set(id, new Person) for every row: whatever Person was there before
\* is replaced by one without friends.
SetRows(g, rows) ==
  [u \in DOMAIN g \cup DOMAIN rows |->
     IF u \in DOMAIN rows
       THEN [friendIds |-> {}, profile |-> rows[u]]
       ELSE g[u]]

\* The rows that overwrite a Person who had friends.
Overwritten(g, rows) ==
  {u \in DOMAIN rows \cap DOMAIN g : g[u].friendIds # {}}

\* user1.friendIds.add(user2Id); user2.friendIds.add(user1Id)
Link(g, u, v) ==
  [w \in DOMAIN g |->
     CASE w = u -> [g[w] EXCEPT !.friendIds = @ \cup {v}]
       [] w = v -> [g[w] EXCEPT !.friendIds = @ \cup {u}]
       [] OTHER -> g[w]]

\* Mutant: only one of the two friend sets is updated.
UnlinkOneSide(g, u, v) ==
  [w \in DOMAIN g |->
     IF w = u THEN [g[w] EXCEPT !.friendIds = @ \ {v}] ELSE g[w]]

Unlink(g, u, v) ==
  [w \in DOMAIN g |->
     CASE w = u -> [g[w] EXCEPT !.friendIds = @ \ {v}]
       [] w = v -> [g[w] EXCEPT !.friendIds = @ \ {u}]
       [] OTHER -> g[w]]

\* Mutant: the deleted Person goes, the friends keep its id.
DropUserOnly(g, u) == [w \in DOMAIN g \ {u} |-> g[w]]

\* deleteUser takes userId out of the friend sets of the friends that the
\* deleted Person itself lists, and of nobody else's.
DropUser(g, u) ==
  [w \in DOMAIN g \ {u} |->
     IF w \in g[u].friendIds
       THEN [g[w] EXCEPT !.friendIds = @ \ {u}]
       ELSE g[w]]

\* Mutants: the friends are not carried over; a known Person is left alone.
SyncForgetsFriends(g, u, row) ==
  SetRows(g, [w \in {u} |-> row])
SyncOnlyUnknown(g, u, row) ==
  IF u \in DOMAIN g THEN g ELSE SetRows(g, [w \in {u} |-> row])

\* syncUser keeps the friends of the Person found at that moment, if any.
SyncPerson(g, u, row) ==
  [w \in DOMAIN g \cup {u} |->
     IF w = u
       THEN [friendIds |-> FriendIds(g, u), profile |-> row]
       ELSE g[w]]

-----------------------------------------------------------------------------
TypeOK ==
  /\ sql \in [Users -> Lifecycles]
  /\ profile \in [Users -> Profile]
  /\ unannounced \subseteq Users
  /\ up \in BOOLEAN
  /\ graph \in Graphs
  /\ file \in Graphs
  /\ torn \in BOOLEAN
  /\ jobs \in [Handlers -> Jobs \cup {Idle}]
  /\ inbox \in Seq(UserEvents)
  /\ emitted \subseteq Pairs
  /\ clobbered \subseteq Users

Init ==
  /\ sql \in [Users -> {"absent", "alive"}]
  /\ \E nameless \in SUBSET MayBeNameless :
       profile = [u \in Users |-> [version |-> 0, named |-> u \notin nameless]]
  /\ unannounced = {}
  /\ up = FALSE
  /\ graph = EmptyGraph
  /\ file = EmptyGraph
  /\ torn = FALSE
  /\ jobs = [h \in Handlers |-> Idle]
  /\ inbox = <<>>
  /\ emitted = {}
  /\ clobbered = {}

\* Rows a find returns: a soft-deleted user is not among them.
InTable(u) == sql[u] \in {"alive", "deleting"}
Lookup(ids) == [u \in {w \in ids : InTable(w)} |-> profile[u]]

-----------------------------------------------------------------------------
(* main-app's writes to the users' table and the events it publishes.      *)

\* An event published while the subscriber is down is gone.
Publish(kind, u) ==
  IF up THEN /\ Len(inbox) < MaxInbox
             /\ inbox' = Append(inbox, [kind |-> kind, user |-> u])
        ELSE inbox' = inbox

Register(u) ==
  /\ sql[u] = "absent"
  /\ sql' = [sql EXCEPT ![u] = "alive"]
  /\ emitted' = {}
  /\ UNCHANGED <<profile, unannounced, process, storage, inbox, clobbered>>

\* The save of an update, which may leave every shown field as it was, or set
\* a name to NULL.
UpdateProfile(u) ==
  /\ InTable(u)
  /\ Len(inbox) + Cardinality(unannounced) < MaxInbox
  /\ \E new \in Profile :
       /\ new.version \in {profile[u].version, profile[u].version + 1}
       /\ profile[u].named /\ ~ new.named => u \in MayBeNameless
       /\ profile' = [profile EXCEPT ![u] = new]
  /\ unannounced' = unannounced \cup {u}
  /\ emitted' = {}
  /\ UNCHANGED <<sql, process, storage, inbox, clobbered>>

\* The CHANGED event follows once the save is answered.
AnnounceChange(u) ==
  /\ u \in unannounced
  /\ unannounced' = unannounced \ {u}
  /\ Publish("CHANGED", u)
  /\ emitted' = {}
  /\ UNCHANGED <<sql, profile, process, storage, clobbered>>

\* The DELETED event is sent before the row is soft-deleted.
AnnounceDelete(u) ==
  /\ sql[u] = "alive"
  /\ sql' = [sql EXCEPT ![u] = "deleting"]
  /\ Publish("DELETED", u)
  /\ emitted' = {}
  /\ UNCHANGED <<profile, unannounced, process, storage, clobbered>>

SoftDelete(u) ==
  /\ sql[u] = "deleting"
  /\ sql' = [sql EXCEPT ![u] = "deleted"]
  /\ emitted' = {}
  /\ UNCHANGED <<profile, unannounced, process, storage, inbox, clobbered>>

-----------------------------------------------------------------------------
(* The requests and events of friend-job.                                  *)

\* Mutant: a finished call is marked and not cleared.
FinishKeepsCall(h) == jobs' = [jobs EXCEPT ![h].phase = "idle"]

Finish(h) == jobs' = [jobs EXCEPT ![h] = Idle]

\* ADD_RELATIONSHIP and PREPARE_REQ both begin with ensureUser, whose check
\* of the graph runs before the first await.  addRelationship refuses a
\* friendship with oneself before that, and main-app never prepares one.
StartEnsure(h, op, u, v) ==
  /\ up
  /\ jobs[h] = Idle
  /\ u # v
  /\ LET missing == {u, v} \ DOMAIN graph
     IN jobs' = [jobs EXCEPT ![h] =
                   Job(op, IF missing = {} THEN "ensured" ELSE "query",
                       u, v, missing)]
  /\ emitted' = {}
  /\ UNCHANGED <<tables, up, graph, storage, inbox, clobbered>>

\* The CHANGED event starts syncUser, which always asks the database.
StartSync(h) ==
  /\ up
  /\ jobs[h] = Idle
  /\ inbox # <<>>
  /\ Head(inbox).kind = "CHANGED"
  /\ inbox' = Tail(inbox)
  /\ LET u == Head(inbox).user
     IN jobs' = [jobs EXCEPT ![h] = Job("sync", "query", u, u, {u})]
  /\ emitted' = {}
  /\ UNCHANGED <<tables, up, graph, storage, clobbered>>

\* The database executes the SELECT; its answer is still on the way.
DbRead(h) ==
  /\ jobs[h].phase = "query"
  /\ jobs' = [jobs EXCEPT ![h].phase = "answer",
                          ![h].rows = Lookup(jobs[h].missing)]
  /\ emitted' = {}
  /\ UNCHANGED <<tables, up, graph, storage, inbox, clobbered>>

\* ensureUser goes on: NotFound unless every missing user has a row.
EnsureAnswered(h) ==
  /\ jobs[h].phase = "answer"
  /\ jobs[h].op # "sync"
  /\ \/ /\ DOMAIN jobs[h].rows # jobs[h].missing
        /\ Finish(h)
        /\ UNCHANGED <<graph, clobbered>>
     \/ /\ DOMAIN jobs[h].rows = jobs[h].missing
        /\ graph' = SetRows(graph, jobs[h].rows)
        /\ clobbered' = clobbered \cup Overwritten(graph, jobs[h].rows)
        /\ jobs' = [jobs EXCEPT ![h].phase = "ensured"]
  /\ emitted' = {}
  /\ UNCHANGED <<tables, up, storage, inbox>>

\* addRelationship after the await, and the event its controller emits.
FinishAdd(h) ==
  /\ jobs[h].phase = "ensured"
  /\ jobs[h].op = "add"
  /\ LET u == jobs[h].user1
         v == jobs[h].user2
     IN \/ /\ {u, v} \subseteq DOMAIN graph
           /\ graph' = Link(graph, u, v)
           /\ emitted' = {{u, v}}
        \/ /\ ~ {u, v} \subseteq DOMAIN graph
           /\ emitted' = {}
           /\ UNCHANGED graph
  /\ Finish(h)
  /\ UNCHANGED <<tables, up, storage, inbox, clobbered>>

\* PREPARE_REQ only counts mutual friends after the await.
FinishPrepare(h) ==
  /\ jobs[h].phase = "ensured"
  /\ jobs[h].op = "prepare"
  /\ Finish(h)
  /\ emitted' = {}
  /\ UNCHANGED <<tables, up, graph, storage, inbox, clobbered>>

FinishSync(h) ==
  /\ jobs[h].phase = "answer"
  /\ jobs[h].op = "sync"
  /\ LET u == jobs[h].user1
     IN \/ /\ u \in DOMAIN jobs[h].rows
           /\ graph' = SyncPerson(graph, u, jobs[h].rows[u])
        \/ /\ u \notin DOMAIN jobs[h].rows
           /\ UNCHANGED graph
  /\ Finish(h)
  /\ emitted' = {}
  /\ UNCHANGED <<tables, up, storage, inbox, clobbered>>

\* REMOVE_RELATIONSHIP throws, and emits nothing, unless both Persons exist.
RemoveRelationship(u, v) ==
  /\ up
  /\ {u, v} \subseteq DOMAIN graph
  /\ graph' = Unlink(graph, u, v)
  /\ emitted' = {{u, v}}
  /\ UNCHANGED <<tables, up, storage, jobs, inbox, clobbered>>

\* The DELETED event: nothing to do for a user the graph does not hold.
DeleteUser ==
  /\ up
  /\ inbox # <<>>
  /\ Head(inbox).kind = "DELETED"
  /\ inbox' = Tail(inbox)
  /\ LET u == Head(inbox).user
     IN graph' = IF u \in DOMAIN graph THEN DropUser(graph, u) ELSE graph
  /\ emitted' = {}
  /\ UNCHANGED <<tables, up, storage, jobs, clobbered>>

-----------------------------------------------------------------------------
(* Boot and stop.                                                          *)

Halt ==
  /\ up
  /\ up' = FALSE
  /\ graph' = EmptyGraph
  /\ jobs' = [h \in Handlers |-> Idle]
  /\ inbox' = <<>>

\* onModuleDestroy on a signal: the graph is saved, calls in flight die.
GracefulStop ==
  /\ Halt
  /\ file' = graph
  /\ emitted' = {}
  /\ UNCHANGED <<tables, torn, clobbered>>

\* A crash saves nothing: the file stays what the last graceful stop wrote.
Crash ==
  /\ Halt
  /\ emitted' = {}
  /\ UNCHANGED <<tables, storage, clobbered>>

\* writeFileSync truncates the file first: killed there, it leaves no JSON.
KilledDuringSave ==
  /\ Halt
  /\ torn' = TRUE
  /\ emitted' = {}
  /\ UNCHANGED <<tables, file, clobbered>>

\* JSON.parse throws on half a text and Person.fromObject on a missing name,
\* and onModuleInit with them: such a process never comes up.
Loadable == ~torn /\ \A u \in DOMAIN file : file[u].profile.named

\* Mutants: a load that swallows its errors; a boot that forgets to load.
BootUnchecked ==
  /\ ~up
  /\ up' = TRUE
  /\ graph' = IF Loadable THEN file ELSE EmptyGraph
  /\ emitted' = {}
  /\ UNCHANGED <<tables, storage, jobs, inbox, clobbered>>

BootEmpty ==
  /\ ~up
  /\ Loadable
  /\ up' = TRUE
  /\ graph' = EmptyGraph
  /\ emitted' = {}
  /\ UNCHANGED <<tables, storage, jobs, inbox, clobbered>>

Boot ==
  /\ ~up
  /\ Loadable
  /\ up' = TRUE
  /\ graph' = file
  /\ emitted' = {}
  /\ UNCHANGED <<tables, storage, jobs, inbox, clobbered>>

-----------------------------------------------------------------------------
MainApp == \E u \in Users : \/ Register(u)
                            \/ UpdateProfile(u)
                            \/ AnnounceChange(u)
                            \/ AnnounceDelete(u)
                            \/ SoftDelete(u)

Requests == \/ \E h \in Handlers, op \in {"add", "prepare"}, u, v \in Users :
                 StartEnsure(h, op, u, v)
            \/ \E u, v \in Users : RemoveRelationship(u, v)

Continue(h) == \/ DbRead(h)
               \/ EnsureAnswered(h)
               \/ FinishAdd(h)
               \/ FinishPrepare(h)
               \/ FinishSync(h)

Running == \/ MainApp
           \/ Requests
           \/ \E h \in Handlers : StartSync(h) \/ Continue(h)
           \/ DeleteUser
           \/ Boot

Stopping == GracefulStop \/ Crash \/ KilledDuringSave

Next == Running \/ Stopping

Spec == Init /\ [][Next]_vars

\* The same service while its process is never stopped.
SteadySpec == Init /\ [][Running]_vars

-----------------------------------------------------------------------------
(* What the service promises.                                              *)

\* A friend relation held by one side only.
OneSided(g, u, v) == v \in FriendIds(g, u) /\ u \notin FriendIds(g, v)

\* Only ensureUser's overwriting of a Person another call had put into the
\* graph meanwhile (friend-graph.service.ts:40-45) makes a relation
\* one-sided: no interleaving of adds, removes, syncs, deletions, stops and
\* boots does it otherwise, in the graph or in the saved file.
OneSidedOnlyWhereClobbered ==
  \A u, v \in Users :
    OneSided(graph, u, v) \/ OneSided(file, u, v) => v \in clobbered

\* Handled one at a time, calls keep the graph symmetric: A lists B exactly
\* when B lists A, and so nobody lists a user the graph does not hold.
\* The deletions and removals that have no await may still come between.
Symmetric == \A u, v \in Users : ~OneSided(graph, u, v)

\* A pair becomes or stops being friends silently, without the
\* RELATIONSHIP_CHANGED that recommendations live on, only when one of the
\* two is dropped by deleteUser, when an ensureUser that had missed one of
\* the two overwrites it, or when the process stops or boots.
FriendshipChangesAnnounced ==
  [][\A u, v \in Users :
       IsFriend(graph, u, v) # IsFriend(graph', u, v)
         => \/ {u, v} \in emitted'
            \/ ~ {u, v} \subseteq DOMAIN graph'
            \/ up' # up
            \/ \E h \in Handlers : /\ jobs[h].phase = "answer"
                                  /\ jobs'[h].phase = "ensured"
                                  /\ {u, v} \cap jobs[h].missing # {}]_vars

\* With calls handled one at a time, a graph at rest shows everybody's current
\* profile, or the one a boot loaded from the file (friend-graph.service.ts:
\* 236-238), whose changes may have come while the service was down: the
\* CHANGED event repairs every Person that ensureUser built from an older row.
FreshWhenQuiet ==
  (unannounced = {} /\ inbox = <<>> /\ \A h \in Handlers : jobs[h] = Idle)
    => \A u \in DOMAIN graph :
         \/ ~InTable(u)
         \/ graph[u].profile = profile[u]
         \/ u \in DOMAIN file /\ graph[u].profile = file[u].profile

\* A graph saved with a nameless person (Person.fromObject, person.ts:45,
\* throws where the constructor at :24-37 takes null), or a save torn by a
\* kill, is final: whatever the users' table, main-app or the process
\* manager do afterwards, the service never comes up again.
BadFileIsFinal == [](~Loadable => []~up)

\* To its clients the service is a set of mutual friendships: no step grows
\* that set by more than the one pair added, loses a pair other than the one
\* removed or those of users forgotten, or boots with anything but the set
\* the last graceful stop saved (the actions of Friendship).
MutualPairs(g) ==
  {pair \in SUBSET Users :
     \E u, v \in Users : u # v /\ pair = {u, v} /\ IsFriend(g, u, v)}

Abstract == INSTANCE Friendship WITH
  serving <- up,
  friends <- MutualPairs(graph),
  saved <- MutualPairs(file)

ImplementsFriendship == Abstract!Spec

=============================================================================
