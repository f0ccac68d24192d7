-------------------- MODULE FriendRecommendationProofs --------------------
(***************************************************************************)
(* What FriendRecommendation promises, for any users, loops and bounds:    *)
(* types, that a list is made anew in time, and that a user whose jobs     *)
(* never met has in the end one list, made from the data there is.         *)
(*                                                                         *)
(* ModifiedBounded counts the tasks that have passed the check, so that a  *)
(* $inc moves one from one summand to the other.  For users outside        *)
(* disturbed it needs that only one loop is at them: OneAtATime.           *)
(*                                                                         *)
(* The other two rest on the queue: in which order the jobs of one user    *)
(* stand there, and what each will find when its turn comes (ListsInv).    *)
(* While a part of a list is stale, a job that makes it anew is still to   *)
(* come or at work (FreshLists).                                           *)
(***************************************************************************)
EXTENDS FriendRecommendation, FiniteSetTheorems, SequenceTheorems, TLAPS

OneAtATime ==
  \A u \in Users \ disturbed : \A s, t \in Loops :
    tasks[s][u] # NoTask /\ tasks[t][u] # NoTask => s = t

\* Only a change of one kind fetches, checks, pulls and pushes.
ChangesHaveKind ==
  \A s \in Loops, u \in Users :
    tasks[s][u].phase \in {"fetch", "check", "pull", "push"} => jobs[s] \in Kinds

Typed == TypeOK /\ ChangesHaveKind

\* Where a user has several lists, only the first is ever changed.
OthersUntouched ==
  \A u \in Users : \A i \in 2 .. Len(docs[u]) : docs[u][i].modified = 0

IInv == Typed /\ OneAtATime /\ OthersUntouched /\ ModifiedBounded

-----------------------------------------------------------------------------
(* Types of the parts of a step.                                           *)

LEMMA JobType ==
  ASSUME NEW op \in Ops \ {"init"}, NEW users \in SUBSET Users
  PROVE  Job(op, users) \in Jobs
  BY DEF Job, Jobs

LEMMA NoTaskType == NoTask \in Task
  BY DEF NoTask, Task

LEMMA PartType ==
  ASSUME TypeOK, NEW u \in Users, NEW k \in Kinds
  PROVE  Part(u, k) \in Parts
  BY DEF TypeOK, Part, Parts

LEMMA EnqueueType ==
  ASSUME TypeOK, NEW job \in Jobs, Enqueue(job)
  PROVE  queue' \in Seq(Jobs)
<1>1. queue \in Seq(Jobs) /\ <<job>> \in Seq(Jobs)
  BY DEF TypeOK
<1>2. <<job>> \o queue \in Seq(Jobs)
  BY <1>1, ConcatProperties
<1>3. Append(queue, job) \in Seq(Jobs)
  BY <1>1, AppendProperties
<1> QED BY <1>2, <1>3 DEF Enqueue

LEMMA GoType ==
  ASSUME TypeOK, NEW s \in Loops, NEW u \in Users, NEW phase, NEW got,
         [phase |-> phase, got |-> got] \in Task, Go(s, u, phase, got)
  PROVE  tasks' \in [Loops -> [Users -> Task]] /\ UNCHANGED <<jobs, todo>>
  BY DEF TypeOK, Go

LEMMA EndType ==
  ASSUME TypeOK, NEW s \in Loops, NEW u \in Users, End(s, u)
  PROVE  /\ tasks' \in [Loops -> [Users -> Task]]
         /\ jobs' \in [Loops -> Ops \cup {"idle", "initEach"}]
         /\ UNCHANGED todo
  BY NoTaskType DEF TypeOK, End

\* A sequence of documents with one replaced.
LEMMA UpdateFirstType ==
  ASSUME TypeOK, NEW u \in Users, NEW doc,
         docs[u] # <<>> => doc \in Docs, UpdateFirst(u, doc)
  PROVE  /\ docs' \in [Users -> Seq(Docs)]
         /\ \A v \in Users : /\ Len(docs'[v]) = Len(docs[v])
                             /\ \A i \in 1 .. Len(docs[v]) :
                                  docs'[v][i] = IF v = u /\ i = 1 THEN doc ELSE docs[v][i]
<1>1. CASE docs[u] = <<>>
  <2>1. docs' = docs
    BY <1>1 DEF UpdateFirst
  <2>2. Len(docs[u]) = 0
    BY <1>1, EmptySeq
  <2>3. docs \in [Users -> Seq(Docs)]
    BY DEF TypeOK
  <2> QED BY <2>1, <2>2, <2>3
<1>2. CASE docs[u] # <<>>
  <2>1. docs[u] \in Seq(Docs) /\ doc \in Docs
    BY <1>2 DEF TypeOK
  <2>2. Len(docs[u]) \in Nat \ {0}
    BY <1>2, <2>1, EmptySeq
  <2>3. 1 \in 1 .. Len(docs[u])
    BY <2>2
  <2>4. /\ [docs[u] EXCEPT ![1] = doc] \in Seq(Docs)
        /\ Len([docs[u] EXCEPT ![1] = doc]) = Len(docs[u])
        /\ \A j \in 1 .. Len(docs[u]) :
             [docs[u] EXCEPT ![1] = doc][j] = IF j = 1 THEN doc ELSE docs[u][j]
    BY <2>1, <2>3, ExceptSeq
  <2>5. docs' = [docs EXCEPT ![u] = [docs[u] EXCEPT ![1] = doc]]
    BY <1>2 DEF UpdateFirst
  <2> QED BY <2>4, <2>5 DEF TypeOK
<1> QED BY <1>1, <1>2

LEMMA PullType ==
  ASSUME TypeOK, NEW s \in Loops, NEW u \in Users, Pull(s, u)
  PROVE  /\ docs' \in [Users -> Seq(Docs)]
         /\ \A v \in Users : /\ Len(docs'[v]) = Len(docs[v])
                             /\ \A i \in 1 .. Len(docs[v]) :
                                  docs'[v][i].modified = docs[v][i].modified
<1> DEFINE pulled == [i \in 1 .. Len(docs[u]) |->
                        [docs[u][i] EXCEPT !.parts = {p \in @ : p.kind # jobs[s]}]]
<1>1. docs[u] \in Seq(Docs) /\ Len(docs[u]) \in Nat
  BY DEF TypeOK
<1>2. \A i \in 1 .. Len(docs[u]) : docs[u][i] \in Docs
  BY <1>1
<1>3. \A i \in 1 .. Len(docs[u]) :
        pulled[i] \in Docs /\ pulled[i].modified = docs[u][i].modified
  BY <1>2 DEF Docs
<1>4. pulled \in [1 .. Len(docs[u]) -> Docs]
  BY <1>3
<1>5. pulled \in Seq(Docs) /\ Len(pulled) = Len(docs[u])
  BY <1>1, <1>4
<1>6. docs' = [docs EXCEPT ![u] = pulled]
  BY DEF Pull
<1> HIDE DEF pulled
<1> QED BY <1>3, <1>5, <1>6 DEF TypeOK

LEMMA InitTyped == Init => Typed
<1> SUFFICES ASSUME Init PROVE Typed
  OBVIOUS
<1>1. Job("init", {}) \in Jobs
  BY DEF Jobs
<1>2. queue \in Seq(Jobs)
  BY <1>1 DEF Init
<1> QED BY <1>2, NoTaskType DEF Init, Typed, TypeOK, ChangesHaveKind, NoTask

-----------------------------------------------------------------------------
(* Each step keeps the types.                                              *)

\* Steps of main-app and friend-job leave the tasks alone.
LEMMA OutsideTyped ==
  ASSUME Typed, UNCHANGED <<working, docs>>,
         account' \in [Users -> {"none", "active", "gone"}],
         source' \in [Users -> [Kinds -> Nat]],
         unsent' \subseteq Jobs, unsaved' \subseteq Jobs, changes' \in Nat,
         queue' \in Seq(Jobs),
         unannounced' \subseteq Users, early' \subseteq Users,
         disturbed' \subseteq Users
  PROVE  Typed'
  BY DEF Typed, TypeOK, ChangesHaveKind, working

LEMMA CountType ==
  ASSUME TypeOK, CountChange
  PROVE  changes' \in Nat
  BY DEF TypeOK, CountChange

LEMMA MainAppTyped ==
  ASSUME Typed, NEW u \in Users,
         \/ Register(u) \/ MailFails(u)
         \/ UpdateProfile(u) \/ ChangeInterests(u) \/ Delete(u)
         \/ SaveInterests(u) \/ SoftDelete(u)
  PROVE  Typed'
<1> USE DEF Typed
<1>0. \A op \in Ops \ {"init"} : Job(op, {u}) \in Jobs
  BY JobType
<1>1. CASE Register(u)
  BY <1>0, <1>1, OutsideTyped DEF Register, TypeOK, Disturb, Ops
<1>2. CASE MailFails(u)
  BY <1>2, OutsideTyped DEF MailFails, TypeOK
<1>3. CASE UpdateProfile(u)
  BY <1>0, <1>3, CountType, OutsideTyped DEF UpdateProfile, TypeOK, Ops, Kinds
<1>4. CASE ChangeInterests(u)
  <2>1. queue' \in Seq(Jobs)
    BY <1>0, <1>4, EnqueueType DEF ChangeInterests, Ops, Kinds
  <2> QED BY <1>0, <1>4, <2>1, CountType, OutsideTyped DEF ChangeInterests, TypeOK, Ops, Kinds
<1>5. CASE Delete(u)
  <2>1. queue' \in Seq(Jobs)
    BY <1>0, <1>5, EnqueueType DEF Delete, Ops
  <2> QED BY <1>0, <1>5, <2>1, OutsideTyped DEF Delete, TypeOK, Ops, Disturb
<1>6. CASE SaveInterests(u)
  <2>1. source' \in [Users -> [Kinds -> Nat]]
    BY <1>6 DEF SaveInterests, TypeOK, Kinds
  <2> QED BY <1>6, <2>1, OutsideTyped DEF SaveInterests, TypeOK
<1>7. CASE SoftDelete(u)
  BY <1>7, OutsideTyped DEF SoftDelete, TypeOK
<1> QED BY <1>1, <1>2, <1>3, <1>4, <1>5, <1>6, <1>7

LEMMA ChangeFriendshipTyped ==
  ASSUME Typed, NEW u \in Users, NEW v \in Users, ChangeFriendship(u, v)
  PROVE  Typed'
<1> USE DEF Typed
<1>1. source' \in [Users -> [Kinds -> Nat]]
  BY DEF ChangeFriendship, TypeOK, Kinds
<1>2. Job("mutualCount", {u, v}) \in Jobs
  BY JobType DEF Ops, Kinds
<1> QED BY <1>1, <1>2, CountType, OutsideTyped DEF ChangeFriendship, TypeOK

LEMMA SendTyped ==
  ASSUME Typed, NEW job \in unsent, Send(job)
  PROVE  Typed'
<1> USE DEF Typed
<1>1. job \in Jobs
  BY DEF TypeOK
<1> QED BY <1>1, EnqueueType, OutsideTyped DEF Send, TypeOK

\* The job at the right end, and what is left.
LEMMA LastJob ==
  ASSUME Typed, queue # <<>>
  PROVE  /\ queue[Len(queue)] \in Jobs
         /\ SubSeq(queue, 1, Len(queue) - 1) \in Seq(Jobs)
<1>1. queue \in Seq(Jobs)
  BY DEF Typed, TypeOK
<1>2. Len(queue) \in Nat \ {0}
  BY <1>1, EmptySeq
<1>3. \A i \in 1 .. Len(queue) : queue[i] \in Jobs
  BY <1>1, ElementOfSeq
<1>4. \A i \in 1 .. (Len(queue) - 1) : queue[i] \in Jobs
  BY <1>2, <1>3
<1>5. Len(queue) - 1 \in Int /\ 1 \in Int
  BY <1>2
<1> QED BY <1>2, <1>3, <1>4, <1>5, SubSeqProperties

LEMMA TakeTyped ==
  ASSUME Typed, NEW s \in Loops, Take(s)
  PROVE  Typed'
<1> USE DEF Typed
<1> DEFINE job == queue[Len(queue)]
<1>1. job \in Jobs /\ queue' \in Seq(Jobs)
  BY LastJob DEF Take
<1>2. job.op \in Ops /\ job.users \subseteq Users
      /\ (job.op = "init" => job.users = {})
  BY <1>1 DEF Jobs, Job, Ops
<1>3. FirstPhase(job.op) \in {"generate", "delete", "fetch"}
      /\ (FirstPhase(job.op) = "fetch" => job.op \in Kinds \cup {"init"})
  BY <1>2 DEF FirstPhase, Ops
<1>4. tasks' = [tasks EXCEPT ![s] = [u \in Users |->
        IF u \in job.users THEN [phase |-> FirstPhase(job.op), got |-> {}] ELSE NoTask]]
      /\ jobs' = [jobs EXCEPT ![s] = job.op]
  BY DEF Take
<1> HIDE DEF job
<1>5. [phase |-> FirstPhase(job.op), got |-> {}] \in Task
  BY <1>3 DEF Task
<1>6. tasks' \in [Loops -> [Users -> Task]]
  BY <1>4, <1>5, NoTaskType DEF TypeOK
<1>7. jobs' \in [Loops -> Ops \cup {"idle", "initEach"}]
  BY <1>2, <1>4 DEF TypeOK
<1>8. TypeOK'
  <2>1. disturbed' \subseteq Users
    BY <1>2 DEF Take, Disturb, TypeOK, job
  <2>2. UNCHANGED <<account, source, unsent, unsaved, changes, unannounced, todo, docs, early>>
    BY DEF Take, main_app
  <2> QED BY <1>1, <1>6, <1>7, <2>1, <2>2 DEF TypeOK
<1>9. ChangesHaveKind'
  <2> SUFFICES ASSUME NEW t \in Loops, NEW u \in Users,
                      tasks'[t][u].phase \in {"fetch", "check", "pull", "push"}
               PROVE  jobs'[t] \in Kinds
    BY DEF ChangesHaveKind
  <2>1. CASE t = s
    <3>1. tasks'[s][u] = IF u \in job.users
                         THEN [phase |-> FirstPhase(job.op), got |-> {}] ELSE NoTask
      BY <1>4 DEF TypeOK
    <3>2. u \in job.users /\ FirstPhase(job.op) = "fetch"
      BY <2>1, <3>1, <1>3 DEF NoTask
    <3> QED BY <2>1, <3>2, <1>2, <1>3, <1>4 DEF TypeOK
  <2>2. CASE t # s
    BY <2>2, <1>4 DEF TypeOK, ChangesHaveKind
  <2> QED BY <2>1, <2>2
<1> QED BY <1>8, <1>9

\* The two ways a step of a task moves the tasks.
LEMMA GoTyped ==
  ASSUME Typed, NEW s \in Loops, NEW u \in Users, NEW phase, NEW got,
         [phase |-> phase, got |-> got] \in Task, Go(s, u, phase, got),
         phase \in {"fetch", "check", "pull", "push"} => jobs[s] \in Kinds
  PROVE  /\ tasks' \in [Loops -> [Users -> Task]]
         /\ jobs' \in [Loops -> Ops \cup {"idle", "initEach"}]
         /\ todo' = todo
         /\ ChangesHaveKind'
<1>1. tasks' = [tasks EXCEPT ![s][u] = [phase |-> phase, got |-> got]] /\ jobs' = jobs
  BY DEF Go
<1>2. ChangesHaveKind'
  BY <1>1 DEF Typed, TypeOK, ChangesHaveKind
<1> QED BY <1>2, GoType DEF Typed, TypeOK

LEMMA EndTyped ==
  ASSUME Typed, NEW s \in Loops, NEW u \in Users, End(s, u)
  PROVE  /\ tasks' \in [Loops -> [Users -> Task]]
         /\ jobs' \in [Loops -> Ops \cup {"idle", "initEach"}]
         /\ todo' = todo
         /\ ChangesHaveKind'
<1> SUFFICES ASSUME NEW t \in Loops, NEW v \in Users,
                    tasks'[t][v].phase \in {"fetch", "check", "pull", "push"}
             PROVE  jobs'[t] \in Kinds
  BY EndType DEF Typed, ChangesHaveKind
<1>1. tasks'[t][v] = IF t = s /\ v = u THEN NoTask ELSE tasks[t][v]
  BY DEF End, Typed, TypeOK
<1>2. ~(t = s /\ v = u) /\ tasks[t][v] # NoTask /\ jobs[t] \in Kinds
  BY <1>1 DEF NoTask, Typed, ChangesHaveKind
<1>3. CASE t = s
  <2>1. \E w \in Users \ {u} : tasks[s][w] # NoTask
    BY <1>2, <1>3
  <2> QED BY <1>2, <2>1 DEF End
<1>4. CASE t # s
  BY <1>2, <1>4 DEF End, Typed, TypeOK
<1> QED BY <1>3, <1>4

LEMMA WorkTyped ==
  ASSUME Typed, NEW s \in Loops, NEW u \in Users, Work(s, u)
  PROVE  Typed'
<1> USE DEF Typed
<1>0. ASSUME UNCHANGED <<main_app, queue, early, disturbed>>,
             docs' \in [Users -> Seq(Docs)],
             tasks' \in [Loops -> [Users -> Task]],
             jobs' \in [Loops -> Ops \cup {"idle", "initEach"}],
             todo' = todo,
             ChangesHaveKind'
      PROVE  Typed'
  BY <1>0 DEF TypeOK, main_app
<1>1. tasks[s][u] \in Task /\ tasks[s][u].got \subseteq Parts
      /\ docs \in [Users -> Seq(Docs)]
  BY DEF TypeOK, Task
<1>2. CASE Fetch(s, u)
  <2>1. CASE End(s, u)
    BY <1>0, <1>1, <1>2, <2>1, EndTyped DEF Fetch
  <2>2. CASE Go(s, u, "check", {Part(u, jobs[s])})
    <3>1. jobs[s] \in Kinds
      BY <1>2 DEF Fetch, At, ChangesHaveKind
    <3>2. [phase |-> "check", got |-> {Part(u, jobs[s])}] \in Task
      BY <3>1, PartType DEF Task
    <3> QED BY <1>0, <1>1, <1>2, <2>2, <3>1, <3>2, GoTyped DEF Fetch
  <2> QED BY <1>2, <2>1, <2>2 DEF Fetch
<1>3. CASE Check(s, u)
  <2>0. jobs[s] \in Kinds
    BY <1>3 DEF Check, At, ChangesHaveKind
  <2>1. CASE End(s, u)
    BY <1>0, <1>1, <1>3, <2>1, EndTyped DEF Check
  <2>2. CASE Go(s, u, "generate", {})
    <3>1. [phase |-> "generate", got |-> {}] \in Task
      BY DEF Task
    <3> QED BY <1>0, <1>1, <1>3, <2>2, <3>1, GoTyped DEF Check
  <2>3. CASE Go(s, u, "pull", tasks[s][u].got)
    <3>1. [phase |-> "pull", got |-> tasks[s][u].got] \in Task
      BY <1>1 DEF Task
    <3> QED BY <1>0, <1>1, <1>3, <2>0, <2>3, <3>1, GoTyped DEF Check
  <2> QED BY <1>3, <2>1, <2>2, <2>3 DEF Check
<1>4. CASE Pull(s, u)
  <2>1. jobs[s] \in Kinds
    BY <1>4 DEF Pull, At, ChangesHaveKind
  <2>2. [phase |-> "push", got |-> tasks[s][u].got] \in Task
    BY <1>1 DEF Task
  <2> QED BY <1>0, <1>4, <2>1, <2>2, GoTyped, PullType DEF Pull
<1>5. CASE Push(s, u)
  <2>1. ASSUME docs[u] # <<>>
        PROVE  [parts |-> docs[u][1].parts \cup tasks[s][u].got,
                modified |-> docs[u][1].modified + 1] \in Docs
    <3>1. docs[u] \in Seq(Docs)
      BY <1>1
    <3>2. Len(docs[u]) \in Nat \ {0}
      BY <2>1, <3>1, EmptySeq
    <3>3. docs[u][1] \in Docs
      BY <3>1, <3>2, ElementOfSeq
    <3> QED BY <1>1, <3>3 DEF Docs
  <2>2. docs' \in [Users -> Seq(Docs)]
    BY <1>5, <2>1, UpdateFirstType DEF Push
  <2> QED BY <1>0, <1>5, <2>2, EndTyped DEF Push
<1>6. CASE Generate(s, u)
  <2>1. Part(u, "province") \in Parts
    BY PartType DEF Kinds
  <2>2. /\ [phase |-> "mutual", got |-> {Part(u, "province")}] \in Task
        /\ [phase |-> "store", got |-> {}] \in Task
    BY <2>1 DEF Task
  <2>3. CASE Go(s, u, "mutual", {Part(u, "province")})
    BY <1>0, <1>1, <1>6, <2>2, <2>3, GoTyped DEF Generate
  <2>4. CASE Go(s, u, "store", {})
    BY <1>0, <1>1, <1>6, <2>2, <2>4, GoTyped DEF Generate
  <2> QED BY <1>6, <2>3, <2>4 DEF Generate
<1>7. CASE GenerateMutual(s, u)
  <2>1. Part(u, "mutualCount") \in Parts
    BY PartType DEF Kinds
  <2>2. [phase |-> "interest", got |-> tasks[s][u].got \cup {Part(u, "mutualCount")}] \in Task
    BY <1>1, <2>1 DEF Task
  <2> DEFINE got == tasks[s][u].got \cup {Part(u, "mutualCount")}
  <2>3. Go(s, u, "interest", got)
    BY <1>7 DEF GenerateMutual
  <2>4. UNCHANGED <<main_app, queue, docs, early, disturbed>>
    BY <1>7 DEF GenerateMutual
  <2>5. [phase |-> "interest", got |-> got] \in Task
    BY <2>2
  <2> HIDE DEF got
  <2> QED BY <1>0, <1>1, <2>3, <2>4, <2>5, GoTyped
<1>8. CASE GenerateInterest(s, u)
  <2>1. Part(u, "commonInterest") \in Parts
    BY PartType DEF Kinds
  <2>2. [phase |-> "store", got |-> tasks[s][u].got \cup {Part(u, "commonInterest")}] \in Task
    BY <1>1, <2>1 DEF Task
  <2> DEFINE got == tasks[s][u].got \cup {Part(u, "commonInterest")}
  <2>3. Go(s, u, "store", got)
    BY <1>8 DEF GenerateInterest
  <2>4. UNCHANGED <<main_app, queue, docs, early, disturbed>>
    BY <1>8 DEF GenerateInterest
  <2>5. [phase |-> "store", got |-> got] \in Task
    BY <2>2
  <2> HIDE DEF got
  <2> QED BY <1>0, <1>1, <2>3, <2>4, <2>5, GoTyped
<1>9. CASE Store(s, u)
  <2> DEFINE doc == [parts |-> tasks[s][u].got, modified |-> 0]
  <2>1. doc \in Docs
    BY <1>1 DEF Docs
  <2>2. CASE UpdateFirst(u, doc)
    <3>1. docs' \in [Users -> Seq(Docs)]
      BY <2>1, <2>2, UpdateFirstType
    <3> QED BY <1>0, <1>9, <3>1, EndTyped DEF Store
  <2>3. CASE docs' = [docs EXCEPT ![u] = Append(docs[u], doc)]
    <3>1. Append(docs[u], doc) \in Seq(Docs)
      BY <1>1, <2>1, AppendProperties
    <3>2. docs' \in [Users -> Seq(Docs)]
      BY <1>1, <2>3, <3>1
    <3> QED BY <1>0, <1>9, <3>2, EndTyped DEF Store
  <2> QED BY <1>9, <2>2, <2>3 DEF Store
<1>10. CASE DeleteDoc(s, u)
  <2>1. docs[u] \in Seq(Docs)
    BY <1>1
  <2>2. docs[u] # <<>> => Tail(docs[u]) \in Seq(Docs)
    BY <2>1, HeadTailProperties
  <2>3. docs' \in [Users -> Seq(Docs)]
    BY <1>1, <1>10, <2>2 DEF DeleteDoc
  <2> QED BY <1>0, <1>10, <2>3, EndTyped DEF DeleteDoc
<1> QED BY <1>2, <1>3, <1>4, <1>5, <1>6, <1>7, <1>8, <1>9, <1>10 DEF Work

LEMMA InitJobTyped ==
  ASSUME Typed, NEW s \in Loops, InitRead(s) \/ InitNext(s)
  PROVE  Typed'
<1> USE DEF Typed
<1>1. CASE InitRead(s)
  <2>1. "init" \notin Kinds
    BY DEF Kinds
  <2> QED BY <1>1, <2>1 DEF InitRead, TypeOK, ChangesHaveKind, main_app, Ops
<1>2. ASSUME NEW u \in todo,
             todo' = todo \ {u},
             tasks' = [tasks EXCEPT ![s][u] = [phase |-> "generate", got |-> {}]],
             Disturb(IF InFlight(u) THEN {u} ELSE {}),
             UNCHANGED <<jobs, main_app, queue, docs, early>>
      PROVE  Typed'
  <2>1. u \in Users /\ [phase |-> "generate", got |-> {}] \in Task
    BY DEF TypeOK, Task
  <2>3. tasks' \in [Loops -> [Users -> Task]]
    BY <1>2, <2>1 DEF TypeOK
  <2>4. ChangesHaveKind'
    BY <1>2, <2>1 DEF TypeOK, ChangesHaveKind
  <2>5. disturbed' \subseteq Users
    BY <1>2, <2>1 DEF Disturb, TypeOK
  <2> QED BY <1>2, <2>3, <2>4, <2>5 DEF TypeOK, main_app
<1>3. CASE /\ jobs[s] = "initEach"
           /\ jobs' = [jobs EXCEPT ![s] = "idle"]
           /\ UNCHANGED <<todo, tasks, disturbed, main_app, queue, docs, early>>
  <2>1. "initEach" \notin Kinds
    BY DEF Kinds
  <2> QED BY <1>3, <2>1 DEF TypeOK, ChangesHaveKind, main_app
<1> QED BY <1>1, <1>2, <1>3 DEF InitNext

LEMMA NextTyped == Typed /\ [Next]_vars => Typed'
<1> SUFFICES ASSUME Typed, [Next]_vars PROVE Typed'
  OBVIOUS
<1>1. CASE UNCHANGED vars
  BY <1>1 DEF vars, main_app, working, Typed, TypeOK, ChangesHaveKind
<1>2. CASE Next
  BY <1>2, MainAppTyped, ChangeFriendshipTyped, SendTyped, TakeTyped, WorkTyped,
     InitJobTyped DEF Next, MainApp, Loop
<1> QED BY <1>1, <1>2

\* The variables keep their types.
THEOREM RecommendationTypeCorrect == Spec => []TypeOK
<1>1. Typed => TypeOK
  BY DEF Typed
<1> QED BY <1>1, InitTyped, NextTyped, PTL DEF Spec

-----------------------------------------------------------------------------
(* One loop at a user.                                                     *)

LEMMA InitOneAtATime == Init => OneAtATime
  BY DEF Init, OneAtATime

\* No task begins.
LEMMA OneAtATimeKept ==
  ASSUME OneAtATime, disturbed \subseteq disturbed',
         \A s \in Loops, u \in Users : tasks'[s][u] # NoTask => tasks[s][u] # NoTask
  PROVE  OneAtATime'
  BY DEF OneAtATime

\* The tasks that begin are at users nobody is at, or the users are disturbed.
LEMMA OneAtATimeTaken ==
  ASSUME Typed, OneAtATime, NEW s \in Loops, NEW users \in SUBSET Users,
         \A u \in users : InFlight(u) => u \in disturbed',
         disturbed \subseteq disturbed',
         \A t \in Loops, u \in Users :
           tasks'[t][u] # NoTask => tasks[t][u] # NoTask \/ (t = s /\ u \in users)
  PROVE  OneAtATime'
  BY DEF OneAtATime, InFlight

LEMMA TaskMoves ==
  ASSUME Typed, NEW s \in Loops, NEW u \in Users, Work(s, u)
  PROVE  /\ tasks[s][u] # NoTask
         /\ \E t : tasks' = [tasks EXCEPT ![s][u] = t]
         /\ disturbed' = disturbed
<1>1. tasks[s][u].phase # "none"
  BY DEF Work, Fetch, Check, Pull, Push, Generate, GenerateMutual,
         GenerateInterest, Store, DeleteDoc, At
<1>2. End(s, u) \/ \E phase, got : Go(s, u, phase, got)
  BY DEF Work, Fetch, Check, Pull, Push, Generate, GenerateMutual,
         GenerateInterest, Store, DeleteDoc
<1>3. \E t : tasks' = [tasks EXCEPT ![s][u] = t]
  BY <1>2 DEF End, Go
<1>4. disturbed' = disturbed
  BY DEF Work, Fetch, Check, Pull, Push, Generate, GenerateMutual,
         GenerateInterest, Store, DeleteDoc
<1>5. tasks[s][u] # NoTask
  BY <1>1 DEF NoTask
<1> QED BY <1>3, <1>4, <1>5

\* What Take and INIT do to tasks and disturbed.
LEMMA TakeBegins ==
  ASSUME Typed, NEW s \in Loops, Take(s)
  PROVE  \E users \in SUBSET Users, phase \in {"fetch", "generate", "delete"} :
           /\ disturbed' = disturbed \cup {u \in users : InFlight(u)}
           /\ tasks' = [tasks EXCEPT ![s] = [u \in Users |->
                IF u \in users THEN [phase |-> phase, got |-> {}] ELSE NoTask]]
<1> DEFINE job == queue[Len(queue)]
<1>1. job \in Jobs
  BY LastJob DEF Take
<1>2. job.users \in SUBSET Users
  BY <1>1 DEF Jobs, Job
<1>3. FirstPhase(job.op) \in {"fetch", "generate", "delete"}
  BY DEF FirstPhase
<1>4. /\ disturbed' = disturbed \cup {u \in job.users : InFlight(u)}
      /\ tasks' = [tasks EXCEPT ![s] = [u \in Users |->
           IF u \in job.users THEN [phase |-> FirstPhase(job.op), got |-> {}] ELSE NoTask]]
  BY DEF Take, Disturb
<1> HIDE DEF job
<1> QED BY <1>2, <1>3, <1>4

LEMMA InitBegins ==
  ASSUME Typed, NEW s \in Loops, InitNext(s), tasks' # tasks
  PROVE  \E u \in Users :
           /\ disturbed' = disturbed \cup IF InFlight(u) THEN {u} ELSE {}
           /\ tasks' = [tasks EXCEPT ![s][u] = [phase |-> "generate", got |-> {}]]
  BY DEF InitNext, Disturb, Typed, TypeOK

LEMMA OutsideKeeps ==
  ASSUME MainApp \/ \E job \in unsent : Send(job)
  PROVE  UNCHANGED <<tasks, docs>> /\ disturbed \subseteq disturbed'
  BY DEF MainApp, Register, MailFails, UpdateProfile, ChangeInterests,
         Delete, SaveInterests, SoftDelete, ChangeFriendship, Send, working, Disturb

LEMMA NextOneAtATime ==
  ASSUME Typed, OneAtATime, [Next]_vars
  PROVE  OneAtATime'
<1>1. CASE UNCHANGED vars
  BY <1>1, OneAtATimeKept DEF vars, working
<1>2. CASE MainApp \/ \E job \in unsent : Send(job)
  BY <1>2, OutsideKeeps, OneAtATimeKept
<1>3. ASSUME NEW s \in Loops, Take(s)
      PROVE  OneAtATime'
  <2>1. PICK users \in SUBSET Users, phase \in {"fetch", "generate", "delete"} :
           /\ disturbed' = disturbed \cup {u \in users : InFlight(u)}
           /\ tasks' = [tasks EXCEPT ![s] = [u \in Users |->
                IF u \in users THEN [phase |-> phase, got |-> {}] ELSE NoTask]]
    BY <1>3, TakeBegins
  <2>2. \A t \in Loops, u \in Users :
           tasks'[t][u] # NoTask => tasks[t][u] # NoTask \/ (t = s /\ u \in users)
    BY <2>1 DEF Typed, TypeOK
  <2>3. \A u \in users : InFlight(u) => u \in disturbed'
    BY <2>1
  <2>4. disturbed \subseteq disturbed'
    BY <2>1
  <2> QED BY <2>2, <2>3, <2>4, OneAtATimeTaken
<1>4. ASSUME NEW s \in Loops, InitRead(s)
      PROVE  OneAtATime'
  BY <1>4, OneAtATimeKept DEF InitRead
<1>5. ASSUME NEW s \in Loops, InitNext(s), tasks' = tasks
      PROVE  OneAtATime'
  <2>1. disturbed \subseteq disturbed'
    BY <1>5 DEF InitNext, Disturb
  <2> QED BY <1>5, <2>1, OneAtATimeKept
<1>6. ASSUME NEW s \in Loops, InitNext(s), tasks' # tasks
      PROVE  OneAtATime'
  <2>1. PICK u \in Users :
           /\ disturbed' = disturbed \cup IF InFlight(u) THEN {u} ELSE {}
           /\ tasks' = [tasks EXCEPT ![s][u] = [phase |-> "generate", got |-> {}]]
    BY <1>6, InitBegins
  <2>2. \A t \in Loops, v \in Users :
           tasks'[t][v] # NoTask => tasks[t][v] # NoTask \/ (t = s /\ v \in {u})
    BY <2>1 DEF Typed, TypeOK
  <2>3. \A v \in {u} : InFlight(v) => v \in disturbed'
    BY <2>1
  <2>4. disturbed \subseteq disturbed' /\ {u} \in SUBSET Users
    BY <2>1
  <2> QED BY <2>2, <2>3, <2>4, OneAtATimeTaken
<1>7. ASSUME NEW s \in Loops, NEW u \in Users, Work(s, u)
      PROVE  OneAtATime'
  <2>1. tasks[s][u] # NoTask /\ disturbed' = disturbed
    BY <1>7, TaskMoves
  <2>2. PICK task : tasks' = [tasks EXCEPT ![s][u] = task]
    BY <1>7, TaskMoves
  <2>3. \A t \in Loops, v \in Users : tasks'[t][v] # NoTask => tasks[t][v] # NoTask
    BY <2>1, <2>2 DEF Typed, TypeOK
  <2> QED BY <2>1, <2>3, OneAtATimeKept
<1> QED BY <1>1, <1>2, <1>3, <1>4, <1>5, <1>6, <1>7 DEF Next, Loop

-----------------------------------------------------------------------------
(* Changes between two new lists.                                          *)

Bound(u) == IF u \in disturbed THEN MaxModified - 1 + Cardinality(Loops)
                               ELSE MaxModified

LEMMA LoopsFinite ==
  Cardinality(Loops) \in Nat \ {0} /\ MaxModified \in Nat \ {0}
  BY FS_CardinalityType, FS_EmptySet, RecommendationAssumption

LEMMA CountingFinite ==
  ASSUME NEW u
  PROVE  /\ IsFiniteSet(Counting(u))
         /\ Cardinality(Counting(u)) \in Nat
         /\ Cardinality(Counting(u)) <= Cardinality(Loops)
<1>1. Counting(u) \in SUBSET Loops
  BY DEF Counting
<1>2. IsFiniteSet(Counting(u)) /\ Cardinality(Counting(u)) <= Cardinality(Loops)
  BY <1>1, FS_Subset, RecommendationAssumption
<1> QED BY <1>2, FS_CardinalityType

LEMMA CountingFiniteNext ==
  ASSUME NEW u
  PROVE  /\ IsFiniteSet(Counting(u)')
         /\ Cardinality(Counting(u)') \in Nat
         /\ Cardinality(Counting(u)') <= Cardinality(Loops)
<1>1. Counting(u)' \in SUBSET Loops
  BY DEF Counting
<1>2. IsFiniteSet(Counting(u)') /\ Cardinality(Counting(u)') <= Cardinality(Loops)
  BY <1>1, FS_Subset, RecommendationAssumption
<1> QED BY <1>2, FS_CardinalityType

LEMMA BoundGrows ==
  ASSUME disturbed \subseteq disturbed', NEW u \in Users
  PROVE  Bound(u) \in Nat /\ Bound(u)' \in Nat /\ Bound(u) <= Bound(u)'
  BY LoopsFinite DEF Bound

LEMMA DocType ==
  ASSUME Typed, NEW u \in Users, NEW i \in 1 .. Len(docs[u])
  PROVE  docs[u][i] \in Docs /\ docs[u][i].modified \in Nat
<1>1. docs[u] \in Seq(Docs)
  BY DEF Typed, TypeOK
<1>2. docs[u][i] \in Docs
  BY <1>1, ElementOfSeq
<1> QED BY <1>2 DEF Docs

\* A list that was within the bound stays there when no task comes to count.
LEMMA StillFits ==
  ASSUME IInv, disturbed \subseteq disturbed',
         NEW u \in Users, Counting(u)' \subseteq Counting(u),
         NEW i \in 1 .. Len(docs[u])
  PROVE  docs[u][i].modified + Cardinality(Counting(u)') <= Bound(u)'
<1>1. docs[u][i].modified + Cardinality(Counting(u)) <= Bound(u)
  BY DEF IInv, ModifiedBounded, Bound
<1>2. docs[u][i].modified \in Nat
  BY DocType DEF IInv
<1>3. Cardinality(Counting(u)') <= Cardinality(Counting(u))
  BY CountingFinite, FS_Subset
<1>4. Cardinality(Counting(u)) \in Nat /\ Cardinality(Counting(u)') \in Nat
  BY CountingFinite, CountingFiniteNext
<1>5. Bound(u) \in Nat /\ Bound(u)' \in Nat /\ Bound(u) <= Bound(u)'
  BY BoundGrows
<1> QED BY <1>1, <1>2, <1>3, <1>4, <1>5

\* A list below the limit has room for all tasks there can be.
LEMMA LowFits ==
  ASSUME OneAtATime', NEW u \in Users, NEW m \in Nat, m < MaxModified
  PROVE  m + Cardinality(Counting(u)') <= Bound(u)'
<1>1. CASE u \in disturbed'
  BY <1>1, CountingFiniteNext, LoopsFinite DEF Bound
<1>2. CASE u \notin disturbed'
  <2>1. \A s, t \in Counting(u)' : s = t
    BY <1>2 DEF OneAtATime, Counting, NoTask
  <2>2. Counting(u)' = {} \/ \E s : Counting(u)' = {s}
    BY <2>1
  <2>3. Cardinality(Counting(u)') \in {0, 1}
    BY <2>2, FS_EmptySet, FS_Singleton
  <2> QED BY <1>2, <2>3, LoopsFinite DEF Bound
<1> QED BY <1>1, <1>2

\* Steps that leave the documents alone and count nothing new.
LEMMA BoundKept ==
  ASSUME IInv, docs' = docs, disturbed \subseteq disturbed',
         \A u \in Users : Counting(u)' \subseteq Counting(u)
  PROVE  OthersUntouched' /\ ModifiedBounded'
<1>1. OthersUntouched'
  BY DEF IInv, OthersUntouched
<1>2. \A u \in Users : \A i \in 1 .. Len(docs[u]) :
        docs[u][i].modified + Cardinality(Counting(u)') <= Bound(u)'
  BY StillFits
<1> QED BY <1>1, <1>2 DEF ModifiedBounded, Bound

\* Where a step of a task leaves Counting.
LEMMA CountingAfter ==
  ASSUME Typed, NEW s \in Loops, NEW u \in Users, NEW task,
         tasks' = [tasks EXCEPT ![s][u] = task]
  PROVE  \A v \in Users :
           Counting(v)' = IF v # u THEN Counting(v)
                          ELSE IF task.phase \in {"pull", "push"} THEN Counting(v) \cup {s}
                          ELSE Counting(v) \ {s}
  BY DEF Counting, Typed, TypeOK

\* A step that leaves the documents of all users but u alone, and has u fit.
LEMMA OnlyUser ==
  ASSUME IInv, disturbed' = disturbed, NEW u \in Users,
         \A v \in Users \ {u} : docs'[v] = docs[v] /\ Counting(v)' = Counting(v),
         \A i \in 1 .. Len(docs'[u]) :
           /\ docs'[u][i].modified + Cardinality(Counting(u)') <= Bound(u)'
           /\ i # 1 => docs'[u][i].modified = 0
  PROVE  OthersUntouched' /\ ModifiedBounded'
<1>1. OthersUntouched'
  BY DEF IInv, OthersUntouched
<1>2. \A v \in Users : \A i \in 1 .. Len(docs'[v]) :
        docs'[v][i].modified + Cardinality(Counting(v)') <= Bound(v)'
  BY StillFits
<1> QED BY <1>1, <1>2 DEF ModifiedBounded, Bound

\* The task ends, and is counted no more.
LEMMA CountingEnds ==
  ASSUME Typed, NEW s \in Loops, NEW u \in Users, End(s, u)
  PROVE  \A v \in Users : Counting(v)' = IF v = u THEN Counting(v) \ {s} ELSE Counting(v)
<1>1. tasks' = [tasks EXCEPT ![s][u] = NoTask]
  BY DEF End
<1>2. NoTask.phase \notin {"pull", "push"}
  BY DEF NoTask
<1> QED BY <1>1, <1>2, CountingAfter

LEMMA CountingGoes ==
  ASSUME Typed, NEW s \in Loops, NEW u \in Users, NEW phase, NEW got,
         Go(s, u, phase, got)
  PROVE  \A v \in Users :
           Counting(v)' = IF v # u THEN Counting(v)
                          ELSE IF phase \in {"pull", "push"} THEN Counting(v) \cup {s}
                          ELSE Counting(v) \ {s}
<1> DEFINE task == [phase |-> phase, got |-> got]
<1>1. tasks' = [tasks EXCEPT ![s][u] = task]
  BY DEF Go
<1>2. task.phase = phase
  OBVIOUS
<1> HIDE DEF task
<1>3. \A v \in Users :
        Counting(v)' = IF v # u THEN Counting(v)
                       ELSE IF task.phase \in {"pull", "push"} THEN Counting(v) \cup {s}
                       ELSE Counting(v) \ {s}
  BY <1>1, CountingAfter
<1> QED BY <1>2, <1>3

\* Steps that read, and a check that does not pass.
LEMMA ReadingFits ==
  ASSUME IInv, NEW s \in Loops, NEW u \in Users,
         docs' = docs, disturbed' = disturbed,
         \/ End(s, u)
         \/ \E phase \in {"check", "generate", "mutual", "interest", "store"} :
              \E got : Go(s, u, phase, got)
  PROVE  OthersUntouched' /\ ModifiedBounded'
<1>1. \A v \in Users : Counting(v)' \subseteq Counting(v)
  BY CountingEnds, CountingGoes DEF IInv
<1> QED BY <1>1, BoundKept

LEMMA CheckFits ==
  ASSUME IInv, OneAtATime', NEW s \in Loops, NEW u \in Users, Check(s, u)
  PROVE  OthersUntouched' /\ ModifiedBounded'
<1>0. docs' = docs /\ disturbed' = disturbed
  BY DEF Check
<1>1. CASE End(s, u) \/ Go(s, u, "generate", {})
  BY <1>0, <1>1, ReadingFits
<1>2. CASE /\ Go(s, u, "pull", tasks[s][u].got)
           /\ docs[u] # <<>> /\ ~(docs[u][1].modified >= MaxModified)
  <2>1. \A v \in Users \ {u} : docs'[v] = docs[v] /\ Counting(v)' = Counting(v)
    BY <1>0, <1>2, CountingGoes DEF IInv
  <2>2. ASSUME NEW i \in 1 .. Len(docs[u])
        PROVE  /\ docs[u][i].modified + Cardinality(Counting(u)') <= Bound(u)'
               /\ i # 1 => docs[u][i].modified = 0
    <3>1. docs[u][i].modified \in Nat
      BY DocType DEF IInv
    <3>2. i # 1 => i \in 2 .. Len(docs[u])
      BY DocType DEF IInv
    <3>3. i # 1 => docs[u][i].modified = 0
      BY <3>2 DEF IInv, OthersUntouched
    <3>4. docs[u][i].modified < MaxModified
      BY <1>2, <3>1, <3>3, LoopsFinite
    <3> QED BY <3>1, <3>3, <3>4, LowFits
  <2> QED BY <1>0, <2>1, <2>2, OnlyUser
<1> QED BY <1>1, <1>2 DEF Check

LEMMA PullFits ==
  ASSUME IInv, NEW s \in Loops, NEW u \in Users, Pull(s, u)
  PROVE  OthersUntouched' /\ ModifiedBounded'
<1>1. \A v \in Users : /\ Len(docs'[v]) = Len(docs[v])
                       /\ \A i \in 1 .. Len(docs[v]) :
                            docs'[v][i].modified = docs[v][i].modified
  BY PullType DEF IInv, Typed
<1>2. \A v \in Users : Counting(v)' = Counting(v)
  <2>1. s \in Counting(u)
    BY DEF Pull, At, Counting
  <2>2. Go(s, u, "push", tasks[s][u].got)
    BY DEF Pull
  <2>3. \A v \in Users :
          Counting(v)' = IF v # u THEN Counting(v)
                         ELSE IF "push" \in {"pull", "push"} THEN Counting(v) \cup {s}
                         ELSE Counting(v) \ {s}
    BY <2>2, CountingGoes DEF IInv
  <2> QED BY <2>1, <2>3
<1>3. disturbed' = disturbed
  BY DEF Pull
<1>4. OthersUntouched'
  <2> SUFFICES ASSUME NEW v \in Users, NEW i \in 2 .. Len(docs[v])
               PROVE  docs'[v][i].modified = 0
    BY <1>1 DEF OthersUntouched
  <2>1. docs[v] \in Seq(Docs)
    BY DEF IInv, Typed, TypeOK
  <2>2. i \in 1 .. Len(docs[v])
    BY <2>1
  <2> QED BY <1>1, <2>2 DEF IInv, OthersUntouched
<1>5. \A v \in Users : \A i \in 1 .. Len(docs[v]) :
        docs'[v][i].modified + Cardinality(Counting(v)') <= Bound(v)'
  BY <1>1, <1>2, <1>3, StillFits
<1> QED BY <1>1, <1>4, <1>5 DEF ModifiedBounded, Bound

LEMMA PushFits ==
  ASSUME IInv, NEW s \in Loops, NEW u \in Users, Push(s, u)
  PROVE  OthersUntouched' /\ ModifiedBounded'
<1> DEFINE doc == [parts |-> docs[u][1].parts \cup tasks[s][u].got,
                   modified |-> docs[u][1].modified + 1]
<1>0. UpdateFirst(u, doc) /\ End(s, u) /\ disturbed' = disturbed /\ s \in Counting(u)
  BY DEF Push, At, Counting
<1>1. ASSUME docs[u] # <<>>
      PROVE  1 \in 1 .. Len(docs[u]) /\ doc \in Docs
  <2>1. docs[u] \in Seq(Docs)
    BY DEF IInv, Typed, TypeOK
  <2>2. Len(docs[u]) \in Nat \ {0}
    BY <1>1, <2>1, EmptySeq
  <2>3. docs[u][1] \in Docs /\ 1 \in 1 .. Len(docs[u])
    BY <2>2, DocType DEF IInv
  <2>4. tasks[s][u].got \subseteq Parts
    BY DEF IInv, Typed, TypeOK, Task
  <2> QED BY <2>3, <2>4 DEF Docs
<1>2. \A v \in Users : /\ Len(docs'[v]) = Len(docs[v])
                       /\ \A i \in 1 .. Len(docs[v]) :
                            docs'[v][i] = IF v = u /\ i = 1 THEN doc ELSE docs[v][i]
  BY <1>0, <1>1, UpdateFirstType DEF IInv, Typed
<1>3. \A v \in Users : Counting(v)' = IF v = u THEN Counting(v) \ {s} ELSE Counting(v)
  BY <1>0, CountingEnds DEF IInv
<1>4. \A v \in Users \ {u} : docs'[v] = docs[v]
  BY <1>0 DEF UpdateFirst, IInv, Typed, TypeOK
<1>5. ASSUME NEW i \in 1 .. Len(docs[u])
      PROVE  /\ docs'[u][i].modified + Cardinality(Counting(u)') <= Bound(u)'
             /\ i # 1 => docs'[u][i].modified = 0
  <2>1. CASE i = 1
    <3>1. docs'[u][1].modified = docs[u][1].modified + 1
      BY <1>2, <2>1
    <3>2. docs[u][1].modified \in Nat
      BY <2>1, DocType DEF IInv
    <3>3. docs[u][1].modified + Cardinality(Counting(u)) <= Bound(u)
      BY <2>1 DEF IInv, ModifiedBounded, Bound
    <3>4. Cardinality(Counting(u) \ {s}) = Cardinality(Counting(u)) - 1
      BY <1>0, CountingFinite, FS_RemoveElement
    <3>5. Counting(u)' = Counting(u) \ {s}
      BY <1>3
    <3>6. Cardinality(Counting(u)') = Cardinality(Counting(u)) - 1
      BY <3>4, <3>5
    <3>7. Bound(u) \in Nat /\ Bound(u)' \in Nat /\ Bound(u) <= Bound(u)'
      BY <1>0, BoundGrows
    <3>8. Cardinality(Counting(u)) \in Nat
      BY CountingFinite
    <3> QED BY <2>1, <3>1, <3>2, <3>3, <3>6, <3>7, <3>8
  <2>2. CASE i # 1
    <3>1. docs'[u][i] = docs[u][i]
      BY <1>2, <2>2
    <3>2. Counting(u)' \subseteq Counting(u)
      BY <1>3
    <3>3. i \in 2 .. Len(docs[u])
      BY <2>2, DocType DEF IInv
    <3> QED BY <1>0, <3>1, <3>2, <3>3, StillFits DEF IInv, OthersUntouched
  <2> QED BY <2>1, <2>2
<1> HIDE DEF doc
<1>6. Len(docs'[u]) = Len(docs[u])
  BY <1>2
<1> QED BY <1>0, <1>3, <1>4, <1>5, <1>6, OnlyUser

LEMMA StoreFits ==
  ASSUME IInv, OneAtATime', NEW s \in Loops, NEW u \in Users, Store(s, u)
  PROVE  OthersUntouched' /\ ModifiedBounded'
<1> DEFINE doc == [parts |-> tasks[s][u].got, modified |-> 0]
<1>0. End(s, u) /\ disturbed' = disturbed
  BY DEF Store
<1>1. doc \in Docs /\ doc.modified = 0
  BY DEF IInv, Typed, TypeOK, Task, Docs
<1>2. docs[u] \in Seq(Docs) /\ docs \in [Users -> Seq(Docs)]
  BY DEF IInv, Typed, TypeOK
<1>3. UpdateFirst(u, doc) \/ docs' = [docs EXCEPT ![u] = Append(docs[u], doc)]
  BY DEF Store
<1>4. \A v \in Users : Counting(v)' = IF v = u THEN Counting(v) \ {s} ELSE Counting(v)
  BY <1>0, CountingEnds DEF IInv
<1> HIDE DEF doc
<1>5. \A v \in Users \ {u} : docs'[v] = docs[v]
  BY <1>2, <1>3 DEF UpdateFirst
<1>6. \A i \in 1 .. Len(docs'[u]) :
        \/ docs'[u][i].modified = 0
        \/ i \in 1 .. Len(docs[u]) /\ docs'[u][i] = docs[u][i]
  <2>1. CASE UpdateFirst(u, doc)
    BY <1>1, <2>1, UpdateFirstType DEF IInv, Typed
  <2>2. CASE docs' = [docs EXCEPT ![u] = Append(docs[u], doc)]
    <3>1. docs'[u] = Append(docs[u], doc)
      BY <1>2, <2>2
    <3>2. /\ Len(docs'[u]) = Len(docs[u]) + 1
          /\ \A i \in 1 .. Len(docs[u]) : docs'[u][i] = docs[u][i]
          /\ docs'[u][Len(docs[u]) + 1] = doc
      BY <1>1, <1>2, <3>1, AppendProperties
    <3>3. Len(docs[u]) \in Nat
      BY <1>2, LenProperties
    <3> QED BY <1>1, <3>2, <3>3
  <2> QED BY <1>3, <2>1, <2>2
<1>7. ASSUME NEW i \in 1 .. Len(docs'[u])
      PROVE  /\ docs'[u][i].modified + Cardinality(Counting(u)') <= Bound(u)'
             /\ i # 1 => docs'[u][i].modified = 0
  <2>1. CASE docs'[u][i].modified = 0
    BY <2>1, LowFits, LoopsFinite
  <2>2. CASE i \in 1 .. Len(docs[u]) /\ docs'[u][i] = docs[u][i]
    <3>1. Counting(u)' \subseteq Counting(u)
      BY <1>4
    <3>2. i # 1 => i \in 2 .. Len(docs[u])
      BY <1>2, <2>2, LenProperties
    <3> QED BY <1>0, <2>2, <3>1, <3>2, StillFits DEF IInv, OthersUntouched
  <2> QED BY <1>6, <2>1, <2>2
<1> QED BY <1>0, <1>4, <1>5, <1>7, OnlyUser

LEMMA DeleteFits ==
  ASSUME IInv, NEW s \in Loops, NEW u \in Users, DeleteDoc(s, u)
  PROVE  OthersUntouched' /\ ModifiedBounded'
<1>0. End(s, u) /\ disturbed' = disturbed
  BY DEF DeleteDoc
<1>1. docs[u] \in Seq(Docs) /\ docs \in [Users -> Seq(Docs)]
  BY DEF IInv, Typed, TypeOK
<1>2. docs'[u] = IF docs[u] = <<>> THEN <<>> ELSE Tail(docs[u])
  BY <1>1 DEF DeleteDoc
<1>3. \A v \in Users \ {u} : docs'[v] = docs[v]
  BY <1>1 DEF DeleteDoc
<1>4. \A v \in Users : Counting(v)' = IF v = u THEN Counting(v) \ {s} ELSE Counting(v)
  BY <1>0, CountingEnds DEF IInv
<1>5. ASSUME NEW i \in 1 .. Len(docs'[u])
      PROVE  /\ docs'[u][i].modified + Cardinality(Counting(u)') <= Bound(u)'
             /\ i # 1 => docs'[u][i].modified = 0
  <2>1. docs[u] # <<>>
    BY <1>2, EmptySeq
  <2>2. Len(docs'[u]) = Len(docs[u]) - 1 /\ docs'[u][i] = docs[u][i + 1]
    BY <1>1, <1>2, <2>1, HeadTailProperties
  <2>3. Len(docs[u]) \in Nat
    BY <1>1, LenProperties
  <2>4. i + 1 \in 2 .. Len(docs[u]) /\ i + 1 \in 1 .. Len(docs[u])
    BY <2>2, <2>3
  <2>5. docs[u][i + 1].modified = 0
    BY <2>4 DEF IInv, OthersUntouched
  <2>6. docs[u][i + 1].modified + Cardinality(Counting(u)') <= Bound(u)'
    BY <1>0, <1>4, <2>4, StillFits
  <2> QED BY <2>2, <2>5, <2>6
<1> QED BY <1>0, <1>3, <1>4, <1>5, OnlyUser

LEMMA WorkFits ==
  ASSUME IInv, OneAtATime', NEW s \in Loops, NEW u \in Users, Work(s, u)
  PROVE  OthersUntouched' /\ ModifiedBounded'
<1>1. CASE Fetch(s, u)
  BY <1>1, ReadingFits DEF Fetch
<1>2. CASE Generate(s, u)
  BY <1>2, ReadingFits DEF Generate
<1>3. CASE GenerateMutual(s, u)
  BY <1>3, ReadingFits DEF GenerateMutual
<1>4. CASE GenerateInterest(s, u)
  BY <1>4, ReadingFits DEF GenerateInterest
<1> QED BY <1>1, <1>2, <1>3, <1>4, CheckFits, PullFits, PushFits, StoreFits,
           DeleteFits DEF Work

LEMMA BeginningFits ==
  ASSUME IInv, NEW s \in Loops, Take(s) \/ InitRead(s) \/ InitNext(s)
  PROVE  OthersUntouched' /\ ModifiedBounded'
<1>1. CASE Take(s)
  <2>1. PICK users \in SUBSET Users, phase \in {"fetch", "generate", "delete"} :
           /\ disturbed' = disturbed \cup {u \in users : InFlight(u)}
           /\ tasks' = [tasks EXCEPT ![s] = [u \in Users |->
                IF u \in users THEN [phase |-> phase, got |-> {}] ELSE NoTask]]
    BY <1>1, TakeBegins DEF IInv
  <2>2. \A u \in Users : Counting(u)' \subseteq Counting(u)
    BY <2>1 DEF Counting, NoTask, IInv, Typed, TypeOK
  <2>3. docs' = docs /\ disturbed \subseteq disturbed'
    BY <1>1, <2>1 DEF Take
  <2> QED BY <2>2, <2>3, BoundKept
<1>2. CASE InitRead(s)
  BY <1>2, BoundKept DEF InitRead, Counting
<1>3. CASE InitNext(s) /\ tasks' = tasks
  <2>1. docs' = docs /\ disturbed \subseteq disturbed'
    BY <1>3 DEF InitNext, Disturb
  <2> QED BY <1>3, <2>1, BoundKept DEF Counting
<1>4. CASE InitNext(s) /\ tasks' # tasks
  <2>1. PICK u \in Users :
           /\ disturbed' = disturbed \cup IF InFlight(u) THEN {u} ELSE {}
           /\ tasks' = [tasks EXCEPT ![s][u] = [phase |-> "generate", got |-> {}]]
    BY <1>4, InitBegins DEF IInv
  <2>2. \A v \in Users : Counting(v)' \subseteq Counting(v)
    BY <2>1 DEF Counting, IInv, Typed, TypeOK
  <2>3. docs' = docs /\ disturbed \subseteq disturbed'
    BY <1>4, <2>1 DEF InitNext
  <2> QED BY <2>2, <2>3, BoundKept
<1> QED BY <1>1, <1>2, <1>3, <1>4

LEMMA InitIInv == Init => IInv
<1> SUFFICES ASSUME Init PROVE IInv
  OBVIOUS
<1>1. \A u \in Users : Len(docs[u]) = 0
  BY EmptySeq DEF Init
<1> QED BY <1>1, InitTyped, InitOneAtATime DEF IInv, OthersUntouched, ModifiedBounded

LEMMA NextIInv == IInv /\ [Next]_vars => IInv'
<1> SUFFICES ASSUME IInv, [Next]_vars PROVE IInv'
  OBVIOUS
<1>1. Typed' /\ OneAtATime'
  BY NextTyped, NextOneAtATime DEF IInv
<1>2. CASE UNCHANGED vars
  <2>1. UNCHANGED <<docs, disturbed, tasks>>
    BY <1>2 DEF vars, working
  <2> QED BY <1>1, <2>1, BoundKept DEF IInv, Counting
<1>3. CASE MainApp \/ \E job \in unsent : Send(job)
  BY <1>1, <1>3, OutsideKeeps, BoundKept DEF IInv, Counting
<1> QED BY <1>1, <1>2, <1>3, WorkFits, BeginningFits DEF IInv, Next, Loop

\* A list takes no more changes than maxModifiedCount before it is made anew,
\* and a few more only where two jobs were at one user.
THEOREM ChangesBounded == Spec => []ModifiedBounded
<1>1. IInv => ModifiedBounded
  BY DEF IInv
<1> QED BY <1>1, InitIInv, NextIInv, PTL DEF Spec

-----------------------------------------------------------------------------
(* One list for each user.                                                 *)
(*                                                                         *)
(* The list of a user nobody disturbed is counted from the jobs on their   *)
(* way: it is there from the end of the creation, or of INIT's turn, until *)
(* the end of the deletion.  That a creation comes before the deletion is  *)
(* the order of their places in the queue.                                 *)

Created(u) == Job("created", {u})
Deleted(u) == Job("deleted", {u})

Queued(job) == \E i \in 1 .. Len(queue) : queue[i] = job
InitQueued  == \E i \in 1 .. Len(queue) : queue[i].op = "init"

Running(op, u) == \E s \in Loops : jobs[s] = op /\ tasks[s][u] # NoTask

CreationComes(u) == Created(u) \in unsent \/ Queued(Created(u)) \/ Running("created", u)

InitComes(u) == \/ InitQueued
                \/ \E s \in Loops : jobs[s] = "init"
                \/ u \in todo
                \/ Running("initEach", u)

Leaving(u) == Queued(Deleted(u)) \/ Running("deleted", u)

\* Its deletion has been asked for.
Asked(u) == account[u] = "gone" \/ Deleted(u) \in unsaved

Has(u) == /\ account[u] # "none" /\ u \notin unannounced
          /\ ~CreationComes(u) /\ ~InitComes(u)
          /\ Asked(u) => Leaving(u)

\* One creation and one deletion of a user at most are queued, and the
\* creation is nearer to the right end, from which jobs are taken.
Ordered(u) ==
  \A i, j \in 1 .. Len(queue) :
    /\ queue[i] = Created(u) /\ queue[j] = Created(u) => i = j
    /\ queue[i] = Deleted(u) /\ queue[j] = Deleted(u) => i = j
    /\ queue[i] = Created(u) /\ queue[j] = Deleted(u) => j < i

\* Where the jobs of a user can be at the same time.
OnceEach(u) ==
  /\ Created(u) \in unsent => ~Queued(Created(u))
  /\ Created(u) \in unsent \/ Queued(Created(u)) => ~Running("created", u)
  /\ CreationComes(u) => account[u] # "none" /\ u \notin unannounced /\ ~InitPending
  /\ Queued(Deleted(u)) => ~Running("deleted", u)
  /\ Running("deleted", u) => ~CreationComes(u)
  /\ CreationComes(u) /\ Asked(u) => Leaving(u)
  /\ Leaving(u) => Asked(u)
  /\ Asked(u) => account[u] # "none" /\ Created(u) \notin unsent /\ ~InitPending
  /\ Deleted(u) \in unsaved => account[u] = "active"
  /\ u \in unannounced => account[u] # "none" /\ ~InitPending
  /\ u \in todo => account[u] = "active"
  /\ Running("initEach", u) => account[u] = "active" /\ u \notin todo

ListCounted(u) == Len(docs[u]) = IF Has(u) THEN 1 ELSE 0

Life(u) == Ordered(u) /\ OnceEach(u) /\ ListCounted(u)

\* A creation or a deletion is about one user.
JobsOfOne ==
  /\ \A job \in unsent :
       /\ job.op \notin {"deleted", "init"}
       /\ job.op = "created" => \E u \in Users : job = Created(u)
  /\ \A job \in Jobs : Queued(job) /\ job.op \in {"created", "deleted"}
                         => \E u \in Users : job = Job(job.op, {u})

TasksOfJobs ==
  \A s \in Loops, u \in Users :
    tasks[s][u] # NoTask => /\ jobs[s] \notin {"idle", "init"}
                            /\ jobs[s] = "deleted" <=> tasks[s][u].phase = "delete"

AtInit(s) == jobs[s] \in {"init", "initEach"}

\* INIT is queued once, and in one place.
OneInit ==
  /\ \A i, j \in 1 .. Len(queue) : queue[i].op = "init" /\ queue[j].op = "init" => i = j
  /\ \A s, t \in Loops : AtInit(s) /\ AtInit(t) => s = t
  /\ \A s \in Loops : AtInit(s) => ~InitQueued
  /\ todo # {} => \E s \in Loops : jobs[s] = "initEach"

WellFormed == Typed /\ OneAtATime /\ JobsOfOne /\ TasksOfJobs /\ OneInit

ListsInv == WellFormed /\ \A u \in Users \ disturbed : Life(u)

-----------------------------------------------------------------------------
(* The queue.                                                              *)

LEMMA DistinctJobs ==
  ASSUME NEW u, NEW v
  PROVE  /\ Created(u) # Deleted(v)
         /\ Created(u) = Created(v) => u = v
         /\ Deleted(u) = Deleted(v) => u = v
         /\ \A op : Job(op, {u}).op = op /\ Job(op, {u}).users = {u}
  BY DEF Created, Deleted, Job

LEMMA UserJobsTyped ==
  ASSUME NEW u \in Users
  PROVE  Created(u) \in Jobs /\ Deleted(u) \in Jobs
  BY JobType DEF Created, Deleted, Ops

\* A job at the left end: every other one moves one place to the right.
LEMMA EnqueueLeft ==
  ASSUME Typed, NEW job \in Jobs, Enqueue(job), job.op \in {"created", "deleted"}
  PROVE  /\ Len(queue) \in Nat /\ Len(queue') = Len(queue) + 1 /\ queue'[1] = job
         /\ \A i \in 1 .. Len(queue) : queue'[i + 1] = queue[i]
         /\ \A i \in 2 .. Len(queue') : i - 1 \in 1 .. Len(queue) /\ queue'[i] = queue[i - 1]
<1>1. queue \in Seq(Jobs) /\ <<job>> \in Seq(Jobs)
  BY DEF Typed, TypeOK
<1>2. queue' = <<job>> \o queue
  BY DEF Enqueue
<1>3. Len(<<job>>) = 1 /\ <<job>>[1] = job
  OBVIOUS
<1>4. Len(queue) \in Nat
  BY <1>1, LenProperties
<1>5. /\ Len(queue') = 1 + Len(queue)
      /\ \A i \in 1 .. 1 + Len(queue) : queue'[i] = IF i <= 1 THEN <<job>>[i] ELSE queue[i - 1]
  BY <1>1, <1>2, <1>3, ConcatProperties
<1> QED BY <1>3, <1>4, <1>5

\* A job at the right end.
LEMMA EnqueueRight ==
  ASSUME Typed, NEW job \in Jobs, Enqueue(job), job.op \notin {"created", "deleted"}
  PROVE  /\ Len(queue) \in Nat /\ Len(queue') = Len(queue) + 1
         /\ queue'[Len(queue) + 1] = job
         /\ \A i \in 1 .. Len(queue) : queue'[i] = queue[i]
<1>1. queue \in Seq(Jobs)
  BY DEF Typed, TypeOK
<1>2. queue' = Append(queue, job)
  BY DEF Enqueue
<1> QED BY <1>1, <1>2, AppendProperties, LenProperties

LEMMA QueueTyped ==
  ASSUME Typed
  PROVE  Len(queue) \in Nat /\ \A i \in 1 .. Len(queue) : queue[i] \in Jobs
<1>1. queue \in Seq(Jobs)
  BY DEF Typed, TypeOK
<1> QED BY <1>1, LenProperties, ElementOfSeq

\* What is queued after a job is added.
LEMMA EnqueueQueues ==
  ASSUME Typed, NEW job \in Jobs, Enqueue(job)
  PROVE  /\ \A other : Queued(other)' <=> Queued(other) \/ other = job
         /\ job.op # "init" => (InitQueued' <=> InitQueued)
<1>1. CASE job.op \in {"created", "deleted"}
  <2>1. ASSUME NEW i \in 1 .. Len(queue')
        PROVE  queue'[i] = job \/ \E j \in 1 .. Len(queue) : queue'[i] = queue[j]
    <3>1. i = 1 \/ i \in 2 .. Len(queue')
      BY <1>1, EnqueueLeft
    <3> QED BY <1>1, <3>1, EnqueueLeft
  <2>2. 1 \in 1 .. Len(queue') /\ queue'[1] = job
    BY <1>1, EnqueueLeft
  <2>3. \A j \in 1 .. Len(queue) : \E i \in 1 .. Len(queue') : queue'[i] = queue[j]
    <3> SUFFICES ASSUME NEW j \in 1 .. Len(queue)
                 PROVE  \E i \in 1 .. Len(queue') : queue'[i] = queue[j]
      OBVIOUS
    <3>1. j + 1 \in 1 .. Len(queue') /\ queue'[j + 1] = queue[j]
      BY <1>1, EnqueueLeft
    <3> QED BY <3>1
  <2> QED BY <2>1, <2>2, <2>3 DEF Queued, InitQueued
<1>2. CASE job.op \notin {"created", "deleted"}
  <2>1. ASSUME NEW i \in 1 .. Len(queue')
        PROVE  queue'[i] = job \/ \E j \in 1 .. Len(queue) : queue'[i] = queue[j]
    <3>1. i = Len(queue) + 1 \/ i \in 1 .. Len(queue)
      BY <1>2, EnqueueRight
    <3> QED BY <1>2, <3>1, EnqueueRight
  <2>2. Len(queue) + 1 \in 1 .. Len(queue') /\ queue'[Len(queue) + 1] = job
    BY <1>2, EnqueueRight
  <2>3. \A j \in 1 .. Len(queue) : j \in 1 .. Len(queue') /\ queue'[j] = queue[j]
    BY <1>2, EnqueueRight
  <2> QED BY <2>1, <2>2, <2>3 DEF Queued, InitQueued
<1> QED BY <1>1, <1>2

\* A creation is added before there is any other job of the user, a deletion
\* only once: it stays to the left of the creation.
LEMMA EnqueueOrdered ==
  ASSUME Typed, NEW job \in Jobs, Enqueue(job), NEW u \in Users, Ordered(u),
         job = Created(u) => ~Queued(Created(u)) /\ ~Queued(Deleted(u)),
         job = Deleted(u) => ~Queued(Deleted(u))
  PROVE  Ordered(u)'
<1> SUFFICES ASSUME NEW i \in 1 .. Len(queue'), NEW j \in 1 .. Len(queue')
             PROVE  /\ queue'[i] = Created(u) /\ queue'[j] = Created(u) => i = j
                    /\ queue'[i] = Deleted(u) /\ queue'[j] = Deleted(u) => i = j
                    /\ queue'[i] = Created(u) /\ queue'[j] = Deleted(u) => j < i
  BY DEF Ordered, Created, Deleted
<1>0. Created(u) # Deleted(u)
  BY DistinctJobs
<1>1. CASE job.op \in {"created", "deleted"}
  <2>1. \A k \in 1 .. Len(queue') :
          \/ k = 1 /\ queue'[k] = job
          \/ k \in 2 .. Len(queue') /\ k - 1 \in 1 .. Len(queue) /\ queue'[k] = queue[k - 1]
    BY <1>1, EnqueueLeft
  <2>2. Len(queue') \in Nat
    BY <1>1, EnqueueLeft
  <2>3. CASE i = 1 /\ j = 1
    BY <1>0, <2>3
  <2>4. CASE i = 1 /\ j \in 2 .. Len(queue')
    <3>1. queue'[i] = job /\ Queued(queue'[j])
      BY <2>1, <2>2, <2>4 DEF Queued
    <3> QED BY <1>0, <3>1
  <2>5. CASE i \in 2 .. Len(queue') /\ j = 1
    <3>1. queue'[j] = job /\ Queued(queue'[i])
      BY <2>1, <2>2, <2>5 DEF Queued
    <3>2. j < i
      BY <2>2, <2>5
    <3> QED BY <1>0, <3>1, <3>2
  <2>6. CASE i \in 2 .. Len(queue') /\ j \in 2 .. Len(queue')
    <3>1. /\ i - 1 \in 1 .. Len(queue) /\ queue'[i] = queue[i - 1]
          /\ j - 1 \in 1 .. Len(queue) /\ queue'[j] = queue[j - 1]
      BY <2>1, <2>2, <2>6
    <3>2. /\ queue[i - 1] = Created(u) /\ queue[j - 1] = Created(u) => i - 1 = j - 1
          /\ queue[i - 1] = Deleted(u) /\ queue[j - 1] = Deleted(u) => i - 1 = j - 1
          /\ queue[i - 1] = Created(u) /\ queue[j - 1] = Deleted(u) => j - 1 < i - 1
      BY <3>1 DEF Ordered
    <3>3. i \in Int /\ j \in Int
      BY <2>2
    <3> QED BY <3>1, <3>2, <3>3
  <2> QED BY <2>1, <2>3, <2>4, <2>5, <2>6
<1>2. CASE job.op \notin {"created", "deleted"}
  <2>1. job # Created(u) /\ job # Deleted(u)
    BY <1>2 DEF Created, Deleted, Job
  <2>2. \A k \in 1 .. Len(queue') :
          queue'[k] = job \/ (k \in 1 .. Len(queue) /\ queue'[k] = queue[k])
    BY <1>2, EnqueueRight
  <2> QED BY <2>1, <2>2 DEF Ordered
<1> QED BY <1>1, <1>2

LEMMA EnqueueInitOnce ==
  ASSUME Typed, OneInit, NEW job \in Jobs, Enqueue(job), job.op # "init"
  PROVE  \A i, j \in 1 .. Len(queue') :
           queue'[i].op = "init" /\ queue'[j].op = "init" => i = j
<1> SUFFICES ASSUME NEW i \in 1 .. Len(queue'), NEW j \in 1 .. Len(queue'),
                    queue'[i].op = "init", queue'[j].op = "init"
             PROVE  i = j
  OBVIOUS
<1>1. CASE job.op \in {"created", "deleted"}
  <2>1. \A k \in 1 .. Len(queue') :
          \/ k = 1 /\ queue'[k] = job
          \/ k \in Int /\ k - 1 \in 1 .. Len(queue) /\ queue'[k] = queue[k - 1]
    BY <1>1, EnqueueLeft
  <2>2. i - 1 = j - 1 /\ i \in Int /\ j \in Int
    BY <2>1 DEF OneInit
  <2> QED BY <2>2
<1>2. CASE job.op \notin {"created", "deleted"}
  <2>1. \A k \in 1 .. Len(queue') :
          queue'[k] = job \/ (k \in 1 .. Len(queue) /\ queue'[k] = queue[k])
    BY <1>2, EnqueueRight
  <2> QED BY <2>1 DEF OneInit
<1> QED BY <1>1, <1>2

\* What is queued after the job at the right end is taken.
LEMMA TakeQueue ==
  ASSUME Typed, NEW s \in Loops, Take(s), NEW job, job = queue[Len(queue)]
  PROVE  /\ job \in Jobs
         /\ \A other : Queued(other) <=> Queued(other)' \/ other = job
         /\ InitQueued <=> InitQueued' \/ job.op = "init"
         /\ Len(queue) \in 1 .. Len(queue)
         /\ Len(queue') = Len(queue) - 1
         /\ \A i \in 1 .. Len(queue') : i \in 1 .. Len(queue) /\ i < Len(queue) /\ queue'[i] = queue[i]
<1>1. queue \in Seq(Jobs) /\ queue # <<>>
  BY DEF Typed, TypeOK, Take
<1>2. Len(queue) \in Nat \ {0}
  BY <1>1, EmptySeq
<1>3. \A i \in 1 .. Len(queue) : queue[i] \in Jobs
  BY <1>1, ElementOfSeq
<1>4. job \in Jobs /\ Len(queue) \in 1 .. Len(queue)
  BY <1>2, <1>3
<1>5. queue' = SubSeq(queue, 1, Len(queue) - 1)
  BY DEF Take
<1>6. 1 \in Int /\ Len(queue) - 1 \in Int /\ \A i \in 1 .. Len(queue) - 1 : queue[i] \in Jobs
  BY <1>2, <1>3
<1>7. /\ Len(queue') = IF 1 <= Len(queue) - 1 THEN Len(queue) - 1 - 1 + 1 ELSE 0
      /\ \A i \in 1 .. Len(queue) - 1 - 1 + 1 : queue'[i] = queue[1 + i - 1]
  BY <1>5, <1>6, SubSeqProperties
<1>8. Len(queue') = Len(queue) - 1
  <2>1. Len(queue') = IF 1 <= Len(queue) - 1 THEN Len(queue) - 1 - 1 + 1 ELSE 0
    BY <1>7
  <2>2. ASSUME NEW n \in Nat \ {0}
        PROVE  (IF 1 <= n - 1 THEN n - 1 - 1 + 1 ELSE 0) = n - 1
    OBVIOUS
  <2> QED BY <1>2, <2>1, <2>2
<1>9. \A i \in 1 .. Len(queue') : i \in 1 .. Len(queue) /\ i < Len(queue) /\ queue'[i] = queue[i]
  BY <1>2, <1>7, <1>8
<1>10. \A i \in 1 .. Len(queue) : i = Len(queue) \/ (i \in 1 .. Len(queue') /\ queue'[i] = queue[i])
  BY <1>2, <1>8, <1>9
<1> QED BY <1>4, <1>8, <1>9, <1>10 DEF Queued, InitQueued

\* What is taken is queued no more; a deletion is taken after the creation.
LEMMA TakeOrdered ==
  ASSUME Typed, NEW s \in Loops, Take(s), NEW u \in Users, Ordered(u),
         NEW job, job = queue[Len(queue)]
  PROVE  /\ Ordered(u)'
         /\ job = Created(u) => ~Queued(Created(u))'
         /\ job = Deleted(u) => ~Queued(Deleted(u))' /\ ~Queued(Created(u))
<1>1. /\ Len(queue) \in 1 .. Len(queue)
      /\ \A i \in 1 .. Len(queue') :
           i \in 1 .. Len(queue) /\ i < Len(queue) /\ queue'[i] = queue[i]
  BY TakeQueue
<1>2. Ordered(u)'
  BY <1>1 DEF Ordered, Created, Deleted
<1>3. ASSUME NEW i \in 1 .. Len(queue')
      PROVE  i # Len(queue) /\ i \in 1 .. Len(queue) /\ queue'[i] = queue[i]
  BY <1>1, QueueTyped
<1>4. /\ job = Created(u) => ~Queued(Created(u))'
      /\ job = Deleted(u) => ~Queued(Deleted(u))'
  BY <1>1, <1>3 DEF Ordered, Queued, Created, Deleted
<1>5. job = Deleted(u) => ~Queued(Created(u))
  <2> SUFFICES ASSUME job = Deleted(u), NEW i \in 1 .. Len(queue), queue[i] = Created(u)
               PROVE  FALSE
    BY DEF Queued
  <2>1. Len(queue) < i
    BY <1>1 DEF Ordered
  <2> QED BY <2>1, QueueTyped
<1> QED BY <1>2, <1>4, <1>5

-----------------------------------------------------------------------------
(* Jobs, loops and INIT keep their form.                                   *)

LEMMA PendingInit == InitPending <=> InitQueued \/ \E s \in Loops : AtInit(s)
  BY DEF InitPending, InitQueued, AtInit

LEMMA InitComesPending ==
  ASSUME Typed, OneInit, NEW u \in Users, InitComes(u)
  PROVE  InitPending
<1>1. \A s \in Loops : jobs[s] \in {"init", "initEach"} => AtInit(s)
  BY DEF AtInit
<1> QED BY <1>1, PendingInit DEF InitComes, OneInit, Running

\* Outside steps change no loop, and queue a job of one kind at a time.
LEMMA OutsideSteps ==
  ASSUME WellFormed, MainApp \/ \E job \in unsent : Send(job)
  PROVE  /\ UNCHANGED <<jobs, todo, tasks, docs>>
         /\ disturbed \subseteq disturbed'
         /\ \/ queue' = queue
            \/ \E job \in Jobs :
                 /\ Enqueue(job) /\ job.op # "init"
                 /\ job.op \in {"created", "deleted"}
                      => \E u \in Users : job = Job(job.op, {u})
         /\ \A job \in unsent' \ unsent :
              /\ job.op \notin {"deleted", "init"}
              /\ job.op = "created" => \E u \in Users : job = Created(u)
<1> USE DEF working, Disturb
<1>0. \A u \in Users, op \in Ops \ {"init"} :
        Job(op, {u}) \in Jobs /\ Job(op, {u}).op = op
  BY JobType, DistinctJobs
<1>1. ASSUME NEW u \in Users, Register(u) \/ MailFails(u) \/ UpdateProfile(u)
      PROVE  /\ UNCHANGED <<jobs, todo, tasks, docs, queue>>
             /\ disturbed \subseteq disturbed'
             /\ unsent' \ unsent \subseteq {Created(u), Job("province", {u})}
  BY <1>1 DEF Register, MailFails, UpdateProfile, Created
<1>2. ASSUME NEW u \in Users, SaveInterests(u) \/ SoftDelete(u)
      PROVE  /\ UNCHANGED <<jobs, todo, tasks, docs, queue>>
             /\ disturbed \subseteq disturbed'
             /\ unsent' \ unsent = {}
  BY <1>2 DEF SaveInterests, SoftDelete
<1>3. ASSUME NEW u \in Users, NEW v \in Users, ChangeFriendship(u, v)
      PROVE  /\ UNCHANGED <<jobs, todo, tasks, docs, queue>>
             /\ disturbed \subseteq disturbed'
             /\ unsent' \ unsent \subseteq {Job("mutualCount", {u, v})}
  BY <1>3 DEF ChangeFriendship
<1>4. ASSUME NEW u \in Users, ChangeInterests(u)
      PROVE  /\ UNCHANGED <<jobs, todo, tasks, docs>>
             /\ disturbed \subseteq disturbed'
             /\ Enqueue(Job("commonInterest", {u}))
             /\ unsent' \ unsent = {}
  BY <1>4 DEF ChangeInterests
<1>5. ASSUME NEW u \in Users, Delete(u)
      PROVE  /\ UNCHANGED <<jobs, todo, tasks, docs>>
             /\ disturbed \subseteq disturbed'
             /\ Enqueue(Job("deleted", {u}))
             /\ unsent' \ unsent = {}
  BY <1>5 DEF Delete
<1>6. ASSUME NEW job \in unsent, Send(job)
      PROVE  /\ UNCHANGED <<jobs, todo, tasks, docs>>
             /\ disturbed \subseteq disturbed'
             /\ Enqueue(job) /\ job \in Jobs /\ job.op \notin {"init", "deleted"}
             /\ job.op = "created" => \E u \in Users : job = Job(job.op, {u})
             /\ unsent' \ unsent = {}
  <2>1. job \in Jobs /\ job.op \notin {"init", "deleted"}
    BY DEF WellFormed, Typed, TypeOK, JobsOfOne
  <2>2. job.op = "created" => \E u \in Users : job = Job(job.op, {u})
    BY DEF WellFormed, JobsOfOne, Created
  <2>3. Enqueue(job) /\ unsent' \ unsent = {} /\ UNCHANGED <<jobs, todo, tasks, docs>>
        /\ disturbed \subseteq disturbed'
    BY <1>6 DEF Send
  <2> QED BY <2>1, <2>2, <2>3
<1>7. /\ \A u : Created(u).op = "created"
      /\ \A users : Job("mutualCount", users).op = "mutualCount"
      /\ \A users : Job("province", users).op = "province"
  BY DEF Created, Job
<1>8. "commonInterest" \in Ops \ {"init"} /\ "deleted" \in Ops \ {"init"}
  BY DEF Ops, Kinds
<1>9. CASE MainApp
  <2>1. PICK u \in Users :
          \/ Register(u) \/ MailFails(u) \/ UpdateProfile(u) \/ ChangeInterests(u)
          \/ Delete(u) \/ SaveInterests(u) \/ SoftDelete(u)
          \/ \E v \in Users : ChangeFriendship(u, v)
    BY <1>9 DEF MainApp
  <2>2. CASE Register(u) \/ MailFails(u) \/ UpdateProfile(u)
    BY <1>1, <1>7, <2>2
  <2>3. CASE ChangeInterests(u)
    BY <1>0, <1>4, <1>8, <2>3
  <2>4. CASE Delete(u)
    BY <1>0, <1>5, <1>8, <2>4
  <2>5. CASE SaveInterests(u) \/ SoftDelete(u)
    BY <1>2, <2>5
  <2>6. CASE \E v \in Users : ChangeFriendship(u, v)
    BY <1>3, <1>7, <2>6
  <2> QED BY <2>1, <2>2, <2>3, <2>4, <2>5, <2>6
<1>10. CASE \E job \in unsent : Send(job)
  BY <1>6, <1>10
<1> QED BY <1>9, <1>10

LEMMA OutsideFormed ==
  ASSUME WellFormed, MainApp \/ \E job \in unsent : Send(job)
  PROVE  JobsOfOne' /\ TasksOfJobs' /\ OneInit'
<1>0. UNCHANGED <<jobs, todo, tasks>>
  BY OutsideSteps
<1>1. TasksOfJobs'
  BY <1>0 DEF WellFormed, TasksOfJobs
<1>2. \A job \in unsent' :
        /\ job.op \notin {"deleted", "init"}
        /\ job.op = "created" => \E u \in Users : job = Created(u)
  BY OutsideSteps DEF WellFormed, JobsOfOne
<1>3. CASE queue' = queue
  <2>1. (\A other : Queued(other)' <=> Queued(other)) /\ (InitQueued' <=> InitQueued)
    BY <1>3 DEF Queued, InitQueued
  <2>2. JobsOfOne'
    BY <1>2, <2>1 DEF WellFormed, JobsOfOne, Created
  <2>3. OneInit'
    BY <1>0, <1>3, <2>1 DEF WellFormed, OneInit, AtInit
  <2> QED BY <1>1, <2>2, <2>3
<1>4. ASSUME NEW job \in Jobs, Enqueue(job), job.op # "init",
             job.op \in {"created", "deleted"} => \E u \in Users : job = Job(job.op, {u})
      PROVE  JobsOfOne' /\ OneInit'
  <2>1. (\A other : Queued(other)' <=> Queued(other) \/ other = job)
        /\ (InitQueued' <=> InitQueued)
    BY <1>4, EnqueueQueues DEF WellFormed
  <2>2. JobsOfOne'
    BY <1>2, <1>4, <2>1 DEF WellFormed, JobsOfOne, Created
  <2>3. \A i, j \in 1 .. Len(queue') :
          queue'[i].op = "init" /\ queue'[j].op = "init" => i = j
    BY <1>4, EnqueueInitOnce DEF WellFormed
  <2>4. OneInit'
    BY <1>0, <2>1, <2>3 DEF WellFormed, OneInit, AtInit
  <2> QED BY <2>2, <2>4
<1> QED BY <1>1, <1>3, <1>4, OutsideSteps

\* What Take does, in terms of the job taken.
LEMMA TakeDoes ==
  ASSUME WellFormed, NEW s \in Loops, Take(s), NEW job, job = queue[Len(queue)]
  PROVE  /\ jobs[s] = "idle" /\ jobs' = [jobs EXCEPT ![s] = job.op]
         /\ \A t \in Loops, u \in Users :
              tasks'[t][u] = IF t # s THEN tasks[t][u]
                             ELSE IF u \in job.users
                             THEN [phase |-> FirstPhase(job.op), got |-> {}] ELSE NoTask
         /\ \A t \in Loops : jobs'[t] = IF t = s THEN job.op ELSE jobs[t]
         /\ disturbed' = disturbed \cup {u \in job.users : InFlight(u)}
         /\ UNCHANGED <<account, source, unsent, unsaved, changes, unannounced,
                        todo, docs, early>>
         /\ job.op \in Ops /\ job.users \subseteq Users
         /\ job.op = "init" => job.users = {}
         /\ job.op \in {"created", "deleted"} =>
              \E u \in Users : job = Job(job.op, {u}) /\ job.users = {u}
<1>1. /\ jobs[s] = "idle" /\ jobs' = [jobs EXCEPT ![s] = job.op]
      /\ tasks' = [tasks EXCEPT ![s] = [u \in Users |->
           IF u \in job.users THEN [phase |-> FirstPhase(job.op), got |-> {}] ELSE NoTask]]
      /\ disturbed' = disturbed \cup {u \in job.users : InFlight(u)}
      /\ UNCHANGED <<account, source, unsent, unsaved, changes, unannounced,
                     todo, docs, early>>
  BY DEF Take, Disturb, main_app
<1>2. job \in Jobs /\ Queued(job)
  BY TakeQueue DEF WellFormed, Queued
<1>3. job.op \in Ops /\ job.users \subseteq Users /\ (job.op = "init" => job.users = {})
  BY <1>2 DEF Jobs, Job, Ops
<1>4. job.op \in {"created", "deleted"} =>
        \E u \in Users : job = Job(job.op, {u}) /\ job.users = {u}
  <2> SUFFICES ASSUME job.op \in {"created", "deleted"}
               PROVE  \E u \in Users : job = Job(job.op, {u}) /\ job.users = {u}
    OBVIOUS
  <2>1. PICK u \in Users : job = Job(job.op, {u})
    BY <1>2 DEF WellFormed, JobsOfOne
  <2>2. Job(job.op, {u}).users = {u}
    BY DEF Job
  <2> QED BY <2>1, <2>2
<1>5. tasks \in [Loops -> [Users -> Task]] /\ jobs \in [Loops -> Ops \cup {"idle", "initEach"}]
  BY DEF WellFormed, Typed, TypeOK
<1> QED BY <1>1, <1>3, <1>4, <1>5

LEMMA FirstPhases ==
  ASSUME NEW op \in Ops
  PROVE  /\ FirstPhase(op) = "delete" <=> op = "deleted"
         /\ op \in Kinds => FirstPhase(op) = "fetch"
         /\ FirstPhase(op) \in {"generate", "delete", "fetch"}
  BY DEF FirstPhase, Ops, Kinds

LEMMA TakeFormed ==
  ASSUME WellFormed, NEW s \in Loops, Take(s)
  PROVE  JobsOfOne' /\ TasksOfJobs' /\ OneInit'
<1> DEFINE job == queue[Len(queue)]
<1>1. /\ job \in Jobs
      /\ \A other : Queued(other) <=> Queued(other)' \/ other = job
      /\ InitQueued <=> InitQueued' \/ job.op = "init"
      /\ Len(queue) \in 1 .. Len(queue)
      /\ \A i \in 1 .. Len(queue') : i \in 1 .. Len(queue) /\ i < Len(queue) /\ queue'[i] = queue[i]
  BY TakeQueue DEF WellFormed
<1>2. /\ jobs[s] = "idle" 
      /\ \A t \in Loops, u \in Users :
           tasks'[t][u] = IF t # s THEN tasks[t][u]
                          ELSE IF u \in job.users
                          THEN [phase |-> FirstPhase(job.op), got |-> {}] ELSE NoTask
      /\ \A t \in Loops : jobs'[t] = IF t = s THEN job.op ELSE jobs[t]
      /\ UNCHANGED <<unsent, todo>>
      /\ job.op \in Ops
      /\ job.op = "init" => job.users = {}
  BY TakeDoes
<1>3. job = queue[Len(queue)]
  OBVIOUS
<1> HIDE DEF job
<1>4. JobsOfOne'
  BY <1>1, <1>2 DEF WellFormed, JobsOfOne, Created
<1>5. TasksOfJobs'
  <2> SUFFICES ASSUME NEW t \in Loops, NEW u \in Users, tasks'[t][u] # NoTask
               PROVE  /\ jobs'[t] \notin {"idle", "init"}
                      /\ jobs'[t] = "deleted" <=> tasks'[t][u].phase = "delete"
    BY DEF TasksOfJobs
  <2>1. CASE t = s
    <3>1. u \in job.users /\ tasks'[t][u].phase = FirstPhase(job.op) /\ jobs'[t] = job.op
      BY <1>2, <2>1
    <3>2. job.op # "init" /\ job.op # "idle"
      BY <1>2, <3>1 DEF Ops, Kinds
    <3> QED BY <1>2, <3>1, <3>2, FirstPhases
  <2>2. CASE t # s
    BY <1>2, <2>2 DEF WellFormed, TasksOfJobs
  <2> QED BY <2>1, <2>2
<1>6. OneInit'
  <2>1. job.op = "init" => ~InitQueued'
    <3> SUFFICES ASSUME job.op = "init", NEW i \in 1 .. Len(queue'), queue'[i].op = "init"
                 PROVE  FALSE
      BY DEF InitQueued
    <3>1. i = Len(queue) /\ i < Len(queue)
      BY <1>1, <1>3 DEF WellFormed, OneInit
    <3> QED BY <3>1, QueueTyped DEF WellFormed
  <2>2. \A i, j \in 1 .. Len(queue') : queue'[i].op = "init" /\ queue'[j].op = "init" => i = j
    BY <1>1 DEF WellFormed, OneInit
  <2>3. job.op # "initEach"
    BY <1>2 DEF Ops, Kinds
  <2>4. \A t \in Loops : AtInit(t)' <=> IF t = s THEN job.op = "init" ELSE AtInit(t)
    BY <1>2, <2>3 DEF AtInit
  <2>5. job.op = "init" => \A t \in Loops : ~AtInit(t)
    BY <1>1 DEF WellFormed, OneInit
  <2>6. \A t, r \in Loops : AtInit(t)' /\ AtInit(r)' => t = r
    BY <2>4, <2>5 DEF WellFormed, OneInit
  <2>7. \A t \in Loops : AtInit(t)' => ~InitQueued'
    BY <1>1, <2>1, <2>4 DEF WellFormed, OneInit
  <2>8. todo' # {} => \E t \in Loops : jobs'[t] = "initEach"
    BY <1>2 DEF WellFormed, OneInit
  <2> QED BY <2>2, <2>6, <2>7, <2>8 DEF OneInit
<1> QED BY <1>4, <1>5, <1>6

\* The two ways a step moves its task; the others stay where they are.
Ends(s, u) ==
  /\ tasks'[s][u] = NoTask
  /\ \A t \in Loops :
       \/ jobs'[t] = jobs[t]
       \/ /\ t = s /\ jobs'[t] = "idle" /\ jobs[t] # "initEach"
          /\ \A v \in Users \ {u} : tasks[t][v] = NoTask

Goes(s, u) ==
  /\ tasks'[s][u].phase \in {"check", "pull", "push", "generate", "mutual", "interest", "store"}
  /\ jobs' = jobs
  /\ tasks[s][u].phase # "delete"

LEMMA EndEnds ==
  ASSUME Typed, NEW s \in Loops, NEW u \in Users, End(s, u)
  PROVE  Ends(s, u)
<1>1. tasks'[s][u] = NoTask
  BY DEF End, Typed, TypeOK
<1>2. \/ jobs' = jobs
      \/ /\ jobs' = [jobs EXCEPT ![s] = "idle"] /\ jobs[s] # "initEach"
         /\ \A v \in Users \ {u} : tasks[s][v] = NoTask
  BY DEF End
<1>3. jobs \in [Loops -> Ops \cup {"idle", "initEach"}]
  BY DEF Typed, TypeOK
<1> QED BY <1>1, <1>2, <1>3 DEF Ends

LEMMA GoGoes ==
  ASSUME Typed, NEW s \in Loops, NEW u \in Users, NEW phase, NEW got, Go(s, u, phase, got),
         phase \in {"check", "pull", "push", "generate", "mutual", "interest", "store"},
         tasks[s][u].phase # "delete"
  PROVE  Goes(s, u) /\ tasks'[s][u] = [phase |-> phase, got |-> got]
<1>1. tasks'[s][u] = [phase |-> phase, got |-> got] /\ jobs' = jobs
  BY DEF Go, Typed, TypeOK
<1> QED BY <1>1 DEF Goes

LEMMA WorkDoes ==
  ASSUME WellFormed, NEW s \in Loops, NEW u \in Users, Work(s, u)
  PROVE  /\ tasks[s][u] # NoTask
         /\ \A t \in Loops, v \in Users : t # s \/ v # u => tasks'[t][v] = tasks[t][v]
         /\ Ends(s, u) \/ Goes(s, u)
         /\ UNCHANGED <<account, source, unsent, unsaved, changes, unannounced, queue,
                        todo, early, disturbed>>
<1>1. tasks[s][u] # NoTask
  BY TaskMoves DEF WellFormed
<1>2. PICK task : tasks' = [tasks EXCEPT ![s][u] = task]
  BY TaskMoves DEF WellFormed
<1>3. \A t \in Loops, v \in Users : t # s \/ v # u => tasks'[t][v] = tasks[t][v]
  BY <1>2 DEF WellFormed, Typed, TypeOK
<1>4. \/ End(s, u)
      \/ \E phase \in {"check", "pull", "push", "generate", "mutual", "interest", "store"} : \E got :
           Go(s, u, phase, got) /\ tasks[s][u].phase # "delete"
  BY DEF Work, Fetch, Check, Pull, Push, Generate, GenerateMutual,
         GenerateInterest, Store, DeleteDoc, At
<1>5. Ends(s, u) \/ Goes(s, u)
  BY <1>4, EndEnds, GoGoes DEF WellFormed
<1>6. UNCHANGED <<main_app, queue, early, disturbed>>
  BY DEF Work, Fetch, Check, Pull, Push, Generate, GenerateMutual,
         GenerateInterest, Store, DeleteDoc
<1>7. todo' = todo
  BY <1>4 DEF End, Go
<1> QED BY <1>1, <1>3, <1>5, <1>6, <1>7 DEF main_app

\* The loops at INIT stay there, and so does the job of any other user's task.
LEMMA WorkLoops ==
  ASSUME WellFormed, NEW s \in Loops, NEW u \in Users, Work(s, u)
  PROVE  /\ \A t \in Loops : (jobs'[t] = "init") = (jobs[t] = "init")
         /\ \A t \in Loops : (jobs'[t] = "initEach") = (jobs[t] = "initEach")
         /\ \A t \in Loops, v \in Users : tasks[t][v] # NoTask /\ (t # s \/ v # u)
                                            => jobs'[t] = jobs[t]
<1>1. jobs[s] # "init"
  BY WorkDoes DEF WellFormed, TasksOfJobs
<1>2. \A t \in Loops :
        \/ jobs'[t] = jobs[t]
        \/ /\ t = s /\ jobs'[t] = "idle" /\ jobs[t] # "initEach"
           /\ \A v \in Users \ {u} : tasks[t][v] = NoTask
  BY WorkDoes DEF Ends, Goes
<1> QED BY <1>1, <1>2

LEMMA WorkFormed ==
  ASSUME WellFormed, NEW s \in Loops, NEW u \in Users, Work(s, u)
  PROVE  JobsOfOne' /\ TasksOfJobs' /\ OneInit'
<1>1. UNCHANGED <<unsent, queue, todo>>
  BY WorkDoes
<1>2. JobsOfOne'
  BY <1>1 DEF WellFormed, JobsOfOne, Queued, Created
<1>3. \A t \in Loops : AtInit(t)' <=> AtInit(t)
  BY WorkLoops DEF AtInit
<1>4. InitQueued' <=> InitQueued
  BY <1>1 DEF InitQueued
<1>5. OneInit'
  <2>1. \A i, j \in 1 .. Len(queue') : queue'[i].op = "init" /\ queue'[j].op = "init" => i = j
    BY <1>1 DEF WellFormed, OneInit
  <2>2. todo' # {} => \E t \in Loops : jobs'[t] = "initEach"
    BY <1>1, WorkLoops DEF WellFormed, OneInit
  <2> QED BY <1>3, <1>4, <2>1, <2>2 DEF WellFormed, OneInit
<1>6. TasksOfJobs'
  <2> SUFFICES ASSUME NEW t \in Loops, NEW v \in Users, tasks'[t][v] # NoTask
               PROVE  /\ jobs'[t] \notin {"idle", "init"}
                      /\ jobs'[t] = "deleted" <=> tasks'[t][v].phase = "delete"
    BY DEF TasksOfJobs
  <2>1. CASE t # s \/ v # u
    <3>1. tasks'[t][v] = tasks[t][v]
      BY <2>1, WorkDoes
    <3>2. jobs'[t] = jobs[t]
      BY <2>1, <3>1, WorkLoops
    <3> QED BY <3>1, <3>2 DEF WellFormed, TasksOfJobs
  <2>2. CASE t = s /\ v = u
    <3>1. Goes(s, u)
      BY <2>2, WorkDoes DEF Ends
    <3>2. tasks[s][u] # NoTask
      BY WorkDoes
    <3> QED BY <2>2, <3>1, <3>2 DEF Goes, WellFormed, TasksOfJobs
  <2> QED BY <2>1, <2>2
<1> QED BY <1>2, <1>5, <1>6

LEMMA InitFormed ==
  ASSUME WellFormed, NEW s \in Loops, InitRead(s) \/ InitNext(s)
  PROVE  JobsOfOne' /\ TasksOfJobs' /\ OneInit'
<1>1. UNCHANGED <<unsent, queue>>
  BY DEF InitRead, InitNext, main_app
<1>2. JobsOfOne'
  BY <1>1 DEF WellFormed, JobsOfOne, Queued, Created
<1>3. InitQueued' <=> InitQueued
  BY <1>1 DEF InitQueued
<1>4. /\ jobs \in [Loops -> Ops \cup {"idle", "initEach"}]
      /\ tasks \in [Loops -> [Users -> Task]]
      /\ todo \subseteq Users
  BY DEF WellFormed, Typed, TypeOK
<1>5. \A i, j \in 1 .. Len(queue') : queue'[i].op = "init" /\ queue'[j].op = "init" => i = j
  BY <1>1 DEF WellFormed, OneInit
<1>6. CASE InitRead(s)
  <2>1. /\ jobs[s] = "init" /\ tasks' = tasks
        /\ \A t \in Loops : jobs'[t] = IF t = s THEN "initEach" ELSE jobs[t]
    BY <1>4, <1>6 DEF InitRead
  <2>2. \A t \in Loops : AtInit(t)' <=> AtInit(t)
    BY <2>1 DEF AtInit
  <2>3. TasksOfJobs'
    BY <2>1 DEF WellFormed, TasksOfJobs
  <2>4. OneInit'
    BY <1>3, <1>5, <2>1, <2>2 DEF WellFormed, OneInit
  <2> QED BY <1>2, <2>3, <2>4
<1>7. ASSUME NEW u \in todo, jobs[s] = "initEach", todo' = todo \ {u}, jobs' = jobs,
             tasks' = [tasks EXCEPT ![s][u] = [phase |-> "generate", got |-> {}]]
      PROVE  TasksOfJobs' /\ OneInit'
  <2>1. \A t \in Loops : AtInit(t)' <=> AtInit(t)
    BY <1>7 DEF AtInit
  <2>2. OneInit'
    BY <1>3, <1>5, <1>7, <2>1 DEF WellFormed, OneInit
  <2>3. u \in Users
    BY <1>4
  <2>4. \A t \in Loops, v \in Users :
          tasks'[t][v] = IF t = s /\ v = u THEN [phase |-> "generate", got |-> {}]
                                           ELSE tasks[t][v]
    BY <1>4, <1>7, <2>3
  <2>5. TasksOfJobs'
    BY <1>7, <2>4 DEF WellFormed, TasksOfJobs
  <2> QED BY <2>2, <2>5
<1>8. CASE /\ jobs[s] = "initEach" /\ todo = {}
           /\ \A u \in Users : tasks[s][u] = NoTask
           /\ jobs' = [jobs EXCEPT ![s] = "idle"]
           /\ UNCHANGED <<todo, tasks>>
  <2>1. \A t \in Loops : jobs'[t] = IF t = s THEN "idle" ELSE jobs[t]
    BY <1>4, <1>8
  <2>2. \A t \in Loops : AtInit(t)' => AtInit(t)
    BY <2>1 DEF AtInit
  <2>3. TasksOfJobs'
    BY <1>8, <2>1 DEF WellFormed, TasksOfJobs
  <2>4. OneInit'
    BY <1>3, <1>5, <1>8, <2>2 DEF WellFormed, OneInit
  <2> QED BY <1>2, <2>3, <2>4
<1> QED BY <1>2, <1>6, <1>7, <1>8 DEF InitNext

LEMMA NextFormed == WellFormed /\ [Next]_vars => WellFormed'
<1> SUFFICES ASSUME WellFormed, [Next]_vars PROVE WellFormed'
  OBVIOUS
<1>1. Typed' /\ OneAtATime'
  BY NextTyped, NextOneAtATime DEF WellFormed
<1>2. CASE UNCHANGED vars
  <2>1. UNCHANGED <<unsent, queue, todo, jobs, tasks>>
    BY <1>2 DEF vars, main_app, working
  <2>2. JobsOfOne' /\ TasksOfJobs' /\ OneInit'
    BY <2>1 DEF WellFormed, JobsOfOne, TasksOfJobs, OneInit, Queued, InitQueued, AtInit, Created
  <2> QED BY <1>1, <2>2 DEF WellFormed
<1>3. CASE Next
  <2>1. JobsOfOne' /\ TasksOfJobs' /\ OneInit'
    BY <1>3, OutsideFormed, TakeFormed, WorkFormed, InitFormed DEF Next, Loop
  <2> QED BY <1>1, <2>1 DEF WellFormed
<1> QED BY <1>2, <1>3

LEMMA InitWellFormed == Init => WellFormed
<1> SUFFICES ASSUME Init PROVE WellFormed
  OBVIOUS
<1>1. queue = <<>> \/ queue = <<Job("init", {})>>
  BY DEF Init
<1>2. Job("init", {}).op = "init"
  BY DEF Job
<1>3. \A i \in 1 .. Len(queue) : i = 1 /\ queue[i].op = "init"
  <2>1. CASE queue = <<>>
    BY <2>1
  <2>2. CASE queue = <<Job("init", {})>>
    <3>1. Len(queue) = 1 /\ queue[1] = Job("init", {})
      BY <2>2
    <3> QED BY <1>2, <3>1
  <2> QED BY <1>1, <2>1, <2>2
<1>4. JobsOfOne
  BY <1>3 DEF Init, JobsOfOne, Queued
<1>5. TasksOfJobs /\ OneInit
  BY <1>3 DEF Init, TasksOfJobs, OneInit, AtInit
<1> QED BY <1>4, <1>5, InitTyped, InitOneAtATime DEF WellFormed

-----------------------------------------------------------------------------
(* The list of each user is counted right.                                 *)

\* A step that changes nothing the list of this user is counted from.
SameFor(u) ==
  /\ account'[u] = account[u]
  /\ u \in unannounced' <=> u \in unannounced
  /\ Created(u) \in unsent' <=> Created(u) \in unsent
  /\ Deleted(u) \in unsaved' <=> Deleted(u) \in unsaved
  /\ Queued(Created(u))' <=> Queued(Created(u))
  /\ Queued(Deleted(u))' <=> Queued(Deleted(u))
  /\ \A op \in {"created", "deleted"} : Running(op, u)' <=> Running(op, u)
  /\ u \in todo' => u \in todo
  /\ Running("initEach", u)' => Running("initEach", u)
  /\ InitComes(u)' <=> InitComes(u)
  /\ InitPending' => InitPending
  /\ Len(docs'[u]) = Len(docs[u])

LEMMA LifeKept ==
  ASSUME NEW u \in Users, Life(u), SameFor(u), Ordered(u)'
  PROVE  Life(u)'
<1>1. CreationComes(u)' <=> CreationComes(u)
  BY DEF SameFor, CreationComes, Created
<1>2. (Leaving(u)' <=> Leaving(u)) /\ (Asked(u)' <=> Asked(u))
  BY DEF SameFor, Leaving, Asked, Deleted
<1>3. Has(u)' <=> Has(u)
  BY <1>1, <1>2 DEF SameFor, Has
<1>4. OnceEach(u)'
  BY <1>1, <1>2 DEF SameFor, Life, OnceEach, Created, Deleted
<1>5. ListCounted(u)'
  BY <1>3 DEF SameFor, Life, ListCounted
<1> QED BY <1>4, <1>5 DEF Life

\* Outside steps move no loop.
LEMMA LoopsSame ==
  ASSUME UNCHANGED <<jobs, todo, tasks, docs>>, InitQueued' <=> InitQueued
  PROVE  /\ \A u, op : Running(op, u)' <=> Running(op, u)
         /\ \A u : InitComes(u)' <=> InitComes(u)
         /\ InitPending' <=> InitPending
<1>1. \A u, op : Running(op, u)' <=> Running(op, u)
  BY DEF Running
<1>2. \A u : InitComes(u)' <=> InitComes(u)
  BY <1>1 DEF InitComes
<1>3. InitPending' <=> InitPending
  BY DEF InitPending, InitQueued
<1> QED BY <1>1, <1>2, <1>3

\* ... and those that queue nothing leave the queue's facts as they are.
LEMMA QueueSame ==
  ASSUME queue' = queue
  PROVE  /\ \A job : Queued(job)' <=> Queued(job)
         /\ InitQueued' <=> InitQueued
         /\ \A u : Ordered(u) => Ordered(u)'
  BY DEF Queued, InitQueued, Ordered, Created, Deleted

\* The steps of main-app and friend-job, for a user they are not about, ...
LEMMA OtherKept ==
  ASSUME ListsInv, UNCHANGED <<jobs, todo, tasks, docs>>,
         NEW u \in Users, Life(u), Ordered(u)',
         account'[u] = account[u], u \in unannounced' <=> u \in unannounced,
         Created(u) \in unsent' <=> Created(u) \in unsent,
         Deleted(u) \in unsaved' <=> Deleted(u) \in unsaved,
         Queued(Created(u))' <=> Queued(Created(u)),
         Queued(Deleted(u))' <=> Queued(Deleted(u)),
         InitQueued' <=> InitQueued
  PROVE  Life(u)'
<1>1. SameFor(u)
  BY LoopsSame DEF SameFor
<1> QED BY <1>1, LifeKept

LEMMA OtherKeptUnqueued ==
  ASSUME ListsInv, UNCHANGED <<jobs, todo, tasks, docs, queue>>,
         NEW u \in Users, Life(u),
         account'[u] = account[u], u \in unannounced' <=> u \in unannounced,
         Created(u) \in unsent' <=> Created(u) \in unsent,
         Deleted(u) \in unsaved' <=> Deleted(u) \in unsaved
  PROVE  Life(u)'
<1>1. /\ Queued(Created(u))' <=> Queued(Created(u))
      /\ Queued(Deleted(u))' <=> Queued(Deleted(u))
      /\ InitQueued' <=> InitQueued
  BY DEF Queued, InitQueued, Created, Deleted
<1>2. Ordered(u)'
  BY QueueSame DEF Life
<1> QED BY <1>1, <1>2, OtherKept

\* ... and for the user they are about.
LEMMA RegisterLife ==
  ASSUME ListsInv, NEW w \in Users, Register(w), NEW u \in Users \ disturbed'
  PROVE  Life(u)'
<1>0. /\ UNCHANGED <<jobs, todo, tasks, docs, queue, unannounced, unsaved>>
      /\ account[w] = "none" /\ account' = [account EXCEPT ![w] = "active"]
      /\ unsent' = unsent \cup {Created(w)}
      /\ disturbed' = disturbed \cup (IF InitPending THEN {w} ELSE {})
  BY DEF Register, Disturb, working, Created
<1>1. /\ \A job : Queued(job)' <=> Queued(job)
      /\ InitQueued' <=> InitQueued
      /\ Ordered(u) => Ordered(u)'
  BY <1>0, QueueSame
<1>2. u \in Users \ disturbed /\ Life(u)
  BY <1>0 DEF ListsInv
<1>3. account \in [Users -> {"none", "active", "gone"}]
  BY DEF ListsInv, WellFormed, Typed, TypeOK
<1>4. CASE u # w
  <2>1. Created(u) \in unsent' <=> Created(u) \in unsent
    BY <1>0, <1>4, DistinctJobs
  <2>2. account'[u] = account[u]
    BY <1>0, <1>3, <1>4
  <2>3. Deleted(u) \in unsaved' <=> Deleted(u) \in unsaved
    BY <1>0
  <2> QED BY <1>0, <1>2, <2>1, <2>2, <2>3, OtherKeptUnqueued
<1>5. CASE u = w
  <2>1. /\ ~CreationComes(u) /\ ~Leaving(u) /\ ~Asked(u) /\ u \notin unannounced /\ u \notin todo
        /\ ~InitPending /\ ~InitComes(u)
    <3>1. account[u] = "none"
      BY <1>0, <1>5
    <3>2. ~InitPending
      BY <1>0, <1>5
    <3> QED BY <1>2, <3>1, <3>2, InitComesPending DEF Life, OnceEach, ListsInv, WellFormed
  <2>2. (\A op : Running(op, u)' <=> Running(op, u)) /\ ~InitPending' /\ ~InitComes(u)'
    BY <1>0, <1>1, <2>1, LoopsSame
  <2>3. account'[u] = "active" /\ Created(u) \in unsent' /\ ~Asked(u)'
    BY <1>0, <1>3, <1>5, <2>1 DEF Asked, Deleted
  <2>4. OnceEach(u)'
    BY <1>0, <1>1, <2>1, <2>2, <2>3 DEF OnceEach, CreationComes, Leaving, Asked, Created, Deleted
  <2>5. Len(docs[u]) = 0
    BY <1>0, <1>2, <1>5 DEF Life, ListCounted, Has
  <2>6. ~Has(u)'
    BY <2>3 DEF Has, CreationComes, Created
  <2>7. ListCounted(u)'
    BY <1>0, <2>5, <2>6 DEF ListCounted
  <2> QED BY <1>1, <1>2, <2>4, <2>7 DEF Life
<1> QED BY <1>4, <1>5

LEMMA MailFailsLife ==
  ASSUME ListsInv, NEW w \in Users, MailFails(w), NEW u \in Users \ disturbed'
  PROVE  Life(u)'
<1>0. /\ UNCHANGED <<jobs, todo, tasks, docs, queue, unsaved, account>>
      /\ Created(w) \in unsent /\ unsent' = unsent \ {Created(w)}
      /\ unannounced' = unannounced \cup {w}
      /\ disturbed' = disturbed
  BY DEF MailFails, working, Created
<1>1. /\ \A job : Queued(job)' <=> Queued(job)
      /\ InitQueued' <=> InitQueued
      /\ Ordered(u) => Ordered(u)'
  BY <1>0, QueueSame
<1>2. u \in Users \ disturbed /\ Life(u)
  BY <1>0 DEF ListsInv
<1>4. CASE u # w
  <2>1. Created(u) \in unsent' <=> Created(u) \in unsent
    BY <1>0, <1>4, DistinctJobs
  <2>2. u \in unannounced' <=> u \in unannounced
    BY <1>0, <1>4
  <2>3. Deleted(u) \in unsaved' <=> Deleted(u) \in unsaved
    BY <1>0
  <2> QED BY <1>0, <1>2, <2>1, <2>2, <2>3, OtherKeptUnqueued
<1>5. CASE u = w
  <2>1. /\ CreationComes(u) /\ ~Queued(Created(u)) /\ ~Running("created", u)
        /\ ~Leaving(u) /\ ~Asked(u) /\ ~InitPending /\ u \notin todo /\ account[u] # "none"
        /\ ~Running("initEach", u)
    <3>1. Created(u) \in unsent
      BY <1>0, <1>5
    <3>2. ~InitPending
      BY <1>2, <3>1 DEF Life, OnceEach, CreationComes
    <3>3. ~InitComes(u)
      BY <3>2, InitComesPending DEF ListsInv, WellFormed
    <3> QED BY <1>2, <3>1, <3>2, <3>3 DEF Life, OnceEach, CreationComes, InitComes
  <2>2. (\A op : Running(op, u)' <=> Running(op, u)) /\ ~InitPending' /\ ~Running("initEach", u)'
    BY <1>0, <1>1, <2>1, LoopsSame
  <2>3. Created(u) \notin unsent' /\ ~Asked(u)' /\ ~Leaving(u)' /\ ~CreationComes(u)'
    BY <1>0, <1>1, <1>5, <2>1, <2>2 DEF Asked, Leaving, CreationComes, Deleted, Created
  <2>4. OnceEach(u)'
    BY <1>0, <1>2, <2>1, <2>2, <2>3 DEF OnceEach, CreationComes, Leaving, Asked, Created, Deleted
  <2>5. Len(docs[u]) = 0
    BY <1>2, <2>1 DEF Life, ListCounted, Has
  <2>6. ~Has(u)'
    BY <1>0, <1>5 DEF Has
  <2>7. ListCounted(u)'
    BY <1>0, <2>5, <2>6 DEF ListCounted
  <2> QED BY <1>1, <1>2, <2>4, <2>7 DEF Life
<1> QED BY <1>4, <1>5

\* A job that is no creation and no deletion changes no list's count.
LEMMA ChangeQueuedLife ==
  ASSUME ListsInv, NEW job \in Jobs, Enqueue(job), job.op \in Kinds,
         UNCHANGED <<jobs, todo, tasks, docs, account, unannounced>>,
         NEW u \in Users, Life(u),
         Created(u) \in unsent' <=> Created(u) \in unsent,
         Deleted(u) \in unsaved' <=> Deleted(u) \in unsaved
  PROVE  Life(u)'
<1>1. job # Created(u) /\ job # Deleted(u) /\ job.op # "init"
  BY DEF Created, Deleted, Job, Kinds
<1>2. /\ \A other : Queued(other)' <=> Queued(other) \/ other = job
      /\ InitQueued' <=> InitQueued
  BY <1>1, EnqueueQueues DEF ListsInv, WellFormed
<1>3. /\ Queued(Created(u))' <=> Queued(Created(u))
      /\ Queued(Deleted(u))' <=> Queued(Deleted(u))
  BY <1>1, <1>2
<1>4. Ordered(u)'
  BY <1>1, EnqueueOrdered DEF ListsInv, WellFormed, Life
<1> QED BY <1>2, <1>3, <1>4, OtherKept

LEMMA ChangesLife ==
  ASSUME ListsInv, NEW w \in Users, NEW u \in Users \ disturbed',
         \/ UpdateProfile(w) \/ ChangeInterests(w) \/ SaveInterests(w)
         \/ \E v \in Users : ChangeFriendship(w, v)
  PROVE  Life(u)'
<1>0. /\ Job("province", {w}) # Created(u)
      /\ Job("commonInterest", {w}) # Deleted(u)
      /\ \A users : Job("mutualCount", users) # Created(u)
      /\ Job("commonInterest", {w}).op \in Kinds
  BY DEF Created, Deleted, Job, Kinds
<1>1. disturbed' = disturbed /\ UNCHANGED <<jobs, todo, tasks, docs, account, unannounced>>
  BY DEF UpdateProfile, ChangeInterests, SaveInterests, ChangeFriendship, working
<1>2. Life(u)
  BY <1>1 DEF ListsInv
<1>3. CASE UpdateProfile(w)
  <2>1. UNCHANGED <<queue, unsaved>> /\ unsent' = unsent \cup {Job("province", {w})}
    BY <1>3 DEF UpdateProfile
  <2>2. Created(u) \in unsent' <=> Created(u) \in unsent
    BY <1>0, <2>1
  <2> QED BY <1>1, <1>2, <2>1, <2>2, OtherKeptUnqueued
<1>4. CASE ChangeInterests(w)
  <2>1. /\ unsent' = unsent /\ Enqueue(Job("commonInterest", {w}))
        /\ unsaved' = unsaved \cup {Job("commonInterest", {w})}
    BY <1>4 DEF ChangeInterests
  <2>2. Deleted(u) \in unsaved' <=> Deleted(u) \in unsaved
    BY <1>0, <2>1
  <2>3. Job("commonInterest", {w}) \in Jobs
    BY JobType DEF Ops, Kinds
  <2> QED BY <1>0, <1>1, <1>2, <2>1, <2>2, <2>3, ChangeQueuedLife
<1>5. CASE SaveInterests(w)
  <2>1. UNCHANGED <<queue, unsent>> /\ unsaved' = unsaved \ {Job("commonInterest", {w})}
    BY <1>5 DEF SaveInterests
  <2>2. Deleted(u) \in unsaved' <=> Deleted(u) \in unsaved
    BY <1>0, <2>1
  <2> QED BY <1>1, <1>2, <2>1, <2>2, OtherKeptUnqueued
<1>6. ASSUME NEW v \in Users, ChangeFriendship(w, v)
      PROVE  Life(u)'
  <2>1. UNCHANGED <<queue, unsaved>> /\ unsent' = unsent \cup {Job("mutualCount", {w, v})}
    BY <1>6 DEF ChangeFriendship
  <2>2. Created(u) \in unsent' <=> Created(u) \in unsent
    BY <1>0, <2>1
  <2> QED BY <1>1, <1>2, <2>1, <2>2, OtherKeptUnqueued
<1> QED BY <1>3, <1>4, <1>5, <1>6

LEMMA DeleteLife ==
  ASSUME ListsInv, NEW w \in Users, Delete(w), NEW u \in Users \ disturbed'
  PROVE  Life(u)'
<1>0. /\ UNCHANGED <<jobs, todo, tasks, docs, account, unannounced, unsent>>
      /\ account[w] = "active" /\ Deleted(w) \notin unsaved
      /\ Enqueue(Deleted(w)) /\ unsaved' = unsaved \cup {Deleted(w)}
      /\ disturbed' = disturbed \cup (IF InitPending \/ Created(w) \in unsent THEN {w} ELSE {})
  BY DEF Delete, Disturb, working, Created, Deleted
<1>1. Deleted(w) \in Jobs /\ Deleted(w).op = "deleted"
  BY UserJobsTyped DEF Deleted, Job
<1>2. /\ \A other : Queued(other)' <=> Queued(other) \/ other = Deleted(w)
      /\ InitQueued' <=> InitQueued
  BY <1>0, <1>1, EnqueueQueues DEF ListsInv, WellFormed
<1>3. u \in Users \ disturbed /\ Life(u)
  BY <1>0 DEF ListsInv
<1>4. Queued(Created(u))' <=> Queued(Created(u))
  BY <1>2, DistinctJobs
<1>5. CASE u # w
  <2>1. Deleted(u) # Deleted(w) /\ Deleted(w) # Created(u)
    BY <1>5, DistinctJobs
  <2>2. Queued(Deleted(u))' <=> Queued(Deleted(u))
    BY <1>2, <2>1
  <2>3. Ordered(u)'
    BY <1>0, <1>1, <1>3, <2>1, EnqueueOrdered DEF ListsInv, WellFormed, Life
  <2>4. Deleted(u) \in unsaved' <=> Deleted(u) \in unsaved
    BY <1>0, <2>1
  <2>5. account'[u] = account[u] /\ (u \in unannounced' <=> u \in unannounced)
        /\ (Created(u) \in unsent' <=> Created(u) \in unsent)
    BY <1>0
  <2> QED BY <1>0, <1>2, <1>3, <1>4, <2>2, <2>3, <2>4, <2>5, OtherKept
<1>6. CASE u = w
  <2>1. ~InitPending /\ Created(u) \notin unsent /\ ~Asked(u) /\ ~Leaving(u)
    <3>1. ~InitPending /\ Created(u) \notin unsent
      BY <1>0, <1>6
    <3> QED BY <1>0, <1>3, <1>6, <3>1 DEF Life, OnceEach, Asked
  <2>2. (\A op : Running(op, u)' <=> Running(op, u)) /\ (InitComes(u)' <=> InitComes(u))
        /\ ~InitPending'
    BY <1>0, <1>2, <2>1, LoopsSame
  <2>3. CreationComes(u)' <=> CreationComes(u)
    BY <1>0, <1>4, <2>2 DEF CreationComes, Created
  <2>4. Queued(Deleted(u))'
    BY <1>2, <1>6
  <2>5. Asked(u)' /\ Leaving(u)'
    BY <1>0, <1>6, <2>4 DEF Asked, Leaving, Deleted
  <2>6. Ordered(u)'
    <3>1. Deleted(w) # Created(u)
      BY DistinctJobs
    <3>2. ~Queued(Deleted(u))
      BY <2>1 DEF Leaving
    <3> QED BY <1>0, <1>1, <1>3, <3>1, <3>2, EnqueueOrdered DEF ListsInv, WellFormed, Life
  <2>7. Has(u)' <=> Has(u)
    BY <1>0, <2>1, <2>2, <2>3, <2>5 DEF Has
  <2>8. ListCounted(u)'
    BY <1>0, <1>3, <2>7 DEF Life, ListCounted
  <2>9. ~Running("deleted", u)
    BY <2>1 DEF Leaving
  <2>10. OnceEach(u)'
    <3>1. account[u] = "active"
      BY <1>0, <1>6
    <3>2. ~Running("deleted", u)' /\ (Running("created", u)' <=> Running("created", u))
      BY <2>2, <2>9
    <3> QED BY <1>0, <1>3, <1>4, <2>1, <2>2, <2>3, <2>5, <3>1, <3>2
        DEF Life, OnceEach, Created, Deleted
  <2> QED BY <2>6, <2>8, <2>10 DEF Life
<1> QED BY <1>5, <1>6

LEMMA SoftDeleteLife ==
  ASSUME ListsInv, NEW w \in Users, SoftDelete(w), NEW u \in Users \ disturbed'
  PROVE  Life(u)'
<1>0. /\ UNCHANGED <<jobs, todo, tasks, docs, queue, unannounced, unsent>>
      /\ Deleted(w) \in unsaved /\ unsaved' = unsaved \ {Deleted(w)}
      /\ account' = [account EXCEPT ![w] = "gone"]
      /\ disturbed' = disturbed
  BY DEF SoftDelete, working, Deleted
<1>1. u \in Users \ disturbed /\ Life(u)
  BY <1>0 DEF ListsInv
<1>2. account \in [Users -> {"none", "active", "gone"}]
  BY DEF ListsInv, WellFormed, Typed, TypeOK
<1>3. CASE u # w
  <2>1. Deleted(u) # Deleted(w)
    BY <1>3, DistinctJobs
  <2>2. Deleted(u) \in unsaved' <=> Deleted(u) \in unsaved
    BY <1>0, <2>1
  <2>3. account'[u] = account[u] /\ (u \in unannounced' <=> u \in unannounced)
        /\ (Created(u) \in unsent' <=> Created(u) \in unsent)
    BY <1>0, <1>2, <1>3
  <2> QED BY <1>0, <1>1, <2>2, <2>3, OtherKeptUnqueued
<1>4. CASE u = w
  <2>1. Asked(u) /\ account[u] = "active" /\ Created(u) \notin unsent /\ ~InitPending /\ u \notin todo
        /\ ~Running("initEach", u)
    <3>1. Deleted(u) \in unsaved
      BY <1>0, <1>4
    <3>2. Asked(u) /\ account[u] = "active"
      BY <1>1, <3>1 DEF Life, OnceEach, Asked
    <3>3. ~InitPending /\ Created(u) \notin unsent
      BY <1>1, <3>2 DEF Life, OnceEach
    <3>4. u \notin todo /\ ~Running("initEach", u)
      BY <3>3, InitComesPending DEF InitComes, ListsInv, WellFormed
    <3> QED BY <3>2, <3>3, <3>4
  <2>2. account'[u] = "gone" /\ Deleted(u) \notin unsaved' /\ Asked(u)'
    BY <1>0, <1>2, <1>4 DEF Asked
  <2>3. /\ \A job : Queued(job)' <=> Queued(job)
        /\ InitQueued' <=> InitQueued
        /\ Ordered(u)'
    BY <1>0, <1>1, QueueSame DEF Life
  <2>4. (\A op : Running(op, u)' <=> Running(op, u)) /\ (InitComes(u)' <=> InitComes(u))
        /\ ~InitPending'
    BY <1>0, <2>1, <2>3, LoopsSame
  <2>5. (CreationComes(u)' <=> CreationComes(u)) /\ (Leaving(u)' <=> Leaving(u))
    BY <1>0, <2>3, <2>4 DEF CreationComes, Leaving, Created, Deleted
  <2>6. Has(u)' <=> Has(u)
    BY <1>0, <2>1, <2>2, <2>4, <2>5 DEF Has
  <2>7. ListCounted(u)'
    BY <1>0, <1>1, <2>6 DEF Life, ListCounted
  <2>8. (Running("created", u)' <=> Running("created", u)) /\ ~Running("initEach", u)'
    BY <2>1, <2>4
  <2>9. Running("deleted", u)' <=> Running("deleted", u)
    BY <2>4
  <2>10. (Queued(Created(u))' <=> Queued(Created(u))) /\ (Queued(Deleted(u))' <=> Queued(Deleted(u)))
    BY <2>3 DEF Created, Deleted
  <2>11. OnceEach(u)'
    BY <1>0, <1>1, <2>1, <2>2, <2>4, <2>5, <2>8, <2>9, <2>10
       DEF Life, OnceEach, Created, Deleted
  <2> QED BY <2>3, <2>7, <2>11 DEF Life
<1> QED BY <1>3, <1>4

LEMMA SendLife ==
  ASSUME ListsInv, NEW job \in unsent, Send(job), NEW u \in Users \ disturbed'
  PROVE  Life(u)'
<1>0. /\ UNCHANGED <<jobs, todo, tasks, docs, account, unannounced, unsaved>>
      /\ Enqueue(job) /\ unsent' = unsent \ {job} /\ disturbed' = disturbed
  BY DEF Send, working
<1>1. /\ job \in Jobs /\ job.op \notin {"deleted", "init"}
      /\ job.op = "created" => \E v \in Users : job = Created(v)
  BY DEF ListsInv, WellFormed, JobsOfOne, Typed, TypeOK
<1>2. /\ \A other : Queued(other)' <=> Queued(other) \/ other = job
      /\ InitQueued' <=> InitQueued
  BY <1>0, <1>1, EnqueueQueues DEF ListsInv, WellFormed
<1>3. u \in Users \ disturbed /\ Life(u)
  BY <1>0 DEF ListsInv
<1>4. job # Deleted(u)
  BY <1>1 DEF Deleted, Job
<1>5. Queued(Deleted(u))' <=> Queued(Deleted(u))
  BY <1>2, <1>4
<1>6. CASE job # Created(u)
  <2>1. Queued(Created(u))' <=> Queued(Created(u))
    BY <1>2, <1>6
  <2>2. Ordered(u)'
    BY <1>0, <1>1, <1>3, <1>4, <1>6, EnqueueOrdered DEF ListsInv, WellFormed, Life
  <2>3. Created(u) \in unsent' <=> Created(u) \in unsent
    BY <1>0, <1>6
  <2>4. account'[u] = account[u] /\ (u \in unannounced' <=> u \in unannounced)
        /\ (Deleted(u) \in unsaved' <=> Deleted(u) \in unsaved)
    BY <1>0
  <2> QED BY <1>0, <1>2, <1>3, <1>5, <2>1, <2>2, <2>3, <2>4, OtherKept
<1>7. CASE job = Created(u)
  <2>1. Created(u) \in unsent /\ CreationComes(u)
    BY <1>7 DEF CreationComes
  <2>2. /\ ~Queued(Created(u)) /\ ~Running("created", u) /\ ~InitPending
        /\ account[u] # "none" /\ u \notin unannounced /\ ~Asked(u) /\ ~Leaving(u)
    BY <1>3, <2>1 DEF Life, OnceEach
  <2>3. (\A op : Running(op, u)' <=> Running(op, u)) /\ ~InitPending'
    BY <1>0, <1>2, <2>2, LoopsSame
  <2>4. Created(u) \notin unsent' /\ Queued(Created(u))' /\ CreationComes(u)'
    BY <1>0, <1>2, <1>7 DEF CreationComes, Created
  <2>5. ~Asked(u)' /\ ~Leaving(u)' /\ ~Running("created", u)'
    BY <1>0, <1>5, <2>2, <2>3 DEF Asked, Leaving, Deleted
  <2>6. Ordered(u)'
    BY <1>0, <1>1, <1>3, <1>4, <2>2, EnqueueOrdered DEF ListsInv, WellFormed, Life, Leaving
  <2>7. OnceEach(u)'
    BY <1>0, <1>3, <2>2, <2>3, <2>4, <2>5 DEF Life, OnceEach, Leaving, Created, Deleted
  <2>8. ListCounted(u)'
    BY <1>0, <1>3, <2>1, <2>4 DEF Life, ListCounted, Has
  <2> QED BY <2>6, <2>7, <2>8 DEF Life
<1> QED BY <1>6, <1>7

\* The tasks begun by Take are of the job's kind, and no loop leaves INIT.
LEMMA TakeRunning ==
  ASSUME WellFormed, NEW s \in Loops, Take(s), NEW job, job = queue[Len(queue)],
         NEW u \in Users
  PROVE  /\ \A op \in {"created", "deleted", "initEach"} :
              Running(op, u)' <=> Running(op, u) \/ (job.op = op /\ u \in job.users)
         /\ InitComes(u)' <=> InitComes(u)
         /\ InitPending' <=> InitPending
         /\ \A op \in {"created", "deleted"} :
              (job.op = op /\ u \in job.users) <=> job = Job(op, {u})
<1>1. /\ jobs[s] = "idle"
      /\ \A t \in Loops, v \in Users :
           tasks'[t][v] = IF t # s THEN tasks[t][v]
                          ELSE IF v \in job.users
                          THEN [phase |-> FirstPhase(job.op), got |-> {}] ELSE NoTask
      /\ \A t \in Loops : jobs'[t] = IF t = s THEN job.op ELSE jobs[t]
      /\ todo' = todo
      /\ job.op \in Ops
  BY TakeDoes
<1>0. job.op \in {"created", "deleted"} =>
        \E v \in Users : job = Job(job.op, {v}) /\ job.users = {v}
  BY TakeDoes
<1>2. [phase |-> FirstPhase(job.op), got |-> {}] # NoTask
  BY <1>1, FirstPhases DEF NoTask
<1>3. ASSUME NEW op \in {"created", "deleted", "initEach"}
      PROVE  Running(op, u)' <=> Running(op, u) \/ (job.op = op /\ u \in job.users)
  <2>1. \A t \in Loops : (jobs'[t] = op /\ tasks'[t][u] # NoTask)
          <=> IF t = s THEN job.op = op /\ u \in job.users
                       ELSE jobs[t] = op /\ tasks[t][u] # NoTask
    BY <1>1, <1>2
  <2>2. ~(jobs[s] = op /\ tasks[s][u] # NoTask)
    BY <1>1
  <2> QED BY <2>1, <2>2 DEF Running
<1>4. job.op # "initEach"
  BY <1>1 DEF Ops, Kinds
<1>5. InitQueued <=> InitQueued' \/ job.op = "init"
  BY TakeQueue DEF WellFormed
<1>6. InitComes(u)' <=> InitComes(u)
  <2>1. (\E t \in Loops : jobs'[t] = "init") <=> (\E t \in Loops : jobs[t] = "init") \/ job.op = "init"
    BY <1>1
  <2>2. Running("initEach", u)' <=> Running("initEach", u)
    BY <1>3, <1>4
  <2> QED BY <1>1, <1>5, <2>1, <2>2 DEF InitComes
<1>7. InitPending' <=> InitPending
  <2>1. (\E t \in Loops : jobs'[t] \in {"init", "initEach"})
          <=> (\E t \in Loops : jobs[t] \in {"init", "initEach"}) \/ job.op = "init"
    BY <1>1, <1>4
  <2> QED BY <1>5, <2>1 DEF InitPending, InitQueued
<1>8. ASSUME NEW op \in {"created", "deleted"}
      PROVE  (job.op = op /\ u \in job.users) <=> job = Job(op, {u})
  <2>1. ASSUME job.op = op, u \in job.users
        PROVE  job = Job(op, {u})
    <3>1. PICK v \in Users : job = Job(op, {v}) /\ job.users = {v}
      BY <1>0, <1>8, <2>1
    <3> QED BY <2>1, <3>1
  <2>2. Job(op, {u}).op = op /\ Job(op, {u}).users = {u}
    BY DEF Job
  <2> QED BY <2>1, <2>2
<1> QED BY <1>3, <1>6, <1>7, <1>8

LEMMA TakeLife ==
  ASSUME ListsInv, NEW s \in Loops, Take(s), NEW u \in Users \ disturbed'
  PROVE  Life(u)'
<1> DEFINE job == queue[Len(queue)]
<1>1. /\ UNCHANGED <<account, unsent, unsaved, unannounced, todo, docs>>
      /\ disturbed' = disturbed \cup {v \in job.users : InFlight(v)}
  BY TakeDoes DEF ListsInv
<1>2. /\ \A op \in {"created", "deleted", "initEach"} :
           Running(op, u)' <=> Running(op, u) \/ (job.op = op /\ u \in job.users)
      /\ InitComes(u)' <=> InitComes(u)
      /\ InitPending' <=> InitPending
      /\ \A op \in {"created", "deleted"} :
           (job.op = op /\ u \in job.users) <=> job = Job(op, {u})
  BY TakeRunning DEF ListsInv
<1>3. u \in Users \ disturbed /\ Life(u) /\ (u \in job.users => ~InFlight(u))
  BY <1>1 DEF ListsInv
<1>4. \A other : Queued(other) <=> Queued(other)' \/ other = job
  BY TakeQueue DEF ListsInv, WellFormed
<1>5. /\ Ordered(u)'
      /\ job = Created(u) => ~Queued(Created(u))'
      /\ job = Deleted(u) => ~Queued(Deleted(u))' /\ ~Queued(Created(u))
  BY <1>3, TakeOrdered DEF ListsInv, WellFormed, Life
<1>6. job.op # "initEach"
  BY TakeDoes DEF ListsInv, Ops, Kinds
<1>7. u \in job.users => \A op : ~Running(op, u)
  BY <1>3 DEF InFlight, Running
<1>8. Running("initEach", u)' <=> Running("initEach", u)
  BY <1>2, <1>6
<1>9. (job = Created(u) <=> job.op = "created" /\ u \in job.users)
      /\ (job = Deleted(u) <=> job.op = "deleted" /\ u \in job.users)
  BY <1>2 DEF Created, Deleted
<1>10. /\ Running("created", u)' <=> Running("created", u) \/ job = Created(u)
       /\ Running("deleted", u)' <=> Running("deleted", u) \/ job = Deleted(u)
  BY <1>2, <1>9
<1>11. /\ Queued(Created(u)) <=> Queued(Created(u))' \/ job = Created(u)
       /\ Queued(Deleted(u)) <=> Queued(Deleted(u))' \/ job = Deleted(u)
  BY <1>4
<1>12. Created(u) # Deleted(u)
  BY DistinctJobs
<1> HIDE DEF job
<1>13. (CreationComes(u)' <=> CreationComes(u)) /\ (Leaving(u)' <=> Leaving(u))
       /\ (Asked(u)' <=> Asked(u))
  BY <1>1, <1>10, <1>11 DEF CreationComes, Leaving, Asked, Created, Deleted
<1>14. ListCounted(u)'
  <2>1. Has(u)' <=> Has(u)
    BY <1>1, <1>2, <1>13 DEF Has
  <2> QED BY <1>1, <1>3, <2>1 DEF Life, ListCounted
<1>15. OnceEach(u)
  BY <1>3 DEF Life
<1>16. /\ Created(u) \in unsent' => ~Queued(Created(u))'
       /\ Created(u) \in unsent' \/ Queued(Created(u))' => ~Running("created", u)'
  BY <1>1, <1>5, <1>10, <1>11, <1>15 DEF OnceEach
<1>17. /\ Queued(Deleted(u))' => ~Running("deleted", u)'
       /\ Running("deleted", u)' => ~CreationComes(u)'
  <2>1. ASSUME job = Deleted(u)
        PROVE  ~CreationComes(u)
    <3>1. Asked(u) /\ ~Queued(Created(u)) /\ ~Running("created", u)
      BY <1>5, <1>7, <1>9, <1>11, <1>15, <2>1 DEF OnceEach, Leaving
    <3> QED BY <1>15, <3>1 DEF OnceEach, CreationComes
  <2> QED BY <1>5, <1>10, <1>11, <1>13, <1>15, <2>1 DEF OnceEach
<1>18. OnceEach(u)'
  BY <1>1, <1>2, <1>8, <1>13, <1>15, <1>16, <1>17 DEF OnceEach, Created, Deleted
<1> QED BY <1>5, <1>14, <1>18 DEF Life

-----------------------------------------------------------------------------
(* ... by the work of the loops.                                           *)

\* Only one loop is at a user, so that the kind of its job is known.
LEMMA OnlyRunning ==
  ASSUME WellFormed, NEW s \in Loops, NEW u \in Users \ disturbed, tasks[s][u] # NoTask
  PROVE  \A op : Running(op, u) <=> jobs[s] = op
  BY DEF WellFormed, OneAtATime, Running

\* How long a step of a task leaves the user's list.
LEMMA WorkLength ==
  ASSUME WellFormed, NEW s \in Loops, NEW u \in Users, Work(s, u)
  PROVE  /\ \A v \in Users \ {u} : docs'[v] = docs[v]
         /\ \/ Len(docs'[u]) = Len(docs[u]) /\ (Goes(s, u) \/ jobs[s] \in Kinds)
            \/ Len(docs'[u]) = Len(docs[u]) + 1 /\ jobs[s] \in {"created", "initEach"}
            \/ /\ Len(docs'[u]) = IF Len(docs[u]) = 0 THEN 0 ELSE Len(docs[u]) - 1
               /\ jobs[s] = "deleted"
<1>1. docs \in [Users -> Seq(Docs)] /\ docs[u] \in Seq(Docs) /\ Len(docs[u]) \in Nat
      /\ jobs[s] \in Ops \cup {"idle", "initEach"}
  BY DEF WellFormed, Typed, TypeOK
<1>2. jobs[s] \notin {"idle", "init"} /\ (jobs[s] = "deleted" <=> tasks[s][u].phase = "delete")
  BY WorkDoes DEF WellFormed, TasksOfJobs
<1>3. tasks[s][u].phase \in {"fetch", "check", "pull", "push"} => jobs[s] \in Kinds
  BY DEF WellFormed, Typed, ChangesHaveKind
<1>4. CASE Fetch(s, u) \/ Check(s, u)
  BY <1>3, <1>4 DEF Fetch, Check, At
<1>5. CASE Pull(s, u)
  <2>1. \A v \in Users : Len(docs'[v]) = Len(docs[v])
    BY <1>5, PullType DEF WellFormed, Typed
  <2>2. \A v \in Users \ {u} : docs'[v] = docs[v]
    BY <1>1, <1>5 DEF Pull
  <2> QED BY <1>3, <1>5, <2>1, <2>2 DEF Pull, At
<1>6. CASE Push(s, u)
  <2>1. PICK doc : UpdateFirst(u, doc)
    BY <1>6 DEF Push
  <2>2. (\A v \in Users \ {u} : docs'[v] = docs[v]) /\ Len(docs'[u]) = Len(docs[u])
    BY <1>1, <2>1 DEF UpdateFirst
  <2> QED BY <1>3, <1>6, <2>2 DEF Push, At
<1>7. CASE Generate(s, u) \/ GenerateMutual(s, u) \/ GenerateInterest(s, u)
  <2>1. docs' = docs
    BY <1>7 DEF Generate, GenerateMutual, GenerateInterest
  <2>2. \E phase \in {"check", "pull", "push", "generate", "mutual", "interest", "store"} : \E got :
          Go(s, u, phase, got)
    BY <1>7 DEF Generate, GenerateMutual, GenerateInterest
  <2>3. tasks[s][u].phase # "delete"
    BY <1>7 DEF Generate, GenerateMutual, GenerateInterest, At
  <2>4. Goes(s, u)
    BY <2>2, <2>3, GoGoes DEF WellFormed
  <2> QED BY <2>1, <2>4
<1>8. CASE Store(s, u)
  <2>1. jobs[s] \in Kinds \cup {"created", "initEach"}
    BY <1>1, <1>2, <1>8 DEF Store, At, Ops
  <2>2. CASE jobs[s] \in {"created", "initEach"}
    <3>1. docs' = [docs EXCEPT ![u] = Append(docs[u], [parts |-> tasks[s][u].got, modified |-> 0])]
      BY <1>8, <2>2 DEF Store
    <3>2. [parts |-> tasks[s][u].got, modified |-> 0] \in Docs
      BY DEF WellFormed, Typed, TypeOK, Task, Docs
    <3>3. Len(docs'[u]) = Len(docs[u]) + 1
      BY <1>1, <3>1, <3>2, AppendProperties
    <3> QED BY <1>1, <2>2, <3>1, <3>3
  <2>3. CASE jobs[s] \in Kinds
    <3>0. jobs[s] \notin {"created", "initEach"}
      BY <2>3 DEF Kinds
    <3>1. PICK doc : UpdateFirst(u, doc)
      BY <1>8, <3>0 DEF Store
    <3>2. (\A v \in Users \ {u} : docs'[v] = docs[v]) /\ Len(docs'[u]) = Len(docs[u])
      BY <1>1, <3>1 DEF UpdateFirst
    <3> QED BY <2>3, <3>2
  <2> QED BY <2>1, <2>2, <2>3
<1>9. CASE DeleteDoc(s, u)
  <2>1. docs' = [docs EXCEPT ![u] = IF docs[u] = <<>> THEN <<>> ELSE Tail(docs[u])]
    BY <1>9 DEF DeleteDoc
  <2>2. jobs[s] = "deleted"
    BY <1>2, <1>9 DEF DeleteDoc, At
  <2>3. CASE docs[u] = <<>>
    BY <1>1, <2>1, <2>2, <2>3
  <2>4. CASE docs[u] # <<>>
    <3>1. Len(Tail(docs[u])) = Len(docs[u]) - 1 /\ Len(docs[u]) # 0
      BY <1>1, <2>4, HeadTailProperties, EmptySeq
    <3> QED BY <1>1, <2>1, <2>2, <2>4, <3>1
  <2> QED BY <2>3, <2>4
<1> QED BY <1>4, <1>5, <1>6, <1>7, <1>8, <1>9 DEF Work

\* The lists of users whose task does not move.
LEMMA WorkOthersLife ==
  ASSUME ListsInv, NEW s \in Loops, NEW w \in Users, Work(s, w),
         NEW u \in Users \ disturbed', u # w \/ (Goes(s, w) /\ Len(docs'[u]) = Len(docs[u]))
  PROVE  Life(u)'
<1>1. /\ UNCHANGED <<account, unsent, unsaved, unannounced, queue, todo, disturbed>>
      /\ tasks[s][w] # NoTask
      /\ \A t \in Loops, v \in Users : t # s \/ v # w => tasks'[t][v] = tasks[t][v]
  BY WorkDoes DEF ListsInv
<1>2. /\ \A t \in Loops : (jobs'[t] = "init") = (jobs[t] = "init")
      /\ \A t \in Loops : (jobs'[t] = "initEach") = (jobs[t] = "initEach")
      /\ \A t \in Loops, v \in Users : tasks[t][v] # NoTask /\ (t # s \/ v # w)
                                         => jobs'[t] = jobs[t]
  BY WorkLoops DEF ListsInv
<1>3. Life(u)
  BY <1>1 DEF ListsInv
<1>4. \A t \in Loops : (tasks'[t][u] # NoTask <=> tasks[t][u] # NoTask)
                       /\ (tasks[t][u] # NoTask => jobs'[t] = jobs[t])
  <2>1. CASE u # w
    BY <1>1, <1>2, <2>1
  <2>2. CASE u = w /\ Goes(s, w)
    <3>1. tasks'[s][u] # NoTask /\ jobs' = jobs
      BY <2>2 DEF Goes, NoTask
    <3> QED BY <1>1, <2>2, <3>1
  <2> QED BY <2>1, <2>2
<1>5. \A op : Running(op, u)' <=> Running(op, u)
  BY <1>4 DEF Running
<1>6. /\ \A job : Queued(job)' <=> Queued(job)
      /\ InitQueued' <=> InitQueued
      /\ Ordered(u)'
  BY <1>1, <1>3, QueueSame DEF Life
<1>7. InitComes(u)' <=> InitComes(u)
  BY <1>1, <1>2, <1>5, <1>6 DEF InitComes
<1>8. InitPending' <=> InitPending
  <2>1. (\E t \in Loops : jobs'[t] \in {"init", "initEach"})
          <=> (\E t \in Loops : jobs[t] \in {"init", "initEach"})
    BY <1>2
  <2> QED BY <1>6, <2>1 DEF InitPending, InitQueued
<1>9. Len(docs'[u]) = Len(docs[u])
  BY WorkLength DEF ListsInv
<1>10. (Queued(Created(u))' <=> Queued(Created(u))) /\ (Queued(Deleted(u))' <=> Queued(Deleted(u)))
  BY <1>6 DEF Created, Deleted
<1>11. SameFor(u)
  BY <1>1, <1>5, <1>7, <1>8, <1>9, <1>10 DEF SameFor, Created, Deleted
<1> QED BY <1>3, <1>6, <1>11, LifeKept

\* The list of the user whose task ends.
LEMMA EndsLife ==
  ASSUME ListsInv, NEW s \in Loops, NEW u \in Users \ disturbed', Work(s, u),
         ~(Goes(s, u) /\ Len(docs'[u]) = Len(docs[u]))
  PROVE  Life(u)'
<1>1. /\ UNCHANGED <<account, unsent, unsaved, unannounced, queue, todo, disturbed>>
      /\ tasks[s][u] # NoTask
      /\ \A t \in Loops, v \in Users : t # s \/ v # u => tasks'[t][v] = tasks[t][v]
  BY WorkDoes DEF ListsInv
<1>2. Life(u) /\ u \in Users \ disturbed
  BY <1>1 DEF ListsInv
<1>3. \A op : Running(op, u) <=> jobs[s] = op
  BY <1>1, <1>2, OnlyRunning DEF ListsInv
<1>4. Work(s, u) => Ends(s, u) \/ Goes(s, u)
  BY WorkDoes DEF ListsInv
<1>5. jobs[s] \notin {"idle", "init"} /\ (jobs[s] = "deleted" <=> tasks[s][u].phase = "delete")
  BY <1>1 DEF ListsInv, WellFormed, TasksOfJobs
<1>6. \/ Len(docs'[u]) = Len(docs[u]) /\ (Goes(s, u) \/ jobs[s] \in Kinds)
      \/ Len(docs'[u]) = Len(docs[u]) + 1 /\ jobs[s] \in {"created", "initEach"}
      \/ /\ Len(docs'[u]) = IF Len(docs[u]) = 0 THEN 0 ELSE Len(docs[u]) - 1
         /\ jobs[s] = "deleted"
  BY WorkLength DEF ListsInv
<1>7. Ends(s, u)
  <2>1. CASE Len(docs'[u]) = Len(docs[u])
    BY <1>4, <2>1
  <2>2. CASE Store(s, u) \/ DeleteDoc(s, u)
    BY <2>2, EndEnds DEF Store, DeleteDoc, ListsInv, WellFormed
  <2>3. CASE Fetch(s, u) \/ Check(s, u) \/ Generate(s, u) \/ GenerateMutual(s, u)
             \/ GenerateInterest(s, u)
    <3>1. docs' = docs
      BY <2>3 DEF Fetch, Check, Generate, GenerateMutual, GenerateInterest
    <3> QED BY <2>1, <3>1
  <2>4. CASE Pull(s, u)
    BY <2>1, <2>4, PullType DEF ListsInv, WellFormed, Typed
  <2>5. CASE Push(s, u)
    BY <2>5, EndEnds DEF Push, ListsInv, WellFormed
  <2> QED BY <2>2, <2>3, <2>4, <2>5 DEF Work
<1>8. \A op : ~Running(op, u)'
  <2>1. \A t \in Loops : tasks'[t][u] = NoTask
    BY <1>1, <1>2, <1>7 DEF Ends, ListsInv, WellFormed, OneAtATime
  <2> QED BY <2>1 DEF Running
<1>9. /\ \A job : Queued(job)' <=> Queued(job)
      /\ InitQueued' <=> InitQueued
      /\ Ordered(u)'
  BY <1>1, <1>2, QueueSame DEF Life
<1>10. (Queued(Created(u))' <=> Queued(Created(u))) /\ (Queued(Deleted(u))' <=> Queued(Deleted(u)))
  BY <1>9 DEF Created, Deleted
<1>11. \A t \in Loops : (jobs'[t] \in {"init", "initEach"}) = (jobs[t] \in {"init", "initEach"})
  BY WorkLoops DEF ListsInv
<1>12. InitPending' <=> InitPending
  BY <1>9, <1>11 DEF InitPending, InitQueued
<1>13. InitComes(u)' <=> (InitComes(u) /\ jobs[s] # "initEach")
  <2>1. (\E t \in Loops : jobs'[t] = "init") <=> (\E t \in Loops : jobs[t] = "init")
    BY WorkLoops DEF ListsInv
  <2>2. jobs[s] = "initEach" => ~InitQueued /\ u \notin todo /\ \A t \in Loops : jobs[t] # "init"
    <3> SUFFICES ASSUME jobs[s] = "initEach"
                 PROVE  ~InitQueued /\ u \notin todo /\ \A t \in Loops : jobs[t] # "init"
      OBVIOUS
    <3>1. AtInit(s) /\ Running("initEach", u)
      BY <1>3 DEF AtInit
    <3>2. ~InitQueued /\ \A t \in Loops : AtInit(t) => s = t
      BY <3>1 DEF ListsInv, WellFormed, OneInit
    <3>3. u \notin todo
      BY <1>2, <3>1 DEF Life, OnceEach
    <3> QED BY <3>2, <3>3 DEF AtInit
  <2>3. Running("initEach", u) <=> jobs[s] = "initEach"
    BY <1>3
  <2>4. ~Running("initEach", u)'
    BY <1>8
  <2> QED BY <1>1, <1>9, <2>1, <2>2, <2>3, <2>4 DEF InitComes
<1>14. Asked(u)' <=> Asked(u)
  BY <1>1 DEF Asked, Deleted
<1>15. OnceEach(u)
  BY <1>2 DEF Life
<1>16. /\ Running("created", u) <=> jobs[s] = "created"
       /\ Running("deleted", u) <=> jobs[s] = "deleted"
       /\ Running("initEach", u) <=> jobs[s] = "initEach"
       /\ ~Running("created", u)' /\ ~Running("deleted", u)' /\ ~Running("initEach", u)'
  BY <1>3, <1>8
<1>17. /\ CreationComes(u)' <=> CreationComes(u) /\ jobs[s] # "created"
       /\ Leaving(u)' <=> Leaving(u) /\ jobs[s] # "deleted"
  BY <1>1, <1>10, <1>15, <1>16 DEF CreationComes, Leaving, OnceEach, Created, Deleted
<1>18. OnceEach(u)'
  BY <1>1, <1>10, <1>12, <1>14, <1>15, <1>16, <1>17 DEF OnceEach, Created, Deleted
<1>19. ListCounted(u)
  BY <1>2 DEF Life
<1>20. CASE jobs[s] = "created"
  <2>1. CreationComes(u) /\ ~InitPending /\ account[u] # "none" /\ u \notin unannounced
    BY <1>15, <1>16, <1>20 DEF OnceEach, CreationComes
  <2>2. ~InitComes(u)
    BY <2>1, InitComesPending DEF ListsInv, WellFormed
  <2>3. ~Has(u) /\ Has(u)'
    BY <1>1, <1>13, <1>14, <1>15, <1>17, <1>20, <2>1, <2>2 DEF Has, OnceEach
  <2>4. Len(docs'[u]) = 1
    BY <1>6, <1>7, <1>19, <1>20, <2>3 DEF ListCounted, Kinds, Goes, Ends, NoTask
  <2>5. ListCounted(u)'
    BY <2>3, <2>4 DEF ListCounted
  <2> QED BY <1>9, <1>18, <2>5 DEF Life
<1>21. CASE jobs[s] = "initEach"
  <2>1. InitComes(u) /\ account[u] = "active" /\ InitPending
    <3>1. InitComes(u) /\ account[u] = "active"
      BY <1>15, <1>16, <1>21 DEF OnceEach, InitComes
    <3> QED BY <3>1, InitComesPending DEF ListsInv, WellFormed
  <2>2. ~Has(u) /\ Has(u)'
    BY <1>1, <1>13, <1>14, <1>15, <1>17, <1>21, <2>1 DEF Has, OnceEach
  <2>3. Len(docs'[u]) = 1
    BY <1>6, <1>7, <1>19, <1>21, <2>2 DEF ListCounted, Kinds, Goes, Ends, NoTask
  <2>4. ListCounted(u)'
    BY <2>2, <2>3 DEF ListCounted
  <2> QED BY <1>9, <1>18, <2>4 DEF Life
<1>22. CASE jobs[s] = "deleted"
  <2>1. Running("deleted", u) /\ ~CreationComes(u) /\ Asked(u) /\ ~Queued(Deleted(u))
    BY <1>15, <1>16, <1>22 DEF OnceEach, Leaving
  <2>2. ~Has(u)'
    BY <1>14, <1>17, <1>22, <2>1 DEF Has
  <2>3. Len(docs'[u]) = 0
    BY <1>6, <1>7, <1>19, <1>22 DEF ListCounted, Kinds, Goes, Ends, NoTask
  <2>4. ListCounted(u)'
    BY <2>2, <2>3 DEF ListCounted
  <2> QED BY <1>9, <1>18, <2>4 DEF Life
<1>23. CASE jobs[s] \in Kinds
  <2>1. jobs[s] \notin {"created", "initEach", "deleted"}
    BY <1>23 DEF Kinds
  <2>2. Has(u)' <=> Has(u)
    BY <1>1, <1>13, <1>14, <1>17, <2>1 DEF Has
  <2>3. Len(docs'[u]) = Len(docs[u])
    BY <1>6, <2>1
  <2>4. ListCounted(u)'
    BY <1>19, <2>2, <2>3 DEF ListCounted
  <2> QED BY <1>9, <1>18, <2>4 DEF Life
<1>24. jobs[s] \in Kinds \cup {"created", "deleted", "initEach"}
  BY <1>5 DEF ListsInv, WellFormed, Typed, TypeOK, Ops
<1> QED BY <1>20, <1>21, <1>22, <1>23, <1>24

LEMMA InitReadLife ==
  ASSUME ListsInv, NEW s \in Loops, InitRead(s), NEW u \in Users \ disturbed'
  PROVE  Life(u)'
<1>1. /\ UNCHANGED <<account, unsent, unsaved, unannounced, queue, tasks, docs, disturbed>>
      /\ jobs[s] = "init" /\ todo' = {v \in Users : account[v] = "active"}
      /\ jobs' = [jobs EXCEPT ![s] = "initEach"]
  BY DEF InitRead, main_app
<1>2. \A t \in Loops : jobs'[t] = IF t = s THEN "initEach" ELSE jobs[t]
  BY <1>1 DEF ListsInv, WellFormed, Typed, TypeOK
<1>3. Life(u) /\ OnceEach(u) /\ u \in Users
  BY <1>1 DEF ListsInv, Life
<1>4. \A v \in Users : tasks[s][v] = NoTask
  BY <1>1 DEF ListsInv, WellFormed, TasksOfJobs
<1>5. \A t \in Loops : t # s => jobs[t] # "initEach"
  BY <1>1 DEF ListsInv, WellFormed, OneInit, AtInit
<1>6. /\ \A op \in {"created", "deleted"} : Running(op, u)' <=> Running(op, u)
      /\ ~Running("initEach", u)'
  BY <1>1, <1>2, <1>3, <1>4, <1>5 DEF Running
<1>7. /\ \A job : Queued(job)' <=> Queued(job)
      /\ Ordered(u)'
  BY <1>1, <1>3, QueueSame DEF Life
<1>8. InitPending /\ InitPending' /\ InitComes(u)
  <2>1. InitPending /\ InitComes(u)
    BY <1>1 DEF InitPending, InitComes
  <2>2. jobs'[s] = "initEach"
    BY <1>2
  <2> QED BY <2>1, <2>2 DEF InitPending
<1>9. (Queued(Created(u))' <=> Queued(Created(u))) /\ (Queued(Deleted(u))' <=> Queued(Deleted(u)))
  BY <1>7 DEF Created, Deleted
<1>10. ~CreationComes(u) /\ ~Asked(u) /\ ~Leaving(u) /\ u \notin unannounced
  BY <1>3, <1>8 DEF OnceEach
<1>11. ~CreationComes(u)' /\ ~Asked(u)' /\ ~Leaving(u)'
  BY <1>1, <1>6, <1>9, <1>10 DEF CreationComes, Asked, Leaving, Created, Deleted
<1>12. OnceEach(u)'
  <2>1. Created(u) \notin unsent' /\ ~Queued(Created(u))' /\ Deleted(u) \notin unsaved'
        /\ ~Queued(Deleted(u))' /\ ~Running("deleted", u)'
    BY <1>11 DEF CreationComes, Asked, Leaving, Created, Deleted
  <2> QED BY <1>1, <1>6, <1>10, <1>11, <2>1 DEF OnceEach, Created, Deleted
<1>13. ~Has(u)'
  <2>1. account[u] = "active" => InitComes(u)'
    BY <1>1, <1>3 DEF InitComes
  <2>2. account[u] # "gone" /\ account[u] \in {"none", "active", "gone"}
    BY <1>3, <1>10 DEF Asked, ListsInv, WellFormed, Typed, TypeOK
  <2> QED BY <1>1, <2>1, <2>2 DEF Has
<1>14. ListCounted(u)'
  BY <1>1, <1>3, <1>8, <1>13 DEF Life, ListCounted, Has
<1> QED BY <1>7, <1>12, <1>14 DEF Life

LEMMA InitNextLife ==
  ASSUME ListsInv, NEW s \in Loops, InitNext(s), NEW u \in Users \ disturbed'
  PROVE  Life(u)'
<1>1. /\ UNCHANGED <<account, unsent, unsaved, unannounced, queue, docs>>
      /\ jobs[s] = "initEach" /\ \A v \in Users : tasks[s][v] = NoTask
  BY DEF InitNext, main_app
<1>2. u \in Users \ disturbed /\ Life(u)
  BY DEF InitNext, Disturb, ListsInv
<1>3. /\ \A job : Queued(job)' <=> Queued(job)
      /\ InitQueued' <=> InitQueued
      /\ Ordered(u)'
  BY <1>1, <1>2, QueueSame DEF Life
<1>4. (Queued(Created(u))' <=> Queued(Created(u))) /\ (Queued(Deleted(u))' <=> Queued(Deleted(u)))
  BY <1>3 DEF Created, Deleted
<1>5. /\ jobs \in [Loops -> Ops \cup {"idle", "initEach"}]
      /\ tasks \in [Loops -> [Users -> Task]]
      /\ todo \subseteq Users
  BY DEF ListsInv, WellFormed, Typed, TypeOK
<1>6. ASSUME NEW w \in todo, todo' = todo \ {w}, jobs' = jobs,
             tasks' = [tasks EXCEPT ![s][w] = [phase |-> "generate", got |-> {}]],
             Disturb(IF InFlight(w) THEN {w} ELSE {})
      PROVE  Life(u)'
  <2>1. \A t \in Loops, v \in Users :
          tasks'[t][v] = IF t = s /\ v = w THEN [phase |-> "generate", got |-> {}]
                                           ELSE tasks[t][v]
    BY <1>5, <1>6
  <2>2. [phase |-> "generate", got |-> {}] # NoTask
    BY DEF NoTask
  <2>3. \A op \in {"created", "deleted"} : Running(op, u)' <=> Running(op, u)
    BY <1>1, <1>2, <1>6, <2>1 DEF Running
  <2>4. InitPending' <=> InitPending
    BY <1>3, <1>6 DEF InitPending, InitQueued
  <2>5. CASE u # w
    <3>1. Running("initEach", u)' <=> Running("initEach", u)
      BY <1>2, <1>6, <2>1, <2>5 DEF Running
    <3>2. InitComes(u)' <=> InitComes(u)
      BY <1>3, <1>6, <2>5, <3>1 DEF InitComes
    <3>3. SameFor(u)
      BY <1>1, <1>4, <1>6, <2>3, <2>4, <2>5, <3>1, <3>2 DEF SameFor, Created, Deleted
    <3> QED BY <1>2, <1>3, <3>3, LifeKept
  <2>6. CASE u = w
    <3>1. Running("initEach", u)'
      BY <1>1, <1>2, <1>6, <2>1, <2>2, <2>6 DEF Running
    <3>2. InitComes(u) /\ InitComes(u)' /\ u \notin todo' /\ account[u] = "active"
      BY <1>2, <1>6, <2>6, <3>1 DEF InitComes, Life, OnceEach
    <3>3. (CreationComes(u)' <=> CreationComes(u)) /\ (Leaving(u)' <=> Leaving(u))
          /\ (Asked(u)' <=> Asked(u))
      BY <1>1, <1>4, <2>3 DEF CreationComes, Leaving, Asked, Created, Deleted
    <3>4. OnceEach(u)'
      BY <1>1, <1>2, <1>4, <2>3, <2>4, <3>2, <3>3 DEF Life, OnceEach, Created, Deleted
    <3>5. ListCounted(u)'
      BY <1>1, <1>2, <3>2 DEF Life, ListCounted, Has
    <3> QED BY <1>3, <3>4, <3>5 DEF Life
  <2> QED BY <2>5, <2>6
<1>7. ASSUME todo = {}, jobs' = [jobs EXCEPT ![s] = "idle"], UNCHANGED <<todo, tasks, disturbed>>
      PROVE  Life(u)'
  <2>1. \A t \in Loops : jobs'[t] = IF t = s THEN "idle" ELSE jobs[t]
    BY <1>5, <1>7
  <2>2. \A op \in {"created", "deleted", "initEach"} : Running(op, u)' <=> Running(op, u)
    BY <1>1, <1>2, <1>7, <2>1 DEF Running
  <2>3. InitComes(u)' <=> InitComes(u)
    BY <1>1, <1>3, <1>7, <2>1, <2>2 DEF InitComes
  <2>4. InitPending' => InitPending
    BY <1>3, <2>1 DEF InitPending, InitQueued
  <2>5. SameFor(u)
    BY <1>1, <1>4, <1>7, <2>2, <2>3, <2>4 DEF SameFor, Created, Deleted
  <2> QED BY <1>2, <1>3, <2>5, LifeKept
<1> QED BY <1>6, <1>7 DEF InitNext

LEMMA NextLists == ListsInv /\ [Next]_vars => ListsInv'
<1> SUFFICES ASSUME ListsInv, [Next]_vars PROVE ListsInv'
  OBVIOUS
<1>1. WellFormed'
  BY NextFormed DEF ListsInv
<1>2. SUFFICES ASSUME NEW u \in Users \ disturbed' PROVE Life(u)'
  BY <1>1 DEF ListsInv
<1>3. CASE UNCHANGED vars
  <2>1. /\ UNCHANGED <<account, unsent, unsaved, unannounced, queue, jobs, todo, tasks, docs>>
        /\ Life(u)
    BY <1>3 DEF vars, main_app, working, ListsInv
  <2>2. account'[u] = account[u] /\ (u \in unannounced' <=> u \in unannounced)
        /\ (Created(u) \in unsent' <=> Created(u) \in unsent)
        /\ (Deleted(u) \in unsaved' <=> Deleted(u) \in unsaved)
    BY <2>1
  <2> QED BY <2>1, <2>2, OtherKeptUnqueued
<1>4. CASE MainApp
  BY <1>4, RegisterLife, MailFailsLife, ChangesLife, DeleteLife, SoftDeleteLife DEF MainApp
<1>5. CASE \E job \in unsent : Send(job)
  BY <1>5, SendLife
<1>6. ASSUME NEW s \in Loops, NEW w \in Users, Work(s, w)
      PROVE  Life(u)'
  BY <1>6, WorkOthersLife, EndsLife
<1>7. ASSUME NEW s \in Loops, Loop(s)
      PROVE  Life(u)'
  BY <1>6, <1>7, TakeLife, InitReadLife, InitNextLife DEF Loop
<1> QED BY <1>3, <1>4, <1>5, <1>7 DEF Next

LEMMA InitLists == Init => ListsInv
<1> SUFFICES ASSUME Init PROVE ListsInv
  OBVIOUS
<1>1. WellFormed
  BY InitWellFormed
<1>2. SUFFICES ASSUME NEW u \in Users PROVE Life(u)
  BY <1>1 DEF ListsInv
<1>3. /\ account[u] \in {"none", "active"}
      /\ unsent = {} /\ unsaved = {} /\ todo = {} /\ unannounced = {}
      /\ Len(docs[u]) = 0
      /\ \A s \in Loops : jobs[s] = "idle"
  BY DEF Init
<1>4. \A op \in {"created", "deleted", "initEach"} : ~Running(op, u)
  BY <1>3 DEF Running
<1>5. queue = <<>> \/ queue = <<Job("init", {})>>
  BY DEF Init
<1>6. \A i \in 1 .. Len(queue) : queue[i] # Created(u) /\ queue[i] # Deleted(u)
  <2>1. Job("init", {}) # Created(u) /\ Job("init", {}) # Deleted(u)
    BY DEF Job, Created, Deleted
  <2>2. CASE queue = <<>>
    BY <2>2
  <2>3. CASE queue = <<Job("init", {})>>
    <3>1. Len(queue) = 1 /\ queue[1] = Job("init", {})
      BY <2>3
    <3> QED BY <2>1, <3>1
  <2> QED BY <1>5, <2>2, <2>3
<1>7. ~CreationComes(u) /\ ~Leaving(u) /\ ~Asked(u)
  BY <1>3, <1>4, <1>6 DEF CreationComes, Leaving, Asked, Queued
<1>8. ~Has(u)
  <2>1. account[u] = "active" => InitQueued
    <3>1. account[u] = "active" => queue = <<Job("init", {})>>
      BY DEF Init
    <3>2. ASSUME queue = <<Job("init", {})>>
          PROVE  InitQueued
      <4>1. Len(queue) = 1 /\ queue[1].op = "init"
        BY <3>2 DEF Job
      <4> QED BY <4>1 DEF InitQueued
    <3> QED BY <3>1, <3>2
  <2> QED BY <1>3, <2>1 DEF Has, InitComes
<1>9. OnceEach(u)
  BY <1>3, <1>4, <1>7 DEF OnceEach, CreationComes, Leaving, Asked
<1>10. Ordered(u)
  BY <1>6 DEF Ordered
<1> QED BY <1>3, <1>8, <1>9, <1>10 DEF Life, ListCounted

\* At rest, whoever is active and announced has one list and everyone else
\* none, whatever the order in which the loops took and ended the jobs: but
\* for users two jobs were at, or who came or went during INIT.
\* (friend-recommendation.controller.ts syncUserCreated, syncUserDeleted)
THEOREM ListsMatchUsers == Spec => []OneListPerUser
<1>1. ListsInv => OneListPerUser
  <2> SUFFICES ASSUME ListsInv, Quiet, NEW u \in Users \ disturbed
               PROVE  Len(docs[u]) = IF account[u] = "active" /\ u \notin unannounced
                                     THEN 1 ELSE 0
    BY DEF OneListPerUser
  <2>1. unsent = {} /\ unsaved = {} /\ Len(queue) = 0 /\ \A s \in Loops : jobs[s] = "idle"
    BY DEF Quiet
  <2>2. /\ \A op \in {"created", "deleted", "initEach"} : ~Running(op, u)
        /\ ~InitQueued /\ \A job : ~Queued(job)
    BY <2>1 DEF Running, InitQueued, Queued
  <2>3. u \notin todo
    BY <2>1 DEF ListsInv, WellFormed, OneInit
  <2>4. ~CreationComes(u) /\ ~Leaving(u) /\ ~InitComes(u)
    BY <2>1, <2>2, <2>3 DEF CreationComes, Leaving, InitComes
  <2>5. Asked(u) <=> account[u] = "gone"
    BY <2>1 DEF Asked
  <2>6. Has(u) <=> account[u] = "active" /\ u \notin unannounced
    BY <2>4, <2>5 DEF Has, ListsInv, WellFormed, Typed, TypeOK
  <2> QED BY <2>6 DEF ListsInv, Life, ListCounted
<1> QED BY <1>1, InitLists, NextLists, PTL DEF Spec

-----------------------------------------------------------------------------
(* Lists are computed from current data.                                   *)
(*                                                                         *)
(* A part that is out of date has a job on its way that will read the data *)
(* anew, or a task past its reading that is about to take the part out.    *)

Waiting(u, k) ==
  \E job \in Jobs : (job \in unsent \/ Queued(job)) /\ job.op = k /\ u \in job.users

\* A part that needs no further change.
Settled(u, p) == p = Part(u, p.kind) \/ (p.kind = "commonInterest" /\ u \in early)

\* What a task has read is current, or a job is to come that reads it anew.
GotFresh(u, p) == Settled(u, p) \/ (p.kind # "province" /\ Waiting(u, p.kind))

\* The task at work takes out the part, or makes the whole list anew.
Replacing(s, u, k) ==
  /\ jobs[s] \in Kinds
  /\ \/ jobs[s] = k /\ tasks[s][u].phase \in {"fetch", "check", "pull"}
     \/ tasks[s][u].phase \in {"generate", "mutual", "interest", "store"}

DocFresh(u, p) ==
  GotFresh(u, p) \/ (p.kind # "province" /\ \E s \in Loops : Replacing(s, u, p.kind))

Fresh(u) ==
  /\ \A i \in 1 .. Len(docs[u]) : \A p \in docs[u][i].parts : DocFresh(u, p)
  /\ \A s \in Loops : \A p \in tasks[s][u].got : GotFresh(u, p)
  /\ \A s \in Loops : tasks[s][u].phase = "push" =>
       \A i \in 1 .. Len(docs[u]) : \A p \in docs[u][i].parts : p.kind # jobs[s]

FreshLists == ListsInv /\ \A u \in Users \ disturbed : Fresh(u)

LEMMA PartsTyped ==
  ASSUME Typed, NEW u \in Users
  PROVE  /\ \A i \in 1 .. Len(docs[u]) : docs[u][i].parts \subseteq Parts
         /\ \A s \in Loops : tasks[s][u].got \subseteq Parts
         /\ \A p \in Parts : p.kind \in Kinds
<1>1. \A i \in 1 .. Len(docs[u]) : docs[u][i].parts \subseteq Parts
  BY DocType DEF Docs
<1>2. \A s \in Loops : tasks[s][u].got \subseteq Parts
  BY DEF Typed, TypeOK, Task
<1> QED BY <1>1, <1>2 DEF Parts

LEMMA AtMostOneList ==
  ASSUME ListsInv, NEW u \in Users \ disturbed
  PROVE  Len(docs[u]) = 0 \/ Len(docs[u]) = 1
  BY DEF ListsInv, Life, ListCounted

\* Changes on their way stay on it until they are taken.
LEMMA WaitingKept ==
  ASSUME \A job \in Jobs : job.op \in Kinds /\ (job \in unsent \/ Queued(job))
                             => job \in unsent' \/ Queued(job)',
         NEW u, NEW k \in Kinds, Waiting(u, k)
  PROVE  Waiting(u, k)'
  BY DEF Waiting

LEMMA GotFreshKept ==
  ASSUME source' = source, early \subseteq early',
         \A job \in Jobs : job.op \in Kinds /\ (job \in unsent \/ Queued(job))
                             => job \in unsent' \/ Queued(job)',
         NEW u, NEW p \in Parts, GotFresh(u, p)
  PROVE  GotFresh(u, p)'
<1>1. p.kind \in Kinds
  BY DEF Parts
<1>2. Waiting(u, p.kind) => Waiting(u, p.kind)'
  BY <1>1, WaitingKept
<1> QED BY <1>2 DEF GotFresh, Settled, Part

LEMMA OutsideFresh ==
  ASSUME Typed, UNCHANGED <<jobs, tasks, docs>>, NEW u \in Users, Fresh(u),
         \A p \in Parts : GotFresh(u, p) => GotFresh(u, p)'
  PROVE  Fresh(u)'
<1>1. \A i \in 1 .. Len(docs[u]) : \A p \in docs[u][i].parts : DocFresh(u, p)'
  BY PartsTyped DEF Fresh, DocFresh, Replacing
<1>2. \A s \in Loops : \A p \in tasks[s][u].got : GotFresh(u, p)'
  BY PartsTyped DEF Fresh
<1> QED BY <1>1, <1>2 DEF Fresh

\* The steps of main-app and friend-job that change no data.
LEMMA SourceKeptFresh ==
  ASSUME FreshLists, NEW u \in Users \ disturbed',
         \/ \E w \in Users : \/ Register(w) \/ MailFails(w) \/ UpdateProfile(w)
                             \/ ChangeInterests(w) \/ Delete(w) \/ SoftDelete(w)
         \/ \E job \in unsent : Send(job)
  PROVE  Fresh(u)'
<1>1. UNCHANGED <<jobs, tasks, docs, source, early>> /\ disturbed \subseteq disturbed'
  BY DEF Register, MailFails, UpdateProfile, ChangeInterests, Delete, SoftDelete,
         Send, working, Disturb
<1>2. Fresh(u) /\ Typed
  BY <1>1 DEF FreshLists, ListsInv, WellFormed
<1>3. ASSUME NEW job \in Jobs, job.op \in Kinds, job \in unsent \/ Queued(job)
      PROVE  job \in unsent' \/ Queued(job)'
  <2>0. queue' = queue => (Queued(job)' <=> Queued(job))
    BY QueueSame
  <2>1. ASSUME NEW w \in Users, Register(w) \/ UpdateProfile(w) \/ SoftDelete(w)
        PROVE  job \in unsent' \/ Queued(job)'
    BY <1>3, <2>0, <2>1 DEF Register, UpdateProfile, SoftDelete
  <2>2. ASSUME NEW w \in Users, MailFails(w)
        PROVE  job \in unsent' \/ Queued(job)'
    <3>1. job # Job("created", {w})
      BY <1>3 DEF Job, Kinds
    <3> QED BY <1>3, <2>0, <2>2, <3>1 DEF MailFails
  <2>3. ASSUME NEW w \in Users, ChangeInterests(w) \/ Delete(w)
        PROVE  job \in unsent' \/ Queued(job)'
    <3>1. unsent' = unsent /\ \E op \in {"commonInterest", "deleted"} : Enqueue(Job(op, {w}))
      BY <2>3 DEF ChangeInterests, Delete
    <3>2. \A op \in {"commonInterest", "deleted"} : Job(op, {w}) \in Jobs
      BY JobType DEF Ops, Kinds
    <3>3. Queued(job) => Queued(job)'
      BY <1>2, <3>1, <3>2, EnqueueQueues
    <3> QED BY <1>3, <3>1, <3>3
  <2>4. ASSUME NEW sent \in unsent, Send(sent)
        PROVE  job \in unsent' \/ Queued(job)'
    <3>1. Enqueue(sent) /\ unsent' = unsent \ {sent} /\ sent \in Jobs
      BY <1>2, <2>4 DEF Send, Typed, TypeOK
    <3>2. Queued(job)' <=> Queued(job) \/ job = sent
      BY <1>2, <3>1, EnqueueQueues
    <3> QED BY <1>3, <3>1, <3>2
  <2> QED BY <2>1, <2>2, <2>3, <2>4
<1>4. \A p \in Parts : GotFresh(u, p) => GotFresh(u, p)'
  BY <1>1, <1>3, GotFreshKept
<1> QED BY <1>1, <1>2, <1>4, OutsideFresh

\* A friendship changes: the event is on its way from then on.
LEMMA ChangeFriendshipFresh ==
  ASSUME FreshLists, NEW v \in Users, NEW w \in Users, ChangeFriendship(v, w),
         NEW u \in Users \ disturbed'
  PROVE  Fresh(u)'
<1>1. /\ UNCHANGED <<jobs, tasks, docs, queue, early, disturbed>>
      /\ unsent' = unsent \cup {Job("mutualCount", {v, w})}
      /\ source' = [x \in Users |-> IF x \in {v, w}
                                    THEN [source[x] EXCEPT !["mutualCount"] = @ + 1]
                                    ELSE source[x]]
  BY DEF ChangeFriendship, working
<1>2. Fresh(u) /\ Typed /\ source \in [Users -> [Kinds -> Nat]]
  BY <1>1 DEF FreshLists, ListsInv, WellFormed, Typed, TypeOK
<1>3. \A job : (job \in unsent => job \in unsent') /\ (Queued(job) => Queued(job)')
  BY <1>1, QueueSame
<1>4. ASSUME u \in {v, w}
      PROVE  Waiting(u, "mutualCount")'
  <2>1. Job("mutualCount", {v, w}) \in Jobs
    BY JobType DEF Ops, Kinds
  <2>2. Job("mutualCount", {v, w}).op = "mutualCount" /\ u \in Job("mutualCount", {v, w}).users
    BY <1>4 DEF Job
  <2> QED BY <1>1, <2>1, <2>2 DEF Waiting
<1>5. ASSUME NEW p \in Parts, GotFresh(u, p)
      PROVE  GotFresh(u, p)'
  <2>1. p.kind \in Kinds
    BY DEF Parts
  <2>2. Waiting(u, p.kind) => Waiting(u, p.kind)'
    BY <1>3, <2>1, WaitingKept
  <2>3. CASE p.kind = "mutualCount" /\ u \in {v, w}
    BY <1>4, <2>3 DEF GotFresh
  <2>4. CASE ~(p.kind = "mutualCount" /\ u \in {v, w})
    <3>1. source'[u][p.kind] = source[u][p.kind]
      BY <1>1, <1>2, <2>1, <2>4
    <3>2. Part(u, p.kind)' = Part(u, p.kind)
      BY <3>1 DEF Part
    <3> QED BY <1>1, <1>5, <2>2, <3>2 DEF GotFresh, Settled
  <2> QED BY <2>3, <2>4
<1> QED BY <1>1, <1>2, <1>5, OutsideFresh

\* Interests are saved: their job is still to come, or they are excused.
LEMMA SaveInterestsFresh ==
  ASSUME FreshLists, NEW w \in Users, SaveInterests(w), NEW u \in Users \ disturbed'
  PROVE  Fresh(u)'
<1> DEFINE job == Job("commonInterest", {w})
<1>1. /\ UNCHANGED <<jobs, tasks, docs, queue, unsent, disturbed>>
      /\ source' = [source EXCEPT ![w]["commonInterest"] = @ + 1]
      /\ early' = IF \E i \in 1 .. Len(queue) : queue[i] = job THEN early ELSE early \cup {w}
  BY DEF SaveInterests, working
<1>2. Fresh(u) /\ Typed /\ source \in [Users -> [Kinds -> Nat]]
  BY <1>1 DEF FreshLists, ListsInv, WellFormed, Typed, TypeOK
<1>3. \A other : (other \in unsent => other \in unsent') /\ (Queued(other) => Queued(other)')
  BY <1>1, QueueSame
<1>4. w \in early' \/ Waiting(w, "commonInterest")'
  <2>1. w \in early' \/ Queued(job)
    BY <1>1 DEF Queued
  <2>2. job \in Jobs
    BY JobType DEF Ops, Kinds
  <2>3. job.op = "commonInterest" /\ w \in job.users
    BY DEF Job
  <2>4. Queued(job) => Queued(job)'
    BY <1>3
  <2> HIDE DEF job
  <2> QED BY <2>1, <2>2, <2>3, <2>4 DEF Waiting
<1> HIDE DEF job
<1>5. ASSUME NEW p \in Parts, GotFresh(u, p)
      PROVE  GotFresh(u, p)'
  <2>1. p.kind \in Kinds
    BY DEF Parts
  <2>2. Waiting(u, p.kind) => Waiting(u, p.kind)'
    BY <1>3, <2>1, WaitingKept
  <2>3. CASE p.kind = "commonInterest" /\ u = w
    BY <1>4, <2>3 DEF GotFresh, Settled
  <2>4. CASE ~(p.kind = "commonInterest" /\ u = w)
    <3>1. source'[u][p.kind] = source[u][p.kind]
      BY <1>1, <1>2, <2>1, <2>4
    <3>2. Part(u, p.kind)' = Part(u, p.kind)
      BY <3>1 DEF Part
    <3>3. u \in early => u \in early'
      BY <1>1
    <3> QED BY <1>5, <2>2, <3>2, <3>3 DEF GotFresh, Settled
  <2> QED BY <2>3, <2>4
<1> QED BY <1>1, <1>2, <1>5, OutsideFresh

\* Taking a change begins to replace what the change has made stale.
LEMMA TakeFresh ==
  ASSUME FreshLists, NEW s \in Loops, Take(s), NEW u \in Users \ disturbed'
  PROVE  Fresh(u)'
<1> DEFINE job == queue[Len(queue)]
<1>1. /\ jobs[s] = "idle"
      /\ \A t \in Loops, v \in Users :
           tasks'[t][v] = IF t # s THEN tasks[t][v]
                          ELSE IF v \in job.users
                          THEN [phase |-> FirstPhase(job.op), got |-> {}] ELSE NoTask
      /\ \A t \in Loops : jobs'[t] = IF t = s THEN job.op ELSE jobs[t]
      /\ disturbed' = disturbed \cup {v \in job.users : InFlight(v)}
      /\ UNCHANGED <<source, unsent, docs, early>>
      /\ job.op \in Ops
  BY TakeDoes DEF FreshLists, ListsInv
<1>2. /\ job \in Jobs
      /\ \A other : Queued(other) <=> Queued(other)' \/ other = job
  BY TakeQueue DEF FreshLists, ListsInv, WellFormed
<1> HIDE DEF job
<1>3. Fresh(u) /\ Typed /\ u \in Users
  BY <1>1 DEF FreshLists, ListsInv, WellFormed
<1>4. \A p : Settled(u, p)' <=> Settled(u, p)
  BY <1>1 DEF Settled, Part
<1>5. \A k : Waiting(u, k) => Waiting(u, k)' \/ (job.op = k /\ u \in job.users)
  BY <1>1, <1>2 DEF Waiting
<1>6. "idle" \notin Kinds /\ NoTask.phase = "none" /\ NoTask.got = {}
  BY DEF Kinds, NoTask
<1>7. CASE u \notin job.users
  <2>1. \A p \in Parts : GotFresh(u, p) => GotFresh(u, p)'
    BY <1>4, <1>5, <1>7 DEF GotFresh
  <2>2. /\ tasks'[s][u] = NoTask
        /\ \A t \in Loops : t # s => tasks'[t][u] = tasks[t][u] /\ jobs'[t] = jobs[t]
    BY <1>1, <1>3, <1>7
  <2>3. \A t \in Loops : \A k : Replacing(t, u, k) => Replacing(t, u, k)'
    BY <1>1, <1>6, <2>2 DEF Replacing
  <2>4. \A i \in 1 .. Len(docs[u]) : \A p \in docs[u][i].parts : DocFresh(u, p)'
    BY <1>3, <2>1, <2>3, PartsTyped DEF Fresh, DocFresh
  <2>5. \A t \in Loops : \A p \in tasks'[t][u].got : GotFresh(u, p)'
    BY <1>3, <1>6, <2>1, <2>2, PartsTyped DEF Fresh
  <2>6. \A t \in Loops : tasks'[t][u].phase = "push" =>
          \A i \in 1 .. Len(docs[u]) : \A p \in docs[u][i].parts : p.kind # jobs'[t]
    BY <1>3, <1>6, <2>2 DEF Fresh
  <2> QED BY <1>1, <2>4, <2>5, <2>6 DEF Fresh
<1>8. CASE u \in job.users
  <2>1. \A t \in Loops : tasks[t][u] = NoTask
    BY <1>1, <1>8 DEF InFlight
  <2>2. /\ tasks'[s][u] = [phase |-> FirstPhase(job.op), got |-> {}] /\ jobs'[s] = job.op
        /\ \A t \in Loops : t # s => tasks'[t][u] = NoTask
    BY <1>1, <1>3, <1>8, <2>1
  <2>3. FirstPhase(job.op) # "push" /\ (job.op \in Kinds => FirstPhase(job.op) = "fetch")
    BY <1>1, FirstPhases
  <2>4. \A t \in Loops : \A k : ~Replacing(t, u, k)
    BY <1>6, <2>1 DEF Replacing
  <2>5. ASSUME NEW k \in Kinds, job.op = k
        PROVE  Replacing(s, u, k)'
    BY <2>2, <2>3, <2>5 DEF Replacing
  <2>6. ASSUME NEW i \in 1 .. Len(docs[u]), NEW p \in docs[u][i].parts
        PROVE  DocFresh(u, p)'
    <3>1. p.kind \in Kinds /\ GotFresh(u, p)
      BY <1>3, <2>4, PartsTyped DEF Fresh, DocFresh
    <3>2. CASE Settled(u, p)
      BY <1>4, <3>2 DEF DocFresh, GotFresh
    <3>3. CASE p.kind # "province" /\ Waiting(u, p.kind)
      <4>1. Waiting(u, p.kind)' \/ Replacing(s, u, p.kind)'
        BY <1>5, <2>5, <3>1, <3>3
      <4> QED BY <3>3, <4>1 DEF DocFresh, GotFresh
    <3> QED BY <3>1, <3>2, <3>3 DEF GotFresh
  <2>7. \A t \in Loops : tasks'[t][u].got = {} /\ tasks'[t][u].phase # "push"
    BY <1>6, <2>2, <2>3
  <2> QED BY <1>1, <2>6, <2>7 DEF Fresh
<1> QED BY <1>7, <1>8

\* What a step of a task leaves of the freshness of its user's list: only this
\* task, its documents and what it has read change.
LEMMA OwnFresh ==
  ASSUME FreshLists, NEW s \in Loops, NEW u \in Users \ disturbed, Work(s, u),
         \A i \in 1 .. Len(docs'[u]) : \A p \in docs'[u][i].parts :
           GotFresh(u, p) \/ (p.kind # "province" /\ Replacing(s, u, p.kind)'),
         \A p \in tasks'[s][u].got : GotFresh(u, p),
         tasks'[s][u].phase = "push" =>
           \A i \in 1 .. Len(docs'[u]) : \A p \in docs'[u][i].parts : p.kind # jobs'[s]
  PROVE  Fresh(u)'
<1>1. /\ UNCHANGED <<source, unsent, queue, early>>
      /\ \A t \in Loops, v \in Users : t # s \/ v # u => tasks'[t][v] = tasks[t][v]
      /\ tasks[s][u] # NoTask
  BY WorkDoes DEF FreshLists, ListsInv
<1>2. \A t \in Loops : t # s => tasks'[t][u] = NoTask
  BY <1>1 DEF FreshLists, ListsInv, WellFormed, OneAtATime
<1>3. \A p : GotFresh(u, p)' <=> GotFresh(u, p)
  <2>1. \A job : Queued(job)' <=> Queued(job)
    BY <1>1, QueueSame
  <2> QED BY <1>1, <2>1 DEF GotFresh, Settled, Waiting, Part
<1>4. NoTask.phase = "none" /\ NoTask.got = {}
  BY DEF NoTask
<1>5. \A i \in 1 .. Len(docs'[u]) : \A p \in docs'[u][i].parts : DocFresh(u, p)'
  BY <1>3 DEF DocFresh
<1>6. \A t \in Loops : \A p \in tasks'[t][u].got : GotFresh(u, p)'
  BY <1>2, <1>3, <1>4
<1>7. \A t \in Loops : tasks'[t][u].phase = "push" =>
        \A i \in 1 .. Len(docs'[u]) : \A p \in docs'[u][i].parts : p.kind # jobs'[t]
  BY <1>2, <1>4
<1> QED BY <1>5, <1>6, <1>7 DEF Fresh

\* Before the step: a part is fresh, or this task replaces it.
LEMMA OwnBefore ==
  ASSUME FreshLists, NEW s \in Loops, NEW u \in Users \ disturbed, Work(s, u)
  PROVE  /\ \A i \in 1 .. Len(docs[u]) : \A p \in docs[u][i].parts :
              GotFresh(u, p) \/ (p.kind # "province" /\ Replacing(s, u, p.kind))
         /\ \A p \in tasks[s][u].got : GotFresh(u, p)
         /\ tasks[s][u].phase = "push" =>
              \A i \in 1 .. Len(docs[u]) : \A p \in docs[u][i].parts : p.kind # jobs[s]
<1>1. tasks[s][u] # NoTask
  BY WorkDoes DEF FreshLists, ListsInv
<1>2. \A t \in Loops : t # s => tasks[t][u] = NoTask
  BY <1>1 DEF FreshLists, ListsInv, WellFormed, OneAtATime
<1>3. \A t \in Loops : \A k : t # s => ~Replacing(t, u, k)
  BY <1>2 DEF Replacing, NoTask
<1>4. Fresh(u)
  BY DEF FreshLists
<1> QED BY <1>3, <1>4 DEF Fresh, DocFresh

LEMMA PartSettled ==
  ASSUME NEW u, NEW k
  PROVE  GotFresh(u, Part(u, k))
<1>1. Part(u, k).kind = k
  BY DEF Part
<1> QED BY <1>1 DEF GotFresh, Settled

\* A task that goes on reading.
LEMMA ReadFresh ==
  ASSUME FreshLists, NEW s \in Loops, NEW u \in Users \ disturbed,
         Work(s, u), docs' = docs, NEW phase, NEW got, Go(s, u, phase, got),
         phase \in {"check", "pull", "generate", "mutual", "interest", "store"},
         tasks[s][u].phase # "delete",
         \A p \in got : GotFresh(u, p),
         \A k \in Kinds : Replacing(s, u, k) =>
           jobs[s] \in Kinds /\ (phase \in {"check", "pull"} => jobs[s] = k)
  PROVE  Fresh(u)'
<1>1. tasks'[s][u] = [phase |-> phase, got |-> got] /\ jobs' = jobs
  <2>1. Goes(s, u) /\ tasks'[s][u] = [phase |-> phase, got |-> got]
    BY GoGoes DEF FreshLists, ListsInv, WellFormed
  <2> QED BY <2>1 DEF Goes
<1>2. \A k \in Kinds : Replacing(s, u, k) => Replacing(s, u, k)'
  BY <1>1 DEF Replacing
<1>3. \A i \in 1 .. Len(docs[u]) : \A p \in docs[u][i].parts :
        GotFresh(u, p) \/ (p.kind # "province" /\ Replacing(s, u, p.kind)')
  <2>1. \A i \in 1 .. Len(docs[u]) : \A p \in docs[u][i].parts : p.kind \in Kinds
    BY PartsTyped DEF FreshLists, ListsInv, WellFormed
  <2> QED BY <1>2, <2>1, OwnBefore
<1>4. (\A p \in tasks'[s][u].got : GotFresh(u, p)) /\ tasks'[s][u].phase # "push"
  BY <1>1
<1> QED BY <1>3, <1>4, OwnFresh

\* A task that ends without a change of the documents, which are all fresh.
LEMMA EndedFresh ==
  ASSUME FreshLists, NEW s \in Loops, NEW u \in Users \ disturbed, Work(s, u), End(s, u),
         \A i \in 1 .. Len(docs'[u]) : \A p \in docs'[u][i].parts : GotFresh(u, p)
  PROVE  Fresh(u)'
<1>1. tasks'[s][u] = NoTask
  BY EndEnds DEF Ends, FreshLists, ListsInv, WellFormed
<1> QED BY <1>1, OwnFresh DEF NoTask

LEMMA FetchFresh ==
  ASSUME FreshLists, NEW s \in Loops, NEW u \in Users \ disturbed, Fetch(s, u)
  PROVE  Fresh(u)'
<1>0. Work(s, u) /\ docs' = docs /\ tasks[s][u].phase = "fetch"
  BY DEF Work, Fetch, At
<1>1. jobs[s] \in Kinds
  BY <1>0 DEF FreshLists, ListsInv, WellFormed, Typed, ChangesHaveKind
<1>2. CASE jobs[s] = "province" /\ End(s, u)
  <2>1. \A k : Replacing(s, u, k) => k = "province"
    BY <1>0, <1>2 DEF Replacing
  <2>2. \A i \in 1 .. Len(docs[u]) : \A p \in docs[u][i].parts : GotFresh(u, p)
    BY <1>0, <2>1, OwnBefore
  <2> QED BY <1>0, <1>2, <2>2, EndedFresh
<1>3. CASE Go(s, u, "check", {Part(u, jobs[s])})
  <2>1. \A k \in Kinds : Replacing(s, u, k) => jobs[s] = k
    BY <1>0 DEF Replacing
  <2>2. \A p \in {Part(u, jobs[s])} : GotFresh(u, p)
    BY PartSettled
  <2> QED BY <1>0, <1>1, <1>3, <2>1, <2>2, ReadFresh
<1> QED BY <1>2, <1>3 DEF Fetch

LEMMA CheckFresh ==
  ASSUME FreshLists, NEW s \in Loops, NEW u \in Users \ disturbed, Check(s, u)
  PROVE  Fresh(u)'
<1>0. Work(s, u) /\ docs' = docs /\ tasks[s][u].phase = "check"
  BY DEF Work, Check, At
<1>1. jobs[s] \in Kinds
  BY <1>0 DEF FreshLists, ListsInv, WellFormed, Typed, ChangesHaveKind
<1>2. CASE docs[u] = <<>> /\ End(s, u)
  <2>1. \A i \in 1 .. Len(docs[u]) : FALSE
    BY <1>2
  <2> QED BY <1>0, <1>2, <2>1, EndedFresh
<1>3. CASE Go(s, u, "generate", {})
  BY <1>0, <1>1, <1>3, ReadFresh
<1>4. CASE Go(s, u, "pull", tasks[s][u].got)
  <2>1. \A k \in Kinds : Replacing(s, u, k) => jobs[s] = k
    BY <1>0 DEF Replacing
  <2> QED BY <1>0, <1>1, <1>4, <2>1, OwnBefore, ReadFresh
<1> QED BY <1>2, <1>3, <1>4 DEF Check

\* $pull takes out what this change has made stale, and nothing else was.
LEMMA PullFresh ==
  ASSUME FreshLists, NEW s \in Loops, NEW u \in Users \ disturbed, Pull(s, u)
  PROVE  Fresh(u)'
<1>0. Work(s, u) /\ Go(s, u, "push", tasks[s][u].got) /\ tasks[s][u].phase = "pull"
  BY DEF Work, Pull, At
<1>1. tasks'[s][u] = [phase |-> "push", got |-> tasks[s][u].got] /\ jobs' = jobs
  <2>1. Goes(s, u) /\ tasks'[s][u] = [phase |-> "push", got |-> tasks[s][u].got]
    BY <1>0, GoGoes DEF FreshLists, ListsInv, WellFormed
  <2> QED BY <2>1 DEF Goes
<1>2. docs'[u] = [i \in 1 .. Len(docs[u]) |->
                    [docs[u][i] EXCEPT !.parts = {p \in @ : p.kind # jobs[s]}]]
  BY DEF Pull, FreshLists, ListsInv, WellFormed, Typed, TypeOK
<1>3. Len(docs'[u]) = Len(docs[u])
  BY PullType DEF FreshLists, ListsInv, WellFormed, Typed
<1>4. ASSUME NEW i \in 1 .. Len(docs'[u])
      PROVE  docs'[u][i].parts = {p \in docs[u][i].parts : p.kind # jobs[s]}
  <2>1. docs[u][i] \in Docs /\ i \in 1 .. Len(docs[u])
    BY <1>3, DocType DEF FreshLists, ListsInv, WellFormed
  <2>2. docs'[u][i] = [docs[u][i] EXCEPT !.parts = {p \in @ : p.kind # jobs[s]}]
    BY <1>2, <2>1
  <2> QED BY <2>1, <2>2 DEF Docs
<1>5. \A k : Replacing(s, u, k) => jobs[s] = k
  BY <1>0 DEF Replacing
<1>6. \A i \in 1 .. Len(docs'[u]) : \A p \in docs'[u][i].parts :
        GotFresh(u, p) /\ p.kind # jobs[s]
  BY <1>0, <1>3, <1>4, <1>5, OwnBefore
<1>7. \A p \in tasks'[s][u].got : GotFresh(u, p)
  BY <1>0, <1>1, OwnBefore
<1> QED BY <1>0, <1>1, <1>6, <1>7, OwnFresh

LEMMA UpdatedDocs ==
  ASSUME ListsInv, NEW u \in Users \ disturbed, NEW doc, UpdateFirst(u, doc)
  PROVE  \A i \in 1 .. Len(docs'[u]) : /\ docs'[u][i] = doc
                                       /\ 1 \in 1 .. Len(docs[u])
<1>1. docs \in [Users -> Seq(Docs)] /\ docs[u] \in Seq(Docs)
  BY DEF ListsInv, WellFormed, Typed, TypeOK
<1>2. Len(docs[u]) = 0 \/ Len(docs[u]) = 1
  BY AtMostOneList
<1>3. CASE docs[u] = <<>>
  BY <1>3 DEF UpdateFirst
<1>4. CASE docs[u] # <<>>
  <2>1. Len(docs[u]) = 1
    BY <1>1, <1>2, <1>4, EmptySeq
  <2>2. docs'[u] = [docs[u] EXCEPT ![1] = doc]
    BY <1>1, <1>4 DEF UpdateFirst
  <2> QED BY <1>1, <2>1, <2>2
<1> QED BY <1>3, <1>4

LEMMA PushFresh ==
  ASSUME FreshLists, NEW s \in Loops, NEW u \in Users \ disturbed, Push(s, u)
  PROVE  Fresh(u)'
<1> DEFINE doc == [parts |-> docs[u][1].parts \cup tasks[s][u].got,
                   modified |-> docs[u][1].modified + 1]
<1>0. Work(s, u) /\ End(s, u) /\ UpdateFirst(u, doc) /\ tasks[s][u].phase = "push"
  BY DEF Work, Push, At
<1>1. \A k : ~Replacing(s, u, k)
  BY <1>0 DEF Replacing
<1>2. \A i \in 1 .. Len(docs[u]) : \A p \in docs[u][i].parts : GotFresh(u, p)
  BY <1>0, <1>1, OwnBefore
<1>3. \A p \in tasks[s][u].got : GotFresh(u, p)
  BY <1>0, OwnBefore
<1>4. doc.parts = docs[u][1].parts \cup tasks[s][u].got
  OBVIOUS
<1> HIDE DEF doc
<1>5. \A i \in 1 .. Len(docs'[u]) : docs'[u][i] = doc /\ 1 \in 1 .. Len(docs[u])
  BY <1>0, UpdatedDocs DEF FreshLists
<1>6. \A i \in 1 .. Len(docs'[u]) : \A p \in docs'[u][i].parts : GotFresh(u, p)
  BY <1>2, <1>3, <1>4, <1>5
<1> QED BY <1>0, <1>6, EndedFresh

LEMMA GenerateFresh ==
  ASSUME FreshLists, NEW s \in Loops, NEW u \in Users \ disturbed,
         Generate(s, u) \/ GenerateMutual(s, u) \/ GenerateInterest(s, u)
  PROVE  Fresh(u)'
<1>0. Work(s, u) /\ docs' = docs /\ tasks[s][u].phase # "delete"
  BY DEF Work, Generate, GenerateMutual, GenerateInterest, At
<1>1. \A k : Replacing(s, u, k) => jobs[s] \in Kinds
  BY DEF Replacing
<1>2. CASE Generate(s, u)
  <2>1. CASE Go(s, u, "mutual", {Part(u, "province")})
    <3>1. \A p \in {Part(u, "province")} : GotFresh(u, p)
      BY PartSettled
    <3> QED BY <1>0, <1>1, <2>1, <3>1, ReadFresh
  <2>2. CASE Go(s, u, "store", {})
    BY <1>0, <1>1, <2>2, ReadFresh
  <2> QED BY <1>2, <2>1, <2>2 DEF Generate
<1>3. ASSUME NEW k, NEW phase \in {"interest", "store"},
             Go(s, u, phase, tasks[s][u].got \cup {Part(u, k)})
      PROVE  Fresh(u)'
  <2>1. \A p \in tasks[s][u].got \cup {Part(u, k)} : GotFresh(u, p)
    BY <1>0, OwnBefore, PartSettled
  <2> DEFINE got == tasks[s][u].got \cup {Part(u, k)}
  <2>2. Go(s, u, phase, got) /\ \A p \in got : GotFresh(u, p)
    BY <1>3, <2>1
  <2> HIDE DEF got
  <2> QED BY <1>0, <1>1, <2>2, ReadFresh
<1>4. CASE GenerateMutual(s, u)
  BY <1>3, <1>4 DEF GenerateMutual
<1>5. CASE GenerateInterest(s, u)
  BY <1>3, <1>5 DEF GenerateInterest
<1> QED BY <1>2, <1>4, <1>5

LEMMA StoreFresh ==
  ASSUME FreshLists, NEW s \in Loops, NEW u \in Users \ disturbed, Store(s, u)
  PROVE  Fresh(u)'
<1> DEFINE doc == [parts |-> tasks[s][u].got, modified |-> 0]
<1>0. Work(s, u) /\ End(s, u)
  BY DEF Work, Store
<1>1. \A p \in tasks[s][u].got : GotFresh(u, p)
  BY <1>0, OwnBefore
<1>2. doc.parts = tasks[s][u].got /\ doc \in Docs
  BY DEF FreshLists, ListsInv, WellFormed, Typed, TypeOK, Task, Docs
<1>3. \/ UpdateFirst(u, doc)
      \/ jobs[s] \in {"created", "initEach"} /\ docs' = [docs EXCEPT ![u] = Append(docs[u], doc)]
  BY DEF Store
<1> HIDE DEF doc
<1>4. CASE UpdateFirst(u, doc)
  <2>1. \A i \in 1 .. Len(docs'[u]) : docs'[u][i] = doc
    BY <1>4, UpdatedDocs DEF FreshLists
  <2> QED BY <1>0, <1>1, <1>2, <2>1, EndedFresh
<1>5. CASE jobs[s] \in {"created", "initEach"} /\ docs' = [docs EXCEPT ![u] = Append(docs[u], doc)]
  <2>1. docs[u] \in Seq(Docs) /\ docs \in [Users -> Seq(Docs)]
    BY DEF FreshLists, ListsInv, WellFormed, Typed, TypeOK
  <2>2. docs'[u] = Append(docs[u], doc)
    BY <1>5, <2>1
  <2>3. /\ Len(docs'[u]) = Len(docs[u]) + 1 /\ Len(docs[u]) \in Nat
        /\ \A i \in 1 .. Len(docs[u]) : docs'[u][i] = docs[u][i]
        /\ docs'[u][Len(docs[u]) + 1] = doc
    BY <1>2, <2>1, <2>2, AppendProperties, LenProperties
  <2>4. \A k : ~Replacing(s, u, k)
    BY <1>5 DEF Replacing, Kinds
  <2>5. \A i \in 1 .. Len(docs[u]) : \A p \in docs[u][i].parts : GotFresh(u, p)
    BY <1>0, <2>4, OwnBefore
  <2>6. ASSUME NEW i \in 1 .. Len(docs'[u])
        PROVE  \A p \in docs'[u][i].parts : GotFresh(u, p)
    <3>1. i \in 1 .. Len(docs[u]) \/ i = Len(docs[u]) + 1
      BY <2>3
    <3> QED BY <1>1, <1>2, <2>3, <2>5, <3>1
  <2> QED BY <1>0, <2>6, EndedFresh
<1> QED BY <1>3, <1>4, <1>5

LEMMA DeleteDocFresh ==
  ASSUME FreshLists, NEW s \in Loops, NEW u \in Users \ disturbed, DeleteDoc(s, u)
  PROVE  Fresh(u)'
<1>0. Work(s, u) /\ End(s, u)
  BY DEF Work, DeleteDoc
<1>1. docs[u] \in Seq(Docs) /\ docs \in [Users -> Seq(Docs)]
  BY DEF FreshLists, ListsInv, WellFormed, Typed, TypeOK
<1>2. docs'[u] = IF docs[u] = <<>> THEN <<>> ELSE Tail(docs[u])
  BY <1>1 DEF DeleteDoc
<1>3. Len(docs'[u]) = 0
  <2>1. CASE docs[u] = <<>>
    BY <1>2, <2>1
  <2>2. CASE docs[u] # <<>>
    <3>1. Len(docs[u]) = 1
      BY <1>1, <2>2, AtMostOneList, EmptySeq DEF FreshLists
    <3> QED BY <1>1, <1>2, <2>2, <3>1, HeadTailProperties
  <2> QED BY <2>1, <2>2
<1>4. \A i \in 1 .. Len(docs'[u]) : FALSE
  BY <1>3
<1> QED BY <1>0, <1>4, EndedFresh

\* The users whose task does not move.
LEMMA OthersFresh ==
  ASSUME FreshLists, NEW s \in Loops, NEW w \in Users, Work(s, w),
         NEW u \in Users \ disturbed, u # w
  PROVE  Fresh(u)'
<1>1. /\ UNCHANGED <<source, unsent, queue, early>>
      /\ \A t \in Loops : tasks'[t][u] = tasks[t][u]
  BY WorkDoes DEF FreshLists, ListsInv
<1>2. \A t \in Loops : tasks[t][u] # NoTask => jobs'[t] = jobs[t]
  BY WorkLoops DEF FreshLists, ListsInv
<1>3. docs'[u] = docs[u]
  BY WorkLength DEF FreshLists, ListsInv
<1>4. \A p : GotFresh(u, p)' <=> GotFresh(u, p)
  <2>1. \A job : Queued(job)' <=> Queued(job)
    BY <1>1, QueueSame
  <2> QED BY <1>1, <2>1 DEF GotFresh, Settled, Waiting, Part
<1>5. NoTask.phase = "none"
  BY DEF NoTask
<1>6. \A t \in Loops : \A k : Replacing(t, u, k) => Replacing(t, u, k)'
  BY <1>1, <1>2, <1>5 DEF Replacing
<1>7. Fresh(u)
  BY DEF FreshLists
<1>8. \A i \in 1 .. Len(docs'[u]) : \A p \in docs'[u][i].parts : DocFresh(u, p)'
  BY <1>3, <1>4, <1>6, <1>7 DEF Fresh, DocFresh
<1>9. \A t \in Loops : \A p \in tasks'[t][u].got : GotFresh(u, p)'
  BY <1>1, <1>4, <1>7 DEF Fresh
<1>10. \A t \in Loops : tasks'[t][u].phase = "push" =>
         \A i \in 1 .. Len(docs'[u]) : \A p \in docs'[u][i].parts : p.kind # jobs'[t]
  BY <1>1, <1>2, <1>3, <1>5, <1>7 DEF Fresh
<1> QED BY <1>8, <1>9, <1>10 DEF Fresh

\* INIT makes lists anew, and reads for them what is current.
LEMMA InitFresh ==
  ASSUME FreshLists, NEW s \in Loops, InitRead(s) \/ InitNext(s), NEW u \in Users \ disturbed'
  PROVE  Fresh(u)'
<1>1. /\ UNCHANGED <<source, unsent, queue, early, docs>>
      /\ jobs[s] \in {"init", "initEach"} /\ \A v \in Users : tasks[s][v] = NoTask
      /\ disturbed \subseteq disturbed'
  BY DEF InitRead, InitNext, main_app, Disturb, FreshLists, ListsInv, WellFormed, TasksOfJobs
<1>2. \A p : GotFresh(u, p)' <=> GotFresh(u, p)
  <2>1. \A job : Queued(job)' <=> Queued(job)
    BY <1>1, QueueSame
  <2> QED BY <1>1, <2>1 DEF GotFresh, Settled, Waiting, Part
<1>3. /\ jobs \in [Loops -> Ops \cup {"idle", "initEach"}]
      /\ tasks \in [Loops -> [Users -> Task]]
      /\ todo \subseteq Users
  BY DEF FreshLists, ListsInv, WellFormed, Typed, TypeOK
<1>4. /\ \A t \in Loops : t # s => jobs'[t] = jobs[t] /\ tasks'[t][u] = tasks[t][u]
      /\ tasks'[s][u] \in {NoTask, [phase |-> "generate", got |-> {}]}
  <2>1. CASE InitRead(s)
    BY <1>1, <1>3, <2>1 DEF InitRead
  <2>2. ASSUME NEW w \in todo, jobs' = jobs,
               tasks' = [tasks EXCEPT ![s][w] = [phase |-> "generate", got |-> {}]]
        PROVE  /\ \A t \in Loops : t # s => jobs'[t] = jobs[t] /\ tasks'[t][u] = tasks[t][u]
               /\ tasks'[s][u] \in {NoTask, [phase |-> "generate", got |-> {}]}
    BY <1>1, <1>3, <2>2
  <2>3. CASE jobs' = [jobs EXCEPT ![s] = "idle"] /\ tasks' = tasks
    BY <1>1, <1>3, <2>3
  <2> QED BY <2>1, <2>2, <2>3 DEF InitNext
<1>5. jobs[s] \notin Kinds
  BY <1>1 DEF Kinds
<1>6. \A t \in Loops : \A k : Replacing(t, u, k) => Replacing(t, u, k)'
  BY <1>4, <1>5 DEF Replacing
<1>7. Fresh(u)
  BY <1>1 DEF FreshLists
<1>8. \A i \in 1 .. Len(docs[u]) : \A p \in docs[u][i].parts : DocFresh(u, p)'
  BY <1>2, <1>6, <1>7 DEF Fresh, DocFresh
<1>9. tasks'[s][u].got = {} /\ tasks'[s][u].phase # "push"
  BY <1>4 DEF NoTask
<1>10. \A t \in Loops : \A p \in tasks'[t][u].got : GotFresh(u, p)'
  BY <1>2, <1>4, <1>7, <1>9 DEF Fresh
<1>11. \A t \in Loops : tasks'[t][u].phase = "push" =>
         \A i \in 1 .. Len(docs[u]) : \A p \in docs[u][i].parts : p.kind # jobs'[t]
  BY <1>4, <1>7, <1>9 DEF Fresh
<1> QED BY <1>1, <1>8, <1>10, <1>11 DEF Fresh

LEMMA NextFreshLists == FreshLists /\ [Next]_vars => FreshLists'
<1> SUFFICES ASSUME FreshLists, [Next]_vars PROVE FreshLists'
  OBVIOUS
<1>1. ListsInv'
  BY NextLists DEF FreshLists
<1>2. SUFFICES ASSUME NEW u \in Users \ disturbed' PROVE Fresh(u)'
  BY <1>1 DEF FreshLists
<1>3. CASE UNCHANGED vars
  <2>1. /\ UNCHANGED <<jobs, tasks, docs, source, early, unsent, queue, disturbed>>
        /\ Fresh(u)
    BY <1>3 DEF vars, main_app, working, FreshLists
  <2>2. \A p \in Parts : GotFresh(u, p) => GotFresh(u, p)'
    BY <2>1, GotFreshKept, QueueSame
  <2> QED BY <2>1, <2>2, OutsideFresh DEF FreshLists, ListsInv, WellFormed
<1>4. CASE MainApp
  BY <1>4, SourceKeptFresh, ChangeFriendshipFresh, SaveInterestsFresh DEF MainApp
<1>5. CASE \E job \in unsent : Send(job)
  BY <1>5, SourceKeptFresh
<1>6. ASSUME NEW s \in Loops, NEW w \in Users, Work(s, w)
      PROVE  Fresh(u)'
  <2>1. u \in Users \ disturbed
    BY <1>6, WorkDoes DEF FreshLists, ListsInv
  <2>2. CASE u # w
    BY <1>6, <2>1, <2>2, OthersFresh
  <2>3. CASE u = w
    BY <1>6, <2>1, <2>3, FetchFresh, CheckFresh, PullFresh, PushFresh, GenerateFresh,
       StoreFresh, DeleteDocFresh DEF Work
  <2> QED BY <2>2, <2>3
<1>7. ASSUME NEW s \in Loops, Loop(s)
      PROVE  Fresh(u)'
  BY <1>6, <1>7, TakeFresh, InitFresh DEF Loop
<1> QED BY <1>3, <1>4, <1>5, <1>7 DEF Next

LEMMA InitFreshLists == Init => FreshLists
<1> SUFFICES ASSUME Init PROVE FreshLists
  OBVIOUS
<1>1. \A u \in Users : Len(docs[u]) = 0 /\ \A s \in Loops : tasks[s][u] = NoTask
  BY DEF Init
<1>2. \A u \in Users : \A i \in 1 .. Len(docs[u]) : FALSE
  BY <1>1
<1>3. \A u \in Users : Fresh(u)
  BY <1>1, <1>2 DEF Fresh, NoTask
<1> QED BY <1>3, InitLists DEF FreshLists

\* At rest a list shows the friends, the address and the interests its user
\* has now, although later changes are processed before earlier ones and jobs
\* of users without a list fail: but for users two jobs were at, and for
\* interests saved only after the job their early event started.
\* (processor.onUserChange, interests.controller)
THEOREM ListsCurrent == Spec => []CurrentAtRest
<1>1. FreshLists => CurrentAtRest
  <2> SUFFICES ASSUME FreshLists, Quiet, NEW u \in Users \ disturbed,
                      NEW i \in 1 .. Len(docs[u]), NEW p \in docs[u][i].parts
               PROVE  Settled(u, p)
    BY DEF CurrentAtRest, Settled
  <2>1. unsent = {} /\ Len(queue) = 0 /\ \A s \in Loops : jobs[s] = "idle"
    BY DEF Quiet
  <2>2. \A k : ~Waiting(u, k)
    BY <2>1 DEF Waiting, Queued
  <2>3. \A s \in Loops : \A k : ~Replacing(s, u, k)
    BY <2>1 DEF Replacing, Kinds
  <2>4. DocFresh(u, p)
    BY DEF FreshLists, Fresh
  <2> QED BY <2>2, <2>3, <2>4 DEF DocFresh, GotFresh
<1> QED BY <1>1, InitFreshLists, NextFreshLists, PTL DEF Spec

=============================================================================
