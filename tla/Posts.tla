------------------------------- MODULE Posts -------------------------------
(***************************************************************************)
(* Posts and their pictures: the HTTP handlers of apps/main-app            *)
(* (posts.controller.ts, files.controller.ts) and the post service they    *)
(* ask over Redis.                                                         *)
(*                                                                         *)
(* A post is in three stores, and no transaction spans them: its row with  *)
(* its interests (table post), the row of its picture (table file, whose   *)
(* postId is unique) and the picture itself (a disk or S3).  main-app      *)
(* stores the picture last and checks its size and type only then.         *)
(***************************************************************************)
EXTENDS Naturals, FiniteSets

CONSTANTS
  PostIds,   \* bound: posts ever made
  Paths,     \* bound: names generated for uploaded files
  Handlers,  \* bound: requests handled at the same time
  None

ASSUME PostsAssumption ==
  /\ None \notin Paths
  /\ {"fresh", "upload"} \cap PostIds = {}

VARIABLES
  posts,     \* tables post and post_interest, and file where postId is set
  loose,     \* table file where postId is null: the paths
  stored,    \* the files of the storage
  up,        \* the post service's process
  calls,     \* the requests in progress
  used,      \* what a name was generated for
  disturbed, \* history: posts with overlapping or failed requests
  raced      \* history: posts deleted while an update was past its check

tables == <<posts, loose>>
history == <<disturbed, raced>>
vars == <<tables, stored, up, calls, used, history>>

-----------------------------------------------------------------------------
\* picture is the row with this postId, picId what the post calls it; tags
\* counts the lists of interests the post has.
Post == [state : {"none", "kept", "deleted"},
         picId : Paths \cup {None}, picture : Paths \cup {None}, tags : Nat]
NoPost == [state |-> "none", picId |-> None, picture |-> None, tags |-> 0]

Idle == [phase |-> "idle"]
Steps == {"untag", "tag", "unlink", "link", "name", "store", "clean"}
Calls == [op : {"create", "update", "delete", "upload"},
          post : PostIds, own : BOOLEAN,
          path : Paths \cup {None}, old : Paths \cup {None}, tagged : BOOLEAN,
          phase : {"old", "row", "ask", "branches", "save", "delete", "reply",
                   "files", "hung"},
          todo : SUBSET Steps,
          failed : BOOLEAN, \* a branch of Promise.all has thrown
          deaf : BOOLEAN]   \* the main-app that asked is gone
Call(op, phase, p, own, path, tagged) ==
  [op |-> op, post |-> p, own |-> own, path |-> path, old |-> None,
   tagged |-> tagged, phase |-> phase,
   todo |-> IF op = "upload" THEN {"store"} ELSE {},
   failed |-> FALSE, deaf |-> FALSE]

TypeOK ==
  /\ posts \in [PostIds -> Post]
  /\ loose \subseteq Paths
  /\ stored \subseteq Paths
  /\ up \in BOOLEAN
  /\ calls \in [Handlers -> {Idle} \cup Calls]
  /\ used \in [Paths -> PostIds \cup {"fresh", "upload"}]
  /\ disturbed \subseteq PostIds
  /\ raced \subseteq PostIds

Init ==
  /\ posts = [p \in PostIds |-> NoPost]
  /\ loose = {}
  /\ stored = {}
  /\ up = TRUE
  /\ calls = [h \in Handlers |-> Idle]
  /\ used = [f \in Paths |-> "fresh"]
  /\ disturbed = {}
  /\ raced = {}

-----------------------------------------------------------------------------
Kept(p) == posts[p].state = "kept"
In(h, phase) == calls[h] # Idle /\ calls[h].phase = phase
At(h, op, phase) == In(h, phase) /\ calls[h].op = op
Pending(h, phase, step) == In(h, phase) /\ step \in calls[h].todo

Go(h, phase) == calls' = [calls EXCEPT ![h].phase = phase]
End(h) == calls' = [calls EXCEPT ![h] = Idle]

\* A request of p's owner that still is or may be at work.
Busy(h, p) == /\ calls[h] # Idle
              /\ calls[h].op # "upload"
              /\ calls[h].post = p
              /\ calls[h].own
              /\ calls[h].phase # "hung"

Disturb(ps) == disturbed' = disturbed \cup ps

\* The uploaded file, if there is one, gets a name nothing else has (a uuid).
GenerateFileName(path, purpose) ==
  /\ path # None => used[path] = "fresh"
  /\ used' = IF path = None THEN used ELSE [used EXCEPT ![path] = purpose]

Begin(h, op, phase, p, own, path, tagged) ==
  /\ calls[h] = Idle
  /\ GenerateFileName(path, IF op = "upload" THEN op ELSE p)
  /\ calls' = [calls EXCEPT ![h] = Call(op, phase, p, own, path, tagged)]
  /\ Disturb(IF own /\ \E g \in Handlers : Busy(g, p) THEN {p} ELSE {})
  /\ UNCHANGED <<tables, stored, up, raced>>

StartCreate(h, p) ==
  /\ posts[p].state = "none"
  /\ \A g \in Handlers : ~Busy(g, p)
  /\ \E path \in Paths \cup {None}, tagged \in BOOLEAN :
       Begin(h, "create", "ask", p, TRUE, path, tagged)

\* Anybody may name any post.
StartUpdate(h, p) ==
  /\ posts[p].state # "none"
  /\ \E path \in Paths \cup {None}, own, tagged \in BOOLEAN :
       Begin(h, "update", IF path = None THEN "ask" ELSE "old",
             p, own, path, tagged)

StartDelete(h, p) ==
  /\ posts[p].state # "none"
  /\ \E own \in BOOLEAN : Begin(h, "delete", "ask", p, own, None, FALSE)

StartUpload(h, p) ==
  \E path \in Paths : Begin(h, "upload", "files", p, FALSE, path, FALSE)

-----------------------------------------------------------------------------
(* main-app before it asks.                                                *)

FindOld(h) ==
  /\ In(h, "old")
  /\ calls' = [calls EXCEPT ![h].old = posts[calls[h].post].picture,
                            ![h].phase = "row"]
  /\ UNCHANGED <<tables, stored, up, used, history>>

\* createFileEntity: a row of its own, which no post will ever have.
CreateFileEntity(h) ==
  /\ In(h, "row")
  /\ loose' = loose \cup {calls[h].path}
  /\ IF calls[h].op = "upload" THEN End(h) ELSE Go(h, "ask")
  /\ UNCHANGED <<posts, stored, up, used, history>>

-----------------------------------------------------------------------------
(* The post service.                                                       *)

Branches(h, tag, link) ==
  calls' = [calls EXCEPT
    ![h].phase = "branches",
    ![h].todo = (IF calls[h].tagged THEN {tag} ELSE {})
                  \cup (IF calls[h].path # None THEN {link} ELSE {})]

Create(h) ==
  /\ At(h, "create", "ask")
  /\ up
  /\ posts' = [posts EXCEPT ![calls[h].post].state = "kept"]
  /\ Branches(h, "tag", "link")
  /\ UNCHANGED <<loose, stored, up, used, history>>

\* Mutant: the post is not looked up.
UpdateUnchecked(h) ==
  /\ At(h, "update", "ask")
  /\ up
  /\ IF calls[h].own THEN Branches(h, "untag", "unlink") ELSE End(h)
  /\ UNCHANGED <<tables, stored, up, used, history>>

\* Mutant: a refusal is answered like a success.
UpdateRefusedQuietly(h) ==
  /\ At(h, "update", "ask")
  /\ up
  /\ IF Kept(calls[h].post) /\ calls[h].own
       THEN Branches(h, "untag", "unlink") ELSE Go(h, "reply")
  /\ UNCHANGED <<tables, stored, up, used, history>>

\* exist with id and userId: UnprocessableEntity ends the request.
Update(h) ==
  /\ At(h, "update", "ask")
  /\ up
  /\ IF Kept(calls[h].post) /\ calls[h].own
       THEN Branches(h, "untag", "unlink") ELSE End(h)
  /\ UNCHANGED <<tables, stored, up, used, history>>

Did(h, step, next) ==
  calls' = [calls EXCEPT ![h].todo = (@ \ {step}) \cup next]

\* Promise.all rejects; the other branch goes on without anybody waiting.
Fail(h, step) ==
  /\ calls' = [calls EXCEPT ![h].todo = @ \ {step}, ![h].failed = TRUE]
  /\ Disturb({calls[h].post})
  /\ UNCHANGED <<tables, stored, up, used, raced>>

Untag(h) ==
  /\ Pending(h, "branches", "untag")
  /\ posts' = [posts EXCEPT ![calls[h].post].tags = 0]
  /\ Did(h, "untag", {"tag"})
  /\ UNCHANGED <<loose, stored, up, used, history>>

\* The insert fails for an unknown interest, or when the post is gone.
Tag(h) ==
  /\ Pending(h, "branches", "tag")
  /\ \/ Fail(h, "tag")
     \/ /\ Kept(calls[h].post)
        /\ posts' = [posts EXCEPT ![calls[h].post].tags = @ + 1]
        /\ Did(h, "tag", {})
        /\ UNCHANGED <<loose, stored, up, used, history>>

\* fileRepo.delete: the picture's row, without asking which it is.
Unlink(h) ==
  /\ Pending(h, "branches", "unlink")
  /\ posts' = [posts EXCEPT ![calls[h].post].picture = None]
  /\ Did(h, "unlink", {"link"})
  /\ UNCHANGED <<loose, stored, up, used, history>>

\* postId is a foreign key, and unique.
Link(h) ==
  /\ Pending(h, "branches", "link")
  /\ LET p == calls[h].post
     IN IF Kept(p) /\ posts[p].picture = None
          THEN /\ posts' = [posts EXCEPT ![p].picture = calls[h].path]
               /\ Did(h, "link", {"name"})
               /\ UNCHANGED <<loose, stored, up, used, history>>
          ELSE Fail(h, "link")

\* The UPDATE of picId touches no row when the post is gone.
SetPicId(h) ==
  /\ Pending(h, "branches", "name")
  /\ posts' = [posts EXCEPT ![calls[h].post].picId =
                 IF Kept(calls[h].post) THEN calls[h].path ELSE @]
  /\ Did(h, "name", {})
  /\ UNCHANGED <<loose, stored, up, used, history>>

Join(h) ==
  /\ In(h, "branches")
  /\ calls[h].todo = {}
  /\ IF calls[h].failed THEN End(h)
     ELSE Go(h, IF calls[h].op = "update" THEN "save" ELSE "reply")
  /\ UNCHANGED <<tables, stored, up, used, history>>

\* postRepo.save updates the row, or inserts it when there is none.
Save(h) ==
  /\ In(h, "save")
  /\ posts' = [posts EXCEPT ![calls[h].post] =
                 IF @.state = "kept" THEN @ ELSE [NoPost EXCEPT !.state = "kept"]]
  /\ Go(h, "reply")
  /\ UNCHANGED <<loose, stored, up, used, history>>

\* findOne loads the picture with the post.
FindPost(h) ==
  /\ At(h, "delete", "ask")
  /\ up
  /\ LET p == calls[h].post
     IN calls' = [calls EXCEPT
          ![h].phase = "delete",
          ![h].old = IF Kept(p) /\ calls[h].own THEN posts[p].picture ELSE None]
  /\ UNCHANGED <<tables, stored, up, used, history>>

\* An update of p past its check.
Updating(h, p) == /\ At(h, "update", "branches") \/ At(h, "update", "save")
                  /\ calls[h].post = p

\* The delete cascades to the picture's row and the interests.
Delete(h) ==
  /\ In(h, "delete")
  /\ LET p == calls[h].post
     IN IF Kept(p) /\ calls[h].own
          THEN /\ posts' = [posts EXCEPT ![p] = [NoPost EXCEPT !.state = "deleted"]]
               /\ raced' = IF \E g \in Handlers : Updating(g, p)
                            THEN raced \cup {p} ELSE raced
               /\ Go(h, "reply")
          ELSE /\ calls' = [calls EXCEPT ![h].phase = "reply", ![h].old = None]
               /\ UNCHANGED <<posts, raced>>
  /\ UNCHANGED <<loose, stored, up, used, disturbed>>

-----------------------------------------------------------------------------
(* main-app after the answer.                                              *)

\* Mutant: the file that was replaced is forgotten.
AnswerForgetsOld(h) ==
  /\ In(h, "reply")
  /\ IF calls[h].deaf \/ calls[h].path = None THEN End(h)
     ELSE calls' = [calls EXCEPT ![h].phase = "files", ![h].todo = {"store"}]
  /\ UNCHANGED <<tables, stored, up, used, history>>

Answer(h) ==
  /\ In(h, "reply")
  /\ LET todo == (IF calls[h].path # None THEN {"store"} ELSE {})
                   \cup (IF calls[h].old # None THEN {"clean"} ELSE {})
     IN IF calls[h].deaf \/ todo = {} THEN End(h)
        ELSE calls' = [calls EXCEPT ![h].phase = "files", ![h].todo = todo]
  /\ UNCHANGED <<tables, stored, up, used, history>>

\* The two drivers, disk and S3, write and delete a file in one await each.
Written(files, f) == files \cup {f}
Removed(files, f) == files \ {f}
HasFilePath(f) == f \in stored

\* GET /files/:fileName asks no table, and answers NotFound without a file.
Downloadable(f) == HasFilePath(f)

\* saveFile validates size and type, and then writes.
Store(h) ==
  /\ Pending(h, "files", "store")
  /\ \/ /\ stored' = Written(stored, calls[h].path)
        /\ Did(h, "store", {})
        /\ UNCHANGED <<tables, up, used, history>>
     \/ Fail(h, "store")

\* deleteFile, while the new file is being written.
Clean(h) ==
  /\ Pending(h, "files", "clean")
  /\ stored' = Removed(stored, calls[h].old)
  /\ Did(h, "clean", {})
  /\ UNCHANGED <<tables, up, used, history>>

Respond(h) ==
  /\ In(h, "files")
  /\ calls[h].todo = {}
  /\ IF calls[h].op = "upload" /\ ~calls[h].failed THEN Go(h, "row") ELSE End(h)
  /\ UNCHANGED <<tables, stored, up, used, history>>

-----------------------------------------------------------------------------
(* What stops.                                                             *)

Serving(h) == /\ calls[h] # Idle
              /\ calls[h].phase \in {"branches", "save", "delete", "reply"}
Owned(hs) == {calls[h].post : h \in {g \in hs : calls[g].own}}

\* sendAndReceive has no timeout: whose question nobody takes waits for ever.
Hang(h) ==
  /\ In(h, "ask")
  /\ ~up
  /\ Go(h, "hung")
  /\ UNCHANGED <<tables, stored, up, used, history>>

ServiceStops ==
  /\ up
  /\ up' = FALSE
  /\ calls' = [h \in Handlers |->
       IF ~Serving(h) THEN calls[h]
       ELSE IF calls[h].deaf THEN Idle
       ELSE [calls[h] EXCEPT !.phase = "hung", !.todo = {}]]
  /\ Disturb(Owned({h \in Handlers : Serving(h)}))
  /\ UNCHANGED <<tables, stored, used, raced>>

ServiceBoots ==
  /\ ~up
  /\ up' = TRUE
  /\ UNCHANGED <<tables, stored, calls, used, history>>

\* What the post service is at goes on; its answer reaches nobody.
MainAppStops ==
  /\ calls' = [h \in Handlers |->
       IF Serving(h) THEN [calls[h] EXCEPT !.deaf = TRUE] ELSE Idle]
  /\ Disturb(Owned({h \in Handlers : calls[h] # Idle /\ calls[h].phase # "hung"}))
  /\ UNCHANGED <<tables, stored, up, used, raced>>

-----------------------------------------------------------------------------
Start(h) == \E p \in PostIds : \/ StartCreate(h, p) \/ StartUpdate(h, p)
                               \/ StartDelete(h, p) \/ StartUpload(h, p)
Continue(h) == \/ FindOld(h) \/ CreateFileEntity(h)
               \/ Create(h) \/ Update(h) \/ FindPost(h) \/ Hang(h)
               \/ Untag(h) \/ Tag(h) \/ Unlink(h) \/ Link(h) \/ SetPicId(h)
               \/ Join(h) \/ Save(h) \/ Delete(h)
               \/ Answer(h) \/ Store(h) \/ Clean(h) \/ Respond(h)

Next == \/ \E h \in Handlers : Start(h) \/ Continue(h)
        \/ ServiceStops
        \/ ServiceBoots
        \/ MainAppStops

Spec == Init /\ [][Next]_vars

-----------------------------------------------------------------------------
(* What posts promise.                                                     *)

\* The three stores agree about a post none of whose owner's requests have
\* overlapped or failed half-way, whatever strangers tried: it names the row
\* it has, the row's file is there, no other file of the post is left behind,
\* and it has one list of interests.
UndisturbedAgree ==
  \A p \in PostIds \ disturbed :
    (\A h \in Handlers : ~Busy(h, p))
      => /\ posts[p].picId = posts[p].picture
         /\ {f \in Paths : used[f] = p /\ Downloadable(f)}
              = {posts[p].picture} \ {None}
         /\ posts[p].tags <= 1

\* Even with overlaps and stops, no file is deleted that a post's row names:
\* deleteFile (posts.controller.ts:104 and :127) comes after the post service
\* has removed the row, and no row ever comes back.
NoPictureDeleted ==
  [][\A f \in stored \ stored' : \A p \in PostIds : posts'[p].picture # f]_vars

\* A deleted post comes back only when an update had passed its check
\* before the deletion (post.service.ts:62 and :105).
DeletedStaysDeleted ==
  [][\A p \in PostIds \ raced :
       posts[p].state = "deleted" => posts'[p].state = "deleted"]_vars

=============================================================================
