---------------------------- MODULE PostsProofs ----------------------------
(***************************************************************************)
(* Types of Posts, that a deleted post stays deleted but for an update     *)
(* past its check, that no picture is deleted that a post's row still      *)
(* names, and that the stores agree on every post no two handlers were at  *)
(* and no step failed for, for any posts, files and handlers.              *)
(***************************************************************************)
EXTENDS Posts, TLAPS

-----------------------------------------------------------------------------
(* Types.                                                                  *)

LEMMA CallTyped ==
  ASSUME TypeOK, NEW h \in Handlers, calls[h] # Idle
  PROVE  /\ calls[h] \in Calls
         /\ calls[h].op \in {"create", "update", "delete", "upload"}
         /\ calls[h].post \in PostIds
         /\ calls[h].own \in BOOLEAN
         /\ calls[h].path \in Paths \cup {None}
         /\ calls[h].old \in Paths \cup {None}
         /\ calls[h].todo \subseteq Steps
BY DEF TypeOK, Calls

LEMMA PostTyped ==
  ASSUME TypeOK, NEW p \in PostIds
  PROVE  /\ posts[p] \in Post
         /\ posts[p].state \in {"none", "kept", "deleted"}
         /\ posts[p].picId \in Paths \cup {None}
         /\ posts[p].picture \in Paths \cup {None}
         /\ posts[p].tags \in Nat
BY DEF TypeOK, Post

\* The order of the phases, and what each has.
Shape(h) ==
  /\ calls[h].op = "create" => calls[h].own /\ calls[h].phase # "save"
  /\ calls[h].op = "upload" => calls[h].phase \in {"files", "row"} /\ calls[h].path # None
  /\ calls[h].phase \in {"old", "row"} => calls[h].path # None
  /\ calls[h].phase = "old" => calls[h].op = "update" /\ calls[h].old = None
  /\ calls[h].phase = "row" => calls[h].op \in {"update", "upload"}
  /\ calls[h].phase \in {"branches", "save"} => calls[h].op \in {"create", "update"}
  /\ calls[h].phase = "delete" => calls[h].op = "delete"
  /\ calls[h].op \in {"create", "upload"} => calls[h].old = None
  /\ calls[h].op = "delete" => calls[h].path = None
  /\ calls[h].op = "delete" /\ calls[h].phase = "ask" => calls[h].old = None
  /\ calls[h].op = "update" /\ calls[h].old # None => calls[h].path # None
  /\ "store" \in calls[h].todo => calls[h].path # None
Shaped == \A h \in Handlers : calls[h] # Idle => Shape(h)

\* What a request may become.
CallsTyped == calls' \in [Handlers -> {Idle} \cup Calls]

LEMMA GoTyped ==
  ASSUME TypeOK, NEW h \in Handlers, calls[h] # Idle,
         NEW phase \in {"old", "row", "ask", "branches", "save", "delete",
                        "reply", "files", "hung"},
         Go(h, phase)
  PROVE  CallsTyped
<1>1. [calls[h] EXCEPT !.phase = phase] \in Calls
  BY CallTyped DEF Calls
<1> QED BY <1>1 DEF TypeOK, Go, CallsTyped

LEMMA EndTyped ==
  ASSUME TypeOK, NEW h \in Handlers, End(h)
  PROVE  CallsTyped
BY DEF TypeOK, End, CallsTyped

LEMMA DidTyped ==
  ASSUME TypeOK, NEW h \in Handlers, calls[h] # Idle,
         NEW step, NEW next \in SUBSET Steps, Did(h, step, next)
  PROVE  CallsTyped
<1>1. [calls[h] EXCEPT !.todo = (@ \ {step}) \cup next] \in Calls
  BY CallTyped DEF Calls
<1> QED BY <1>1 DEF TypeOK, Did, CallsTyped

LEMMA BranchesTyped ==
  ASSUME TypeOK, NEW h \in Handlers, calls[h] # Idle,
         NEW tag \in Steps, NEW link \in Steps, Branches(h, tag, link)
  PROVE  CallsTyped
<1> DEFINE todo == (IF calls[h].tagged THEN {tag} ELSE {})
                     \cup (IF calls[h].path # None THEN {link} ELSE {})
<1>1. todo \in SUBSET Steps
  OBVIOUS
<1>2. calls' = [calls EXCEPT ![h].phase = "branches", ![h].todo = todo]
  BY DEF Branches
<1> HIDE DEF todo
<1>3. [calls[h] EXCEPT !.phase = "branches", !.todo = todo] \in Calls
  BY <1>1, CallTyped DEF Calls
<1> QED BY <1>2, <1>3 DEF TypeOK, CallsTyped

LEMMA FailTyped ==
  ASSUME TypeOK, NEW h \in Handlers, calls[h] # Idle, NEW step, Fail(h, step)
  PROVE  TypeOK'
<1>1. [calls[h] EXCEPT !.todo = @ \ {step}, !.failed = TRUE] \in Calls
  BY CallTyped DEF Calls
<1>2. calls' \in [Handlers -> {Idle} \cup Calls]
  BY <1>1 DEF TypeOK, Fail
<1> QED BY <1>2, CallTyped DEF TypeOK, Fail, Disturb, tables

\* A path given to None or to a fresh file.
LEMMA BeginTyped ==
  ASSUME TypeOK, NEW h \in Handlers,
         NEW op \in {"create", "update", "delete", "upload"},
         NEW phase \in {"ask", "old", "files"}, NEW p \in PostIds,
         NEW own \in BOOLEAN, NEW path \in Paths \cup {None}, NEW tagged \in BOOLEAN,
         Begin(h, op, phase, p, own, path, tagged)
  PROVE  TypeOK'
<1>1. Call(op, phase, p, own, path, tagged) \in Calls
  BY DEF Call, Calls, Steps
<1>2. calls' \in [Handlers -> {Idle} \cup Calls]
  BY <1>1 DEF TypeOK, Begin
<1>3. used' \in [Paths -> PostIds \cup {"fresh", "upload"}]
  BY DEF TypeOK, Begin, GenerateFileName
<1> QED BY <1>2, <1>3 DEF TypeOK, Begin, Disturb, tables

LEMMA StartTyped ==
  ASSUME TypeOK, NEW h \in Handlers, Start(h)
  PROVE  TypeOK'
<1>1. PICK p \in PostIds : \/ StartCreate(h, p) \/ StartUpdate(h, p)
                           \/ StartDelete(h, p) \/ StartUpload(h, p)
  BY DEF Start
<1>2. CASE StartCreate(h, p)
  BY <1>2, BeginTyped DEF StartCreate
<1>3. CASE StartUpdate(h, p)
  BY <1>3, BeginTyped DEF StartUpdate
<1>4. CASE StartDelete(h, p)
  BY <1>4, BeginTyped DEF StartDelete
<1>5. CASE StartUpload(h, p)
  BY <1>5, BeginTyped DEF StartUpload
<1> QED BY <1>1, <1>2, <1>3, <1>4, <1>5

\* The steps that change requests only.
LEMMA CallStepTyped ==
  ASSUME TypeOK, CallsTyped, UNCHANGED <<tables, stored, up, used, history>>
  PROVE  TypeOK'
BY DEF TypeOK, CallsTyped, tables, history

LEMMA PostStepTyped ==
  ASSUME TypeOK, CallsTyped, posts' \in [PostIds -> Post],
         raced' \subseteq PostIds, UNCHANGED <<loose, stored, up, used, disturbed>>
  PROVE  TypeOK'
BY DEF TypeOK, CallsTyped

LEMMA AskTyped ==
  ASSUME TypeOK, Shaped, NEW h \in Handlers,
         FindOld(h) \/ CreateFileEntity(h) \/ Hang(h) \/ Update(h) \/ FindPost(h)
  PROVE  TypeOK'
<1>0. calls[h] # Idle
  BY DEF FindOld, CreateFileEntity, Hang, Update, FindPost, At, In
<1>1. calls[h] \in Calls /\ calls[h].post \in PostIds /\ calls[h].path \in Paths \cup {None}
  BY <1>0, CallTyped
<1>2. posts[calls[h].post].picture \in Paths \cup {None}
  BY <1>1, PostTyped
<1>3. CASE FindOld(h)
  <2>1. [calls[h] EXCEPT !.old = posts[calls[h].post].picture, !.phase = "row"] \in Calls
    BY <1>1, <1>2 DEF Calls
  <2> QED BY <2>1, <1>3, CallStepTyped DEF FindOld, TypeOK, CallsTyped
<1>4. CASE CreateFileEntity(h)
  <2>1. CallsTyped
    BY <1>0, <1>4, GoTyped, EndTyped DEF CreateFileEntity
  <2>2. calls[h].path # None
    BY <1>0, <1>4 DEF CreateFileEntity, In, Shaped, Shape
  <2>3. loose' \subseteq Paths
    BY <2>2, <1>1, <1>4 DEF CreateFileEntity, TypeOK
  <2> QED BY <2>1, <2>3, <1>4 DEF CreateFileEntity, TypeOK, CallsTyped, history
<1>5. CASE Hang(h)
  BY <1>0, <1>5, GoTyped, CallStepTyped DEF Hang
<1>6. CASE Update(h)
  BY <1>0, <1>6, BranchesTyped, EndTyped, CallStepTyped DEF Update, Steps
<1>7. CASE FindPost(h)
  <2> DEFINE old == IF Kept(calls[h].post) /\ calls[h].own
                      THEN posts[calls[h].post].picture ELSE None
  <2>1. calls' = [calls EXCEPT ![h].phase = "delete", ![h].old = old]
    BY <1>7 DEF FindPost
  <2>2. old \in Paths \cup {None}
    BY <1>2
  <2> HIDE DEF old
  <2>3. [calls[h] EXCEPT !.phase = "delete", !.old = old] \in Calls
    BY <2>2, <1>1 DEF Calls
  <2>4. CallsTyped
    BY <2>1, <2>3 DEF TypeOK, CallsTyped
  <2> QED BY <2>4, <1>7, CallStepTyped DEF FindPost
<1> QED BY <1>3, <1>4, <1>5, <1>6, <1>7

LEMMA ServiceTyped ==
  ASSUME TypeOK, NEW h \in Handlers,
         \/ Create(h) \/ Untag(h) \/ Tag(h) \/ Unlink(h) \/ Link(h)
         \/ SetPicId(h) \/ Join(h) \/ Save(h) \/ Delete(h)
  PROVE  TypeOK'
<1>0. calls[h] # Idle
  BY DEF Create, Untag, Tag, Unlink, Link, SetPicId, Join, Save, Delete, At, In, Pending
<1>1. /\ calls[h] \in Calls /\ calls[h].post \in PostIds
      /\ calls[h].path \in Paths \cup {None}
  BY <1>0, CallTyped
<1>2. posts \in [PostIds -> Post] /\ posts[calls[h].post] \in Post
  BY <1>1 DEF TypeOK
<1>3. NoPost \in Post
  BY DEF NoPost, Post
<1>4. CASE Create(h)
  <2>1. posts' \in [PostIds -> Post]
    BY <1>2, <1>4 DEF Create, Post
  <2>2. CallsTyped
    BY <1>0, <1>4, BranchesTyped DEF Create, Steps
  <2> QED BY <2>1, <2>2, <1>4, PostStepTyped DEF Create, history, TypeOK
<1>5. CASE Untag(h)
  <2>1. posts' \in [PostIds -> Post]
    BY <1>2, <1>5 DEF Untag, Post
  <2>2. CallsTyped
    BY <1>0, <1>5, DidTyped DEF Untag, Steps
  <2> QED BY <2>1, <2>2, <1>5, PostStepTyped DEF Untag, history, TypeOK
<1>6. CASE Tag(h)
  <2>1. CASE Fail(h, "tag")
    BY <2>1, <1>0, FailTyped
  <2>2. CASE ~Fail(h, "tag")
    <3>1. posts' \in [PostIds -> Post]
      BY <1>2, <1>6, <2>2 DEF Tag, Post
    <3>2. CallsTyped
      BY <1>0, <1>6, <2>2, DidTyped DEF Tag
    <3> QED BY <3>1, <3>2, <1>6, <2>2, PostStepTyped DEF Tag, history, TypeOK
  <2> QED BY <2>1, <2>2
<1>7. CASE Unlink(h)
  <2>1. posts' \in [PostIds -> Post]
    BY <1>2, <1>7 DEF Unlink, Post
  <2>2. CallsTyped
    BY <1>0, <1>7, DidTyped DEF Unlink, Steps
  <2> QED BY <2>1, <2>2, <1>7, PostStepTyped DEF Unlink, history, TypeOK
<1>8. CASE Link(h)
  <2>1. CASE Fail(h, "link")
    BY <2>1, <1>0, FailTyped
  <2>2. CASE ~Fail(h, "link")
    <3>1. posts' \in [PostIds -> Post]
      BY <1>1, <1>2, <1>8, <2>2 DEF Link, Post
    <3>2. CallsTyped
      BY <1>0, <1>8, <2>2, DidTyped DEF Link, Steps
    <3> QED BY <3>1, <3>2, <1>8, <2>2, PostStepTyped DEF Link, history, TypeOK
  <2> QED BY <2>1, <2>2
<1>9. CASE SetPicId(h)
  <2>1. posts' \in [PostIds -> Post]
    BY <1>1, <1>2, <1>9 DEF SetPicId, Post
  <2>2. CallsTyped
    BY <1>0, <1>9, DidTyped DEF SetPicId
  <2> QED BY <2>1, <2>2, <1>9, PostStepTyped DEF SetPicId, history, TypeOK
<1>10. CASE Join(h)
  BY <1>0, <1>10, GoTyped, EndTyped, CallStepTyped DEF Join
<1>11. CASE Save(h)
  <2>1. posts' \in [PostIds -> Post]
    BY <1>1, <1>2, <1>3, <1>11 DEF Save, Post
  <2>2. CallsTyped
    BY <1>0, <1>11, GoTyped DEF Save
  <2> QED BY <2>1, <2>2, <1>11, PostStepTyped DEF Save, history, TypeOK
<1>12. CASE Delete(h)
  <2>1. posts' \in [PostIds -> Post]
    BY <1>1, <1>2, <1>3, <1>12 DEF Delete, Post
  <2>2. [calls[h] EXCEPT !.phase = "reply", !.old = None] \in Calls
    BY <1>1 DEF Calls
  <2>3. CallsTyped
    BY <1>0, <1>12, <2>2, GoTyped DEF Delete, TypeOK, CallsTyped
  <2>4. raced' \subseteq PostIds
    BY <1>1, <1>12 DEF Delete, TypeOK
  <2> QED BY <2>1, <2>3, <2>4, <1>12, PostStepTyped DEF Delete
<1> QED BY <1>4, <1>5, <1>6, <1>7, <1>8, <1>9, <1>10, <1>11, <1>12

LEMMA AnswerTyped ==
  ASSUME TypeOK, Shaped, NEW h \in Handlers,
         Answer(h) \/ Store(h) \/ Clean(h) \/ Respond(h)
  PROVE  TypeOK'
<1>0. calls[h] # Idle
  BY DEF Answer, Store, Clean, Respond, In, Pending
<1>1. /\ calls[h] \in Calls /\ calls[h].path \in Paths \cup {None}
      /\ calls[h].todo \subseteq Steps
  BY <1>0, CallTyped
<1>2. CASE Answer(h)
  <2> DEFINE todo == (IF calls[h].path # None THEN {"store"} ELSE {})
                       \cup (IF calls[h].old # None THEN {"clean"} ELSE {})
  <2>1. End(h) \/ calls' = [calls EXCEPT ![h].phase = "files", ![h].todo = todo]
    BY <1>2 DEF Answer
  <2>2. todo \in SUBSET Steps
    BY DEF Steps
  <2> HIDE DEF todo
  <2>3. [calls[h] EXCEPT !.phase = "files", !.todo = todo] \in Calls
    BY <1>1, <2>2 DEF Calls
  <2>4. CallsTyped
    BY <2>1, <2>3, EndTyped DEF TypeOK, CallsTyped
  <2> QED BY <2>4, <1>2, CallStepTyped DEF Answer
<1>3. CASE Store(h)
  <2>1. CASE Fail(h, "store")
    BY <2>1, <1>0, FailTyped
  <2>2. CASE ~Fail(h, "store")
    <3>1. CallsTyped
      BY <1>0, <1>3, <2>2, DidTyped DEF Store
    <3>2. calls[h].path # None => stored' \subseteq Paths
      BY <1>1, <1>3, <2>2 DEF Store, Written, TypeOK
    <3>3. calls[h].path # None
      BY <1>0, <1>3 DEF Store, Pending, Shaped, Shape
    <3> QED BY <3>1, <3>2, <3>3, <1>3, <2>2 DEF Store, TypeOK, CallsTyped, tables, history
  <2> QED BY <2>1, <2>2
<1>4. CASE Clean(h)
  <2>1. CallsTyped
    BY <1>0, <1>4, DidTyped DEF Clean
  <2> QED BY <2>1, <1>4 DEF Clean, Removed, TypeOK, CallsTyped, tables, history
<1>5. CASE Respond(h)
  BY <1>0, <1>5, GoTyped, EndTyped, CallStepTyped DEF Respond
<1> QED BY <1>2, <1>3, <1>4, <1>5

LEMMA StopTyped ==
  ASSUME TypeOK, ServiceStops \/ ServiceBoots \/ MainAppStops
  PROVE  TypeOK'
<1>1. \A h \in Handlers : calls[h] # Idle =>
        /\ [calls[h] EXCEPT !.phase = "hung", !.todo = {}] \in Calls
        /\ [calls[h] EXCEPT !.deaf = TRUE] \in Calls
  BY CallTyped DEF Calls
<1>2. \A hs \in SUBSET Handlers :
        (\A h \in hs : calls[h] # Idle) => Owned(hs) \subseteq PostIds
  BY CallTyped DEF Owned
<1>3. CASE ServiceStops
  <2>1. calls' \in [Handlers -> {Idle} \cup Calls]
    BY <1>1, <1>3 DEF ServiceStops, Serving, TypeOK
  <2>2. disturbed' \subseteq PostIds
    BY <1>2, <1>3 DEF ServiceStops, Serving, Disturb, TypeOK
  <2> QED BY <2>1, <2>2, <1>3 DEF ServiceStops, TypeOK, tables
<1>4. CASE ServiceBoots
  BY <1>4 DEF ServiceBoots, TypeOK, tables, history
<1>5. CASE MainAppStops
  <2>1. calls' \in [Handlers -> {Idle} \cup Calls]
    BY <1>1, <1>5 DEF MainAppStops, Serving, TypeOK
  <2>2. disturbed' \subseteq PostIds
    BY <1>2, <1>5 DEF MainAppStops, Disturb, TypeOK
  <2> QED BY <2>1, <2>2, <1>5 DEF MainAppStops, TypeOK, tables
<1> QED BY <1>3, <1>4, <1>5

LEMMA ShapedIf ==
  ASSUME Shaped, NEW h \in Handlers,
         \A g \in Handlers \ {h} : calls'[g] = calls[g],
         calls'[h] # Idle => Shape(h)'
  PROVE  Shaped'
<1> SUFFICES ASSUME NEW g \in Handlers, calls'[g] # Idle
             PROVE  Shape(g)'
  BY DEF Shaped
<1>1. CASE g = h
  BY <1>1
<1>2. CASE g # h
  <2>1. Shape(g) /\ calls'[g] = calls[g]
    BY <1>2 DEF Shaped
  <2> QED BY <2>1 DEF Shape
<1> QED BY <1>1, <1>2

\* The requests there are.
Starts(h, op, phase, p, own, path, tagged) ==
  /\ Begin(h, op, phase, p, own, path, tagged)
  /\ \/ /\ op = "create" /\ phase = "ask" /\ own
        /\ posts[p].state = "none" /\ \A g \in Handlers : ~Busy(g, p)
     \/ op = "update" /\ phase = "old" /\ path # None /\ posts[p].state # "none"
     \/ op = "update" /\ phase = "ask" /\ path = None /\ posts[p].state # "none"
     \/ op = "delete" /\ phase = "ask" /\ path = None /\ posts[p].state # "none"
     \/ op = "upload" /\ phase = "files" /\ path # None

Started(h) ==
  \E op \in {"create", "update", "delete", "upload"}, phase \in {"ask", "old", "files"},
     p \in PostIds, own \in BOOLEAN, path \in Paths \cup {None}, tagged \in BOOLEAN :
    Starts(h, op, phase, p, own, path, tagged)

LEMMA StartStarts ==
  ASSUME NEW h \in Handlers, Start(h)
  PROVE  Started(h)
<1>1. PICK p \in PostIds : \/ StartCreate(h, p) \/ StartUpdate(h, p)
                           \/ StartDelete(h, p) \/ StartUpload(h, p)
  BY DEF Start
<1>2. CASE StartCreate(h, p)
  <2>1. PICK path \in Paths \cup {None}, tagged \in BOOLEAN :
          Begin(h, "create", "ask", p, TRUE, path, tagged)
    BY <1>2 DEF StartCreate
  <2>2. Starts(h, "create", "ask", p, TRUE, path, tagged)
    BY <2>1, <1>2 DEF StartCreate, Starts
  <2> QED BY <2>2 DEF Started
<1>3. CASE StartUpdate(h, p)
  <2>1. PICK path \in Paths \cup {None}, own \in BOOLEAN, tagged \in BOOLEAN :
          Begin(h, "update", IF path = None THEN "ask" ELSE "old", p, own, path, tagged)
    BY <1>3 DEF StartUpdate
  <2>2. CASE path = None
    <3>1. Starts(h, "update", "ask", p, own, path, tagged)
      BY <2>1, <2>2, <1>3 DEF StartUpdate, Starts
    <3> QED BY <3>1 DEF Started
  <2>3. CASE path # None
    <3>1. Starts(h, "update", "old", p, own, path, tagged)
      BY <2>1, <2>3, <1>3 DEF StartUpdate, Starts
    <3> QED BY <3>1 DEF Started
  <2> QED BY <2>2, <2>3
<1>4. CASE StartDelete(h, p)
  <2>1. PICK own \in BOOLEAN : Begin(h, "delete", "ask", p, own, None, FALSE)
    BY <1>4 DEF StartDelete
  <2>2. Starts(h, "delete", "ask", p, own, None, FALSE)
    BY <2>1, <1>4 DEF StartDelete, Starts
  <2> QED BY <2>2 DEF Started
<1>5. CASE StartUpload(h, p)
  <2>1. PICK path \in Paths : Begin(h, "upload", "files", p, FALSE, path, FALSE)
    BY <1>5 DEF StartUpload
  <2>2. Starts(h, "upload", "files", p, FALSE, path, FALSE)
    BY <2>1, PostsAssumption DEF Starts
  <2> QED BY <2>2 DEF Started
<1> QED BY <1>1, <1>2, <1>3, <1>4, <1>5

\* What the request is that has started.
LEMMA StartedCall ==
  ASSUME TypeOK, NEW h \in Handlers, NEW op, NEW phase, NEW p, NEW own, NEW path,
         NEW tagged, Begin(h, op, phase, p, own, path, tagged)
  PROVE  /\ calls[h] = Idle /\ calls'[h] # Idle
         /\ calls'[h].op = op /\ calls'[h].phase = phase
         /\ calls'[h].post = p /\ calls'[h].own = own
         /\ calls'[h].path = path /\ calls'[h].old = None
         /\ calls'[h].todo = (IF op = "upload" THEN {"store"} ELSE {})
         /\ \A g \in Handlers \ {h} : calls'[g] = calls[g]
         /\ UNCHANGED <<posts, raced>>
<1>1. calls' = [calls EXCEPT ![h] = Call(op, phase, p, own, path, tagged)]
  BY DEF Begin
<1>2. calls'[h] = Call(op, phase, p, own, path, tagged)
  BY <1>1 DEF TypeOK
<1>3. \A g \in Handlers \ {h} : calls'[g] = calls[g]
  BY <1>1 DEF TypeOK
<1> QED BY <1>2, <1>3 DEF Call, Begin, tables, Idle

LEMMA StartShaped ==
  ASSUME TypeOK, Shaped, NEW h \in Handlers, Start(h)
  PROVE  Shaped'
<1>1. PICK op \in {"create", "update", "delete", "upload"}, phase \in {"ask", "old", "files"},
           p \in PostIds, own \in BOOLEAN, path \in Paths \cup {None}, tagged \in BOOLEAN :
        Starts(h, op, phase, p, own, path, tagged)
  BY StartStarts DEF Started
<1>2. Begin(h, op, phase, p, own, path, tagged)
  BY <1>1 DEF Starts
<1>3. Shape(h)'
  BY <1>1, <1>2, StartedCall DEF Starts, Shape
<1> QED BY <1>2, <1>3, StartedCall, ShapedIf

\* The request itself goes on.
LEMMA ContinueShaped ==
  ASSUME TypeOK, Shaped, NEW h \in Handlers, Continue(h)
  PROVE  Shaped'
<1>0. calls[h] # Idle
  BY DEF Continue, FindOld, CreateFileEntity, Create, Update, FindPost, Hang, Untag, Tag, Unlink, Link, SetPicId, Join, Save, Delete, Answer, Store, Clean, Respond, At, In, Pending
<1>1. Shape(h) /\ calls[h] \in Calls /\ calls \in [Handlers -> {Idle} \cup Calls]
  BY <1>0, CallTyped DEF Shaped, TypeOK
<1>2. calls[h].old \in Paths \cup {None}
  BY <1>0, CallTyped
<1>3. \A g \in Handlers \ {h} : calls'[g] = calls[g]
  BY <1>1 DEF Continue, FindOld, CreateFileEntity, Create, Update, FindPost, Hang, Untag, Tag, Unlink, Link, SetPicId, Join, Save, Delete, Answer, Store, Clean, Respond,
     Go, End, Branches, Did, Fail
<1>4. ASSUME FindOld(h), calls'[h] # Idle
      PROVE  Shape(h)'
  BY <1>4, <1>0, <1>1 DEF FindOld, In, Shape, Calls
<1>5. ASSUME CreateFileEntity(h), calls'[h] # Idle
      PROVE  Shape(h)'
  BY <1>5, <1>0, <1>1 DEF CreateFileEntity, In, Go, End, Shape, Calls
<1>6. ASSUME Create(h), calls'[h] # Idle
      PROVE  Shape(h)'
  BY <1>6, <1>0, <1>1 DEF Create, At, In, Branches, Shape, Calls
<1>7. ASSUME Update(h), calls'[h] # Idle
      PROVE  Shape(h)'
  BY <1>7, <1>0, <1>1 DEF Update, At, In, Branches, End, Shape, Calls
<1>8. ASSUME FindPost(h), calls'[h] # Idle
      PROVE  Shape(h)'
  BY <1>8, <1>0, <1>1 DEF FindPost, At, In, Shape, Calls
<1>9. ASSUME Hang(h), calls'[h] # Idle
      PROVE  Shape(h)'
  BY <1>9, <1>0, <1>1 DEF Hang, In, Go, Shape, Calls
<1>10. ASSUME Untag(h), calls'[h] # Idle
      PROVE  Shape(h)'
  BY <1>10, <1>0, <1>1 DEF Untag, Pending, In, Did, Shape, Calls
<1>11. ASSUME Tag(h), calls'[h] # Idle
      PROVE  Shape(h)'
  BY <1>11, <1>0, <1>1 DEF Tag, Pending, In, Did, Fail, Shape, Calls
<1>12. ASSUME Unlink(h), calls'[h] # Idle
      PROVE  Shape(h)'
  BY <1>12, <1>0, <1>1 DEF Unlink, Pending, In, Did, Shape, Calls
<1>13. ASSUME Link(h), calls'[h] # Idle
      PROVE  Shape(h)'
  BY <1>13, <1>0, <1>1 DEF Link, Pending, In, Did, Fail, Shape, Calls
<1>14. ASSUME SetPicId(h), calls'[h] # Idle
      PROVE  Shape(h)'
  BY <1>14, <1>0, <1>1 DEF SetPicId, Pending, In, Did, Shape, Calls
<1>15. ASSUME Join(h), calls'[h] # Idle
      PROVE  Shape(h)'
  BY <1>15, <1>0, <1>1 DEF Join, In, Go, End, Shape, Calls
<1>16. ASSUME Save(h), calls'[h] # Idle
      PROVE  Shape(h)'
  BY <1>16, <1>0, <1>1 DEF Save, In, Go, Shape, Calls
<1>17. ASSUME Delete(h), calls'[h] # Idle
      PROVE  Shape(h)'
  BY <1>17, <1>0, <1>1 DEF Delete, In, Go, Shape, Calls
<1>18. ASSUME Answer(h), calls'[h] # Idle
      PROVE  Shape(h)'
  BY <1>18, <1>0, <1>1 DEF Answer, In, End, Shape, Calls
<1>19. ASSUME Store(h), calls'[h] # Idle
      PROVE  Shape(h)'
  BY <1>19, <1>0, <1>1 DEF Store, Pending, In, Did, Fail, Shape, Calls
<1>20. ASSUME Clean(h), calls'[h] # Idle
      PROVE  Shape(h)'
  BY <1>20, <1>0, <1>1 DEF Clean, Pending, In, Did, Shape, Calls
<1>21. ASSUME Respond(h), calls'[h] # Idle
      PROVE  Shape(h)'
  BY <1>21, <1>0, <1>1 DEF Respond, In, Go, End, Shape, Calls
<1> QED BY <1>3, <1>4, <1>5, <1>6, <1>7, <1>8, <1>9, <1>10, <1>11, <1>12, <1>13, <1>14, <1>15, <1>16, <1>17, <1>18, <1>19, <1>20, <1>21, ShapedIf DEF Continue

LEMMA StopShaped ==
  ASSUME TypeOK, Shaped, ServiceStops \/ MainAppStops
  PROVE  Shaped'
<1> SUFFICES ASSUME NEW h \in Handlers, calls'[h] # Idle
             PROVE  Shape(h)'
  BY DEF Shaped
<1>1. CASE calls'[h] = calls[h]
  BY <1>1 DEF Shaped, Shape
<1>2. CASE calls'[h] # calls[h]
  <2>1. Serving(h) /\ calls[h] # Idle
    BY <1>2 DEF ServiceStops, MainAppStops, Serving
  <2>2. Shape(h) /\ calls[h] \in Calls
    BY <2>1, CallTyped DEF Shaped
  <2>3. \/ calls'[h] = [calls[h] EXCEPT !.phase = "hung", !.todo = {}]
        \/ calls'[h] = [calls[h] EXCEPT !.deaf = TRUE]
    BY <1>2 DEF ServiceStops, MainAppStops
  <2> QED BY <2>1, <2>2, <2>3 DEF Serving, Shape, Calls
<1> QED BY <1>1, <1>2

TypedAndShaped == TypeOK /\ Shaped

LEMMA InitTyped == Init => TypedAndShaped
<1> SUFFICES ASSUME Init
             PROVE  TypedAndShaped
  OBVIOUS
<1>1. NoPost \in Post
  BY DEF NoPost, Post
<1> QED BY <1>1 DEF Init, TypedAndShaped, TypeOK, Shaped

LEMMA NextTyped ==
  ASSUME TypedAndShaped, [Next]_vars
  PROVE  TypedAndShaped'
<1>0. TypeOK /\ Shaped
  BY DEF TypedAndShaped
<1>1. CASE UNCHANGED vars
  BY <1>0, <1>1 DEF vars, tables, history, TypeOK, Shaped, Shape, TypedAndShaped
<1>2. ASSUME NEW h \in Handlers, Start(h)
      PROVE  TypedAndShaped'
  BY <1>0, <1>2, StartTyped, StartShaped DEF TypedAndShaped
<1>3. ASSUME NEW h \in Handlers, Continue(h)
      PROVE  TypedAndShaped'
  BY <1>0, <1>3, AskTyped, ServiceTyped, AnswerTyped, ContinueShaped
     DEF TypedAndShaped, Continue
<1>4. CASE ServiceStops \/ MainAppStops
  BY <1>0, <1>4, StopTyped, StopShaped DEF TypedAndShaped
<1>5. CASE ServiceBoots
  <2>1. Shaped'
    BY <1>0, <1>5 DEF ServiceBoots, Shaped, Shape
  <2> QED BY <2>1, <1>0, <1>5, StopTyped DEF TypedAndShaped
<1> QED BY <1>1, <1>2, <1>3, <1>4, <1>5 DEF Next

LEMMA AlwaysTyped == Spec => []TypedAndShaped
BY InitTyped, NextTyped, PTL DEF Spec

\* The three stores and the requests keep their types: only names that were
\* generated get into the tables and onto the disk.  (posts.controller.ts)
THEOREM PostsTypeCorrect == Spec => []TypeOK
<1>1. TypedAndShaped => TypeOK
  BY DEF TypedAndShaped
<1> QED BY <1>1, AlwaysTyped, PTL

-----------------------------------------------------------------------------
(* What is deleted stays deleted.                                          *)

Creating(h) == calls[h] # Idle /\ calls[h].op = "create" /\ calls[h].phase = "ask"
PastCheck(h) == /\ calls[h] # Idle /\ calls[h].op = "update"
                /\ calls[h].phase \in {"branches", "save"}

\* Nobody but its creator is at work on a post that has not been made.
Unmade(h) ==
  calls[h] # Idle /\ calls[h].op # "upload" /\ posts[calls[h].post].state = "none"
    => calls[h].phase = "hung" \/ Creating(h)

CreatesNew(h) == Creating(h) => posts[calls[h].post].state = "none"
RaceKnown(h) ==
  PastCheck(h) /\ posts[calls[h].post].state # "kept" => calls[h].post \in raced
CreateAlone(g, h) ==
  Creating(g) /\ Creating(h) /\ calls[g].post = calls[h].post => g = h

Agreed == \A h \in Handlers : /\ Unmade(h) /\ CreatesNew(h) /\ RaceKnown(h)
                             /\ \A g \in Handlers : CreateAlone(g, h)

\* A request that goes on without passing the check or making the post.
Tame(g) ==
  calls'[g] # Idle =>
    /\ calls[g] # Idle /\ calls'[g].op = calls[g].op /\ calls'[g].post = calls[g].post
    /\ \/ calls'[g].phase \in {calls[g].phase, "hung"}
       \/ /\ calls[g].phase # "hung" /\ ~Creating(g)
          /\ calls[g].op = "create" => calls'[g].phase # "ask"
          /\ calls'[g].phase \in {"branches", "save"} => calls[g].phase \in {"branches", "save"}

SameStates == \A p \in PostIds : posts'[p].state = posts[p].state

LEMMA TameAgreed ==
  ASSUME TypeOK, Agreed, \A g \in Handlers : Tame(g), SameStates, raced \subseteq raced'
  PROVE  Agreed'
<1>1. \A g \in Handlers : calls'[g] # Idle => posts'[calls'[g].post].state = posts[calls[g].post].state
  BY CallTyped DEF SameStates, Tame
<1>2. \A g \in Handlers : Creating(g)' => Creating(g) /\ calls'[g].post = calls[g].post
  BY DEF Tame, Creating
<1>3. \A g \in Handlers : PastCheck(g)' => PastCheck(g) /\ calls'[g].post = calls[g].post
  BY DEF Tame, PastCheck
<1> SUFFICES ASSUME NEW h \in Handlers
             PROVE  /\ Unmade(h)' /\ CreatesNew(h)' /\ RaceKnown(h)'
                    /\ \A g \in Handlers : CreateAlone(g, h)'
  BY DEF Agreed
<1>4. Unmade(h)'
  <2> SUFFICES ASSUME calls'[h] # Idle, calls'[h].op # "upload",
                      posts'[calls'[h].post].state = "none"
               PROVE  calls'[h].phase = "hung" \/ Creating(h)'
    BY DEF Unmade
  <2>1. Tame(h) /\ Unmade(h) /\ posts[calls[h].post].state = "none"
    BY <1>1 DEF Agreed
  <2>2. calls[h].phase = "hung" \/ Creating(h)
    BY <2>1 DEF Tame, Unmade
  <2> QED BY <2>1, <2>2 DEF Tame, Creating
<1>5. CreatesNew(h)'
  BY <1>1, <1>2 DEF Agreed, CreatesNew, Creating
<1>6. RaceKnown(h)'
  BY <1>1, <1>3 DEF Agreed, RaceKnown, PastCheck
<1>7. \A g \in Handlers : CreateAlone(g, h)'
  BY <1>2 DEF Agreed, CreateAlone
<1> QED BY <1>4, <1>5, <1>6, <1>7

LEMMA OthersTame ==
  ASSUME TypeOK, NEW h \in Handlers, Tame(h),
         \A g \in Handlers \ {h} : calls'[g] = calls[g]
  PROVE  \A g \in Handlers : Tame(g)
BY DEF Tame

\* The steps that leave the states of posts alone, but for the check.
QuietStep(h) ==
  \/ FindOld(h) \/ CreateFileEntity(h) \/ FindPost(h) \/ Hang(h) \/ Untag(h)
  \/ Tag(h) \/ Unlink(h) \/ Link(h) \/ SetPicId(h) \/ Join(h)
  \/ Answer(h) \/ Store(h) \/ Clean(h) \/ Respond(h)

LEMMA QuietAgreed ==
  ASSUME TypeOK, Shaped, Agreed, NEW h \in Handlers, QuietStep(h)
  PROVE  Agreed' /\ SameStates
<1>0. calls[h] # Idle
  BY DEF QuietStep, FindOld, CreateFileEntity, FindPost, Hang, Untag, Tag, Unlink, Link, SetPicId, Join, Answer, Store, Clean, Respond, At, In, Pending
<1>1. Shape(h) /\ calls[h] \in Calls /\ calls \in [Handlers -> {Idle} \cup Calls]
  BY <1>0, CallTyped DEF Shaped, TypeOK
<1>2. \A g \in Handlers \ {h} : calls'[g] = calls[g]
  BY <1>1 DEF QuietStep, FindOld, CreateFileEntity, FindPost, Hang, Untag, Tag, Unlink, Link, SetPicId, Join, Answer, Store, Clean, Respond,
     Go, End, Did, Fail
<1>3. raced' = raced
  BY DEF QuietStep, FindOld, CreateFileEntity, FindPost, Hang, Untag, Tag, Unlink, Link, SetPicId, Join, Answer, Store, Clean, Respond,
     Fail, history
<1>4. SameStates
  BY PostTyped DEF QuietStep, FindOld, CreateFileEntity, FindPost, Hang, Untag, Tag, Unlink, Link, SetPicId, Join, Answer, Store, Clean, Respond,
     Fail, tables, TypeOK, SameStates, Post
<1>5. ASSUME FindOld(h)
      PROVE  Tame(h)
  BY <1>5, <1>0, <1>1 DEF FindOld, In, Tame, Creating, Shape, Calls
<1>6. ASSUME CreateFileEntity(h)
      PROVE  Tame(h)
  BY <1>6, <1>0, <1>1 DEF CreateFileEntity, In, Go, End, Tame, Creating, Shape, Calls
<1>7. ASSUME FindPost(h)
      PROVE  Tame(h)
  BY <1>7, <1>0, <1>1 DEF FindPost, At, In, Tame, Creating, Shape, Calls
<1>8. ASSUME Hang(h)
      PROVE  Tame(h)
  BY <1>8, <1>0, <1>1 DEF Hang, In, Go, Tame, Creating, Shape, Calls
<1>9. ASSUME Untag(h)
      PROVE  Tame(h)
  BY <1>9, <1>0, <1>1 DEF Untag, Pending, In, Did, Tame, Creating, Shape, Calls
<1>10. ASSUME Tag(h)
      PROVE  Tame(h)
  BY <1>10, <1>0, <1>1 DEF Tag, Pending, In, Did, Fail, Tame, Creating, Shape, Calls
<1>11. ASSUME Unlink(h)
      PROVE  Tame(h)
  BY <1>11, <1>0, <1>1 DEF Unlink, Pending, In, Did, Tame, Creating, Shape, Calls
<1>12. ASSUME Link(h)
      PROVE  Tame(h)
  BY <1>12, <1>0, <1>1 DEF Link, Pending, In, Did, Fail, Tame, Creating, Shape, Calls
<1>13. ASSUME SetPicId(h)
      PROVE  Tame(h)
  BY <1>13, <1>0, <1>1 DEF SetPicId, Pending, In, Did, Tame, Creating, Shape, Calls
<1>14. ASSUME Join(h)
      PROVE  Tame(h)
  BY <1>14, <1>0, <1>1 DEF Join, In, Go, End, Tame, Creating, Shape, Calls
<1>15. ASSUME Answer(h)
      PROVE  Tame(h)
  BY <1>15, <1>0, <1>1 DEF Answer, In, End, Tame, Creating, Shape, Calls
<1>16. ASSUME Store(h)
      PROVE  Tame(h)
  BY <1>16, <1>0, <1>1 DEF Store, Pending, In, Did, Fail, Tame, Creating, Shape, Calls
<1>17. ASSUME Clean(h)
      PROVE  Tame(h)
  BY <1>17, <1>0, <1>1 DEF Clean, Pending, In, Did, Tame, Creating, Shape, Calls
<1>18. ASSUME Respond(h)
      PROVE  Tame(h)
  BY <1>18, <1>0, <1>1 DEF Respond, In, Go, End, Tame, Creating, Shape, Calls
<1>19. Tame(h)
  BY <1>5, <1>6, <1>7, <1>8, <1>9, <1>10, <1>11, <1>12, <1>13, <1>14, <1>15, <1>16, <1>17, <1>18 DEF QuietStep
<1> QED BY <1>2, <1>3, <1>4, <1>19, OthersTame, TameAgreed

LEMMA StartAgreed ==
  ASSUME TypeOK, Shaped, Agreed, NEW h \in Handlers, Start(h)
  PROVE  Agreed' /\ SameStates
<1>1. PICK op \in {"create", "update", "delete", "upload"}, phase \in {"ask", "old", "files"},
           p \in PostIds, own \in BOOLEAN, path \in Paths \cup {None}, tagged \in BOOLEAN :
        Starts(h, op, phase, p, own, path, tagged)
  BY StartStarts DEF Started
<1>2. /\ calls'[h] # Idle /\ calls'[h].op = op /\ calls'[h].phase = phase
      /\ calls'[h].post = p
      /\ \A g \in Handlers \ {h} : calls'[g] = calls[g]
      /\ UNCHANGED <<posts, raced>>
  BY <1>1, StartedCall DEF Starts
<1>3. ASSUME NEW g \in Handlers
      PROVE  Unmade(g)' /\ CreatesNew(g)' /\ RaceKnown(g)'
  <2>1. CASE g = h
    BY <2>1, <1>1, <1>2 DEF Starts, Unmade, CreatesNew, RaceKnown, Creating, PastCheck
  <2>2. CASE g # h
    BY <2>2, <1>2 DEF Agreed, Unmade, CreatesNew, RaceKnown, Creating, PastCheck
  <2> QED BY <2>1, <2>2
<1>4. ASSUME NEW g \in Handlers, Creating(g), op = "create"
      PROVE  calls[g].post # p
  BY <1>1, <1>4 DEF Starts, Creating, Busy, Shaped, Shape
<1>5. \A f, g \in Handlers : CreateAlone(f, g)'
  BY <1>2, <1>4 DEF Agreed, CreateAlone, Creating
<1> QED BY <1>2, <1>3, <1>5 DEF Agreed, SameStates

\* The check of an update.
LEMMA UpdateAgreed ==
  ASSUME TypeOK, Shaped, Agreed, NEW h \in Handlers, Update(h)
  PROVE  Agreed' /\ SameStates
<1>1. /\ calls[h] # Idle /\ calls[h].op = "update" /\ calls[h].phase = "ask"
      /\ calls[h] \in Calls /\ UNCHANGED <<posts, raced>>
  BY CallTyped DEF Update, At, In, tables, history
<1>2. \A g \in Handlers \ {h} : calls'[g] = calls[g]
  BY DEF Update, Branches, End, TypeOK
<1>3. calls'[h] # Idle =>
        /\ calls'[h].op = "update" /\ calls'[h].phase = "branches"
        /\ calls'[h].post = calls[h].post /\ posts[calls[h].post].state = "kept"
  BY <1>1 DEF Update, Branches, End, TypeOK, Kept, Calls
<1>4. ASSUME NEW g \in Handlers
      PROVE  Unmade(g)' /\ CreatesNew(g)' /\ RaceKnown(g)'
  <2>1. CASE g = h
    BY <2>1, <1>1, <1>3 DEF Unmade, CreatesNew, RaceKnown, Creating, PastCheck
  <2>2. CASE g # h
    BY <2>2, <1>1, <1>2 DEF Agreed, Unmade, CreatesNew, RaceKnown, Creating, PastCheck
  <2> QED BY <2>1, <2>2
<1>5. \A f, g \in Handlers : CreateAlone(f, g)'
  BY <1>2, <1>3 DEF Agreed, CreateAlone, Creating
<1> QED BY <1>1, <1>4, <1>5 DEF Agreed, SameStates

\* The three steps that change a post's state.
LEMMA CreateAgreed ==
  ASSUME TypeOK, Shaped, Agreed, NEW h \in Handlers, Create(h)
  PROVE  /\ Agreed' /\ posts[calls[h].post].state = "none"
         /\ \A p \in PostIds \ {calls[h].post} : posts'[p] = posts[p]
<1>1. Creating(h) /\ calls[h] \in Calls /\ calls[h].post \in PostIds /\ raced' = raced
  BY CallTyped DEF Create, At, In, Creating, history
<1>2. posts[calls[h].post].state = "none"
  BY <1>1 DEF Agreed, CreatesNew
<1>3. /\ posts'[calls[h].post].state = "kept"
      /\ \A p \in PostIds \ {calls[h].post} : posts'[p] = posts[p]
  BY <1>1, PostTyped DEF Create, TypeOK, Post
<1>4. /\ calls'[h].op = "create" /\ calls'[h].phase = "branches"
      /\ calls'[h].post = calls[h].post
      /\ \A g \in Handlers \ {h} : calls'[g] = calls[g]
  BY <1>1 DEF Create, Branches, TypeOK, Creating, Calls
<1>5. ASSUME NEW g \in Handlers
      PROVE  Unmade(g)' /\ CreatesNew(g)' /\ RaceKnown(g)'
  <2>1. CASE g = h
    BY <2>1, <1>3, <1>4 DEF Unmade, CreatesNew, RaceKnown, Creating, PastCheck
  <2>2. CASE g # h
    <3>1. calls'[g] = calls[g] /\ (calls[g] # Idle => calls[g].post \in PostIds)
      BY <2>2, <1>4, CallTyped
    <3>2. Creating(g) => calls[g].post # calls[h].post
      BY <2>2, <1>1 DEF Agreed, CreateAlone
    <3> QED BY <3>1, <3>2, <1>1, <1>3
            DEF Agreed, Unmade, CreatesNew, RaceKnown, Creating, PastCheck
  <2> QED BY <2>1, <2>2
<1>6. \A f, g \in Handlers : CreateAlone(f, g)'
  BY <1>4 DEF Agreed, CreateAlone, Creating
<1> QED BY <1>2, <1>3, <1>5, <1>6 DEF Agreed

LEMMA SaveAgreed ==
  ASSUME TypeOK, Shaped, Agreed, NEW h \in Handlers, Save(h)
  PROVE  /\ Agreed'
         /\ posts[calls[h].post].state = "deleted" => calls[h].post \in raced
         /\ \A p \in PostIds \ {calls[h].post} : posts'[p] = posts[p]
<1>0. calls[h] # Idle /\ calls[h].phase = "save"
  BY DEF Save, In
<1>1. /\ PastCheck(h) /\ calls[h] \in Calls /\ calls[h].post \in PostIds
      /\ raced' = raced /\ Shape(h)
  BY <1>0, CallTyped DEF Save, PastCheck, Shaped, Shape, history
<1>2. /\ posts'[calls[h].post].state = "kept"
      /\ \A p \in PostIds \ {calls[h].post} : posts'[p] = posts[p]
  BY <1>1 DEF Save, TypeOK, NoPost
<1>3. posts[calls[h].post].state # "none"
  BY <1>0, <1>1 DEF Agreed, Unmade, Creating, PastCheck
<1>4. /\ calls'[h].op = "update" /\ calls'[h].phase = "reply"
      /\ calls'[h].post = calls[h].post
      /\ \A g \in Handlers \ {h} : calls'[g] = calls[g]
  BY <1>1 DEF Save, Go, TypeOK, PastCheck, Calls
<1>5. ASSUME NEW g \in Handlers
      PROVE  Unmade(g)' /\ CreatesNew(g)' /\ RaceKnown(g)'
  <2>1. CASE g = h
    BY <2>1, <1>2, <1>4 DEF Unmade, CreatesNew, RaceKnown, Creating, PastCheck
  <2>2. CASE g # h
    <3>1. calls'[g] = calls[g] /\ (calls[g] # Idle => calls[g].post \in PostIds)
      BY <2>2, <1>4, CallTyped
    <3>2. Creating(g) => calls[g].post # calls[h].post
      BY <1>3 DEF Agreed, CreatesNew
    <3> QED BY <3>1, <3>2, <1>1, <1>2
            DEF Agreed, Unmade, CreatesNew, RaceKnown, Creating, PastCheck
  <2> QED BY <2>1, <2>2
<1>6. \A f, g \in Handlers : CreateAlone(f, g)'
  BY <1>4 DEF Agreed, CreateAlone, Creating
<1>7. posts[calls[h].post].state = "deleted" => calls[h].post \in raced
  BY <1>1 DEF Agreed, RaceKnown
<1> QED BY <1>2, <1>5, <1>6, <1>7 DEF Agreed

LEMMA DeleteAgreed ==
  ASSUME TypeOK, Shaped, Agreed, NEW h \in Handlers, Delete(h)
  PROVE  /\ Agreed'
         /\ \A p \in PostIds : posts'[p] = posts[p] \/ posts'[p].state = "deleted"
<1>1. /\ calls[h] # Idle /\ calls[h].phase = "delete" /\ calls[h] \in Calls
      /\ calls[h].op = "delete" /\ calls[h].post \in PostIds
  BY CallTyped DEF Delete, In, Shaped, Shape
<1>2. /\ calls'[h].op = "delete" /\ calls'[h].phase = "reply"
      /\ calls'[h].post = calls[h].post
      /\ \A g \in Handlers \ {h} : calls'[g] = calls[g]
  BY <1>1 DEF Delete, Go, TypeOK, Calls
<1>3. CASE ~ (Kept(calls[h].post) /\ calls[h].own)
  <2>1. UNCHANGED <<posts, raced>>
    BY <1>3 DEF Delete
  <2>2. Tame(h)
    BY <1>1, <1>2 DEF Tame, Creating
  <2> QED BY <2>1, <2>2, <1>2, OthersTame, TameAgreed DEF SameStates
<1>4. CASE Kept(calls[h].post) /\ calls[h].own
  <2>1. /\ posts'[calls[h].post].state = "deleted"
        /\ \A p \in PostIds \ {calls[h].post} : posts'[p] = posts[p]
    BY <1>1, <1>4 DEF Delete, TypeOK, NoPost
  <2>2. /\ raced \subseteq raced'
        /\ \A g \in Handlers :
             PastCheck(g) /\ calls[g].post = calls[h].post => calls[h].post \in raced'
    BY <1>4 DEF Delete, Updating, At, In, PastCheck
  <2>3. ASSUME NEW g \in Handlers
        PROVE  Unmade(g)' /\ CreatesNew(g)' /\ RaceKnown(g)'
    <3>1. CASE g = h
      BY <3>1, <1>2, <2>1 DEF Unmade, CreatesNew, RaceKnown, Creating, PastCheck
    <3>2. CASE g # h
      <4>1. calls'[g] = calls[g] /\ (calls[g] # Idle => calls[g].post \in PostIds)
        BY <3>2, <1>2, CallTyped
      <4>2. Creating(g) => calls[g].post # calls[h].post
        BY <1>4 DEF Agreed, CreatesNew, Kept
      <4> QED BY <4>1, <4>2, <1>1, <2>1, <2>2
              DEF Agreed, Unmade, CreatesNew, RaceKnown, Creating, PastCheck
    <3> QED BY <3>1, <3>2
  <2>4. \A f, g \in Handlers : CreateAlone(f, g)'
    BY <1>2 DEF Agreed, CreateAlone, Creating
  <2> QED BY <2>1, <2>3, <2>4 DEF Agreed
<1> QED BY <1>3, <1>4

LEMMA StopAgreed ==
  ASSUME TypeOK, Shaped, Agreed, ServiceStops \/ ServiceBoots \/ MainAppStops
  PROVE  Agreed' /\ SameStates
<1>1. SameStates /\ raced' = raced
  BY DEF ServiceStops, ServiceBoots, MainAppStops, tables, history, SameStates
<1>2. ASSUME NEW g \in Handlers
      PROVE  Tame(g)
  <2>1. \/ calls'[g] = calls[g] \/ calls'[g] = Idle
        \/ calls[g] # Idle /\ calls'[g] = [calls[g] EXCEPT !.phase = "hung", !.todo = {}]
        \/ calls[g] # Idle /\ calls'[g] = [calls[g] EXCEPT !.deaf = TRUE]
    BY DEF ServiceStops, ServiceBoots, MainAppStops, Serving
  <2>2. calls[g] # Idle => calls[g] \in Calls
    BY CallTyped
  <2> QED BY <2>1, <2>2 DEF Tame, Calls
<1> QED BY <1>1, <1>2, TameAgreed


\* What a step does to the deleted posts.
StayDeleted ==
  \A p \in PostIds \ raced :
    posts[p].state = "deleted" => posts'[p].state = "deleted"

LEMMA NextAgreed ==
  ASSUME TypedAndShaped, Agreed, [Next]_vars
  PROVE  Agreed' /\ StayDeleted
<1>0. TypeOK /\ Shaped
  BY DEF TypedAndShaped
<1>1. CASE UNCHANGED vars
  BY <1>1 DEF vars, tables, history, Agreed, Unmade, CreatesNew, RaceKnown,
              CreateAlone, Creating, PastCheck, StayDeleted
<1>2. ASSUME NEW h \in Handlers, Start(h)
      PROVE  Agreed' /\ StayDeleted
  BY <1>0, <1>2, StartAgreed DEF SameStates, StayDeleted
<1>3. ASSUME NEW h \in Handlers, Continue(h)
      PROVE  Agreed' /\ StayDeleted
  <2>1. CASE QuietStep(h)
    BY <2>1, <1>0, QuietAgreed DEF SameStates, StayDeleted
  <2>2. CASE Update(h)
    BY <2>2, <1>0, UpdateAgreed DEF SameStates, StayDeleted
  <2>3. CASE Create(h)
    BY <2>3, <1>0, CreateAgreed DEF StayDeleted
  <2>4. CASE Save(h)
    BY <2>4, <1>0, SaveAgreed DEF StayDeleted
  <2>5. CASE Delete(h)
    BY <2>5, <1>0, DeleteAgreed DEF StayDeleted
  <2> QED BY <1>3, <2>1, <2>2, <2>3, <2>4, <2>5 DEF Continue, QuietStep
<1>4. CASE ServiceStops \/ ServiceBoots \/ MainAppStops
  BY <1>0, <1>4, StopAgreed DEF SameStates, StayDeleted
<1> QED BY <1>1, <1>2, <1>3, <1>4 DEF Next

LEMMA InitAgreed == Init => Agreed
BY DEF Init, Agreed, Unmade, CreatesNew, RaceKnown, CreateAlone, Creating, PastCheck

LEMMA AlwaysAgreed == Spec => [](TypedAndShaped /\ Agreed)
<1>1. TypedAndShaped /\ Agreed /\ [Next]_vars => (TypedAndShaped /\ Agreed)'
  BY NextTyped, NextAgreed
<1> QED BY <1>1, InitTyped, InitAgreed, PTL DEF Spec

\* A deleted post stays deleted, whatever requests overlap and whatever stops,
\* unless an update of it had passed its check before: Save is the one step
\* that inserts a row again.  (post.service.ts:62 and :105)
THEOREM DeletedPostsStay == Spec => DeletedStaysDeleted
<1>1. TypedAndShaped /\ Agreed /\ [Next]_vars
        => [\A p \in PostIds \ raced :
              posts[p].state = "deleted" => posts'[p].state = "deleted"]_vars
  BY NextAgreed DEF StayDeleted
<1> QED BY <1>1, AlwaysAgreed, PTL DEF Spec, DeletedStaysDeleted

-----------------------------------------------------------------------------
(* No picture is deleted that a post's row names.                          *)

\* A request whose file may yet become the post's picture.
Linking(h) == calls[h].todo \cap {"unlink", "link"} # {}
MayLink(h) ==
  /\ calls[h] # Idle
  /\ calls[h].op \in {"create", "update"} /\ calls[h].path # None
  /\ \/ calls[h].phase \in {"old", "row", "ask"}
     \/ calls[h].phase = "branches" /\ Linking(h)

\* A request that has got rid of the old picture's row.
Past(h) ==
  /\ calls[h] # Idle /\ calls[h].old # None
  /\ \/ calls[h].phase \in {"save", "reply", "files"}
     \/ calls[h].phase = "branches" /\ "unlink" \notin calls[h].todo

\* A name is only ever used for what it was generated for.
PictureNamed(p) == posts[p].picture # None => used[posts[p].picture] = p
CallNamed(h) ==
  calls[h] # Idle =>
    /\ calls[h].path # None =>
         used[calls[h].path] = IF calls[h].op = "upload" THEN "upload" ELSE calls[h].post
    /\ calls[h].old # None => used[calls[h].old] = calls[h].post
LinkShape(h) ==
  calls[h] # Idle =>
    /\ ~({"unlink", "link"} \subseteq calls[h].todo)
    /\ Linking(h) => calls[h].path # None /\ calls[h].op # "upload"
PathAlone(g, h) ==
  calls[g] # Idle /\ calls[h] # Idle /\ calls[g].path # None
      /\ calls[g].path = calls[h].path
    => g = h
NoPicture(h) == MayLink(h) => \A p \in PostIds : posts[p].picture # calls[h].path
NotOld(g, h) == MayLink(h) /\ calls[g] # Idle => calls[g].old # calls[h].path
Gone(h) == Past(h) => posts[calls[h].post].picture # calls[h].old

Apart ==
  /\ \A p \in PostIds : PictureNamed(p)
  /\ \A h \in Handlers : /\ CallNamed(h) /\ LinkShape(h) /\ NoPicture(h) /\ Gone(h)
                         /\ \A g \in Handlers : PathAlone(g, h) /\ NotOld(g, h)

\* A request that goes on without making its file the picture.
Mild(g) ==
  calls'[g] # Idle =>
    /\ calls[g] # Idle /\ calls'[g].op = calls[g].op
    /\ calls'[g].post = calls[g].post /\ calls'[g].path = calls[g].path
    /\ calls'[g].old \in {calls[g].old, None, posts[calls[g].post].picture}
    /\ MayLink(g)' => MayLink(g)
    /\ Past(g)' => \/ posts'[calls[g].post].picture = None
                   \/ Past(g) /\ calls'[g].old = calls[g].old
    /\ ~({"unlink", "link"} \subseteq calls'[g].todo)
    /\ Linking(g)' => calls[g].path # None /\ calls[g].op # "upload"
FewerPictures ==
  \A p \in PostIds : posts'[p].picture \in {posts[p].picture, None}

LEMMA MildApart ==
  ASSUME TypeOK, Apart, \A g \in Handlers : Mild(g), FewerPictures, used' = used
  PROVE  Apart'
<1>1. \A h \in Handlers : calls'[h] # Idle => calls[h] # Idle /\ calls[h].post \in PostIds
  BY CallTyped DEF Mild
<1>2. ASSUME NEW p \in PostIds
      PROVE  PictureNamed(p)'
  BY <1>2 DEF Apart, PictureNamed, FewerPictures
<1>3. ASSUME NEW h \in Handlers
      PROVE  CallNamed(h)' /\ LinkShape(h)'
  <2>1. SUFFICES ASSUME calls'[h] # Idle
                 PROVE  CallNamed(h)' /\ LinkShape(h)'
    BY DEF CallNamed, LinkShape
  <2>2. Mild(h) /\ CallNamed(h) /\ PictureNamed(calls[h].post)
    BY <1>1, <2>1 DEF Apart
  <2> QED BY <2>1, <2>2 DEF Mild, CallNamed, LinkShape, PictureNamed
<1>4. ASSUME NEW h \in Handlers
      PROVE  NoPicture(h)'
  <2>1. SUFFICES ASSUME MayLink(h)', NEW p \in PostIds
                 PROVE  posts'[p].picture # calls'[h].path
    BY DEF NoPicture
  <2>2. /\ MayLink(h) /\ calls'[h].path = calls[h].path /\ calls[h].path # None
        /\ NoPicture(h)
    BY <2>1 DEF Mild, MayLink, Apart
  <2> QED BY <2>1, <2>2 DEF NoPicture, FewerPictures
<1>5. ASSUME NEW h \in Handlers
      PROVE  Gone(h)'
  <2>1. SUFFICES ASSUME Past(h)'
                 PROVE  posts'[calls'[h].post].picture # calls'[h].old
    BY DEF Gone
  <2>2. /\ calls'[h] # Idle /\ calls'[h].old # None
        /\ calls'[h].post = calls[h].post /\ calls[h].post \in PostIds
    BY <1>1, <2>1 DEF Past, Mild
  <2>3. CASE posts'[calls[h].post].picture = None
    BY <2>2, <2>3
  <2>4. CASE Past(h) /\ calls'[h].old = calls[h].old
    BY <2>2, <2>4 DEF Apart, Gone, FewerPictures
  <2> QED BY <2>1, <2>2, <2>3, <2>4 DEF Mild
<1>6. ASSUME NEW g \in Handlers, NEW h \in Handlers
      PROVE  PathAlone(g, h)'
  <2>1. PathAlone(g, h)
    BY DEF Apart
  <2>2. /\ calls'[g] # Idle => calls[g] # Idle /\ calls'[g].path = calls[g].path
        /\ calls'[h] # Idle => calls[h] # Idle /\ calls'[h].path = calls[h].path
    BY DEF Mild
  <2> SUFFICES ASSUME calls'[g] # Idle, calls'[h] # Idle, calls'[g].path # None,
                      calls'[g].path = calls'[h].path
               PROVE  g = h
    BY DEF PathAlone
  <2> QED BY <2>1, <2>2 DEF PathAlone
<1>7. ASSUME NEW g \in Handlers, NEW h \in Handlers
      PROVE  NotOld(g, h)'
  <2>1. SUFFICES ASSUME MayLink(h)', calls'[g] # Idle
                 PROVE  calls'[g].old # calls'[h].path
    BY DEF NotOld
  <2>2. /\ MayLink(h) /\ calls'[h].path = calls[h].path /\ calls[h].path # None
        /\ NoPicture(h) /\ NotOld(g, h) /\ calls[g].post \in PostIds
        /\ calls[g] # Idle
        /\ calls'[g].old \in {calls[g].old, None, posts[calls[g].post].picture}
    BY <1>1, <2>1 DEF Mild, MayLink, Apart
  <2> QED BY <2>2 DEF NoPicture, NotOld
<1> QED BY <1>2, <1>3, <1>4, <1>5, <1>6, <1>7 DEF Apart

LEMMA OthersMild ==
  ASSUME TypeOK, Apart, NEW h \in Handlers, Mild(h),
         \A g \in Handlers \ {h} : calls'[g] = calls[g]
  PROVE  \A g \in Handlers : Mild(g)
<1> SUFFICES ASSUME NEW g \in Handlers, g # h
             PROVE  Mild(g)
  OBVIOUS
<1>1. calls'[g] = calls[g] /\ LinkShape(g)
  BY DEF Apart
<1> QED BY <1>1 DEF Mild, LinkShape, MayLink, Past, Linking

\* The request is the same one, at a given place.
Still(h) ==
  /\ calls'[h].op = calls[h].op /\ calls'[h].post = calls[h].post
  /\ calls'[h].path = calls[h].path
StillAt(h, phase, old, todo) ==
  /\ Still(h)
  /\ calls'[h].phase = phase /\ calls'[h].old = old /\ calls'[h].todo = todo

\* Every step of a request but the one that links its file.
MildStep(h) ==
  \/ FindOld(h) \/ CreateFileEntity(h) \/ Create(h) \/ Update(h) \/ FindPost(h)
  \/ Hang(h) \/ Untag(h) \/ Tag(h) \/ Unlink(h) \/ SetPicId(h) \/ Join(h)
  \/ Save(h) \/ Delete(h) \/ Answer(h) \/ Store(h) \/ Clean(h) \/ Respond(h)

LEMMA MildStepApart ==
  ASSUME TypeOK, Shaped, Apart, NEW h \in Handlers, MildStep(h)
  PROVE  Apart'
<1>0. calls[h] # Idle
  BY DEF MildStep, FindOld, CreateFileEntity, Create, Update, FindPost, Hang, Untag, Tag, Unlink, SetPicId, Join, Save, Delete, Answer, Store, Clean, Respond, At, In, Pending
<1>1. /\ Shape(h) /\ calls[h] \in Calls /\ calls \in [Handlers -> {Idle} \cup Calls]
      /\ posts \in [PostIds -> Post] /\ calls[h].post \in PostIds
  BY <1>0, CallTyped DEF Shaped, TypeOK
<1>2. LinkShape(h) /\ calls[h] # Idle
  BY <1>0 DEF Apart
<1>3. /\ \A g \in Handlers \ {h} : calls'[g] = calls[g]
      /\ used' = used
  BY <1>1 DEF MildStep, FindOld, CreateFileEntity, Create, Update, FindPost, Hang, Untag, Tag, Unlink, SetPicId, Join, Save, Delete, Answer, Store, Clean, Respond,
     Go, End, Branches, Did, Fail
<1>4. ASSUME FindOld(h)
      PROVE  Mild(h)
  BY <1>4, <1>0, <1>1, <1>2 DEF FindOld, In, Mild, MayLink, Past, Linking, Shape, Calls
<1>5. ASSUME CreateFileEntity(h)
      PROVE  Mild(h)
  <2>1. calls'[h] = Idle \/ StillAt(h, "ask", calls[h].old, calls[h].todo)
    BY <1>5, <1>0, <1>1 DEF CreateFileEntity, Go, End, Still, StillAt, Calls, In
  <2> QED BY <2>1, <1>5, <1>0, <1>1, <1>2
          DEF CreateFileEntity, In, Still, StillAt, Mild, MayLink, Past, Linking, LinkShape, Shape
<1>6. ASSUME Create(h)
      PROVE  Mild(h)
  BY <1>6, <1>0, <1>1, <1>2 DEF Create, At, In, Branches, Mild, MayLink, Past, Linking, Shape, Calls
<1>7. ASSUME Update(h)
      PROVE  Mild(h)
  BY <1>7, <1>0, <1>1, <1>2 DEF Update, At, In, Branches, End, Mild, MayLink, Past, Linking, Shape, Calls
<1>8. ASSUME FindPost(h)
      PROVE  Mild(h)
  <2>1. \E old \in {None, posts[calls[h].post].picture} : StillAt(h, "delete", old, calls[h].todo)
    BY <1>8, <1>0, <1>1 DEF FindPost, Still, StillAt, Calls, At, In
  <2> QED BY <2>1, <1>8, <1>0, <1>1, <1>2
          DEF FindPost, At, In, Still, StillAt, Mild, MayLink, Past, Linking, LinkShape, Shape
<1>9. ASSUME Hang(h)
      PROVE  Mild(h)
  <2>1. StillAt(h, "hung", calls[h].old, calls[h].todo)
    BY <1>9, <1>0, <1>1 DEF Hang, Go, Still, StillAt, Calls, In
  <2> QED BY <2>1, <1>9, <1>0, <1>1, <1>2
          DEF Hang, In, Still, StillAt, Mild, MayLink, Past, Linking, LinkShape, Shape
<1>10. ASSUME Untag(h)
      PROVE  Mild(h)
  <2>1. StillAt(h, "branches", calls[h].old, (calls[h].todo \ {"untag"}) \cup {"tag"})
    BY <1>10, <1>0, <1>1 DEF Untag, Did, Still, StillAt, Calls, Pending, In
  <2> QED BY <2>1, <1>10, <1>0, <1>1, <1>2
          DEF Untag, Pending, In, Still, StillAt, Mild, MayLink, Past, Linking, LinkShape, Shape
<1>11. ASSUME Tag(h)
      PROVE  Mild(h)
  <2>1. StillAt(h, "branches", calls[h].old, calls[h].todo \ {"tag"})
    BY <1>11, <1>0, <1>1 DEF Tag, Did, Fail, Still, StillAt, Calls, Pending, In
  <2> QED BY <2>1, <1>11, <1>0, <1>1, <1>2
          DEF Tag, Pending, In, Still, StillAt, Mild, MayLink, Past, Linking, LinkShape, Shape
<1>12. ASSUME Unlink(h)
      PROVE  Mild(h)
  <2>1. StillAt(h, "branches", calls[h].old, (calls[h].todo \ {"unlink"}) \cup {"link"}) /\ posts'[calls[h].post].picture = None
    BY <1>12, <1>0, <1>1 DEF Unlink, Did, Still, StillAt, Calls, Pending, In
  <2> QED BY <2>1, <1>12, <1>0, <1>1, <1>2
          DEF Unlink, Pending, In, Still, StillAt, Mild, MayLink, Past, Linking, LinkShape, Shape
<1>13. ASSUME SetPicId(h)
      PROVE  Mild(h)
  <2>1. StillAt(h, "branches", calls[h].old, calls[h].todo \ {"name"})
    BY <1>13, <1>0, <1>1 DEF SetPicId, Did, Still, StillAt, Calls, Pending, In
  <2> QED BY <2>1, <1>13, <1>0, <1>1, <1>2
          DEF SetPicId, Pending, In, Still, StillAt, Mild, MayLink, Past, Linking, LinkShape, Shape
<1>14. ASSUME Join(h)
      PROVE  Mild(h)
  BY <1>14, <1>0, <1>1, <1>2 DEF Join, In, Go, End, Mild, MayLink, Past, Linking, Shape, Calls
<1>15. ASSUME Save(h)
      PROVE  Mild(h)
  <2>1. StillAt(h, "reply", calls[h].old, calls[h].todo)
    BY <1>15, <1>0, <1>1 DEF Save, Go, Still, StillAt, Calls, In
  <2> QED BY <2>1, <1>15, <1>0, <1>1, <1>2
          DEF Save, In, Still, StillAt, Mild, MayLink, Past, Linking, LinkShape, Shape
<1>16. ASSUME Delete(h)
      PROVE  Mild(h)
  <2>1. \/ StillAt(h, "reply", None, calls[h].todo)
        \/ StillAt(h, "reply", calls[h].old, calls[h].todo)
           /\ posts'[calls[h].post].picture = None
    BY <1>16, <1>0, <1>1 DEF Delete, Go, NoPost, Still, StillAt, Calls, In
  <2> QED BY <2>1, <1>16, <1>0, <1>1, <1>2
          DEF Delete, In, Still, StillAt, Mild, MayLink, Past, Linking, LinkShape, Shape
<1>17. ASSUME Answer(h)
      PROVE  Mild(h)
  BY <1>17, <1>0, <1>1, <1>2 DEF Answer, In, End, Mild, MayLink, Past, Linking, Shape, Calls
<1>18. ASSUME Store(h)
      PROVE  Mild(h)
  <2>1. StillAt(h, "files", calls[h].old, calls[h].todo \ {"store"})
    BY <1>18, <1>0, <1>1 DEF Store, Did, Fail, Still, StillAt, Calls, Pending, In
  <2> QED BY <2>1, <1>18, <1>0, <1>1, <1>2
          DEF Store, Pending, In, Still, StillAt, Mild, MayLink, Past, Linking, LinkShape, Shape
<1>19. ASSUME Clean(h)
      PROVE  Mild(h)
  <2>1. StillAt(h, "files", calls[h].old, calls[h].todo \ {"clean"})
    BY <1>19, <1>0, <1>1 DEF Clean, Did, Still, StillAt, Calls, Pending, In
  <2> QED BY <2>1, <1>19, <1>0, <1>1, <1>2
          DEF Clean, Pending, In, Still, StillAt, Mild, MayLink, Past, Linking, LinkShape, Shape
<1>20. ASSUME Respond(h)
      PROVE  Mild(h)
  BY <1>20, <1>0, <1>1, <1>2 DEF Respond, In, Go, End, Mild, MayLink, Past, Linking, Shape, Calls
<1>21. Mild(h)
  BY <1>4, <1>5, <1>6, <1>7, <1>8, <1>9, <1>10, <1>11, <1>12, <1>13, <1>14, <1>15, <1>16, <1>17, <1>18, <1>19, <1>20 DEF MildStep
<1>22. FewerPictures
  BY <1>1 DEF MildStep, FindOld, CreateFileEntity, Create, Update, FindPost, Hang, Untag, Tag, Unlink, SetPicId, Join, Save, Delete, Answer, Store, Clean, Respond,
     Fail, tables, FewerPictures, NoPost, Post
<1> QED BY <1>3, <1>21, <1>22, OthersMild, MildApart

\* A request that starts has a name nobody has.
LEMMA StartApart ==
  ASSUME TypeOK, Shaped, Apart, NEW h \in Handlers, Start(h)
  PROVE  Apart'
<1>1. PICK op \in {"create", "update", "delete", "upload"}, phase \in {"ask", "old", "files"},
           p \in PostIds, own \in BOOLEAN, path \in Paths \cup {None}, tagged \in BOOLEAN :
        Starts(h, op, phase, p, own, path, tagged)
  BY StartStarts DEF Started
<1>2. Begin(h, op, phase, p, own, path, tagged)
  BY <1>1 DEF Starts
<1>3. /\ calls[h] = Idle /\ calls'[h] # Idle
      /\ calls'[h].op = op /\ calls'[h].post = p /\ calls'[h].path = path
      /\ calls'[h].old = None /\ calls'[h].phase = phase
      /\ calls'[h].todo = (IF op = "upload" THEN {"store"} ELSE {})
      /\ \A g \in Handlers \ {h} : calls'[g] = calls[g]
      /\ posts' = posts
  BY <1>2, StartedCall
<1>4. /\ path # None => /\ used[path] = "fresh"
                        /\ used'[path] = IF op = "upload" THEN "upload" ELSE p
      /\ \A f \in Paths : used[f] # "fresh" => used'[f] = used[f]
  BY <1>2 DEF Begin, GenerateFileName, TypeOK
<1>5. \A f \in Paths : used[f] \in PostIds \cup {"upload"} => used[f] # "fresh" /\ f # path
  BY <1>4, PostsAssumption
<1>6. ASSUME NEW q \in PostIds
      PROVE  /\ PictureNamed(q)'
             /\ posts[q].picture # None => posts[q].picture # path
  <2>1. PictureNamed(q) /\ posts[q].picture \in Paths \cup {None}
    BY PostTyped DEF Apart
  <2> QED BY <2>1, <1>3, <1>4, <1>5 DEF PictureNamed
<1>7. ASSUME NEW g \in Handlers, g # h, calls[g] # Idle
      PROVE  /\ CallNamed(g)'
             /\ calls[g].path # None => calls[g].path # path
             /\ calls[g].old # None => calls[g].old # path
  <2>1. /\ CallNamed(g) /\ calls[g].post \in PostIds
        /\ calls[g].path \in Paths \cup {None} /\ calls[g].old \in Paths \cup {None}
    BY <1>7, CallTyped DEF Apart
  <2>2. calls[g].path # None => used[calls[g].path] \in PostIds \cup {"upload"}
    BY <2>1, <1>7 DEF CallNamed
  <2>3. calls[g].old # None => used[calls[g].old] \in PostIds
    BY <2>1, <1>7 DEF CallNamed
  <2>4. calls'[g] = calls[g]
    BY <1>3, <1>7
  <2> QED BY <2>1, <2>2, <2>3, <2>4, <1>4, <1>5, <1>7 DEF CallNamed
<1>8. ASSUME NEW g \in Handlers
      PROVE  CallNamed(g)' /\ LinkShape(g)' /\ NoPicture(g)' /\ Gone(g)'
  <2>1. CASE g = h
    BY <2>1, <1>3, <1>4, <1>6 DEF CallNamed, LinkShape, Linking, NoPicture, MayLink, Gone, Past
  <2>2. CASE g # h
    <3>1. calls'[g] = calls[g] /\ CallNamed(g) /\ LinkShape(g) /\ NoPicture(g) /\ Gone(g)
      BY <2>2, <1>3 DEF Apart
    <3> QED BY <3>1, <2>2, <1>3, <1>7
            DEF CallNamed, LinkShape, Linking, NoPicture, MayLink, Gone, Past
  <2> QED BY <2>1, <2>2
<1>9. ASSUME NEW f \in Handlers, NEW g \in Handlers
      PROVE  PathAlone(f, g)' /\ NotOld(f, g)'
  <2>1. PathAlone(f, g) /\ NotOld(f, g)
    BY DEF Apart
  <2>2. CASE f = h /\ g = h
    BY <2>2, <1>3 DEF PathAlone, NotOld, MayLink
  <2>3. CASE f = h /\ g # h
    BY <2>3, <1>3, <1>7 DEF PathAlone, NotOld, MayLink
  <2>4. CASE f # h /\ g = h
    BY <2>4, <1>3, <1>7 DEF PathAlone, NotOld, MayLink
  <2>5. CASE f # h /\ g # h
    BY <2>1, <2>5, <1>3 DEF PathAlone, NotOld, MayLink, Linking
  <2> QED BY <2>2, <2>3, <2>4, <2>5
<1> QED BY <1>6, <1>8, <1>9 DEF Apart

\* A request that keeps its files through a step that links one.
SameFiles(g) ==
  /\ calls'[g] # Idle => calls[g] # Idle
  /\ calls'[g].path = calls[g].path /\ calls'[g].old = calls[g].old
  /\ MayLink(g)' => MayLink(g)

LEMMA LinkApart ==
  ASSUME TypeOK, Shaped, Apart, NEW h \in Handlers, Link(h)
  PROVE  Apart'
<1>0. calls[h] # Idle /\ calls[h].phase = "branches" /\ "link" \in calls[h].todo
  BY DEF Link, Pending, In
<1>1. /\ Shape(h) /\ calls[h] \in Calls /\ calls[h].post \in PostIds
      /\ LinkShape(h) /\ calls[h].path \in Paths \cup {None}
  BY <1>0, CallTyped DEF Shaped, Apart
<1>2. MayLink(h) /\ "unlink" \notin calls[h].todo /\ calls[h].path # None
  BY <1>0, <1>1 DEF LinkShape, Linking, MayLink, Shape
<1>3. /\ \A g \in Handlers \ {h} : calls'[g] = calls[g]
      /\ used' = used
  BY <1>1, CallTyped DEF Link, Did, Fail, TypeOK
<1>4. CASE Fail(h, "link")
  <2>1. StillAt(h, "branches", calls[h].old, calls[h].todo \ {"link"}) /\ posts' = posts
    BY <1>0, <1>1, <1>4 DEF Fail, StillAt, Still, Calls, TypeOK, tables
  <2>2. Mild(h)
    BY <2>1, <1>0, <1>1, <1>2
       DEF StillAt, Still, Mild, MayLink, Past, Linking, LinkShape
  <2> QED BY <2>1, <2>2, <1>3, OthersMild, MildApart DEF FewerPictures
<1>5. CASE ~Fail(h, "link")
  <2>1. /\ posts[calls[h].post].picture = None
        /\ posts'[calls[h].post].picture = calls[h].path
        /\ \A p \in PostIds \ {calls[h].post} : posts'[p] = posts[p]
    BY <1>1, <1>5 DEF Link, TypeOK, Post
  <2>2. StillAt(h, "branches", calls[h].old, (calls[h].todo \ {"link"}) \cup {"name"})
    BY <1>0, <1>1, <1>5 DEF Link, Did, StillAt, Still, Calls, TypeOK
  <2>3. calls'[h] # Idle /\ ~MayLink(h)' /\ (Past(h)' => Past(h) /\ calls'[h].old = calls[h].old)
    BY <2>2, <1>0, <1>1, <1>2 DEF StillAt, Still, MayLink, Linking, Past, Idle, Calls
  <2>4. ASSUME NEW p \in PostIds
        PROVE  PictureNamed(p)'
    <3>1. CallNamed(h) /\ PictureNamed(p) /\ calls[h].op # "upload"
      BY <1>2 DEF Apart, MayLink
    <3> QED BY <3>1, <2>1, <1>0, <1>2, <1>3 DEF PictureNamed, CallNamed
  <2>5. ASSUME NEW g \in Handlers
        PROVE  CallNamed(g)' /\ LinkShape(g)'
    <3>1. CallNamed(g) /\ LinkShape(g)
      BY DEF Apart
    <3>2. CASE g = h
      BY <3>1, <3>2, <2>2, <1>0, <1>2, <1>3
         DEF StillAt, Still, CallNamed, LinkShape, Linking
    <3>3. CASE g # h
      BY <3>1, <3>3, <1>3 DEF CallNamed, LinkShape, Linking
    <3> QED BY <3>2, <3>3
  <2>6. ASSUME NEW g \in Handlers
        PROVE  NoPicture(g)'
    <3>1. CASE g = h
      BY <3>1, <2>3 DEF NoPicture
    <3>2. CASE g # h
      <4>1. NoPicture(g) /\ PathAlone(h, g) /\ calls'[g] = calls[g]
        BY <3>2, <1>3 DEF Apart
      <4> QED BY <4>1, <3>2, <2>1, <1>0, <1>2
              DEF NoPicture, PathAlone, MayLink, Linking
    <3> QED BY <3>1, <3>2
  <2>7. ASSUME NEW g \in Handlers
        PROVE  Gone(g)'
    <3>1. Gone(g) /\ NotOld(g, h)
      BY DEF Apart
    <3>2. CASE g = h
      BY <3>1, <3>2, <2>1, <2>2, <2>3, <1>0, <1>2 DEF Gone, NotOld, StillAt, Still
    <3>3. CASE g # h
      <4>1. calls'[g] = calls[g] /\ (calls[g] # Idle => calls[g].post \in PostIds)
        BY <3>3, <1>3, CallTyped
      <4> QED BY <4>1, <3>1, <2>1, <1>2 DEF Gone, NotOld, Past
    <3> QED BY <3>2, <3>3
  <2>8. ASSUME NEW f \in Handlers, NEW g \in Handlers
        PROVE  PathAlone(f, g)' /\ NotOld(f, g)'
    <3>1. PathAlone(f, g) /\ NotOld(f, g)
      BY DEF Apart
    <3>2. ASSUME NEW k \in Handlers
          PROVE  SameFiles(k)
      <4>1. CASE k = h
        BY <4>1, <2>2, <2>3, <1>0 DEF SameFiles, StillAt, Still
      <4>2. CASE k # h
        BY <4>2, <1>3 DEF SameFiles, MayLink, Linking
      <4> QED BY <4>1, <4>2
    <3>3. SameFiles(f) /\ SameFiles(g)
      BY <3>2
    <3>4. PathAlone(f, g)'
      BY <3>1, <3>3 DEF PathAlone, SameFiles
    <3>5. NotOld(f, g)'
      BY <3>1, <3>3 DEF NotOld, SameFiles
    <3> QED BY <3>4, <3>5
  <2> QED BY <2>4, <2>5, <2>6, <2>7, <2>8 DEF Apart
<1> QED BY <1>4, <1>5

LEMMA StopApart ==
  ASSUME TypeOK, Apart, ServiceStops \/ ServiceBoots \/ MainAppStops
  PROVE  Apart'
<1>1. FewerPictures /\ used' = used
  BY DEF ServiceStops, ServiceBoots, MainAppStops, tables, FewerPictures
<1>2. ASSUME NEW g \in Handlers
      PROVE  Mild(g)
  <2>1. \/ calls'[g] = calls[g] \/ calls'[g] = Idle
        \/ calls[g] # Idle /\ calls'[g] = [calls[g] EXCEPT !.phase = "hung", !.todo = {}]
        \/ calls[g] # Idle /\ calls'[g] = [calls[g] EXCEPT !.deaf = TRUE]
    BY DEF ServiceStops, ServiceBoots, MainAppStops, Serving
  <2>2. LinkShape(g) /\ (calls[g] # Idle => calls[g] \in Calls)
    BY CallTyped DEF Apart
  <2>3. CASE calls'[g] = calls[g] \/ calls'[g] = Idle
    BY <2>2, <2>3 DEF Mild, LinkShape, MayLink, Past, Linking
  <2>4. CASE calls[g] # Idle /\ calls'[g] = [calls[g] EXCEPT !.phase = "hung", !.todo = {}]
    <3>1. StillAt(g, "hung", calls[g].old, {})
      BY <2>2, <2>4 DEF StillAt, Still, Calls
    <3> QED BY <3>1, <2>4 DEF StillAt, Still, Mild, MayLink, Past, Linking
  <2>5. CASE calls[g] # Idle /\ calls'[g] = [calls[g] EXCEPT !.deaf = TRUE]
    <3>1. StillAt(g, calls[g].phase, calls[g].old, calls[g].todo)
      BY <2>2, <2>5 DEF StillAt, Still, Calls
    <3> QED BY <3>1, <2>2, <2>5
            DEF StillAt, Still, Mild, MayLink, Past, Linking, LinkShape
  <2> QED BY <2>1, <2>3, <2>4, <2>5
<1> QED BY <1>1, <1>2, MildApart

LEMMA InitApart == Init => Apart
BY DEF Init, Apart, NoPost, PictureNamed, CallNamed, LinkShape, NoPicture,
       MayLink, Gone, Past, PathAlone, NotOld

LEMMA NextApart ==
  ASSUME TypedAndShaped, Apart, [Next]_vars
  PROVE  Apart'
<1>0. TypeOK /\ Shaped
  BY DEF TypedAndShaped
<1>1. CASE UNCHANGED vars
  <2>1. FewerPictures /\ used' = used /\ calls' = calls
    BY <1>1 DEF vars, tables, FewerPictures
  <2>2. \A g \in Handlers : Mild(g)
    BY <2>1 DEF Apart, Mild, LinkShape, MayLink, Past, Linking
  <2> QED BY <1>0, <2>1, <2>2, MildApart
<1>2. ASSUME NEW h \in Handlers, Start(h) \/ Continue(h)
      PROVE  Apart'
  BY <1>0, <1>2, StartApart, MildStepApart, LinkApart DEF Continue, MildStep
<1>3. CASE ServiceStops \/ ServiceBoots \/ MainAppStops
  BY <1>0, <1>3, StopApart
<1> QED BY <1>1, <1>2, <1>3 DEF Next

LEMMA AlwaysApart == Spec => [](TypedAndShaped /\ Apart)
<1>1. TypedAndShaped /\ Apart /\ [Next]_vars => (TypedAndShaped /\ Apart)'
  BY NextTyped, NextApart
<1> QED BY <1>1, InitTyped, InitApart, PTL DEF Spec

\* The only step that takes a file away takes one no row names any more.
LEMMA OnlyCleanRemoves ==
  ASSUME TypedAndShaped, [Next]_vars, NEW f \in stored, f \notin stored'
  PROVE  \E h \in Handlers : Clean(h) /\ f = calls[h].old
<1>0. TypeOK
  BY DEF TypedAndShaped
<1>1. ASSUME UNCHANGED vars \/ ServiceStops \/ ServiceBoots \/ MainAppStops
      PROVE  FALSE
  BY <1>1 DEF vars, ServiceStops, ServiceBoots, MainAppStops
<1>2. ASSUME NEW h \in Handlers, Start(h)
      PROVE  FALSE
  <2>1. stored' = stored
    BY <1>2 DEF Start, StartCreate, StartUpdate, StartDelete, StartUpload, Begin
  <2> QED BY <2>1
<1>3. PICK h \in Handlers : Continue(h)
  <2>1. ~UNCHANGED vars /\ ~ServiceStops /\ ~ServiceBoots /\ ~MainAppStops
    BY <1>1 DEF vars, ServiceStops, ServiceBoots, MainAppStops
  <2> QED BY <2>1, <1>2 DEF Next
<1>4. CASE Clean(h)
  BY <1>4 DEF Clean, Removed
<1>5. CASE ~Clean(h)
  BY <1>3, <1>5 DEF Continue, FindOld, CreateFileEntity, Create, Update, FindPost,
     Hang, Untag, Tag, Unlink, Link, SetPicId, Join, Save, Delete, Answer, Store,
     Respond, Fail, Written
<1> QED BY <1>4, <1>5

\* No file is deleted that a post's row names, even when requests overlap or
\* a process stops half-way: a name belongs to one post, and its request
\* deletes the old file only after the row is gone.  (posts.controller.ts:104
\* and :127, post.service.ts:92
\* and :116)
THEOREM NoPictureIsDeleted == Spec => NoPictureDeleted
<1>1. TypedAndShaped /\ Apart /\ [Next]_vars
        => [\A f \in stored \ stored' : \A p \in PostIds : posts'[p].picture # f]_vars
  <2> SUFFICES ASSUME TypedAndShaped, Apart, [Next]_vars, NEW f \in stored,
                      f \notin stored', NEW p \in PostIds, posts'[p].picture = f
               PROVE  FALSE
    OBVIOUS
  <2>1. PICK h \in Handlers : Clean(h) /\ f = calls[h].old
    BY OnlyCleanRemoves
  <2>2. /\ calls[h] # Idle /\ calls[h].phase = "files" /\ posts' = posts
        /\ f # None /\ calls[h].post \in PostIds
    BY <2>1, PostsAssumption, CallTyped
       DEF Clean, Pending, In, tables, TypedAndShaped, TypeOK
  <2>3. Past(h) /\ CallNamed(h) /\ PictureNamed(p) /\ Gone(h)
    BY <2>1, <2>2 DEF Past, Apart
  <2>4. used[f] = p /\ used[f] = calls[h].post
    BY <2>1, <2>2, <2>3 DEF PictureNamed, CallNamed
  <2> QED BY <2>1, <2>2, <2>3, <2>4 DEF Gone
<1> QED BY <1>1, AlwaysApart, PTL DEF Spec, NoPictureDeleted

-----------------------------------------------------------------------------
(* The three stores agree about a post that nothing has disturbed.         *)

One(f) == {f} \ {None}
FilesOf(p) == {f \in Paths : used[f] = p /\ Downloadable(f)}

\* What the stores hold of a post nobody is at, and of one there is not.
Settled(p) ==
  /\ posts[p].picId = posts[p].picture
  /\ FilesOf(p) = One(posts[p].picture)
  /\ posts[p].tags <= 1
Blank(p) == posts[p].picId = None /\ posts[p].picture = None /\ posts[p].tags = 0

\* An update that leaves the picture alone; and the file that a request
\* leaves in the storage until the post service has answered.
Pictureless(h) == calls[h].op = "update" /\ calls[h].path = None
Left(h) == IF Pictureless(h) THEN posts[calls[h].post].picture ELSE calls[h].old

\* The row names what the request brought, once the post service is done.
Named(h) == /\ posts[calls[h].post].picId = posts[calls[h].post].picture
            /\ Pictureless(h) \/ posts[calls[h].post].picture = calls[h].path

\* Where the stores are while a request is at the post.
Asking(h) ==
  calls[h].phase \in {"old", "row", "ask", "delete"} =>
    /\ Settled(calls[h].post)
    /\ \/ calls[h].phase \in {"row", "delete"}
       \/ calls[h].phase = "ask" /\ calls[h].op = "update" /\ calls[h].path # None
       => calls[h].old = posts[calls[h].post].picture
    /\ calls[h].phase = "ask" /\ calls[h].op = "create" => ~Kept(calls[h].post)
Writing(h) ==
  calls[h].phase = "branches" =>
    /\ "name" \in calls[h].todo => /\ posts[calls[h].post].picture = calls[h].path
                                  /\ "unlink" \notin calls[h].todo
    /\ calls[h].todo \cap {"unlink", "link", "name"} = {} => Named(h)
    /\ "tag" \in calls[h].todo => posts[calls[h].post].tags = 0
Serves(h) ==
  calls[h].phase \in {"branches", "save", "reply"} =>
    /\ FilesOf(calls[h].post) = One(Left(h))
    /\ posts[calls[h].post].tags <= 1
    /\ calls[h].phase \in {"branches", "save"} => Kept(calls[h].post)
    /\ calls[h].phase \in {"save", "reply"} => Named(h)
Filing(h) ==
  calls[h].phase = "files" =>
    /\ posts[calls[h].post].picId = posts[calls[h].post].picture
    /\ posts[calls[h].post].picture = calls[h].path
    /\ posts[calls[h].post].tags <= 1
    /\ FilesOf(calls[h].post)
         = (IF "clean" \in calls[h].todo THEN One(calls[h].old) ELSE {})
             \cup (IF "store" \in calls[h].todo THEN {} ELSE One(calls[h].path))
Going(h) ==
  /\ ~calls[h].failed /\ ~calls[h].deaf
  /\ calls[h].old # None => calls[h].old # calls[h].path
  /\ Asking(h) /\ Writing(h) /\ Serves(h) /\ Filing(h)

\* One request at most is at such a post, and the stores are where it has
\* brought them.
Agree(p) ==
  /\ \A g, h \in Handlers : Busy(g, p) /\ Busy(h, p) => g = h
  /\ (\A h \in Handlers : ~Busy(h, p)) => Settled(p)
  /\ \A h \in Handlers : Busy(h, p) => Going(h)
  /\ ~Kept(p) => Blank(p)

\* A request of somebody else's gets nowhere, and a new name has no file.
Powerless(h) ==
  calls[h] # Idle /\ calls[h].op # "upload" /\ ~calls[h].own =>
    /\ calls[h].phase \in {"old", "row", "ask", "delete", "reply", "hung"}
    /\ calls[h].op = "update" => calls[h].phase \in {"old", "row", "ask", "hung"}
    /\ calls[h].op = "delete" => calls[h].old = None
FreshUnstored == \A f \in Paths : used[f] = "fresh" => f \notin stored

StoresAgree ==
  /\ \A h \in Handlers : Powerless(h)
  /\ FreshUnstored
  /\ \A p \in PostIds \ disturbed : Agree(p)

\* The whole invariant: types, shapes, names and stores.
PostsInv == TypedAndShaped /\ Apart /\ StoresAgree

\* Somebody else's step leaves a post, its files and its requests alone.
LEMMA AgreeStays ==
  ASSUME NEW p \in PostIds, Agree(p), posts'[p] = posts[p],
         FilesOf(p)' = FilesOf(p),
         \A g \in Handlers : /\ Busy(g, p)' <=> Busy(g, p)
                             /\ Busy(g, p) => calls'[g] = calls[g]
  PROVE  Agree(p)'
<1>1. Settled(p)' <=> Settled(p)
  BY DEF Settled
<1>2. (Kept(p)' <=> Kept(p)) /\ (Blank(p)' <=> Blank(p))
  BY DEF Kept, Blank
<1>3. ASSUME NEW g \in Handlers, Busy(g, p)
      PROVE  Going(g)'
  <2>1. Going(g) /\ calls'[g] = calls[g] /\ calls[g].post = p
    BY <1>3 DEF Agree, Busy
  <2> QED BY <2>1, <1>1, <1>2
          DEF Going, Asking, Writing, Serves, Filing, Named, Left, Pictureless
<1> QED BY <1>1, <1>2, <1>3 DEF Agree

\* The step of the one request that is at the post.
LEMMA AgreeMine ==
  ASSUME NEW p \in PostIds, Agree(p), NEW h \in Handlers, Busy(h, p),
         \A g \in Handlers \ {h} : calls'[g] = calls[g],
         Busy(h, p)' => Going(h)',
         ~Busy(h, p)' => Settled(p)',
         ~Kept(p)' => Blank(p)'
  PROVE  Agree(p)'
<1>1. \A g \in Handlers \ {h} : ~Busy(g, p) /\ ~Busy(g, p)'
  BY DEF Agree, Busy
<1> QED BY <1>1 DEF Agree

\* A step of one request leaves every post alone that it is not at.
LEMMA ContinueElsewhere ==
  ASSUME TypedAndShaped, Apart, NEW h \in Handlers, Powerless(h), Continue(h),
         NEW p \in PostIds, ~Busy(h, p)
  PROVE  /\ posts'[p] = posts[p]
         /\ FilesOf(p)' = FilesOf(p)
         /\ ~Busy(h, p)'
<1>0. calls[h] # Idle /\ calls[h].phase # "hung"
  BY DEF Continue, FindOld, CreateFileEntity, Create, Update, FindPost, Hang,
         Untag, Tag, Unlink, Link, SetPicId, Join, Save, Delete, Answer, Store,
         Clean, Respond, At, In, Pending
<1>1. /\ TypeOK /\ Shape(h) /\ calls[h] \in Calls
      /\ calls[h].post \in PostIds /\ calls[h].path \in Paths \cup {None}
      /\ calls[h].old \in Paths \cup {None} /\ calls[h].own \in BOOLEAN
      /\ calls[h].op \in {"create", "update", "delete", "upload"}
      /\ CallNamed(h)
  BY <1>0, CallTyped DEF TypedAndShaped, Shaped, Apart
<1>2. calls[h].op = "upload" \/ calls[h].post # p \/ ~calls[h].own
  BY <1>0, <1>1 DEF Busy
<1>3. posts'[p] = posts[p]
  BY <1>0, <1>1, <1>2
     DEF Continue, FindOld, CreateFileEntity, Create, Update, FindPost, Hang,
         Untag, Tag, Unlink, Link, SetPicId, Join, Save, Delete, Answer, Store,
         Clean, Respond, At, In, Pending, Fail, tables, Powerless, Shape, TypeOK
<1>4. ASSUME calls'[h] # Idle
      PROVE  /\ calls'[h].op = calls[h].op /\ calls'[h].post = calls[h].post
             /\ calls'[h].own = calls[h].own
  BY <1>0, <1>1, <1>4
     DEF Continue, FindOld, CreateFileEntity, Create, Update, FindPost, Hang,
         Untag, Tag, Unlink, Link, SetPicId, Join, Save, Delete, Answer, Store,
         Clean, Respond, Go, End, Branches, Did, Fail, Calls, TypeOK
<1>5. ~Busy(h, p)'
  BY <1>0, <1>2, <1>4 DEF Busy
<1>6. used' = used
  BY DEF Continue, FindOld, CreateFileEntity, Create, Update, FindPost, Hang,
         Untag, Tag, Unlink, Link, SetPicId, Join, Save, Delete, Answer, Store,
         Clean, Respond, Fail
<1>7. \A f \in Paths : used[f] = p => (f \in stored' <=> f \in stored)
  <2>1. CASE Store(h)
    <3>1. calls[h].phase = "files" /\ "store" \in calls[h].todo
      BY <2>1 DEF Store, Pending, In
    <3>2. calls[h].path # None
      BY <1>1, <3>1 DEF Shape
    <3>3. used[calls[h].path] # p
      BY <1>0, <1>1, <1>2, <3>1, <3>2, PostsAssumption DEF CallNamed, Powerless
    <3> QED BY <2>1, <3>3 DEF Store, Written, Fail
  <2>2. CASE Clean(h)
    <3>1. calls[h].phase = "files"
      BY <2>2 DEF Clean, Pending, In
    <3>2. calls[h].old # None => used[calls[h].old] # p
      BY <1>0, <1>1, <1>2, <3>1 DEF CallNamed, Powerless, Shape
    <3> QED BY <2>2, <3>2, PostsAssumption DEF Clean, Removed
  <2>3. CASE stored' = stored
    BY <2>3
  <2> QED BY <2>1, <2>2, <2>3
          DEF Continue, FindOld, CreateFileEntity, Create, Update, FindPost,
              Hang, Untag, Tag, Unlink, Link, SetPicId, Join, Save, Delete,
              Answer, Respond, Fail
<1>8. FilesOf(p)' = FilesOf(p)
  BY <1>6, <1>7 DEF FilesOf, Downloadable, HasFilePath
<1> QED BY <1>3, <1>5, <1>8

\* What a step of a request leaves of it.
Now(h, phase, old, todo) ==
  /\ StillAt(h, phase, old, todo)
  /\ calls'[h] # Idle
  /\ calls'[h].own = calls[h].own
  /\ calls'[h].failed = calls[h].failed /\ calls'[h].deaf = calls[h].deaf

\* What a request is at, and what it knows.
LEMMA BusyCall ==
  ASSUME PostsInv, NEW h \in Handlers, NEW p \in PostIds \ disturbed, Busy(h, p)
  PROVE  /\ TypeOK /\ calls[h] # Idle /\ calls[h] \in Calls
         /\ calls[h].post = p /\ calls[h].own /\ calls[h].op # "upload"
         /\ calls[h].path \in Paths \cup {None}
         /\ calls[h].old \in Paths \cup {None}
         /\ Shape(h) /\ Going(h) /\ Agree(p)
         /\ (~Kept(p) => Blank(p))
         /\ posts[p] \in Post /\ posts[p].tags \in Nat
         /\ posts[p].picture \in Paths \cup {None}
BY CallTyped, PostTyped
   DEF PostsInv, TypedAndShaped, StoresAgree, Agree, Busy, Shaped

LEMMA AskAgrees ==
  ASSUME PostsInv, NEW h \in Handlers, NEW p \in PostIds \ disturbed, Busy(h, p),
         \/ FindOld(h) \/ CreateFileEntity(h) \/ Hang(h) \/ Update(h)
         \/ FindPost(h)
  PROVE  /\ Busy(h, p)' => Going(h)'
         /\ ~Busy(h, p)' => Settled(p)'
         /\ ~Kept(p)' => Blank(p)'
<1>1. /\ TypeOK /\ calls[h] # Idle /\ calls[h] \in Calls
      /\ calls[h].post = p /\ calls[h].own /\ calls[h].op # "upload"
      /\ calls[h].path \in Paths \cup {None}
      /\ calls[h].old \in Paths \cup {None}
      /\ Shape(h) /\ Going(h) /\ Agree(p)
      /\ (~Kept(p) => Blank(p))
      /\ posts[p] \in Post /\ posts[p].tags \in Nat
      /\ posts[p].picture \in Paths \cup {None}
  BY BusyCall
<1>2. posts' = posts /\ stored' = stored /\ used' = used
  BY DEF FindOld, CreateFileEntity, Hang, Update, FindPost, tables
<1>3. /\ FilesOf(p)' = FilesOf(p)
      /\ Settled(p)' <=> Settled(p)
      /\ Kept(p)' <=> Kept(p)
      /\ Blank(p)' <=> Blank(p)
  BY <1>2 DEF FilesOf, Downloadable, HasFilePath, Settled, Kept, Blank
<1>4. Settled(p)
  BY <1>1 DEF FindOld, CreateFileEntity, Hang, Update, FindPost, At, In,
              Going, Asking
<1>5. CASE FindOld(h)
  <2>1. Now(h, "row", posts[p].picture, calls[h].todo) /\ calls[h].phase = "old"
    BY <1>1, <1>5 DEF FindOld, In, Now, StillAt, Still, Calls, TypeOK, Idle
  <2>2. posts[p].picture # None => posts[p].picture # calls[h].path
    BY <1>1, <2>1 DEF PostsInv, Apart, NoPicture, MayLink, Shape
  <2>3. Going(h)'
    BY <1>1, <1>2, <1>3, <1>4, <2>1, <2>2
       DEF Now, StillAt, Still, Going, Asking, Writing, Serves, Filing
  <2> QED BY <1>1, <1>3, <1>4, <2>3
<1>6. CASE CreateFileEntity(h)
  <2>1. Now(h, "ask", calls[h].old, calls[h].todo) /\ calls[h].phase = "row"
    <3>1. Go(h, "ask") /\ calls[h].phase = "row"
      BY <1>1, <1>6 DEF CreateFileEntity, In
    <3> QED BY <1>1, <3>1 DEF Go, Now, StillAt, Still, Calls, TypeOK, Idle
  <2>2. Going(h)'
    BY <1>1, <1>2, <1>3, <1>4, <2>1
       DEF Now, StillAt, Still, Going, Asking, Writing, Serves, Filing, Shape
  <2> QED BY <1>1, <1>3, <1>4, <2>2
<1>7. CASE Hang(h)
  <2>1. ~Busy(h, p)'
    BY <1>1, <1>7 DEF Hang, Go, Busy, Calls, TypeOK
  <2> QED BY <1>1, <1>3, <1>4, <2>1
<1>8. CASE Update(h)
  <2>1. CASE End(h)
    <3>1. ~Busy(h, p)'
      BY <1>1, <2>1 DEF End, Busy, TypeOK
    <3> QED BY <1>1, <1>3, <1>4, <3>1
  <2>2. CASE Kept(p) /\ Branches(h, "untag", "unlink")
    <3> DEFINE todo == (IF calls[h].tagged THEN {"untag"} ELSE {})
                         \cup (IF calls[h].path # None THEN {"unlink"} ELSE {})
    <3>1. /\ Now(h, "branches", calls[h].old, todo)
          /\ calls[h].phase = "ask" /\ calls[h].op = "update"
      BY <1>1, <1>8, <2>2
         DEF Update, At, In, Branches, Now, StillAt, Still, Calls, TypeOK, Idle
    <3>2. /\ "name" \notin todo /\ "tag" \notin todo
          /\ todo \cap {"unlink", "link", "name"} = {} => calls[h].path = None
      OBVIOUS
    <3> HIDE DEF todo
    <3>3. calls[h].path # None => calls[h].old = posts[p].picture
      BY <1>1, <3>1 DEF Going, Asking
    <3>4. Going(h)'
      BY <1>1, <1>2, <1>3, <1>4, <2>2, <3>1, <3>2, <3>3
         DEF Now, StillAt, Still, Going, Asking, Writing, Serves, Filing,
             Settled, Left, Pictureless, Named
    <3> QED BY <1>1, <1>3, <1>4, <3>1, <3>4 DEF Now, StillAt, Still, Busy
  <2> QED BY <1>1, <1>8, <2>1, <2>2 DEF Update
<1>9. CASE FindPost(h)
  <2> DEFINE old == IF Kept(p) THEN posts[p].picture ELSE None
  <2>1. /\ Now(h, "delete", old, calls[h].todo)
        /\ calls[h].phase = "ask" /\ calls[h].op = "delete"
    BY <1>1, <1>9
       DEF FindPost, At, In, Now, StillAt, Still, Calls, TypeOK, Idle
  <2>2. old = posts[p].picture
    BY <1>1 DEF Blank
  <2>3. calls[h].path = None
    BY <1>1, <2>1 DEF Shape
  <2> HIDE DEF old
  <2>4. Going(h)'
    BY <1>1, <1>2, <1>3, <1>4, <2>1, <2>2, <2>3
       DEF Now, StillAt, Still, Going, Asking, Writing, Serves, Filing
  <2> QED BY <1>1, <1>3, <1>4, <2>4
<1> QED BY <1>5, <1>6, <1>7, <1>8, <1>9

\* The post service's steps change the row of the post and no file.
RowNow(p, picId, picture, tags) ==
  /\ posts'[p].picId = picId
  /\ posts'[p].picture = picture
  /\ posts'[p].tags = tags

LEMMA BranchAgrees ==
  ASSUME PostsInv, NEW h \in Handlers, NEW p \in PostIds \ disturbed,
         p \notin disturbed', Busy(h, p),
         Create(h) \/ Untag(h) \/ Tag(h) \/ Unlink(h) \/ Link(h) \/ SetPicId(h)
  PROVE  /\ Busy(h, p)' => Going(h)'
         /\ ~Busy(h, p)' => Settled(p)'
         /\ ~Kept(p)' => Blank(p)'
<1>1. /\ TypeOK /\ calls[h] # Idle /\ calls[h] \in Calls
      /\ calls[h].post = p /\ calls[h].own /\ calls[h].op # "upload"
      /\ calls[h].path \in Paths \cup {None}
      /\ calls[h].old \in Paths \cup {None}
      /\ Shape(h) /\ Going(h) /\ Agree(p)
      /\ (~Kept(p) => Blank(p))
      /\ posts[p] \in Post /\ posts[p].tags \in Nat
      /\ posts[p].picture \in Paths \cup {None}
  BY BusyCall
<1>2. stored' = stored /\ used' = used
  BY DEF Create, Untag, Tag, Unlink, Link, SetPicId, Fail
<1>3. FilesOf(p)' = FilesOf(p)
  BY <1>2 DEF FilesOf, Downloadable, HasFilePath
<1>4. ~Fail(h, "tag") /\ ~Fail(h, "link")
  BY <1>1 DEF Fail, Disturb
<1>5. LinkShape(h)
  BY DEF PostsInv, Apart
\* Where a branch leaves the request, there it is still at the post.
<1>6. ASSUME NEW old, NEW todo, Now(h, "branches", old, todo), Kept(p)', Going(h)'
      PROVE  /\ Busy(h, p)' => Going(h)'
             /\ ~Busy(h, p)' => Settled(p)'
             /\ ~Kept(p)' => Blank(p)'
  BY <1>1, <1>6 DEF Now, StillAt, Still, Busy
<1>7. CASE Create(h)
  <2> DEFINE todo == (IF calls[h].tagged THEN {"tag"} ELSE {})
                       \cup (IF calls[h].path # None THEN {"link"} ELSE {})
  <2>1. /\ Now(h, "branches", calls[h].old, todo)
        /\ calls[h].phase = "ask" /\ calls[h].op = "create"
    BY <1>1, <1>7
       DEF Create, At, In, Branches, Now, StillAt, Still, Calls, TypeOK, Idle
  <2>2. /\ "name" \notin todo
        /\ todo \cap {"unlink", "link", "name"} = {} => calls[h].path = None
    OBVIOUS
  <2>3. Blank(p) /\ Settled(p) /\ calls[h].old = None
    BY <1>1, <2>1 DEF Going, Asking, Shape
  <2>4. RowNow(p, None, None, 0) /\ Kept(p)'
    BY <1>1, <1>7, <2>3 DEF Create, Blank, RowNow, Kept, TypeOK, Post
  <2> HIDE DEF todo
  <2>5. Going(h)'
    BY <1>1, <1>3, <2>1, <2>2, <2>3, <2>4
       DEF RowNow, Now, StillAt, Still, Going, Asking, Writing, Serves, Filing,
           Settled, Blank, Left, Pictureless, Named
  <2> QED BY <1>6, <2>1, <2>4, <2>5
<1>8. CASE Untag(h)
  <2>1. /\ Now(h, "branches", calls[h].old, (calls[h].todo \ {"untag"}) \cup {"tag"})
        /\ calls[h].phase = "branches"
    BY <1>1, <1>8
       DEF Untag, Pending, In, Did, Now, StillAt, Still, Calls, TypeOK, Idle
  <2>2. RowNow(p, posts[p].picId, posts[p].picture, 0) /\ Kept(p)'
    BY <1>1, <1>8, <2>1
       DEF Untag, RowNow, Going, Serves, Kept, TypeOK, Post
  <2>3. Going(h)'
    BY <1>1, <1>3, <2>1, <2>2
       DEF RowNow, Now, StillAt, Still, Going, Asking, Writing, Serves, Filing,
           Left, Pictureless, Named
  <2> QED BY <1>6, <2>1, <2>2, <2>3
<1>9. CASE Tag(h)
  <2>1. /\ Now(h, "branches", calls[h].old, calls[h].todo \ {"tag"})
        /\ calls[h].phase = "branches" /\ "tag" \in calls[h].todo
    <3>1. Did(h, "tag", {})
      BY <1>4, <1>9 DEF Tag
    <3>2. calls[h].phase = "branches" /\ "tag" \in calls[h].todo
      BY <1>9 DEF Tag, Pending, In
    <3>3. Now(h, "branches", calls[h].old, (calls[h].todo \ {"tag"}) \cup {})
      BY <1>1, <3>1, <3>2 DEF Did, Now, StillAt, Still, Calls, TypeOK, Idle
    <3>4. (calls[h].todo \ {"tag"}) \cup {} = calls[h].todo \ {"tag"}
      OBVIOUS
    <3> QED BY <3>2, <3>3, <3>4
  <2>2. posts[p].tags = 0
    BY <1>1, <2>1 DEF Going, Writing
  <2>3. RowNow(p, posts[p].picId, posts[p].picture, 1) /\ Kept(p)'
    BY <1>1, <1>4, <1>9, <2>2 DEF Tag, RowNow, Kept, TypeOK, Post
  <2>4. Going(h)'
    BY <1>1, <1>3, <2>1, <2>3
       DEF RowNow, Now, StillAt, Still, Going, Asking, Writing, Serves, Filing,
           Left, Pictureless, Named
  <2> QED BY <1>6, <2>1, <2>3, <2>4
<1>10. CASE Unlink(h)
  <2>1. /\ Now(h, "branches", calls[h].old, (calls[h].todo \ {"unlink"}) \cup {"link"})
        /\ calls[h].phase = "branches" /\ "unlink" \in calls[h].todo
    BY <1>1, <1>10
       DEF Unlink, Pending, In, Did, Now, StillAt, Still, Calls, TypeOK, Idle
  <2>2. RowNow(p, posts[p].picId, None, posts[p].tags) /\ Kept(p)'
    BY <1>1, <1>10, <2>1 DEF Unlink, RowNow, Going, Serves, Kept, TypeOK, Post
  <2>3. calls[h].path # None /\ "name" \notin calls[h].todo
    BY <1>1, <1>5, <2>1 DEF LinkShape, Linking, Going, Writing
  <2>4. Going(h)'
    BY <1>1, <1>3, <2>1, <2>2, <2>3
       DEF RowNow, Now, StillAt, Still, Going, Asking, Writing, Serves, Filing,
           Left, Pictureless, Named
  <2> QED BY <1>6, <2>1, <2>2, <2>4
<1>11. CASE Link(h)
  <2>1. /\ Now(h, "branches", calls[h].old, (calls[h].todo \ {"link"}) \cup {"name"})
        /\ calls[h].phase = "branches" /\ "link" \in calls[h].todo
    <3>1. Did(h, "link", {"name"})
      BY <1>4, <1>11 DEF Link
    <3>2. calls[h].phase = "branches" /\ "link" \in calls[h].todo
      BY <1>11 DEF Link, Pending, In
    <3>3. Now(h, "branches", calls[h].old, (calls[h].todo \ {"link"}) \cup {"name"})
      BY <1>1, <3>1, <3>2 DEF Did, Now, StillAt, Still, Calls, TypeOK, Idle
    <3> QED BY <3>2, <3>3
  <2>2. RowNow(p, posts[p].picId, calls[h].path, posts[p].tags) /\ Kept(p)'
    BY <1>1, <1>4, <1>11 DEF Link, RowNow, Kept, TypeOK, Post
  <2>3. calls[h].path # None /\ "unlink" \notin calls[h].todo
    BY <1>1, <1>5, <2>1 DEF LinkShape, Linking
  <2>4. Going(h)'
    BY <1>1, <1>3, <2>1, <2>2, <2>3
       DEF RowNow, Now, StillAt, Still, Going, Asking, Writing, Serves, Filing,
           Left, Pictureless, Named
  <2> QED BY <1>6, <2>1, <2>2, <2>4
<1>12. CASE SetPicId(h)
  <2>1. /\ Now(h, "branches", calls[h].old, calls[h].todo \ {"name"})
        /\ calls[h].phase = "branches" /\ "name" \in calls[h].todo
    BY <1>1, <1>12
       DEF SetPicId, Pending, In, Did, Now, StillAt, Still, Calls, TypeOK, Idle
  <2>2. posts[p].picture = calls[h].path /\ Kept(p)
    BY <1>1, <2>1 DEF Going, Writing, Serves
  <2>3. RowNow(p, calls[h].path, calls[h].path, posts[p].tags) /\ Kept(p)'
    BY <1>1, <1>12, <2>2 DEF SetPicId, RowNow, Kept, TypeOK, Post
  <2>4. Going(h)'
    BY <1>1, <1>3, <2>1, <2>2, <2>3
       DEF RowNow, Now, StillAt, Still, Going, Asking, Writing, Serves, Filing,
           Left, Pictureless, Named
  <2> QED BY <1>6, <2>1, <2>3, <2>4
<1> QED BY <1>7, <1>8, <1>9, <1>10, <1>11, <1>12

LEMMA SaveAgrees ==
  ASSUME PostsInv, NEW h \in Handlers, NEW p \in PostIds \ disturbed, Busy(h, p),
         Join(h) \/ Save(h) \/ Delete(h)
  PROVE  /\ Busy(h, p)' => Going(h)'
         /\ ~Busy(h, p)' => Settled(p)'
         /\ ~Kept(p)' => Blank(p)'
<1>1. /\ TypeOK /\ calls[h] # Idle /\ calls[h] \in Calls
      /\ calls[h].post = p /\ calls[h].own /\ calls[h].op # "upload"
      /\ calls[h].path \in Paths \cup {None}
      /\ calls[h].old \in Paths \cup {None}
      /\ Shape(h) /\ Going(h) /\ Agree(p)
      /\ (~Kept(p) => Blank(p))
      /\ posts[p] \in Post /\ posts[p].tags \in Nat
      /\ posts[p].picture \in Paths \cup {None}
  BY BusyCall
<1>2. stored' = stored /\ used' = used
  BY DEF Join, Save, Delete
<1>3. FilesOf(p)' = FilesOf(p)
  BY <1>2 DEF FilesOf, Downloadable, HasFilePath
<1>4. CASE Join(h)
  <2>1. calls[h].phase = "branches" /\ calls[h].todo = {} /\ ~calls[h].failed
    BY <1>1, <1>4 DEF Join, In, Going
  <2>2. PICK next \in {"save", "reply"} : Go(h, next)
    BY <1>4, <2>1 DEF Join
  <2>3. Now(h, next, calls[h].old, calls[h].todo)
    BY <1>1, <2>2 DEF Go, Now, StillAt, Still, Calls, TypeOK, Idle
  <2>4. posts' = posts
    BY <1>4 DEF Join, tables
  <2>5. Named(h) /\ Kept(p)
    BY <1>1, <2>1 DEF Going, Writing, Serves
  <2>6. Going(h)'
    BY <1>1, <1>3, <2>1, <2>3, <2>4, <2>5
       DEF Now, StillAt, Still, Going, Asking, Writing, Serves, Filing,
           Left, Pictureless, Named, Kept
  <2> QED BY <1>1, <2>3, <2>4, <2>5, <2>6 DEF Now, StillAt, Still, Busy, Kept
<1>5. CASE Save(h)
  <2>1. calls[h].phase = "save" /\ Kept(p)
    BY <1>1, <1>5 DEF Save, In, Going, Serves
  <2>2. posts'[p] = posts[p]
    BY <1>1, <1>5, <2>1 DEF Save, Kept, TypeOK
  <2>3. Now(h, "reply", calls[h].old, calls[h].todo)
    BY <1>1, <1>5 DEF Save, Go, Now, StillAt, Still, Calls, TypeOK, Idle
  <2>4. Going(h)'
    BY <1>1, <1>3, <2>1, <2>2, <2>3
       DEF Now, StillAt, Still, Going, Asking, Writing, Serves, Filing,
           Left, Pictureless, Named, Kept
  <2> QED BY <1>1, <2>1, <2>2, <2>3, <2>4 DEF Now, StillAt, Still, Busy, Kept
<1>6. CASE Delete(h)
  <2>1. /\ calls[h].phase = "delete" /\ calls[h].op = "delete"
        /\ calls[h].path = None
        /\ Settled(p) /\ calls[h].old = posts[p].picture
    BY <1>1, <1>6 DEF Delete, In, Going, Asking, Shape
  <2>2. RowNow(p, None, None, 0) /\ ~Kept(p)'
    BY <1>1, <1>6 DEF Delete, NoPost, Kept, Blank, RowNow, TypeOK
  <2>3. Now(h, "reply", calls[h].old, calls[h].todo)
    <3>1. CASE Kept(p)
      <4>1. Go(h, "reply")
        BY <1>1, <1>6, <3>1 DEF Delete
      <4> QED BY <1>1, <4>1 DEF Go, Now, StillAt, Still, Calls, TypeOK, Idle
    <3>2. CASE ~Kept(p)
      <4>1. calls[h].old = None
        BY <1>1, <2>1, <3>2 DEF Blank
      <4>2. calls' = [calls EXCEPT ![h].phase = "reply", ![h].old = None]
        BY <1>1, <1>6, <3>2 DEF Delete
      <4> QED BY <1>1, <4>1, <4>2 DEF Now, StillAt, Still, Calls, TypeOK, Idle
    <3> QED BY <3>1, <3>2
  <2>4. Going(h)'
    BY <1>1, <1>3, <2>1, <2>2, <2>3
       DEF Now, StillAt, Still, Going, Asking, Writing, Serves, Filing,
           Left, Pictureless, Named, RowNow, Settled
  <2> QED BY <1>1, <2>2, <2>3, <2>4 DEF Now, StillAt, Still, Busy, Blank, RowNow
<1> QED BY <1>4, <1>5, <1>6

LEMMA FileAgrees ==
  ASSUME PostsInv, NEW h \in Handlers, NEW p \in PostIds \ disturbed,
         p \notin disturbed', Busy(h, p),
         Answer(h) \/ Store(h) \/ Clean(h) \/ Respond(h)
  PROVE  /\ Busy(h, p)' => Going(h)'
         /\ ~Busy(h, p)' => Settled(p)'
         /\ ~Kept(p)' => Blank(p)'
<1>1. /\ TypeOK /\ calls[h] # Idle /\ calls[h] \in Calls
      /\ calls[h].post = p /\ calls[h].own /\ calls[h].op # "upload"
      /\ calls[h].path \in Paths \cup {None}
      /\ calls[h].old \in Paths \cup {None}
      /\ Shape(h) /\ Going(h) /\ Agree(p)
      /\ (~Kept(p) => Blank(p))
      /\ posts[p] \in Post /\ posts[p].tags \in Nat
      /\ posts[p].picture \in Paths \cup {None}
  BY BusyCall
<1>2. posts' = posts /\ used' = used
  BY DEF Answer, Store, Clean, Respond, Fail, tables
<1>3. (Kept(p)' <=> Kept(p)) /\ (Blank(p)' <=> Blank(p))
  BY <1>2 DEF Kept, Blank
<1>4. CASE Answer(h)
  <2> DEFINE todo == (IF calls[h].path # None THEN {"store"} ELSE {})
                       \cup (IF calls[h].old # None THEN {"clean"} ELSE {})
  <2>1. /\ calls[h].phase = "reply" /\ ~calls[h].deaf
        /\ IF todo = {} THEN End(h)
           ELSE calls' = [calls EXCEPT ![h].phase = "files", ![h].todo = todo]
    BY <1>1, <1>4 DEF Answer, In, Going
  <2>2. /\ "store" \in todo <=> calls[h].path # None
        /\ "clean" \in todo <=> calls[h].old # None
        /\ todo = {} <=> calls[h].path = None /\ calls[h].old = None
    OBVIOUS
  <2>3. /\ FilesOf(p) = One(Left(h)) /\ posts[p].tags <= 1 /\ Named(h)
    BY <1>1, <2>1 DEF Going, Serves
  <2> HIDE DEF todo
  <2>4. FilesOf(p)' = FilesOf(p)
    BY <1>2, <1>4 DEF Answer, FilesOf, Downloadable, HasFilePath
  <2>5. CASE todo = {}
    <3>1. ~Busy(h, p)'
      BY <1>1, <2>1, <2>5 DEF End, Busy, TypeOK
    <3>2. Settled(p)'
      BY <1>1, <1>2, <2>2, <2>3, <2>4, <2>5
         DEF Settled, Named, Left, Pictureless
    <3> QED BY <1>1, <1>3, <3>1, <3>2
  <2>6. CASE todo # {}
    <3>1. Now(h, "files", calls[h].old, todo)
      <4>1. calls' = [calls EXCEPT ![h].phase = "files", ![h].todo = todo]
        BY <2>1, <2>6
      <4> QED BY <1>1, <4>1 DEF Now, StillAt, Still, Calls, TypeOK, Idle
    <3>2. ~Pictureless(h)
      BY <1>1, <2>2, <2>6, <2>1 DEF Pictureless, Shape
    <3>3. One(calls[h].old) = IF "clean" \in todo THEN One(calls[h].old) ELSE {}
      BY <2>2 DEF One
    <3>4. "store" \notin todo => One(calls[h].path) = {}
      BY <2>2 DEF One
    <3>5. Going(h)'
      BY <1>1, <1>2, <2>1, <2>3, <2>4, <3>1, <3>2, <3>3, <3>4
         DEF Now, StillAt, Still, Going, Asking, Writing, Serves, Filing,
             Left, Named
    <3> QED BY <1>1, <1>3, <3>1, <3>5 DEF Now, StillAt, Still, Busy
  <2> QED BY <2>5, <2>6
\* What there is to file.
<1>5. ASSUME calls[h].phase = "files"
      PROVE  /\ posts[p].picId = posts[p].picture
             /\ posts[p].picture = calls[h].path
             /\ posts[p].tags <= 1
             /\ FilesOf(p)
                  = (IF "clean" \in calls[h].todo THEN One(calls[h].old) ELSE {})
                      \cup (IF "store" \in calls[h].todo THEN {}
                            ELSE One(calls[h].path))
             /\ CallNamed(h)
  BY <1>1, <1>5 DEF Going, Filing, PostsInv, Apart
<1>6. CASE Store(h)
  <2>1. calls[h].phase = "files" /\ "store" \in calls[h].todo
    BY <1>6 DEF Store, Pending, In
  <2>2. calls[h].path # None /\ calls[h].path \in Paths
        /\ used[calls[h].path] = p
    BY <1>1, <1>5, <2>1 DEF Shape, CallNamed
  <2>3. Did(h, "store", {}) /\ stored' = stored \cup {calls[h].path}
    BY <1>1, <1>6 DEF Store, Written, Fail, Disturb
  <2>4. Now(h, "files", calls[h].old, (calls[h].todo \ {"store"}) \cup {})
    BY <1>1, <2>1, <2>3 DEF Did, Now, StillAt, Still, Calls, TypeOK, Idle
  <2>5. FilesOf(p)' = FilesOf(p) \cup One(calls[h].path)
    BY <1>2, <2>2, <2>3 DEF FilesOf, Downloadable, HasFilePath, One
  <2>6. Going(h)'
    BY <1>1, <1>2, <1>5, <2>1, <2>4, <2>5
       DEF Now, StillAt, Still, Going, Asking, Writing, Serves, Filing
  <2> QED BY <1>1, <1>3, <2>1, <2>4, <2>6 DEF Now, StillAt, Still, Busy
<1>7. CASE Clean(h)
  <2>1. calls[h].phase = "files" /\ "clean" \in calls[h].todo
    BY <1>7 DEF Clean, Pending, In
  <2>2. Did(h, "clean", {}) /\ stored' = stored \ {calls[h].old}
    BY <1>7 DEF Clean, Removed
  <2>3. Now(h, "files", calls[h].old, (calls[h].todo \ {"clean"}) \cup {})
    BY <1>1, <2>1, <2>2 DEF Did, Now, StillAt, Still, Calls, TypeOK, Idle
  <2>4. FilesOf(p)' = FilesOf(p) \ {calls[h].old}
    BY <1>2, <2>2 DEF FilesOf, Downloadable, HasFilePath
  <2>5. calls[h].old # None => calls[h].old # calls[h].path
    BY <1>1 DEF Going
  <2>6. /\ One(calls[h].old) \ {calls[h].old} = {}
        /\ One(calls[h].path) \ {calls[h].old} = One(calls[h].path)
    BY <2>5 DEF One
  <2>7. Going(h)'
    BY <1>1, <1>2, <1>5, <2>1, <2>3, <2>4, <2>6
       DEF Now, StillAt, Still, Going, Asking, Writing, Serves, Filing
  <2> QED BY <1>1, <1>3, <2>1, <2>3, <2>7 DEF Now, StillAt, Still, Busy
<1>8. CASE Respond(h)
  <2>1. calls[h].phase = "files" /\ calls[h].todo = {} /\ End(h)
    BY <1>1, <1>8 DEF Respond, In
  <2>2. ~Busy(h, p)'
    BY <1>1, <2>1 DEF End, Busy, TypeOK
  <2>3. FilesOf(p)' = FilesOf(p)
    BY <1>2, <1>8 DEF Respond, FilesOf, Downloadable, HasFilePath
  <2>4. Settled(p)'
    BY <1>2, <1>5, <2>1, <2>3 DEF Settled
  <2> QED BY <1>1, <1>3, <2>2, <2>4
<1> QED BY <1>4, <1>6, <1>7, <1>8

LEMMA ContinueAgrees ==
  ASSUME PostsInv, NEW h \in Handlers, Continue(h), NEW p \in PostIds \ disturbed'
  PROVE  Agree(p)'
<1>1. /\ \A g \in Handlers \ {h} : calls'[g] = calls[g]
      /\ disturbed \subseteq disturbed'
  BY CallTyped
     DEF Continue, FindOld, CreateFileEntity, Create, Update, FindPost, Hang,
         Untag, Tag, Unlink, Link, SetPicId, Join, Save, Delete, Answer, Store,
         Clean, Respond, Go, End, Branches, Did, Fail, Disturb, history,
         PostsInv, TypedAndShaped, TypeOK
<1>2. p \notin disturbed /\ Agree(p)
  BY <1>1 DEF PostsInv, StoresAgree
<1>3. CASE Busy(h, p)
  <2>1. /\ Busy(h, p)' => Going(h)'
        /\ ~Busy(h, p)' => Settled(p)'
        /\ ~Kept(p)' => Blank(p)'
    BY <1>2, <1>3, AskAgrees, BranchAgrees, SaveAgrees, FileAgrees DEF Continue
  <2> QED BY <1>1, <1>2, <1>3, <2>1, AgreeMine
<1>4. CASE ~Busy(h, p)
  <2>1. posts'[p] = posts[p] /\ FilesOf(p)' = FilesOf(p) /\ ~Busy(h, p)'
    BY <1>4, ContinueElsewhere DEF PostsInv, StoresAgree
  <2>2. \A g \in Handlers : /\ Busy(g, p)' <=> Busy(g, p)
                            /\ Busy(g, p) => calls'[g] = calls[g]
    BY <1>1, <1>4, <2>1 DEF Busy
  <2> QED BY <1>2, <2>1, <2>2, AgreeStays
<1> QED BY <1>3, <1>4

\* A request that starts finds the post settled, or disturbs it.
LEMMA StartAgrees ==
  ASSUME PostsInv, NEW h \in Handlers, Start(h)
  PROVE  StoresAgree'
<1>0. /\ TypeOK /\ FreshUnstored /\ \A g \in Handlers : Powerless(g)
      /\ \A p \in PostIds \ disturbed : Agree(p)
  BY DEF PostsInv, TypedAndShaped, StoresAgree
<1>1. PICK op \in {"create", "update", "delete", "upload"}, phase \in {"ask", "old", "files"},
           p \in PostIds, own \in BOOLEAN, path \in Paths \cup {None}, tagged \in BOOLEAN :
        Starts(h, op, phase, p, own, path, tagged)
  BY StartStarts DEF Started
<1>2. Begin(h, op, phase, p, own, path, tagged)
  BY <1>1 DEF Starts
<1>3. /\ calls[h] = Idle /\ calls'[h] # Idle
      /\ calls'[h].op = op /\ calls'[h].phase = phase
      /\ calls'[h].post = p /\ calls'[h].own = own
      /\ calls'[h].path = path /\ calls'[h].old = None
      /\ \A g \in Handlers \ {h} : calls'[g] = calls[g]
      /\ posts' = posts
  BY <1>0, <1>2, StartedCall
<1>4. /\ ~calls'[h].failed /\ ~calls'[h].deaf
      /\ stored' = stored
      /\ own /\ (\E g \in Handlers : Busy(g, p)) => p \in disturbed'
      /\ disturbed \subseteq disturbed'
  BY <1>0, <1>2 DEF Begin, Call, Disturb, TypeOK
<1>5. /\ \A f \in Paths : used'[f] = used[f] \/ (used[f] = "fresh" /\ used'[f] # "fresh")
      /\ \A f \in Paths : used[f] \in PostIds => used[f] # "fresh"
  BY <1>0, <1>2, PostsAssumption DEF Begin, GenerateFileName, TypeOK
<1>6. FreshUnstored'
  BY <1>0, <1>4, <1>5 DEF FreshUnstored
<1>7. ASSUME NEW q \in PostIds
      PROVE  FilesOf(q)' = FilesOf(q)
  BY <1>0, <1>4, <1>5 DEF FilesOf, Downloadable, HasFilePath, FreshUnstored
<1>8. ASSUME NEW g \in Handlers
      PROVE  Powerless(g)'
  <2>1. CASE g = h
    BY <2>1, <1>1, <1>3 DEF Powerless, Starts
  <2>2. CASE g # h
    BY <2>2, <1>0, <1>3 DEF Powerless
  <2> QED BY <2>1, <2>2
<1>9. ASSUME NEW q \in PostIds \ disturbed'
      PROVE  Agree(q)'
  <2>1. Agree(q) /\ ~Busy(h, q)
    BY <1>0, <1>3, <1>4 DEF Busy
  <2>2. CASE ~Busy(h, q)'
    BY <2>1, <2>2, <1>3, <1>7, AgreeStays DEF Busy
  <2>3. CASE Busy(h, q)'
    <3>1. q = p /\ own /\ op # "upload" /\ \A g \in Handlers : ~Busy(g, q)
      BY <2>3, <1>3, <1>4 DEF Busy
    <3>2. Settled(q)
      BY <2>1, <3>1 DEF Agree
    <3>3. /\ Settled(q)' <=> Settled(q)
          /\ Kept(q)' <=> Kept(q)
          /\ Blank(q)' <=> Blank(q)
      BY <1>3, <1>7 DEF Settled, Kept, Blank
    <3>4. Going(h)'
      BY <1>1, <1>3, <1>4, <3>1, <3>2, <3>3
         DEF Starts, Going, Asking, Writing, Serves, Filing, Kept
    <3>5. \A g \in Handlers \ {h} : ~Busy(g, q)'
      BY <1>3, <3>1 DEF Busy
    <3> QED BY <2>1, <2>3, <3>3, <3>4, <3>5 DEF Agree
  <2> QED BY <2>2, <2>3
<1> QED BY <1>6, <1>8, <1>9 DEF StoresAgree

LEMMA ContinueStoresAgree ==
  ASSUME PostsInv, NEW h \in Handlers, Continue(h)
  PROVE  StoresAgree'
<1>0. calls[h] # Idle /\ calls[h] \in Calls /\ Shape(h) /\ TypeOK
      /\ Powerless(h) /\ CallNamed(h) /\ calls[h].own \in BOOLEAN
      /\ calls[h].post \in PostIds /\ calls[h].path \in Paths \cup {None}
  BY CallTyped
     DEF Continue, FindOld, CreateFileEntity, Create, Update, FindPost, Hang,
         Untag, Tag, Unlink, Link, SetPicId, Join, Save, Delete, Answer, Store,
         Clean, Respond, At, In, Pending, PostsInv, TypedAndShaped, Shaped,
         StoresAgree, Apart
<1>1. \A g \in Handlers \ {h} : calls'[g] = calls[g]
  BY <1>0
     DEF Continue, FindOld, CreateFileEntity, Create, Update, FindPost, Hang,
         Untag, Tag, Unlink, Link, SetPicId, Join, Save, Delete, Answer, Store,
         Clean, Respond, Go, End, Branches, Did, Fail, TypeOK
<1>2. used' = used
  BY DEF Continue, FindOld, CreateFileEntity, Create, Update, FindPost, Hang,
         Untag, Tag, Unlink, Link, SetPicId, Join, Save, Delete, Answer, Store,
         Clean, Respond, Fail
<1>3. FreshUnstored'
  <2>1. CASE Store(h)
    <3>1. calls[h].path # None
      BY <1>0, <2>1 DEF Store, Pending, In, Shape
    <3>2. used[calls[h].path] # "fresh"
      BY <1>0, <3>1, PostsAssumption DEF CallNamed
    <3> QED BY <1>2, <2>1, <3>2
            DEF Store, Written, Fail, FreshUnstored, PostsInv, StoresAgree
  <2>2. CASE stored' \subseteq stored
    BY <1>2, <2>2 DEF FreshUnstored, PostsInv, StoresAgree
  <2> QED BY <2>1, <2>2
          DEF Continue, FindOld, CreateFileEntity, Create, Update, FindPost,
              Hang, Untag, Tag, Unlink, Link, SetPicId, Join, Save, Delete,
              Answer, Clean, Respond, Fail, Removed
<1>4. Powerless(h)'
  <2> SUFFICES ASSUME calls'[h] # Idle, calls'[h].op # "upload", ~calls'[h].own
               PROVE  /\ calls'[h].phase \in {"old", "row", "ask", "delete", "reply", "hung"}
                      /\ calls'[h].op = "update"
                           => calls'[h].phase \in {"old", "row", "ask", "hung"}
                      /\ calls'[h].op = "delete" => calls'[h].old = None
    BY DEF Powerless
  <2>1. /\ calls[h].op # "upload" /\ ~calls[h].own /\ calls'[h].op = calls[h].op
    BY <1>0 DEF Continue, FindOld, CreateFileEntity, Create, Update, FindPost,
                Hang, Untag, Tag, Unlink, Link, SetPicId, Join, Save, Delete,
                Answer, Store, Clean, Respond, Go, End, Branches, Did, Fail,
                Calls, TypeOK
  <2>2. /\ calls[h].phase \in {"old", "row", "ask", "delete", "reply", "hung"}
        /\ calls[h].op = "update" => calls[h].phase \in {"old", "row", "ask", "hung"}
        /\ calls[h].op = "delete" => calls[h].old = None
        /\ calls[h].op # "create"
    BY <1>0, <2>1 DEF Powerless, Shape
  <2>3. CASE FindOld(h)
    BY <2>1, <2>2, <2>3, <1>0 DEF FindOld, In, Shape, Calls, TypeOK
  <2>4. CASE CreateFileEntity(h) \/ Hang(h)
    BY <2>1, <2>2, <2>4, <1>0 DEF CreateFileEntity, Hang, Go, End, In, Shape, Calls, TypeOK
  <2>5. CASE Update(h)
    BY <2>1, <2>5, <1>0 DEF Update, End, TypeOK
  <2>6. CASE FindPost(h)
    BY <2>1, <2>2, <2>6, <1>0 DEF FindPost, At, In, Calls, TypeOK
  <2>7. CASE Delete(h)
    BY <2>1, <2>2, <2>7, <1>0 DEF Delete, Go, In, Shape, Calls, TypeOK
  <2>8. CASE Answer(h)
    <3>1. calls[h].op = "delete" /\ calls[h].path = None /\ calls[h].old = None
      BY <1>0, <2>1, <2>2, <2>8 DEF Answer, In, Shape, Calls
    <3>2. End(h)
      BY <2>8, <3>1 DEF Answer
    <3> QED BY <1>0, <3>2 DEF End, TypeOK
  <2>9. FALSE \/ FindOld(h) \/ CreateFileEntity(h) \/ Hang(h) \/ Update(h)
        \/ FindPost(h) \/ Delete(h) \/ Answer(h)
    BY <2>1, <2>2 DEF Continue, Create, Untag, Tag, Unlink, Link, SetPicId,
       Join, Save, Store, Clean, Respond, At, In, Pending
  <2> QED BY <2>3, <2>4, <2>5, <2>6, <2>7, <2>8, <2>9
<1>5. \A g \in Handlers : Powerless(g)'
  BY <1>1, <1>4 DEF Powerless, PostsInv, StoresAgree
<1>6. \A p \in PostIds \ disturbed' : Agree(p)'
  BY ContinueAgrees
<1> QED BY <1>3, <1>5, <1>6 DEF StoresAgree

\* What stops disturbs every post it interrupts a request at.
LEMMA StopAgrees ==
  ASSUME PostsInv, ServiceStops \/ ServiceBoots \/ MainAppStops
  PROVE  StoresAgree'
<1>0. TypeOK /\ StoresAgree
  BY DEF PostsInv, TypedAndShaped
<1>1. posts' = posts /\ stored' = stored /\ used' = used
  BY DEF ServiceStops, ServiceBoots, MainAppStops, tables
<1>2. \A q \in PostIds : FilesOf(q)' = FilesOf(q)
  BY <1>1 DEF FilesOf, Downloadable, HasFilePath
<1>3. \A g \in Handlers :
        \/ calls'[g] = calls[g] \/ calls'[g] = Idle
        \/ calls[g] # Idle /\ calls'[g] = [calls[g] EXCEPT !.phase = "hung", !.todo = {}]
        \/ calls[g] # Idle /\ calls'[g] = [calls[g] EXCEPT !.deaf = TRUE]
  BY DEF ServiceStops, ServiceBoots, MainAppStops, Serving
<1>4. ASSUME NEW g \in Handlers
      PROVE  Powerless(g)'
  <2>1. Powerless(g) /\ (calls[g] # Idle => calls[g] \in Calls)
    BY <1>0, CallTyped DEF StoresAgree
  <2> QED BY <1>3, <2>1 DEF Powerless, Calls
<1>5. ASSUME NEW q \in PostIds \ disturbed'
      PROVE  Agree(q)'
  <2>1. q \notin disturbed
    BY DEF ServiceStops, ServiceBoots, MainAppStops, Disturb, history
  <2>2. ASSUME NEW g \in Handlers, Busy(g, q)
        PROVE  calls'[g] = calls[g]
    <3>1. calls[g].own /\ calls[g].post = q /\ calls[g] # Idle /\ calls[g].phase # "hung"
      BY <2>2 DEF Busy
    <3>2. CASE ServiceStops
      <4>1. ~Serving(g)
        BY <3>1, <3>2 DEF ServiceStops, Disturb, Owned
      <4> QED BY <3>2, <4>1 DEF ServiceStops
    <3>3. CASE MainAppStops
      BY <3>1, <3>3 DEF MainAppStops, Disturb, Owned
    <3>4. CASE ServiceBoots
      BY <3>4 DEF ServiceBoots
    <3> QED BY <3>2, <3>3, <3>4
  <2>3. ASSUME NEW g \in Handlers
        PROVE  Busy(g, q)' <=> Busy(g, q)
    <3>1. CASE Busy(g, q)
      BY <2>2, <3>1 DEF Busy
    <3>2. CASE ~Busy(g, q)
      <4>1. calls[g] # Idle => calls[g] \in Calls
        BY <1>0, CallTyped
      <4> QED BY <1>3, <3>2, <4>1 DEF Busy, Calls
    <3> QED BY <3>1, <3>2
  <2> QED BY <1>0, <1>1, <1>2, <2>1, <2>2, <2>3, AgreeStays DEF StoresAgree
<1>6. FreshUnstored'
  BY <1>0, <1>1 DEF FreshUnstored, StoresAgree
<1> QED BY <1>4, <1>5, <1>6 DEF StoresAgree

LEMMA InitStoresAgree == Init => StoresAgree
<1> SUFFICES ASSUME Init PROVE StoresAgree
  OBVIOUS
<1>1. \A h \in Handlers : calls[h] = Idle
  BY DEF Init
<1>2. ASSUME NEW p \in PostIds
      PROVE  Agree(p)
  <2>1. posts[p] = NoPost /\ FilesOf(p) = {}
    BY DEF Init, FilesOf, Downloadable, HasFilePath
  <2> QED BY <1>1, <2>1 DEF Agree, Busy, Settled, Blank, NoPost, One
<1> QED BY <1>1, <1>2 DEF StoresAgree, Powerless, FreshUnstored, Init

\* A post no two of whose owner's requests ever overlapped, and none of whose
\* requests failed half-way, is the same in the two tables and the storage
\* once nothing is at it, whatever requests of strangers, of other posts and
\* of uploads came between: it names the row it has, that row's file and no
\* other of its files is stored, and it has one list of interests.
\* (posts.controller.ts:36, :84 and :122, post.service.ts:29, :58 and :105)
THEOREM UndisturbedPostsAgree == Spec => []UndisturbedAgree
<1>1. Init => PostsInv
  BY InitTyped, InitApart, InitStoresAgree DEF PostsInv
<1>2. PostsInv /\ [Next]_vars => PostsInv'
  <2> SUFFICES ASSUME PostsInv, [Next]_vars PROVE PostsInv'
    OBVIOUS
  <2>1. TypedAndShaped' /\ Apart'
    BY NextTyped, NextApart DEF PostsInv
  <2>2. ASSUME UNCHANGED vars
        PROVE  StoresAgree'
    <3>1. StoresAgree
      BY DEF PostsInv
    <3>2. ASSUME NEW p \in PostIds \ disturbed'
          PROVE  Agree(p)'
      <4>1. /\ Agree(p) /\ posts' = posts /\ FilesOf(p)' = FilesOf(p)
            /\ calls' = calls
        BY <2>2, <3>1 DEF vars, tables, history, StoresAgree, FilesOf,
                          Downloadable, HasFilePath
      <4> QED BY <4>1, AgreeStays DEF Busy
    <3>3. FreshUnstored' /\ \A h \in Handlers : Powerless(h)'
      BY <2>2, <3>1 DEF vars, StoresAgree, Powerless, FreshUnstored
    <3> QED BY <3>2, <3>3 DEF StoresAgree
  <2>3. ASSUME NEW h \in Handlers, Start(h) \/ Continue(h)
        PROVE  StoresAgree'
    BY <2>3, StartAgrees, ContinueStoresAgree
  <2>4. ASSUME ServiceStops \/ ServiceBoots \/ MainAppStops
        PROVE  StoresAgree'
    BY <2>4, StopAgrees
  <2>5. StoresAgree'
    BY <2>2, <2>3, <2>4 DEF Next
  <2> QED BY <2>1, <2>5 DEF PostsInv
<1>3. PostsInv => UndisturbedAgree
  BY DEF PostsInv, StoresAgree, Agree, Settled, FilesOf, One, UndisturbedAgree
<1> QED BY <1>1, <1>2, <1>3, PTL DEF Spec

=============================================================================
