--------------------- MODULE PostRecommendationProofs ---------------------
(***************************************************************************)
(* What PostRecommendation promises, for any users, handlers and bounds:   *)
(* types, that no page is empty, that pages come in order, and that who is *)
(* deleted has no list.                                                    *)
(*                                                                         *)
(* The two invariants speak of one user at a time.  DeletionsInv says that *)
(* a deletion is either still to be handled or has left nothing that would *)
(* store a list.  PagesInv says what has been shown when a position is     *)
(* stored and when it is about to be.  Each step is shown to change only   *)
(* the call that takes it and the documents of that call's user (StepOf).  *)
(***************************************************************************)
EXTENDS PostRecommendation, TLAPS

\* Nothing is at work before the service fills its collection, and then only
\* what fills it.
WorkFits ==
  /\ process \in {"down", "init", "mark", "fill"} => \A s \in Slots : calls[s] = Idle
  /\ process = "filling" => \A s \in Slots : calls[s] # Idle => Generating(s)

Typed == TypeOK /\ WorkFits

\* While a user is being deleted, either the event is still to be handled or
\* there is no list and nothing that would store one.
Forgotten(u) ==
  rows[u] # "alive" =>
    \/ \E s \in On(u) : In(s, "delete")
    \/ docs[u] = <<>> /\ \A s \in On(u) : ~Generating(s)

DeletionsInv ==
  Typed /\ \A u \in Users \ excused : Len(docs[u]) <= 1 /\ Forgotten(u)

\* Only a deletion may be at a user's list while a page of it is read.
Alone(u) == \A s, t \in On(u) : Paging(s) => t = s \/ In(t, "delete")

\* Where a user has several documents, pages are of the oldest.
OthersUnread(u) == \A i \in 2 .. Len(docs[u]) : docs[u][i].start = 0

ReadUpTo(u, n) == shown[u] = 1 .. Least(n, Count(docs[u][1].list))

\* The posts shown are those up to the position, or up to the one about to be
\* stored.
Followed(u) ==
  /\ docs[u] = <<>> => shown[u] = {}
  /\ docs[u] # <<>> =>
       /\ (\A s \in On(u) : ~In(s, "advance")) => ReadUpTo(u, docs[u][1].start)
       /\ \A s \in On(u) : In(s, "advance") => ReadUpTo(u, calls[s].next)

PagesInv ==
  Typed /\ \A u \in Users \ jumped : Alone(u) /\ OthersUnread(u) /\ Followed(u)

-----------------------------------------------------------------------------
(* Types.                                                                  *)

LEMMA NoCallIsIdle == Idle \notin Calls
<1>1. \A c \in Calls : "user" \in DOMAIN c
  BY DEF Calls
<1>2. DOMAIN Idle = {"phase"}
  BY DEF Idle
<1> QED BY <1>1, <1>2

Phases == {"state", "count", "turn", "first", "window", "save",
           "insert", "read", "advance", "delete"}

LEMMA CallType ==
  ASSUME NEW phase \in Phases, NEW u \in Users
  PROVE  /\ Call(phase, u) \in Calls
         /\ Call(phase, u) # Idle
         /\ Call(phase, u).user = u
         /\ Call(phase, u).phase = phase
<1>1. NoPosts \in Lists
  BY PostRecommendationAssumption DEF NoPosts, Lists
<1>2. Call(phase, u) \in Calls
  BY <1>1 DEF Call, Calls, Phases
<1> QED BY <1>2, NoCallIsIdle DEF Call

LEMMA CallOf ==
  ASSUME TypeOK, NEW s \in Slots, calls[s] # Idle
  PROVE  /\ calls[s] \in Calls
         /\ Of(s) \in Users
         /\ calls[s].list \in Lists
         /\ calls[s].next \in Nat
BY DEF TypeOK, Calls, Of

LEMMA OldestSet ==
  ASSUME NEW ds \in Seq(Doc), ds # <<>>, NEW d \in Doc, NEW es, es = [ds EXCEPT ![1] = d]
  PROVE  /\ es \in Seq(Doc) /\ Len(es) = Len(ds) /\ es[1] = d
         /\ \A i \in 2 .. Len(ds) : es[i] = ds[i]
<1>1. Len(ds) \in Nat \ {0}
  OBVIOUS
<1> QED BY <1>1

-----------------------------------------------------------------------------
(* Whoever is at work changes its own call and the documents of its user.  *)

GeneratingPhases == {"state", "count", "turn", "first", "window", "save", "insert"}

StepOf(s, c, ds, places) ==
  /\ calls[s] # Idle
  /\ c \in {Idle} \cup Calls
  /\ c # Idle => c.user = Of(s)
  /\ ds \in Seq(Doc)
  /\ places \in SUBSET Nat
  /\ calls' = [calls EXCEPT ![s] = c]
  /\ docs' = [docs EXCEPT ![Of(s)] = ds]
  /\ shown' = [shown EXCEPT ![Of(s)] = places]
  /\ UNCHANGED <<world, service, failures>>
  /\ excused \subseteq excused' /\ excused' \subseteq excused \cup {Of(s)}
  /\ jumped \subseteq jumped' /\ jumped' \subseteq jumped \cup {Of(s)}

LEMMA Same ==
  ASSUME TypeOK, NEW u \in Users
  PROVE  /\ docs = [docs EXCEPT ![u] = docs[u]] /\ docs[u] \in Seq(Doc)
         /\ shown = [shown EXCEPT ![u] = shown[u]] /\ shown[u] \in SUBSET Nat
BY DEF TypeOK

\* How a step of a generation leaves the documents of its user: stored twice,
\* or read from the beginning, or with the same list and position.
Generated(u, ds, places) ==
  /\ u \notin excused' /\ Len(docs[u]) <= 1 => Len(ds) <= 1
  /\ (\A i \in 2 .. Len(docs[u]) : docs[u][i].start = 0)
       => \A i \in 2 .. Len(ds) : ds[i].start = 0
  /\ u \notin jumped' =>
       \/ ds = docs[u] /\ places = shown[u]
       \/ places = {} /\ (ds # <<>> => ds[1].start = 0)
       \/ docs[u] = <<>> /\ places = shown[u] /\ ds[1].start = 0
       \/ /\ docs[u] # <<>> /\ ds # <<>> /\ places = shown[u]
          /\ ds[1].list = docs[u][1].list /\ ds[1].start = docs[u][1].start

GeneratingStep(s, c, ds, places) ==
  /\ StepOf(s, c, ds, places)
  /\ Generating(s)
  /\ c # Idle => c.phase \in GeneratingPhases
  /\ Generated(Of(s), ds, places)

LEMMA NoDocTyped ==
  ASSUME NEW n \in Nat, NEW list \in Lists
  PROVE  /\ [NoDoc EXCEPT !.cycle = n] \in Doc /\ [NoDoc EXCEPT !.cycle = n].start = 0
         /\ [NoDoc EXCEPT !.list = list] \in Doc /\ [NoDoc EXCEPT !.list = list].start = 0
<1>1. NoPosts \in Lists
  BY PostRecommendationAssumption DEF NoPosts, Lists
<1> QED BY <1>1 DEF NoDoc, Doc

LEMMA Appended ==
  ASSUME NEW ds \in Seq(Doc), NEW d \in Doc, d.start = 0
  PROVE  /\ Append(ds, d) \in Seq(Doc) /\ Append(ds, d) # <<>>
         /\ ds = <<>> => Len(Append(ds, d)) = 1 /\ Append(ds, d)[1] = d
         /\ ds # <<>> => Append(ds, d)[1] = ds[1]
         /\ (\A i \in 2 .. Len(ds) : ds[i].start = 0)
              => \A i \in 2 .. Len(Append(ds, d)) : Append(ds, d)[i].start = 0
<1> DEFINE es == Append(ds, d)
<1>1. /\ es \in Seq(Doc) /\ Len(es) = Len(ds) + 1 /\ Len(ds) \in Nat
      /\ \A i \in 1 .. Len(ds) : es[i] = ds[i]
      /\ es[Len(ds) + 1] = d
  OBVIOUS
<1>2. ds = <<>> <=> Len(ds) = 0
  OBVIOUS
<1>3. es # <<>>
  BY <1>1
<1> HIDE DEF es
<1>4. ASSUME \A i \in 2 .. Len(ds) : ds[i].start = 0, NEW i \in 2 .. Len(es)
      PROVE  es[i].start = 0
  <2>1. i \in 2 .. Len(ds) \/ i = Len(ds) + 1
    BY <1>1
  <2> QED BY <2>1, <1>1, <1>4
<1>5. ds = <<>> => Len(es) = 1 /\ es[1] = d
  BY <1>1, <1>2
<1>6. ds # <<>> => es[1] = ds[1]
  BY <1>1, <1>2
<1> QED BY <1>1, <1>3, <1>4, <1>5, <1>6 DEF es

\* The steps that read something and store nothing.
LEMMA ReadingSteps ==
  ASSUME TypeOK, NEW s \in Slots, ReadState(s) \/ CountMatches(s) \/ ReadWindow(s)
  PROVE  \E c, ds, places : GeneratingStep(s, c, ds, places)
<1>1. calls[s] # Idle /\ Generating(s)
  BY DEF ReadState, CountMatches, ReadWindow, Generating, In, Paging
<1>2. /\ calls[s] \in Calls /\ Of(s) \in Users
      /\ calls[s].list \in Lists /\ calls[s].next \in Nat
  BY <1>1, CallOf
<1>3. /\ docs' = docs
      /\ UNCHANGED <<world, service, failures, history>>
  BY DEF ReadState, CountMatches, ReadWindow, Step
<1>4. ASSUME NEW c \in Calls, calls' = [calls EXCEPT ![s] = c],
             c.user = Of(s), c.phase \in GeneratingPhases
      PROVE  \E cc, ds, places : GeneratingStep(s, cc, ds, places)
  <2>1. StepOf(s, c, docs[Of(s)], shown[Of(s)])
    BY <1>1, <1>2, <1>3, <1>4, Same DEF StepOf, history
  <2>2. Generated(Of(s), docs[Of(s)], shown[Of(s)])
    BY DEF Generated
  <2> QED BY <2>1, <2>2, <1>1, <1>4 DEF GeneratingStep
<1>5. CASE ReadState(s)
  <2> DEFINE next == IF docs[Of(s)] = <<>> THEN 0 ELSE Head(docs[Of(s)]).cycle
             c == [calls[s] EXCEPT !.phase = "count", !.next = next]
  <2>1. next \in Nat
    <3>1. docs[Of(s)] \in Seq(Doc)
      BY <1>2, Same
    <3>2. docs[Of(s)] # <<>> => Head(docs[Of(s)]) \in Doc
      BY <3>1
    <3> QED BY <3>2 DEF Doc
  <2> HIDE DEF next
  <2>2. c \in Calls
    BY <1>2, <2>1 DEF Calls
  <2>3. c.user = Of(s) /\ c.phase = "count"
    BY <1>2 DEF Calls, Of
  <2>4. calls' = [calls EXCEPT ![s] = c]
    BY <1>5 DEF ReadState, next, TypeOK
  <2> HIDE DEF c
  <2> QED BY <2>2, <2>3, <2>4, <1>4 DEF GeneratingPhases
<1>6. CASE CountMatches(s)
  <2> DEFINE n == matches[Of(s)]
             startAt == calls[s].next
             list(from) == [NoPosts EXCEPT !.from = from]
             seeking == [calls[s] EXCEPT !.phase = "window", !.next = 0]
             turning(from, next) ==
               [calls[s] EXCEPT !.phase = "turn", !.next = next, !.list = list(from)]
  <2>1. n \in Nat /\ startAt \in Nat /\ MaxRecord \in Nat
    BY <1>2, PostRecommendationAssumption DEF TypeOK
  <2>2. seeking \in Calls /\ seeking.user = Of(s) /\ seeking.phase = "window"
    BY <1>2 DEF Calls, Of
  <2>3. ASSUME NEW from \in Nat, NEW next \in Nat
        PROVE  /\ turning(from, next) \in Calls /\ turning(from, next).user = Of(s)
               /\ turning(from, next).phase = "turn"
    <3>1. list(from) \in Lists
      BY PostRecommendationAssumption DEF NoPosts, Lists
    <3> HIDE DEF list
    <3> QED BY <1>2, <3>1 DEF Calls, Of
  <2>4. \/ calls' = [calls EXCEPT ![s] = seeking]
        \/ n >= MaxRecord /\ calls' = [calls EXCEPT ![s] = turning(n - MaxRecord, 0)]
        \/ calls' = [calls EXCEPT ![s] = turning(startAt, startAt + MaxRecord)]
    <3>1. /\ (n < MaxRecord => Seek(s))
          /\ (~(n < MaxRecord) /\ n < startAt + MaxRecord => Turn(s, n - MaxRecord, 0))
          /\ (~(n < MaxRecord) /\ ~(n < startAt + MaxRecord)
                => Turn(s, startAt, startAt + MaxRecord))
      BY <1>6 DEF CountMatches
    <3>2. Seek(s) => calls' = [calls EXCEPT ![s] = seeking]
      BY DEF Seek, TypeOK
    <3>3. ASSUME NEW from, NEW next, Turn(s, from, next)
          PROVE  calls' = [calls EXCEPT ![s] = turning(from, next)]
      BY <3>3 DEF Turn, TypeOK
    <3> HIDE DEF n, startAt, seeking, turning
    <3> QED BY <2>1, <3>1, <3>2, <3>3
  <2> HIDE DEF n, startAt, seeking, turning
  <2>5. n >= MaxRecord => n - MaxRecord \in Nat
    BY <2>1
  <2>6. startAt + MaxRecord \in Nat
    BY <2>1
  <2> QED BY <2>1, <2>2, <2>3, <2>4, <2>5, <2>6, <1>4 DEF GeneratingPhases
<1>7. CASE ReadWindow(s)
  <2> DEFINE w == Least(MaxRecord, Less(matches[Of(s)], calls[s].list.from))
             c == [calls[s] EXCEPT !.phase = "save", !.list.window = w]
  <2>1. w \in 0 .. MaxRecord
    BY <1>2, PostRecommendationAssumption DEF TypeOK, Least, Less, Lists
  <2> HIDE DEF w
  <2>2. [calls[s].list EXCEPT !.window = w] \in Lists
    BY <1>2, <2>1 DEF Lists
  <2>3. c \in Calls
    BY <1>2, <2>2 DEF Calls
  <2>4. c.user = Of(s) /\ c.phase = "save"
    BY <1>2 DEF Calls, Of
  <2>5. calls' = [calls EXCEPT ![s] = c]
    BY <1>7 DEF ReadWindow, w, TypeOK
  <2> HIDE DEF c
  <2> QED BY <2>3, <2>4, <2>5, <1>4 DEF GeneratingPhases
<1> QED BY <1>5, <1>6, <1>7

\* The steps that store a document, or find that there is none to update.
LEMMA StateSteps ==
  ASSUME TypeOK, NEW s \in Slots, SetState(s) \/ InsertState(s)
  PROVE  \E c, ds, places : GeneratingStep(s, c, ds, places)
<1>1. calls[s] # Idle /\ Generating(s)
  BY DEF SetState, InsertState, Upsert, Generating, In, Paging
<1>2. /\ calls[s] \in Calls /\ Of(s) \in Users
      /\ calls[s].list \in Lists /\ calls[s].next \in Nat
  BY <1>1, CallOf
<1>3. UNCHANGED <<world, service, failures, shown, jumped>>
  BY DEF SetState, InsertState, Step, history
<1>4. docs[Of(s)] \in Seq(Doc) /\ shown[Of(s)] \in SUBSET Nat
  BY <1>2, Same
<1> DEFINE seeking == [calls[s] EXCEPT !.phase = "window", !.next = 0]
<1>5. Seek(s) => calls' = [calls EXCEPT ![s] = seeking]
  BY DEF Seek, TypeOK
<1>6. seeking \in Calls /\ seeking.user = Of(s) /\ seeking.phase = "window"
  BY <1>2 DEF Calls, Of
<1> HIDE DEF seeking
<1>7. CASE SetState(s)
  <2>1. excused' = excused
    BY <1>7 DEF SetState, Step, history
  <2>2. CASE docs[Of(s)] = <<>>
    <3> DEFINE c == [calls[s] EXCEPT !.phase = "first"]
    <3>1. calls' = [calls EXCEPT ![s] = c] /\ docs' = docs
      BY <1>7, <2>2 DEF SetState, Upsert, Go, TypeOK
    <3>2. c \in Calls /\ c.user = Of(s) /\ c.phase = "first"
      BY <1>2 DEF Calls, Of
    <3> HIDE DEF c
    <3>3. StepOf(s, c, docs[Of(s)], shown[Of(s)])
      BY <1>1, <1>2, <1>3, <2>1, <3>1, <3>2, Same DEF StepOf
    <3>4. Generated(Of(s), docs[Of(s)], shown[Of(s)])
      BY DEF Generated
    <3> QED BY <1>1, <3>2, <3>3, <3>4 DEF GeneratingStep, GeneratingPhases
  <2>3. CASE docs[Of(s)] # <<>>
    <3> DEFINE ds == [docs[Of(s)] EXCEPT ![1].cycle = calls[s].next]
    <3>1. docs' = [docs EXCEPT ![Of(s)] = ds]
      BY <1>7, <2>3 DEF SetState, Upsert
    <3>2. calls' = [calls EXCEPT ![s] = seeking]
      BY <1>7, <2>3, <1>5 DEF SetState, Upsert
    <3> DEFINE d == [docs[Of(s)][1] EXCEPT !.cycle = calls[s].next]
    <3>3a. docs[Of(s)][1] \in Doc
      BY <1>4, <2>3
    <3>3b. d \in Doc /\ d.list = docs[Of(s)][1].list /\ d.start = docs[Of(s)][1].start
      BY <1>2, <3>3a DEF Doc
    <3>3c. ds = [docs[Of(s)] EXCEPT ![1] = d]
      OBVIOUS
    <3> HIDE DEF d, ds
    <3>3. /\ ds \in Seq(Doc) /\ Len(ds) = Len(docs[Of(s)])
          /\ \A i \in 2 .. Len(docs[Of(s)]) : ds[i] = docs[Of(s)][i]
          /\ ds[1].list = docs[Of(s)][1].list /\ ds[1].start = docs[Of(s)][1].start
      BY <1>4, <2>3, <3>3b, <3>3c, OldestSet
    <3>4. ds # <<>>
      BY <1>4, <2>3, <3>3
    <3>5. StepOf(s, seeking, ds, shown[Of(s)])
      BY <1>1, <1>2, <1>3, <1>6, <2>1, <3>1, <3>2, <3>3, Same DEF StepOf
    <3>6. Generated(Of(s), ds, shown[Of(s)])
      BY <2>3, <3>3, <3>4 DEF Generated
    <3> QED BY <1>1, <1>6, <3>5, <3>6 DEF GeneratingStep, GeneratingPhases
  <2> QED BY <2>2, <2>3
<1>8. CASE InsertState(s)
  <2> DEFINE d == [NoDoc EXCEPT !.cycle = calls[s].next]
             ds == Append(docs[Of(s)], d)
  <2>1. d \in Doc /\ d.start = 0
    <3>1. NoPosts \in Lists
      BY PostRecommendationAssumption DEF NoPosts, Lists
    <3> QED BY <1>2, <3>1, NoDocTyped
  <2>2. docs' = [docs EXCEPT ![Of(s)] = ds]
    BY <1>8 DEF InsertState
  <2>3. calls' = [calls EXCEPT ![s] = seeking]
    BY <1>8, <1>5 DEF InsertState
  <2>4. excused' = excused \cup (IF docs[Of(s)] = <<>> THEN {} ELSE {Of(s)})
    BY <1>8 DEF InsertState, Excuse
  <2> HIDE DEF d
  <2>5. /\ ds \in Seq(Doc) /\ ds # <<>>
        /\ docs[Of(s)] = <<>> => Len(ds) = 1 /\ ds[1] = d
        /\ docs[Of(s)] # <<>> => ds[1] = docs[Of(s)][1]
        /\ (\A i \in 2 .. Len(docs[Of(s)]) : docs[Of(s)][i].start = 0)
             => \A i \in 2 .. Len(ds) : ds[i].start = 0
    BY <1>4, <2>1, Appended
  <2> HIDE DEF ds
  <2>6. StepOf(s, seeking, ds, shown[Of(s)])
    BY <1>1, <1>2, <1>3, <1>6, <2>2, <2>3, <2>4, <2>5, Same DEF StepOf
  <2>7. Generated(Of(s), ds, shown[Of(s)])
    BY <2>1, <2>4, <2>5 DEF Generated
  <2> QED BY <1>1, <1>6, <2>6, <2>7 DEF GeneratingStep, GeneratingPhases
<1> QED BY <1>7, <1>8

LEMMA SavingSteps ==
  ASSUME TypeOK, NEW s \in Slots, SaveReco(s) \/ InsertReco(s)
  PROVE  \E c, ds, places : GeneratingStep(s, c, ds, places)
<1>1. calls[s] # Idle /\ Generating(s)
  BY DEF SaveReco, InsertReco, Upsert, Generating, In, Paging
<1>2. /\ calls[s] \in Calls /\ Of(s) \in Users /\ calls[s].list \in Lists
  BY <1>1, CallOf
<1>3. UNCHANGED <<world, service, failures>>
  BY DEF SaveReco, InsertReco
<1>4. docs[Of(s)] \in Seq(Doc) /\ shown[Of(s)] \in SUBSET Nat
  BY <1>2, Same
<1>5. ASSUME NEW n \in 0 .. MaxFriendPosts
      PROVE  [calls[s].list EXCEPT !.friends = n] \in Lists
  BY <1>2 DEF Lists
<1>6. CASE SaveReco(s)
  <2>1. shown' = [shown EXCEPT ![Of(s)] = {}] /\ excused' = excused /\ jumped' = jumped
    BY <1>6 DEF SaveReco, Shows
  <2>2. CASE docs[Of(s)] = <<>>
    <3> DEFINE c == [calls[s] EXCEPT !.phase = "insert"]
    <3>1. calls' = [calls EXCEPT ![s] = c] /\ docs' = docs
      BY <1>6, <2>2 DEF SaveReco, Upsert, Go, TypeOK
    <3>2. c \in Calls /\ c.user = Of(s) /\ c.phase = "insert"
      BY <1>2 DEF Calls, Of
    <3> HIDE DEF c
    <3>3. StepOf(s, c, docs[Of(s)], {})
      BY <1>1, <1>2, <1>3, <2>1, <3>1, <3>2, Same DEF StepOf
    <3>4. Generated(Of(s), docs[Of(s)], {})
      BY <2>2 DEF Generated
    <3> QED BY <1>1, <3>2, <3>3, <3>4 DEF GeneratingStep, GeneratingPhases
  <2>3. CASE docs[Of(s)] # <<>>
    <3>1. PICK n \in 0 .. MaxFriendPosts :
            docs' = [docs EXCEPT ![Of(s)][1].list = [calls[s].list EXCEPT !.friends = n],
                                 ![Of(s)][1].start = 0]
      BY <1>6, <2>3 DEF SaveReco, Upsert
    <3> DEFINE list == [calls[s].list EXCEPT !.friends = n]
               ds == [docs[Of(s)] EXCEPT ![1].list = list, ![1].start = 0]
    <3>2. docs' = [docs EXCEPT ![Of(s)] = ds]
      BY <1>2, <3>1 DEF TypeOK
    <3>3. calls' = [calls EXCEPT ![s] = Idle]
      BY <1>6, <2>3 DEF SaveReco, Upsert, End
    <3>4. list \in Lists
      BY <1>5
    <3> DEFINE d == [docs[Of(s)][1] EXCEPT !.list = list, !.start = 0]
    <3>3a. docs[Of(s)][1] \in Doc /\ Len(docs[Of(s)]) \in Nat \ {0}
      BY <1>4, <2>3
    <3> HIDE DEF list
    <3>3b. d \in Doc /\ d.start = 0
      BY <3>3a, <3>4 DEF Doc
    <3>3c. ds = [docs[Of(s)] EXCEPT ![1] = d]
      BY <1>4, <3>3a
    <3> HIDE DEF d, ds
    <3>5. /\ ds \in Seq(Doc) /\ Len(ds) = Len(docs[Of(s)])
          /\ \A i \in 2 .. Len(docs[Of(s)]) : ds[i] = docs[Of(s)][i]
          /\ ds[1].start = 0
      BY <1>4, <2>3, <3>3b, <3>3c, OldestSet
    <3>6. StepOf(s, Idle, ds, {})
      BY <1>1, <1>2, <1>3, <2>1, <3>2, <3>3, <3>5 DEF StepOf
    <3>7. Generated(Of(s), ds, {})
      BY <3>5 DEF Generated
    <3> QED BY <1>1, <3>6, <3>7 DEF GeneratingStep
  <2> QED BY <2>2, <2>3
<1>7. CASE InsertReco(s)
  <2>1. PICK n \in 0 .. MaxFriendPosts :
          docs' = [docs EXCEPT ![Of(s)] =
                     Append(@, [NoDoc EXCEPT !.list = [calls[s].list EXCEPT !.friends = n]])]
    BY <1>7 DEF InsertReco
  <2> DEFINE d == [NoDoc EXCEPT !.list = [calls[s].list EXCEPT !.friends = n]]
             ds == Append(docs[Of(s)], d)
  <2>2. d \in Doc /\ d.start = 0
    <3>1. 0 \in Nat
      OBVIOUS
    <3> QED BY <1>5, <3>1, NoDocTyped
  <2>3. docs' = [docs EXCEPT ![Of(s)] = ds]
    BY <2>1
  <2>4. calls' = [calls EXCEPT ![s] = Idle] /\ shown' = shown
    BY <1>7 DEF InsertReco, End
  <2>5. /\ excused' = excused \cup (IF docs[Of(s)] = <<>> THEN {} ELSE {Of(s)})
        /\ jumped' = jumped \cup (IF docs[Of(s)] = <<>> THEN {} ELSE {Of(s)})
    BY <1>7 DEF InsertReco, Excuse, Jump
  <2> HIDE DEF d
  <2>6. /\ ds \in Seq(Doc) /\ ds # <<>>
        /\ docs[Of(s)] = <<>> => Len(ds) = 1 /\ ds[1] = d
        /\ (\A i \in 2 .. Len(docs[Of(s)]) : docs[Of(s)][i].start = 0)
             => \A i \in 2 .. Len(ds) : ds[i].start = 0
    BY <1>4, <2>2, Appended
  <2> HIDE DEF ds
  <2>7. StepOf(s, Idle, ds, shown[Of(s)])
    BY <1>1, <1>2, <1>3, <2>3, <2>4, <2>5, <2>6, Same DEF StepOf
  <2>8. Generated(Of(s), ds, shown[Of(s)])
    BY <2>2, <2>5, <2>6 DEF Generated
  <2> QED BY <1>1, <2>7, <2>8 DEF GeneratingStep
<1> QED BY <1>6, <1>7

LEMMA Generates ==
  ASSUME TypeOK, NEW s \in Slots,
         \/ ReadState(s) \/ CountMatches(s) \/ SetState(s) \/ InsertState(s)
         \/ ReadWindow(s) \/ SaveReco(s) \/ InsertReco(s)
  PROVE  \E c, ds, places : GeneratingStep(s, c, ds, places)
BY ReadingSteps, StateSteps, SavingSteps

\* The three other steps.
LEMMA ReadPageStep ==
  ASSUME TypeOK, NEW s \in Slots, ReadPage(s)
  PROVE  LET u == Of(s)
         IN /\ excused' = excused /\ jumped' = jumped /\ In(s, "read")
            /\ \/ docs[u] = <<>> /\ StepOf(s, Idle, docs[u], shown[u])
               \/ /\ docs[u] # <<>>
                  /\ \E c : LET doc == docs[u][1]
                                places == Page(doc) \cup (IF Place(doc) = 0 THEN {} ELSE shown[u])
                            IN /\ c.phase = "advance" /\ c.next = Place(doc) + Limit
                               /\ c # Idle
                               /\ StepOf(s, c, docs[u], IF u \in jumped THEN {} ELSE places)
<1>1. calls[s] # Idle /\ In(s, "read")
  BY DEF ReadPage, In
<1>2. calls[s] \in Calls /\ Of(s) \in Users
  BY <1>1, CallOf
<1>3. UNCHANGED <<world, docs, service, failures, excused, jumped>>
  BY DEF ReadPage
<1>4. docs[Of(s)] \in Seq(Doc) /\ shown[Of(s)] \in SUBSET Nat
  BY <1>2, Same
<1>5. CASE docs[Of(s)] = <<>>
  <2>1. calls' = [calls EXCEPT ![s] = Idle] /\ shown' = shown
    BY <1>5 DEF ReadPage, End
  <2>2. StepOf(s, Idle, docs[Of(s)], shown[Of(s)])
    BY <1>1, <1>2, <1>3, <1>4, <2>1, Same DEF StepOf
  <2> QED BY <1>1, <1>3, <1>5, <2>2
<1>6. CASE docs[Of(s)] # <<>>
  <2> DEFINE doc == docs[Of(s)][1]
             next == Place(doc) + Limit
             c == [calls[s] EXCEPT !.phase = "advance", !.next = next]
             places == Page(doc) \cup (IF Place(doc) = 0 THEN {} ELSE shown[Of(s)])
             after == IF Of(s) \in jumped THEN {} ELSE places
  <2>1. doc = Head(docs[Of(s)]) /\ doc \in Doc
    BY <1>4, <1>6
  <2>2. calls' = [calls EXCEPT ![s] = [@ EXCEPT !.phase = "advance",
                                                !.next = Place(doc) + Limit]]
        /\ shown' = [shown EXCEPT ![Of(s)] = after]
    BY <1>6, <2>1 DEF ReadPage, Shows, TypeOK
  <2>3. Place(doc) \in Nat /\ Limit \in Nat /\ next \in Nat
    BY <2>1, PostRecommendationAssumption DEF Place, Doc
  <2>4. Page(doc) \in SUBSET Nat
    BY <2>3 DEF Page
  <2>5. after \in SUBSET Nat
    BY <2>4, <1>4
  <2> HIDE DEF next
  <2>6. c \in Calls /\ c.user = Of(s) /\ c.phase = "advance" /\ c.next = next
    BY <1>2, <2>3 DEF Calls, Of
  <2>7. calls' = [calls EXCEPT ![s] = c]
    BY <2>2 DEF TypeOK, next
  <2>8. c # Idle
    BY <2>6, NoCallIsIdle
  <2> HIDE DEF c, after
  <2>9. StepOf(s, c, docs[Of(s)], after)
    BY <1>1, <1>2, <1>3, <1>4, <2>2, <2>5, <2>6, <2>7, Same DEF StepOf
  <2> QED BY <1>1, <1>3, <1>6, <2>6, <2>8, <2>9 DEF after, next
<1> QED BY <1>5, <1>6

LEMMA AdvanceStep ==
  ASSUME TypeOK, NEW s \in Slots, Advance(s)
  PROVE  LET u == Of(s)
         IN /\ excused' = excused /\ jumped' = jumped /\ In(s, "advance")
            /\ \E ds : /\ StepOf(s, Idle, ds, shown[u])
                       /\ docs[u] = <<>> => ds = <<>>
                       /\ docs[u] # <<>> =>
                            /\ ds # <<>> /\ Len(ds) = Len(docs[u])
                            /\ \A i \in 2 .. Len(ds) : ds[i] = docs[u][i]
                            /\ ds[1].list = docs[u][1].list
                            /\ ds[1].start = calls[s].next
<1>1. calls[s] # Idle /\ In(s, "advance")
  BY DEF Advance, In
<1>2. calls[s] \in Calls /\ Of(s) \in Users /\ calls[s].next \in Nat
  BY <1>1, CallOf
<1>3. UNCHANGED <<world, service, failures, excused, jumped, shown>>
  BY DEF Advance, Step, history
<1>4. docs[Of(s)] \in Seq(Doc) /\ shown[Of(s)] \in SUBSET Nat
  BY <1>2, Same
<1>5. calls' = [calls EXCEPT ![s] = Idle]
  BY DEF Advance, End
<1>6. CASE docs[Of(s)] = <<>>
  <2>1. docs' = docs
    BY <1>2, <1>6, Same DEF Advance
  <2>2. StepOf(s, Idle, docs[Of(s)], shown[Of(s)])
    BY <1>1, <1>2, <1>3, <1>4, <1>5, <2>1, Same DEF StepOf
  <2> QED BY <1>1, <1>3, <1>6, <2>2
<1>7. CASE docs[Of(s)] # <<>>
  <2> DEFINE d == [docs[Of(s)][1] EXCEPT !.start = calls[s].next]
             ds == [docs[Of(s)] EXCEPT ![1] = d]
  <2>1. docs[Of(s)][1] \in Doc
    BY <1>4, <1>7
  <2>2. d \in Doc /\ d.list = docs[Of(s)][1].list /\ d.start = calls[s].next
    BY <1>2, <2>1 DEF Doc
  <2>3. docs' = [docs EXCEPT ![Of(s)] = ds]
    BY <1>7 DEF Advance
  <2> HIDE DEF d
  <2>4. ds = [docs[Of(s)] EXCEPT ![1] = d]
    OBVIOUS
  <2> HIDE DEF ds
  <2>5. /\ ds \in Seq(Doc) /\ Len(ds) = Len(docs[Of(s)])
        /\ \A i \in 2 .. Len(docs[Of(s)]) : ds[i] = docs[Of(s)][i]
        /\ ds[1].list = docs[Of(s)][1].list /\ ds[1].start = calls[s].next
    BY <1>4, <1>7, <2>2, <2>4, OldestSet
  <2>6. ds # <<>>
    BY <1>4, <1>7, <2>5
  <2>7. StepOf(s, Idle, ds, shown[Of(s)])
    BY <1>1, <1>2, <1>3, <1>4, <1>5, <2>3, <2>5, Same DEF StepOf
  <2> QED BY <1>1, <1>3, <1>7, <2>5, <2>6, <2>7
<1> QED BY <1>6, <1>7

LEMMA DeleteStep ==
  ASSUME TypeOK, NEW s \in Slots, Delete(s)
  PROVE  LET u == Of(s)
         IN /\ In(s, "delete")
            /\ excused' = excused \cup (IF \E t \in On(u) : Generating(t) THEN {u} ELSE {})
            /\ jumped' = jumped \cup (IF On(u) = {s} THEN {} ELSE {u})
            /\ StepOf(s, Idle, IF docs[u] = <<>> THEN <<>> ELSE Tail(docs[u]), {})
<1>1. calls[s] # Idle /\ In(s, "delete")
  BY DEF Delete, In
<1>2. calls[s] \in Calls /\ Of(s) \in Users
  BY <1>1, CallOf
<1>3. docs[Of(s)] \in Seq(Doc)
  BY <1>2, Same
<1> DEFINE ds == IF docs[Of(s)] = <<>> THEN <<>> ELSE Tail(docs[Of(s)])
<1>4. ds \in Seq(Doc)
  BY <1>3
<1>5. docs' = [docs EXCEPT ![Of(s)] = ds]
  BY DEF Delete
<1> HIDE DEF ds
<1>6. /\ excused' = excused \cup (IF \E t \in On(Of(s)) : Generating(t) THEN {Of(s)} ELSE {})
      /\ jumped' = jumped \cup (IF On(Of(s)) = {s} THEN {} ELSE {Of(s)})
      /\ shown' = [shown EXCEPT ![Of(s)] = {}]
      /\ calls' = [calls EXCEPT ![s] = Idle]
      /\ UNCHANGED <<world, service, failures>>
  BY DEF Delete, Excuse, Jump, Shows, End
<1>7. StepOf(s, Idle, ds, {})
  BY <1>1, <1>2, <1>4, <1>5, <1>6 DEF StepOf
<1> QED BY <1>1, <1>6, <1>7 DEF ds

LEMMA Continues ==
  ASSUME TypeOK, NEW s \in Slots, Continue(s)
  PROVE  \E c, ds, places : StepOf(s, c, ds, places)
<1>1. CASE \/ ReadState(s) \/ CountMatches(s) \/ SetState(s) \/ InsertState(s)
           \/ ReadWindow(s) \/ SaveReco(s) \/ InsertReco(s)
  BY <1>1, Generates DEF GeneratingStep
<1>2. CASE ReadPage(s)
  BY <1>2, ReadPageStep
<1>3. CASE Advance(s)
  BY <1>3, AdvanceStep
<1>4. CASE Delete(s)
  BY <1>4, DeleteStep
<1> QED BY <1>1, <1>2, <1>3, <1>4 DEF Continue

-----------------------------------------------------------------------------
(* Every step keeps the types.                                             *)

LEMMA InitTyped == Init => Typed
<1> SUFFICES ASSUME Init
             PROVE  Typed
  OBVIOUS
<1>1. matches \in [Users -> 0 .. MaxMatches]
  BY PostRecommendationAssumption DEF Init
<1>2. 0 \in 0 .. MaxChanges /\ 0 \in 0 .. MaxFailures
  BY PostRecommendationAssumption
<1>3. docs \in [Users -> Seq(Doc)]
  BY DEF Init
<1>4. TypeOK
  BY <1>1, <1>2, <1>3 DEF Init, TypeOK
<1>5. WorkFits
  BY DEF Init, WorkFits
<1> QED BY <1>4, <1>5 DEF Typed

\* A request that begins; the row may be marked with it.
LEMMA BeginTyped ==
  ASSUME Typed, NEW s \in Slots, NEW phase \in Phases, NEW u \in Users,
         Begin(s, phase, u),
         rows' \in [Users -> {"alive", "leaving", "gone"}],
         UNCHANGED <<matches, changes, docs, service, failures, shown>>,
         excused' \subseteq excused \cup {u}, jumped' \subseteq jumped \cup {u}
  PROVE  Typed'
<1>1. Call(phase, u) \in Calls
  BY CallType
<1>2. TypeOK'
  BY <1>1 DEF Begin, Typed, TypeOK, service
<1>3. WorkFits'
  BY DEF Begin, Typed, WorkFits, service
<1> QED BY <1>2, <1>3 DEF Typed

LEMMA AskedTyped ==
  ASSUME Typed, NEW h \in Handlers, NEW u \in Users,
         SyncUser(h, u) \/ GetPostReco(h, u) \/ AnnounceDeletion(h, u)
  PROVE  Typed'
<1>1. h \in Slots
  BY DEF Slots
<1>2. CASE SyncUser(h, u)
  <2>1. /\ Begin(h, "state", u)
        /\ excused' \subseteq excused \cup {u} /\ jumped' \subseteq jumped \cup {u}
        /\ UNCHANGED <<world, docs, service, failures, shown>>
    BY <1>2 DEF SyncUser, Excuse, Jump
  <2> QED BY <1>1, <2>1, BeginTyped DEF Phases, world, Typed, TypeOK
<1>3. CASE GetPostReco(h, u)
  <2>1. /\ Begin(h, "read", u)
        /\ excused' \subseteq excused \cup {u} /\ jumped' \subseteq jumped \cup {u}
        /\ UNCHANGED <<world, docs, service, failures, shown>>
    BY <1>3 DEF GetPostReco, Jump
  <2> QED BY <1>1, <2>1, BeginTyped DEF Phases, world, Typed, TypeOK
<1>4. CASE AnnounceDeletion(h, u)
  <2>1. rows' \in [Users -> {"alive", "leaving", "gone"}]
    BY <1>4 DEF AnnounceDeletion, Typed, TypeOK
  <2>2. UNCHANGED <<matches, changes, docs, service, failures, shown, jumped>>
    BY <1>4 DEF AnnounceDeletion
  <2>3. CASE Begin(h, "delete", u) /\ UNCHANGED excused
    BY <1>1, <2>1, <2>2, <2>3, BeginTyped DEF Phases
  <2>4. CASE process # "up" /\ Excuse({u}) /\ UNCHANGED calls
    <3>1. TypeOK'
      BY <2>1, <2>2, <2>4 DEF Excuse, Typed, TypeOK, service
    <3>2. WorkFits'
      BY <2>2, <2>4 DEF Typed, WorkFits, service, Generating, Paging, In
    <3> QED BY <3>1, <3>2 DEF Typed
  <2> QED BY <1>4, <2>3, <2>4 DEF AnnounceDeletion
<1> QED BY <1>2, <1>3, <1>4

LEMMA UserTyped ==
  ASSUME Typed, NEW u \in Users,
         UpdateUserRecoPost(u) \/ SoftDelete(u) \/ MatchesChange(u)
  PROVE  Typed'
<1>1. CASE UpdateUserRecoPost(u)
  <2>1. /\ Begin(u, "state", u) /\ u \in Slots
        /\ excused' \subseteq excused \cup {u} /\ jumped' \subseteq jumped \cup {u}
        /\ UNCHANGED <<world, docs, service, failures, shown>>
    BY <1>1 DEF UpdateUserRecoPost, Excuse, Jump, Slots
  <2> QED BY <2>1, BeginTyped DEF Phases, world, Typed, TypeOK
<1>2. CASE SoftDelete(u)
  <2>1. TypeOK'
    BY <1>2 DEF SoftDelete, Typed, TypeOK, service, history
  <2>2. WorkFits'
    BY <1>2 DEF SoftDelete, Typed, WorkFits, service, Generating, Paging, In
  <2> QED BY <2>1, <2>2 DEF Typed
<1>3. CASE MatchesChange(u)
  <2>1. TypeOK'
    BY <1>3, PostRecommendationAssumption DEF MatchesChange, Typed, TypeOK, service, history
  <2>2. WorkFits'
    BY <1>3 DEF MatchesChange, Typed, WorkFits, service, Generating, Paging, In
  <2> QED BY <2>1, <2>2 DEF Typed
<1> QED BY <1>1, <1>2, <1>3

LEMMA StepTyped ==
  ASSUME TypeOK, NEW s \in Slots, NEW c, NEW ds, NEW places, StepOf(s, c, ds, places)
  PROVE  TypeOK'
<1>1. Of(s) \in Users
  BY CallOf DEF StepOf
<1> QED BY <1>1 DEF StepOf, TypeOK, world, service

LEMMA ContinueTyped ==
  ASSUME Typed, NEW s \in Slots, Continue(s)
  PROVE  Typed'
<1>1. TypeOK'
  BY Continues, StepTyped DEF Typed
<1>2. process' = process
  BY Continues DEF Typed, StepOf, service
<1>3. calls[s] # Idle
  BY Continues DEF Typed, StepOf
<1>4. process \in {"down", "init", "mark", "fill"} => \A t \in Slots : calls'[t] = Idle
  BY <1>3 DEF Typed, WorkFits
<1>5. ASSUME process = "filling", NEW t \in Slots, calls'[t] # Idle
      PROVE  Generating(t)'
  <2>1. Generating(s)
    BY <1>3, <1>5 DEF Typed, WorkFits
  <2>2. \/ ReadState(s) \/ CountMatches(s) \/ SetState(s) \/ InsertState(s)
        \/ ReadWindow(s) \/ SaveReco(s) \/ InsertReco(s)
    BY <2>1 DEF Continue, ReadPage, Advance, Delete, Generating, Paging, In
  <2>3. PICK c, ds, places : GeneratingStep(s, c, ds, places)
    BY <2>2, Generates DEF Typed
  <2>4. CASE t = s
    <3>1. calls'[s] = c
      BY <2>3 DEF GeneratingStep, StepOf, Typed, TypeOK
    <3> QED BY <3>1, <2>3, <2>4, <1>5 DEF GeneratingStep, GeneratingPhases,
               Generating, Paging, In
  <2>5. CASE t # s
    <3>1. calls'[t] = calls[t]
      BY <2>3, <2>5 DEF GeneratingStep, StepOf
    <3> QED BY <3>1, <1>5 DEF Typed, WorkFits, Generating, Paging, In
  <2> QED BY <2>4, <2>5
<1>6. WorkFits'
  BY <1>2, <1>4, <1>5 DEF WorkFits
<1> QED BY <1>1, <1>6 DEF Typed

LEMMA GenerateFailsTyped ==
  ASSUME Typed, NEW s \in Slots, GenerateFails(s)
  PROVE  Typed'
<1>1. failures' \in 0 .. MaxFailures
  BY PostRecommendationAssumption DEF GenerateFails, Typed, TypeOK
<1>2. UNCHANGED <<world, docs, mark, history>>
  BY DEF GenerateFails
<1>3. \/ calls' = [t \in Slots |-> Idle] /\ process' = "down"
      \/ End(s) /\ process' = process
  BY DEF GenerateFails
<1>4. TypeOK'
  BY <1>1, <1>2, <1>3 DEF Typed, TypeOK, End, world, history
<1>5. CASE calls' = [t \in Slots |-> Idle] /\ process' = "down"
  <2>1. WorkFits'
    BY <1>5 DEF WorkFits
  <2> QED BY <1>4, <2>1 DEF Typed
<1>6. CASE End(s) /\ process' = process
  <2>1. \A t \in Slots : calls'[t] = Idle \/ calls'[t] = calls[t]
    BY <1>6 DEF End, Typed, TypeOK
  <2>2. WorkFits'
    BY <1>6, <2>1 DEF Typed, WorkFits, Generating, Paging, In
  <2> QED BY <1>4, <2>2 DEF Typed
<1> QED BY <1>3, <1>5, <1>6

LEMMA BootingTyped ==
  ASSUME Typed, Booting
  PROVE  Typed'
<1>1. CASE Boot \/ FindMark \/ CreateMark \/ Listen
  <2>1. /\ UNCHANGED <<world, docs, calls, failures, history>>
        /\ process' \in {"init", "up", "mark", "fill"}
        /\ mark' \in BOOLEAN
        /\ \A s \in Slots : calls[s] = Idle
    BY <1>1 DEF Boot, FindMark, CreateMark, Listen, Typed, TypeOK, WorkFits
  <2>2. TypeOK'
    BY <2>1 DEF Typed, TypeOK, world, history
  <2>3. WorkFits'
    BY <2>1 DEF WorkFits
  <2> QED BY <2>2, <2>3 DEF Typed
<1>2. CASE GenerateForAllUser
  <2>1. \A u \in Users : Call("state", u) \in Calls /\ Call("state", u).phase = "state"
    BY CallType DEF Phases
  <2>2. calls' \in [Slots -> {Idle} \cup Calls]
    BY <1>2, <2>1 DEF GenerateForAllUser
  <2>3. TypeOK'
    BY <1>2, <2>2 DEF GenerateForAllUser, Excuse, Typed, TypeOK, world
  <2>4. process' = "filling"
    BY <1>2 DEF GenerateForAllUser
  <2>5. \A s \in Slots : calls'[s] # Idle => calls'[s].phase = "state"
    BY <1>2, <2>1 DEF GenerateForAllUser
  <2>6. WorkFits'
    BY <2>4, <2>5 DEF WorkFits, Generating, Paging, In
  <2> QED BY <2>3, <2>6 DEF Typed
<1> QED BY <1>1, <1>2 DEF Booting

LEMMA StopTyped ==
  ASSUME Typed, Stop
  PROVE  Typed'
<1>1. ASSUME NEW s \in Slots, calls[s] # Idle
      PROVE  Of(s) \in Users
  BY <1>1, CallOf DEF Typed
<1>2. excused' \subseteq Users /\ jumped' \subseteq Users
  <2>1. {Of(s) : s \in {t \in Slots : In(t, "delete")}} \subseteq Users
    BY <1>1 DEF In
  <2>2. {Of(s) : s \in {t \in Slots : Paging(t)}} \subseteq Users
    BY <1>1 DEF Paging, In
  <2> QED BY <2>1, <2>2 DEF Stop, Excuse, Jump, Typed, TypeOK
<1>3. failures' \in 0 .. MaxFailures
  BY PostRecommendationAssumption DEF Stop, Typed, TypeOK
<1>4. TypeOK'
  BY <1>2, <1>3 DEF Stop, Typed, TypeOK, world
<1>5. WorkFits'
  BY DEF Stop, WorkFits
<1> QED BY <1>4, <1>5 DEF Typed

LEMMA NextTyped ==
  ASSUME Typed, [Next]_vars
  PROVE  Typed'
<1>1. CASE Next
  BY <1>1, AskedTyped, UserTyped, ContinueTyped, GenerateFailsTyped, BootingTyped,
     StopTyped DEF Next
<1>2. CASE UNCHANGED vars
  <2>1. TypeOK'
    BY <1>2 DEF vars, world, service, history, Typed, TypeOK
  <2>2. WorkFits'
    BY <1>2 DEF vars, service, Typed, WorkFits, Generating, Paging, In
  <2> QED BY <2>1, <2>2 DEF Typed
<1> QED BY <1>1, <1>2

LEMMA AlwaysTyped == Spec => []Typed
BY InitTyped, NextTyped, PTL DEF Spec

\* Tables, lists, calls and histories keep their types; nothing is at work
\* before the service fills its collection.  (post-recommendation.service.ts)
THEOREM PostRecommendationTypeCorrect == Spec => []TypeOK
<1>1. Typed => TypeOK
  BY DEF Typed
<1> QED BY <1>1, AlwaysTyped, PTL

\* A page read from a list with posts has posts, wherever another page has
\* put the position.  (post-recommendation.service.ts:62-77)
THEOREM PagesHavePosts == Spec => []NoEmptyPage
<1>1. ASSUME TypeOK, NEW u \in Users, docs[u] # <<>>, Count(Head(docs[u]).list) > 0
      PROVE  Page(Head(docs[u])) # {}
  <2> DEFINE doc == Head(docs[u])
             n == Count(doc.list)
  <2>1. doc \in Doc
    <3>1. docs[u] \in Seq(Doc)
      BY <1>1, Same
    <3> QED BY <1>1, <3>1
  <2>2. n \in Nat /\ n > 0 /\ doc.start \in Nat /\ Limit \in Nat \ {0}
    BY <1>1, <2>1, PostRecommendationAssumption DEF Doc, Lists, Count
  <2> HIDE DEF n
  <2>3. Place(doc) \in Nat /\ Place(doc) < n
    BY <2>2 DEF Place, n
  <2>4. 1 \in 1 .. Least(Limit, n - Place(doc))
    BY <2>2, <2>3 DEF Least
  <2>5. Place(doc) + 1 \in Page(doc)
    BY <2>4 DEF Page, n
  <2> QED BY <2>5
<1>2. TypeOK => NoEmptyPage
  BY <1>1 DEF NoEmptyPage
<1> QED BY <1>2, PostRecommendationTypeCorrect, PTL

-----------------------------------------------------------------------------
(* A deleted user has no list.                                             *)

Forgets(u) == Len(docs[u]) <= 1 /\ Forgotten(u)

\* Another user's steps do nothing to this one.
LEMMA OthersForget ==
  ASSUME Typed, NEW v \in Users, Forgets(v), docs'[v] = docs[v], rows'[v] = rows[v],
         NEW s \in Slots, \A t \in Slots \ {s} : calls'[t] = calls[t],
         calls[s] = Idle \/ calls[s].user # v, calls'[s] = Idle \/ calls'[s].user # v
  PROVE  Forgets(v)'
<1>1. \A t \in Slots : /\ t \in On(v) <=> (t \in On(v))'
                       /\ t \in On(v) => calls'[t] = calls[t]
  BY DEF On
<1>2. ASSUME NEW t \in On(v), In(t, "delete")
      PROVE  t \in On(v)' /\ In(t, "delete")'
  BY <1>1, <1>2 DEF In, On
<1>3. ASSUME \A t \in On(v) : ~Generating(t)
      PROVE  \A t \in On(v)' : ~Generating(t)'
  BY <1>1, <1>3 DEF Generating, Paging, In, On
<1>4. Forgotten(v)'
  BY <1>2, <1>3 DEF Forgets, Forgotten
<1> QED BY <1>4 DEF Forgets

LEMMA BeginsForget ==
  ASSUME Typed, NEW v \in Users, Forgets(v), NEW s \in Slots, NEW phase \in Phases,
         NEW u \in Users, Begin(s, phase, u), docs' = docs,
         \A w \in Users \ {u} : rows'[w] = rows[w],
         u = v => \/ rows'[u] = "alive"
                  \/ phase = "delete"
                  \/ phase = "read" /\ rows' = rows
  PROVE  Forgets(v)'
<1>1. /\ calls[s] = Idle /\ calls'[s] = Call(phase, u)
      /\ \A t \in Slots \ {s} : calls'[t] = calls[t]
  BY DEF Begin, Typed, TypeOK
<1>2. Call(phase, u) # Idle /\ Call(phase, u).user = u /\ Call(phase, u).phase = phase
  BY CallType
<1>3. CASE u # v
  BY <1>1, <1>2, <1>3, OthersForget
<1>4. CASE u = v
  <2>1. CASE rows'[u] = "alive"
    BY <1>4, <2>1 DEF Forgets, Forgotten
  <2>2. CASE phase = "delete"
    <3>1. (s \in On(v))' /\ In(s, "delete")'
      BY <1>1, <1>2, <1>4, <2>2 DEF On, In
    <3> QED BY <3>1 DEF Forgets, Forgotten
  <2>3. CASE phase = "read" /\ rows' = rows
    <3>1. ASSUME NEW t \in On(v), In(t, "delete")
          PROVE  t \in On(v)' /\ In(t, "delete")'
      BY <1>1, <3>1 DEF In, On
    <3>2. ASSUME \A t \in On(v) : ~Generating(t)
          PROVE  \A t \in On(v)' : ~Generating(t)'
      BY <1>1, <1>2, <2>3, <3>2 DEF Generating, Paging, In, On
    <3>3. Forgotten(v)'
      BY <2>3, <3>1, <3>2 DEF Forgets, Forgotten
    <3> QED BY <3>3 DEF Forgets
  <2> QED BY <1>4, <2>1, <2>2, <2>3
<1> QED BY <1>3, <1>4

LEMMA AskedForget ==
  ASSUME Typed, NEW v \in Users, v \notin excused', Forgets(v), NEW h \in Handlers,
         NEW u \in Users, SyncUser(h, u) \/ GetPostReco(h, u) \/ AnnounceDeletion(h, u)
  PROVE  Forgets(v)'
<1>1. h \in Slots
  BY DEF Slots
<1>2. CASE SyncUser(h, u)
  <2>1. Begin(h, "state", u) /\ docs' = docs /\ rows' = rows
    BY <1>2 DEF SyncUser, world
  <2>2. u = v => rows[u] = "alive"
    BY <1>2 DEF SyncUser, Excuse
  <2> QED BY <1>1, <2>1, <2>2, BeginsForget DEF Phases
<1>3. CASE GetPostReco(h, u)
  <2>1. Begin(h, "read", u) /\ docs' = docs /\ rows' = rows
    BY <1>3 DEF GetPostReco, world
  <2> QED BY <1>1, <2>1, BeginsForget DEF Phases
<1>4. CASE AnnounceDeletion(h, u)
  <2>1. docs' = docs /\ rows' = [rows EXCEPT ![u] = "leaving"]
    BY <1>4 DEF AnnounceDeletion
  <2>2. \A w \in Users \ {u} : rows'[w] = rows[w]
    BY <2>1
  <2>3. CASE Begin(h, "delete", u)
    BY <1>1, <2>1, <2>2, <2>3, BeginsForget DEF Phases
  <2>4. CASE Excuse({u}) /\ UNCHANGED calls
    <3>1. v # u
      BY <2>4 DEF Excuse
    <3>2. rows'[v] = rows[v] /\ docs'[v] = docs[v] /\ calls' = calls
      BY <2>1, <2>2, <2>4, <3>1
    <3> QED BY <3>2 DEF Forgets, Forgotten, On, In, Generating, Paging
  <2> QED BY <1>4, <2>3, <2>4 DEF AnnounceDeletion
<1> QED BY <1>2, <1>3, <1>4

LEMMA UserForget ==
  ASSUME Typed, NEW v \in Users, v \notin excused', Forgets(v), NEW u \in Users,
         UpdateUserRecoPost(u) \/ SoftDelete(u) \/ MatchesChange(u)
  PROVE  Forgets(v)'
<1>1. CASE UpdateUserRecoPost(u)
  <2>1. Begin(u, "state", u) /\ u \in Slots /\ docs' = docs /\ rows' = rows
    BY <1>1 DEF UpdateUserRecoPost, world, Slots
  <2>2. u = v => rows[u] = "alive"
    BY <1>1 DEF UpdateUserRecoPost, Excuse, Typed, TypeOK
  <2> QED BY <2>1, <2>2, BeginsForget DEF Phases
<1>2. CASE SoftDelete(u)
  <2>1. docs' = docs /\ calls' = calls /\ (rows[v] = "alive" => rows'[v] = "alive")
    BY <1>2 DEF SoftDelete, Typed, TypeOK
  <2> QED BY <2>1 DEF Forgets, Forgotten, On, In, Generating, Paging
<1>3. CASE MatchesChange(u)
  BY <1>3 DEF MatchesChange, Forgets, Forgotten, On, In, Generating, Paging
<1> QED BY <1>1, <1>2, <1>3

LEMMA ContinueForgets ==
  ASSUME Typed, NEW v \in Users, v \notin excused', Forgets(v), NEW s \in Slots, Continue(s)
  PROVE  Forgets(v)'
<1>1. PICK c, ds, places : StepOf(s, c, ds, places)
  BY Continues DEF Typed
<1>2. /\ rows' = rows /\ calls[s] # Idle /\ Of(s) \in Users
      /\ calls'[s] = c /\ \A t \in Slots \ {s} : calls'[t] = calls[t]
      /\ docs'[Of(s)] = ds /\ \A w \in Users \ {Of(s)} : docs'[w] = docs[w]
      /\ c # Idle => c.user = Of(s)
  <2>1. Of(s) \in Users /\ calls[s] # Idle
    BY <1>1, CallOf DEF StepOf, Typed
  <2> QED BY <1>1, <2>1 DEF StepOf, Typed, TypeOK, world
<1>3. CASE v # Of(s)
  BY <1>2, <1>3, OthersForget DEF Of
<1>4. CASE v = Of(s)
  <2>1. s \in On(v)
    BY <1>2, <1>4 DEF On, Of
  <2>2. ASSUME NEW t \in On(v), In(t, "delete"), t # s
        PROVE  t \in On(v)' /\ In(t, "delete")'
    BY <1>2, <2>2 DEF In, On
  <2>3. CASE \/ ReadState(s) \/ CountMatches(s) \/ SetState(s) \/ InsertState(s)
             \/ ReadWindow(s) \/ SaveReco(s) \/ InsertReco(s)
    <3>1. PICK cg, dg, pg : GeneratingStep(s, cg, dg, pg)
      BY <2>3, Generates DEF Typed
    <3>2. Generating(s) /\ ~In(s, "delete")
      BY <3>1 DEF GeneratingStep, Generating
    <3>3. Len(docs'[v]) <= 1
      <4>1. docs'[v] = dg
        BY <1>2, <1>4, <3>1 DEF GeneratingStep, StepOf, Typed, TypeOK
      <4> QED BY <1>4, <3>1, <4>1 DEF GeneratingStep, Generated, Forgets
    <3>4. Forgotten(v)'
      BY <1>2, <2>1, <2>2, <3>2 DEF Forgets, Forgotten
    <3> QED BY <3>3, <3>4 DEF Forgets
  <2>4. CASE ReadPage(s) \/ Advance(s)
    <3>1. /\ ~In(s, "delete")
          /\ docs'[v] = <<>> <=> docs[v] = <<>>
          /\ Len(docs'[v]) = Len(docs[v])
          /\ calls'[s] # Idle => calls'[s].phase = "advance"
      <4>1. CASE ReadPage(s)
        <5>1. docs' = docs /\ In(s, "read")
          BY <4>1 DEF ReadPage
        <5>2. calls'[s] # Idle => calls'[s].phase = "advance"
          <6>1. PICK cp, dp, pp : StepOf(s, cp, dp, pp) /\ (cp = Idle \/ cp.phase = "advance")
            BY <4>1, ReadPageStep DEF Typed
          <6>2. calls'[s] = cp
            BY <6>1 DEF StepOf, Typed, TypeOK
          <6> QED BY <6>1, <6>2
        <5> QED BY <5>1, <5>2 DEF In
      <4>2. CASE Advance(s)
        <5>1. PICK da : /\ StepOf(s, Idle, da, shown[Of(s)])
                        /\ docs[Of(s)] = <<>> => da = <<>>
                        /\ docs[Of(s)] # <<>> => da # <<>> /\ Len(da) = Len(docs[Of(s)])
          BY <4>2, AdvanceStep DEF Typed
        <5>2. docs'[v] = da /\ calls'[s] = Idle
          BY <1>2, <1>4, <5>1 DEF StepOf, Typed, TypeOK
        <5>3. ~In(s, "delete")
          BY <4>2 DEF Advance, In
        <5> QED BY <1>4, <5>1, <5>2, <5>3
      <4> QED BY <2>4, <4>1, <4>2
    <3>2. ASSUME \A t \in On(v) : ~Generating(t)
          PROVE  \A t \in On(v)' : ~Generating(t)'
      BY <1>2, <3>1, <3>2 DEF Generating, Paging, In, On
    <3>3. Forgotten(v)'
      BY <1>2, <2>2, <3>1, <3>2 DEF Forgets, Forgotten
    <3> QED BY <3>1, <3>3 DEF Forgets
  <2>5. CASE Delete(s)
    <3>1. /\ v \notin excused \cup (IF \E t \in On(v) : Generating(t) THEN {v} ELSE {})
          /\ StepOf(s, Idle, IF docs[v] = <<>> THEN <<>> ELSE Tail(docs[v]), {})
      BY <1>4, <2>5, DeleteStep DEF Typed
    <3>2. \A t \in On(v) : ~Generating(t)
      BY <3>1
    <3>3. docs[v] \in Seq(Doc) /\ Len(docs[v]) <= 1
      BY Same DEF Typed, Forgets
    <3>4. (IF docs[v] = <<>> THEN <<>> ELSE Tail(docs[v])) = <<>>
      BY <3>3
    <3>5. docs'[v] = <<>> /\ calls'[s] = Idle
      BY <1>2, <1>4, <3>1, <3>4 DEF StepOf, Typed, TypeOK
    <3>6. \A t \in On(v)' : ~Generating(t)'
      BY <1>2, <3>2, <3>5 DEF Generating, Paging, In, On
    <3> QED BY <3>5, <3>6 DEF Forgets, Forgotten
  <2> QED BY <2>3, <2>4, <2>5 DEF Continue
<1> QED BY <1>3, <1>4

LEMMA FailuresForget ==
  ASSUME Typed, NEW v \in Users, v \notin excused', Forgets(v),
         Stop \/ \E s \in Slots : GenerateFails(s)
  PROVE  Forgets(v)'
<1>1. rows' = rows /\ docs' = docs
  BY DEF Stop, GenerateFails, world
<1>2. ASSUME \A s \in Slots : calls'[s] = Idle, \A s \in On(v) : ~In(s, "delete")
      PROVE  Forgets(v)'
  BY <1>1, <1>2 DEF Forgets, Forgotten, On
<1>3. CASE Stop
  <2>1. \A s \in On(v) : ~In(s, "delete")
    <3>1. excused' = excused \cup {Of(s) : s \in {t \in Slots : In(t, "delete")}}
      BY <1>3 DEF Stop, Excuse
    <3> QED BY <3>1 DEF On, Of
  <2>2. \A s \in Slots : calls'[s] = Idle
    BY <1>3 DEF Stop
  <2> QED BY <2>1, <2>2, <1>2
<1>4. ASSUME NEW s \in Slots, GenerateFails(s)
      PROVE  Forgets(v)'
  <2>1. Generating(s)
    BY <1>4 DEF GenerateFails
  <2>2. CASE process = "filling"
    <3>1. \A t \in Slots : calls'[t] = Idle
      BY <1>4, <2>2 DEF GenerateFails
    <3>2. \A t \in On(v) : ~In(t, "delete")
      BY <2>2 DEF Typed, WorkFits, Generating, On
    <3> QED BY <3>1, <3>2, <1>2
  <2>3. CASE process # "filling"
    <3>1. calls'[s] = Idle /\ \A t \in Slots \ {s} : calls'[t] = calls[t]
      BY <1>4, <2>3 DEF GenerateFails, End, Typed, TypeOK
    <3>2. ASSUME NEW t \in On(v), In(t, "delete")
          PROVE  t \in On(v)' /\ In(t, "delete")'
      BY <2>1, <3>1, <3>2 DEF In, On, Generating
    <3>3. ASSUME \A t \in On(v) : ~Generating(t)
          PROVE  \A t \in On(v)' : ~Generating(t)'
      BY <3>1, <3>3 DEF Generating, Paging, In, On
    <3>4. Forgotten(v)'
      BY <1>1, <3>2, <3>3 DEF Forgets, Forgotten
    <3> QED BY <1>1, <3>4 DEF Forgets
  <2> QED BY <2>2, <2>3
<1> QED BY <1>3, <1>4

LEMMA BootingForgets ==
  ASSUME Typed, NEW v \in Users, v \notin excused', Forgets(v), Booting
  PROVE  Forgets(v)'
<1>1. CASE Boot \/ FindMark \/ CreateMark \/ Listen
  <2>1. rows' = rows /\ docs' = docs /\ calls' = calls
    BY <1>1 DEF Boot, FindMark, CreateMark, Listen, world
  <2> QED BY <2>1 DEF Forgets, Forgotten, On, In, Generating, Paging
<1>2. CASE GenerateForAllUser
  <2>1. rows' = rows /\ docs' = docs
    BY <1>2 DEF GenerateForAllUser, world
  <2>2. \A s \in Slots : calls[s] = Idle
    BY <1>2 DEF GenerateForAllUser, Typed, WorkFits
  <2>3. CASE rows[v] = "alive"
    BY <2>1, <2>3 DEF Forgets, Forgotten
  <2>4. CASE rows[v] = "gone"
    <3>1. docs[v] = <<>>
      BY <2>2, <2>4 DEF Forgets, Forgotten, On
    <3>2. ASSUME NEW s \in Slots
          PROVE  calls'[s] = Idle \/ calls'[s].user # v
      <4>1. CASE s \in Users /\ rows[s] # "gone"
        <5>1. calls'[s] = Call("state", s)
          BY <1>2, <4>1 DEF GenerateForAllUser
        <5>2. calls'[s].user = s
          BY <4>1, <5>1, CallType DEF Phases
        <5> QED BY <2>4, <4>1, <5>2
      <4>2. CASE ~(s \in Users /\ rows[s] # "gone")
        BY <1>2, <4>2 DEF GenerateForAllUser
      <4> QED BY <4>1, <4>2
    <3>3. On(v)' = {}
      BY <3>2 DEF On
    <3> QED BY <2>1, <3>1, <3>3 DEF Forgets, Forgotten
  <2>5. rows[v] # "leaving"
    BY <1>2 DEF GenerateForAllUser, Excuse
  <2> QED BY <2>3, <2>4, <2>5 DEF Typed, TypeOK
<1> QED BY <1>1, <1>2 DEF Booting

LEMMA ExcusesStay ==
  ASSUME Typed, Next
  PROVE  excused \subseteq excused' /\ jumped \subseteq jumped'
<1>1. ASSUME NEW s \in Slots, Continue(s)
      PROVE  excused \subseteq excused' /\ jumped \subseteq jumped'
  BY <1>1, Continues DEF Typed, StepOf
<1> QED BY <1>1 DEF Next, SyncUser, GetPostReco, AnnounceDeletion, UpdateUserRecoPost,
       SoftDelete, MatchesChange, GenerateFails, Booting, Boot, FindMark, CreateMark,
       GenerateForAllUser, Listen, Stop, Excuse, Jump, history

LEMMA DeletionsInvInductive == DeletionsInv /\ [Next]_vars => DeletionsInv'
<1> SUFFICES ASSUME DeletionsInv, [Next]_vars
             PROVE  DeletionsInv'
  OBVIOUS
<1>1. Typed /\ Typed'
  BY NextTyped DEF DeletionsInv
<1>2. ASSUME NEW v \in Users, v \notin excused'
      PROVE  Forgets(v)'
  <2>1. CASE Next
    <3>1. Forgets(v)
      BY <1>1, <1>2, <2>1, ExcusesStay DEF DeletionsInv, Forgets
    <3> QED BY <1>1, <1>2, <2>1, <3>1, AskedForget, UserForget, ContinueForgets,
               FailuresForget, BootingForgets DEF Next
  <2>2. CASE UNCHANGED vars
    BY <1>2, <2>2 DEF vars, world, history, DeletionsInv, Forgets, Forgotten, On, In,
       Generating, Paging
  <2> QED BY <2>1, <2>2
<1> QED BY <1>1, <1>2 DEF DeletionsInv, Forgets

\* A deleted user has no list, unless one was being made when the deletion
\* was handled, was stored twice or asked for later, or the event was lost.
\* (post-recommendation.controller.ts, PostRecommendationService.delete)
THEOREM DeletedHaveNoList == Spec => []DeletedLeavesNoList
<1>1. Init => DeletionsInv
  <2> SUFFICES ASSUME Init
               PROVE  DeletionsInv
    OBVIOUS
  <2>1. \A u \in Users : Len(docs[u]) <= 1 /\ rows[u] = "alive"
    BY DEF Init
  <2> QED BY <2>1, InitTyped DEF DeletionsInv, Forgotten
<1>2. DeletionsInv => DeletedLeavesNoList
  BY DEF DeletionsInv, Forgotten, DeletedLeavesNoList
<1> QED BY <1>1, <1>2, DeletionsInvInductive, PTL DEF Spec

-----------------------------------------------------------------------------
(* Pages are read in order.                                                *)

Follows(u) == Alone(u) /\ OthersUnread(u) /\ Followed(u)

\* A page goes on where the posts shown so far end.
LEMMA PageGoesOn ==
  ASSUME NEW doc \in Doc, NEW read, read = 1 .. Least(doc.start, Count(doc.list))
  PROVE  Page(doc) \cup (IF Place(doc) = 0 THEN {} ELSE read)
           = 1 .. Least(Place(doc) + Limit, Count(doc.list))
<1> DEFINE n == Count(doc.list)
           p == Place(doc)
           k == Least(Limit, n - p)
           e == Least(p + Limit, n)
<1>1. n \in Nat /\ doc.start \in Nat /\ Limit \in Nat \ {0}
  BY PostRecommendationAssumption DEF Doc, Lists, Count
<1>2. p \in Nat /\ p <= n /\ (p # 0 => p = Least(doc.start, n))
  BY <1>1 DEF Place, Least
<1>3. Page(doc) = {p + i : i \in 1 .. k}
  BY DEF Page
<1> HIDE DEF n, p
<1>4. k \in Nat /\ p + k = e
  BY <1>1, <1>2 DEF Least
<1> HIDE DEF k, e
<1>5. \A x : x \in Page(doc) <=> x \in (p + 1) .. e
  <2>1. ASSUME NEW x \in Page(doc)
        PROVE  x \in (p + 1) .. e
    <3>1. PICK i \in 1 .. k : x = p + i
      BY <1>3
    <3> QED BY <1>2, <1>4, <3>1
  <2>2. ASSUME NEW x \in (p + 1) .. e
        PROVE  x \in Page(doc)
    <3>1. x - p \in 1 .. k /\ x = p + (x - p)
      BY <1>2, <1>4
    <3> QED BY <1>3, <3>1
  <2> QED BY <2>1, <2>2
<1>6. (IF p = 0 THEN {} ELSE read) = 1 .. p
  BY <1>1, <1>2 DEF n
<1>7. \A x : x \in 1 .. e <=> x \in (p + 1) .. e \/ x \in 1 .. p
  BY <1>2, <1>4
<1>8. \A x : x \in 1 .. e <=> x \in Page(doc) \cup (IF p = 0 THEN {} ELSE read)
  BY <1>5, <1>6, <1>7
<1> QED BY <1>8 DEF p, e, n

\* Where nobody reads a page, nothing is left to follow.
LEMMA NobodyReads ==
  ASSUME Typed, NEW v \in Users, Follows(v), docs'[v] = docs[v], shown'[v] = shown[v],
         \A s \in On(v) : ~Paging(s), \A s \in On(v)' : ~Paging(s)'
  PROVE  Follows(v)'
<1>1. Alone(v)'
  BY DEF Alone
<1>2. OthersUnread(v)'
  BY DEF Follows, OthersUnread
<1>3. \A s \in On(v) : ~In(s, "advance")
  BY DEF Paging
<1>4. \A s \in On(v)' : ~In(s, "advance")'
  BY DEF Paging
<1>5. Followed(v)'
  BY <1>3, <1>4 DEF Follows, Followed, ReadUpTo
<1> QED BY <1>1, <1>2, <1>5 DEF Follows

\* Another user's steps do nothing to this one, and a deletion that begins or
\* a generation that ends do nothing to who reads.
LEMMA OthersFollow ==
  ASSUME Typed, NEW v \in Users, Follows(v), docs'[v] = docs[v], shown'[v] = shown[v],
         NEW s \in Slots, \A t \in Slots \ {s} : calls'[t] = calls[t],
         calls[s] = Idle \/ calls[s].user # v \/ Generating(s),
         calls'[s] = Idle \/ calls'[s].user # v \/ calls'[s].phase = "delete"
  PROVE  Follows(v)'
<1>1. \A t \in On(v) : Paging(t) => t # s
  BY DEF On, Generating, Paging, In
<1>2. ASSUME NEW t \in On(v)', t # s
      PROVE  t \in On(v) /\ calls'[t] = calls[t]
  BY <1>2 DEF On
<1>3. ASSUME NEW t \in On(v), t # s
      PROVE  t \in On(v)' /\ calls'[t] = calls[t]
  BY <1>3 DEF On
<1>4. ASSUME s \in On(v)'
      PROVE  In(s, "delete")'
  BY <1>4 DEF On, In
<1>5. Alone(v)'
  <2> SUFFICES ASSUME NEW x \in On(v)', NEW y \in On(v)', Paging(x)'
               PROVE  y = x \/ In(y, "delete")'
    BY DEF Alone
  <2>1. x # s
    BY <1>4 DEF Paging, In
  <2>2. x \in On(v) /\ Paging(x)
    BY <2>1, <1>2 DEF Paging, In
  <2>3. CASE y = s
    BY <2>3, <1>4
  <2>4. CASE y # s
    <3>1. y \in On(v) /\ calls'[y] = calls[y]
      BY <2>4, <1>2
    <3>2. y = x \/ In(y, "delete")
      BY <2>2, <3>1 DEF Follows, Alone
    <3> QED BY <3>1, <3>2 DEF In
  <2> QED BY <2>3, <2>4
<1>6. OthersUnread(v)'
  BY DEF Follows, OthersUnread
<1>7. ASSUME NEW t \in On(v), In(t, "advance")
      PROVE  t \in On(v)' /\ In(t, "advance")' /\ calls'[t] = calls[t]
  BY <1>7, <1>1, <1>3 DEF Paging, In
<1>8. ASSUME NEW t \in On(v)', In(t, "advance")'
      PROVE  t \in On(v) /\ In(t, "advance") /\ calls'[t] = calls[t]
  <2>1. t # s
    BY <1>8, <1>4 DEF In
  <2> QED BY <2>1, <1>8, <1>2 DEF In
<1>9. Followed(v)'
  <2>1. docs[v] # <<>> /\ (\A t \in On(v)' : ~In(t, "advance")')
          => ReadUpTo(v, docs[v][1].start)'
    BY <1>7 DEF Follows, Followed, ReadUpTo
  <2>2. ASSUME docs[v] # <<>>, NEW t \in On(v)', In(t, "advance")'
        PROVE  ReadUpTo(v, calls[t].next)'
    BY <1>8, <2>2 DEF Follows, Followed, ReadUpTo
  <2> QED BY <2>1, <2>2 DEF Follows, Followed
<1> QED BY <1>5, <1>6, <1>9 DEF Follows

LEMMA BeginsFollow ==
  ASSUME Typed, NEW v \in Users, Follows(v), NEW s \in Slots, NEW phase \in Phases,
         NEW u \in Users, Begin(s, phase, u), UNCHANGED <<docs, shown>>,
         u = v => \/ phase = "delete"
                  \/ phase = "state" /\ \A t \in On(v) : ~Paging(t)
                  \/ phase = "read" /\ On(v) = {}
  PROVE  Follows(v)'
<1>1. /\ calls[s] = Idle /\ calls'[s] = Call(phase, u)
      /\ \A t \in Slots \ {s} : calls'[t] = calls[t]
  BY DEF Begin, Typed, TypeOK
<1>2. Call(phase, u) # Idle /\ Call(phase, u).user = u /\ Call(phase, u).phase = phase
  BY CallType
<1>3. CASE u # v \/ phase = "delete"
  BY <1>1, <1>2, <1>3, OthersFollow
<1>4. CASE u = v /\ phase = "state" /\ \A t \in On(v) : ~Paging(t)
  <2>1. \A t \in On(v)' : ~Paging(t)'
    BY <1>1, <1>2, <1>4 DEF On, Paging, In
  <2> QED BY <1>4, <2>1, NobodyReads
<1>5. CASE u = v /\ phase = "read" /\ On(v) = {}
  <2>1. On(v)' = {s}
    BY <1>1, <1>2, <1>5 DEF On
  <2>2. Alone(v)'
    BY <2>1 DEF Alone
  <2>3. OthersUnread(v)'
    BY DEF Follows, OthersUnread
  <2>4. ~In(s, "advance")'
    BY <1>1, <1>2, <1>5 DEF In
  <2>5. docs[v] # <<>> => ReadUpTo(v, docs[v][1].start)'
    BY <1>5 DEF Follows, Followed, ReadUpTo
  <2>6. Followed(v)'
    BY <2>1, <2>4, <2>5 DEF Follows, Followed
  <2> QED BY <2>2, <2>3, <2>6 DEF Follows
<1> QED BY <1>3, <1>4, <1>5

LEMMA AskedFollow ==
  ASSUME Typed, NEW v \in Users, v \notin jumped', Follows(v), NEW h \in Handlers,
         NEW u \in Users, SyncUser(h, u) \/ GetPostReco(h, u) \/ AnnounceDeletion(h, u)
  PROVE  Follows(v)'
<1>1. h \in Slots
  BY DEF Slots
<1>2. CASE SyncUser(h, u)
  <2>1. Begin(h, "state", u) /\ UNCHANGED <<docs, shown>>
    BY <1>2 DEF SyncUser
  <2>2. u = v => \A t \in On(v) : ~Paging(t)
    BY <1>2 DEF SyncUser, Jump
  <2> QED BY <1>1, <2>1, <2>2, BeginsFollow DEF Phases
<1>3. CASE GetPostReco(h, u)
  <2>1. Begin(h, "read", u) /\ UNCHANGED <<docs, shown>>
    BY <1>3 DEF GetPostReco
  <2>2. u = v => On(v) = {}
    BY <1>3 DEF GetPostReco, Jump
  <2> QED BY <1>1, <2>1, <2>2, BeginsFollow DEF Phases
<1>4. CASE AnnounceDeletion(h, u)
  <2>1. UNCHANGED <<docs, shown>>
    BY <1>4 DEF AnnounceDeletion
  <2>2. CASE Begin(h, "delete", u)
    BY <1>1, <2>1, <2>2, BeginsFollow DEF Phases
  <2>3. CASE UNCHANGED calls
    BY <2>1, <2>3 DEF Follows, Alone, OthersUnread, Followed, ReadUpTo, On, In, Paging
  <2> QED BY <1>4, <2>2, <2>3 DEF AnnounceDeletion
<1> QED BY <1>2, <1>3, <1>4

LEMMA UserFollows ==
  ASSUME Typed, NEW v \in Users, v \notin jumped', Follows(v), NEW u \in Users,
         UpdateUserRecoPost(u) \/ SoftDelete(u) \/ MatchesChange(u)
  PROVE  Follows(v)'
<1>1. CASE UpdateUserRecoPost(u)
  <2>1. Begin(u, "state", u) /\ u \in Slots /\ UNCHANGED <<docs, shown>>
    BY <1>1 DEF UpdateUserRecoPost, Slots
  <2>2. u = v => \A t \in On(v) : ~Paging(t)
    BY <1>1 DEF UpdateUserRecoPost, Jump
  <2> QED BY <2>1, <2>2, BeginsFollow DEF Phases
<1>2. CASE SoftDelete(u) \/ MatchesChange(u)
  <2>1. UNCHANGED <<docs, shown, calls>>
    BY <1>2 DEF SoftDelete, MatchesChange, history
  <2> QED BY <2>1 DEF Follows, Alone, OthersUnread, Followed, ReadUpTo, On, In, Paging
<1> QED BY <1>1, <1>2

\* A generation begins the list, keeps it, or stores a second one.
LEMMA GenerationFollows ==
  ASSUME Typed, TypeOK', NEW v \in Users, v \notin jumped', Follows(v), NEW s \in Slots,
         NEW c, NEW ds, NEW places, GeneratingStep(s, c, ds, places), v = Of(s)
  PROVE  Follows(v)'
<1>1. /\ s \in On(v) /\ calls'[s] = c /\ \A t \in Slots \ {s} : calls'[t] = calls[t]
      /\ docs'[v] = ds /\ shown'[v] = places
  BY DEF GeneratingStep, StepOf, On, Of, Typed, TypeOK
<1>2. \A t \in On(v) : ~Paging(t)
  <2>1. ~Paging(s) /\ ~In(s, "delete")
    BY DEF GeneratingStep, Generating
  <2> QED BY <1>1, <2>1 DEF Follows, Alone
<1>3. \A t \in On(v)' : ~Paging(t)'
  <2>1. ASSUME NEW t \in On(v)', t # s
        PROVE  ~Paging(t)'
    BY <1>1, <1>2, <2>1 DEF On, Paging, In
  <2>2. ASSUME s \in On(v)'
        PROVE  ~Paging(s)'
    BY <1>1, <2>2 DEF GeneratingStep, GeneratingPhases, On, Paging, In
  <2> QED BY <2>1, <2>2
<1>4. Alone(v)'
  BY <1>3 DEF Alone
<1>5. OthersUnread(v)'
  BY <1>1 DEF GeneratingStep, Generated, Follows, OthersUnread
<1>6. \A t \in On(v)' : ~In(t, "advance")'
  BY <1>3 DEF Paging
<1>7. \A t \in On(v) : ~In(t, "advance")
  BY <1>2 DEF Paging
<1>8. /\ docs[v] = <<>> => shown[v] = {}
      /\ docs[v] # <<>> => shown[v] = 1 .. Least(docs[v][1].start, Count(docs[v][1].list))
  BY <1>7 DEF Follows, Followed, ReadUpTo
<1>9. ASSUME ds # <<>>, ds[1].start = 0
      PROVE  1 .. Least(ds[1].start, Count(ds[1].list)) = {}
  <2>1. ds[1] \in Doc
    BY <1>9 DEF GeneratingStep, StepOf
  <2>2. Count(ds[1].list) \in Nat
    BY <2>1, PostRecommendationAssumption DEF Doc, Lists, Count
  <2>3. Least(ds[1].start, Count(ds[1].list)) = 0
    BY <1>9, <2>2 DEF Least
  <2> QED BY <2>3
<1>10. /\ ds = <<>> => places = {}
       /\ ds # <<>> => places = 1 .. Least(ds[1].start, Count(ds[1].list))
  <2>1. CASE ds = docs[v] /\ places = shown[v]
    BY <1>8, <2>1
  <2>2. CASE places = {} /\ (ds # <<>> => ds[1].start = 0)
    BY <1>9, <2>2
  <2>3. CASE docs[v] = <<>> /\ places = shown[v] /\ ds[1].start = 0
    BY <1>8, <1>9, <2>3
  <2>4. CASE /\ docs[v] # <<>> /\ ds # <<>> /\ places = shown[v]
             /\ ds[1].list = docs[v][1].list /\ ds[1].start = docs[v][1].start
    BY <1>8, <2>4
  <2> QED BY <2>1, <2>2, <2>3, <2>4 DEF GeneratingStep, Generated
<1>11. Followed(v)'
  BY <1>1, <1>6, <1>10 DEF Followed, ReadUpTo
<1> QED BY <1>4, <1>5, <1>11 DEF Follows

LEMMA ReadPageFollows ==
  ASSUME Typed, NEW v \in Users, v \notin jumped', Follows(v), NEW s \in Slots,
         ReadPage(s), v = Of(s)
  PROVE  Follows(v)'
<1>1. In(s, "read") /\ jumped' = jumped
  BY ReadPageStep DEF Typed
<1>2. s \in On(v) /\ \A t \in On(v) : t # s => In(t, "delete")
  BY <1>1 DEF On, Of, In, Paging, Follows, Alone
<1>3. \A t \in On(v) : ~In(t, "advance")
  BY <1>1, <1>2 DEF In
<1>4. CASE docs[v] = <<>>
  <2>1. calls'[s] = Idle /\ \A t \in Slots \ {s} : calls'[t] = calls[t]
    BY <1>4 DEF ReadPage, End, Typed, TypeOK
  <2>2. docs'[v] = docs[v] /\ shown'[v] = shown[v]
    BY <1>4 DEF ReadPage
  <2>3. \A t \in On(v)' : In(t, "delete")'
    BY <1>2, <2>1 DEF On, In
  <2>4. Alone(v)'
    BY <2>3 DEF Alone
  <2>5. OthersUnread(v)' /\ Followed(v)'
    BY <1>4, <2>2 DEF OthersUnread, Follows, Followed
  <2> QED BY <2>4, <2>5 DEF Follows
<1>5. CASE docs[v] # <<>>
  <2> DEFINE doc == docs[v][1]
             places == Page(doc) \cup (IF Place(doc) = 0 THEN {} ELSE shown[v])
  <2>1. PICK c : /\ c.phase = "advance" /\ c.next = Place(doc) + Limit /\ c # Idle
                 /\ StepOf(s, c, docs[v], IF v \in jumped THEN {} ELSE places)
    BY <1>5, ReadPageStep DEF Typed
  <2>2. /\ calls'[s] = c /\ \A t \in Slots \ {s} : calls'[t] = calls[t]
        /\ docs'[v] = docs[v] /\ shown'[v] = places /\ c.user = v
    BY <1>1, <2>1 DEF StepOf, Typed, TypeOK
  <2>3. doc \in Doc
    <3>1. docs[v] \in Seq(Doc)
      BY Same DEF Typed
    <3> QED BY <1>5, <3>1
  <2>4. shown[v] = 1 .. Least(doc.start, Count(doc.list))
    BY <1>3, <1>5 DEF Follows, Followed, ReadUpTo
  <2>5. places = 1 .. Least(Place(doc) + Limit, Count(doc.list))
    BY <2>3, <2>4, PageGoesOn
  <2> HIDE DEF doc, places
  <2>6. \A t \in On(v)' : t # s => In(t, "delete")'
    BY <1>2, <2>2 DEF On, In
  <2>7. s \in On(v)' /\ In(s, "advance")'
    BY <2>1, <2>2 DEF On, In
  <2>8. Alone(v)'
    BY <2>6 DEF Alone, Paging, In
  <2>9. OthersUnread(v)'
    BY <2>2 DEF Follows, OthersUnread
  <2>10. ASSUME NEW t \in On(v)', In(t, "advance")'
         PROVE  ReadUpTo(v, calls[t].next)'
    <3>1. t = s
      BY <2>6, <2>10 DEF In
    <3> QED BY <2>1, <2>2, <2>5, <3>1 DEF ReadUpTo, doc
  <2>11. Followed(v)'
    BY <1>5, <2>2, <2>7, <2>10 DEF Followed
  <2> QED BY <2>8, <2>9, <2>11 DEF Follows
<1> QED BY <1>4, <1>5

LEMMA AdvanceFollows ==
  ASSUME Typed, NEW v \in Users, v \notin jumped', Follows(v), NEW s \in Slots,
         Advance(s), v = Of(s)
  PROVE  Follows(v)'
<1>1. In(s, "advance")
  BY AdvanceStep DEF Typed
<1>2. s \in On(v) /\ \A t \in On(v) : t # s => In(t, "delete")
  BY <1>1 DEF On, Of, In, Paging, Follows, Alone
<1>3. PICK ds : /\ StepOf(s, Idle, ds, shown[v])
                /\ docs[v] = <<>> => ds = <<>>
                /\ docs[v] # <<>> =>
                     /\ ds # <<>> /\ Len(ds) = Len(docs[v])
                     /\ \A i \in 2 .. Len(ds) : ds[i] = docs[v][i]
                     /\ ds[1].list = docs[v][1].list
                     /\ ds[1].start = calls[s].next
  BY AdvanceStep DEF Typed
<1>4. /\ calls'[s] = Idle /\ \A t \in Slots \ {s} : calls'[t] = calls[t]
      /\ docs'[v] = ds /\ shown'[v] = shown[v]
  BY <1>3 DEF StepOf, Typed, TypeOK
<1>5. \A t \in On(v)' : In(t, "delete")'
  BY <1>2, <1>4 DEF On, In
<1>6. Alone(v)'
  BY <1>5 DEF Alone
<1>7. OthersUnread(v)'
  <2>1. CASE docs[v] = <<>>
    BY <1>3, <1>4, <2>1 DEF OthersUnread
  <2>2. CASE docs[v] # <<>>
    BY <1>3, <1>4, <2>2 DEF Follows, OthersUnread
  <2> QED BY <2>1, <2>2
<1>8. docs[v] # <<>> => ReadUpTo(v, calls[s].next)
  BY <1>1, <1>2 DEF Follows, Followed
<1>9. \A t \in On(v)' : ~In(t, "advance")'
  BY <1>5 DEF In
<1>10. ds = <<>> => docs[v] = <<>>
  BY <1>3
<1>11. ds # <<>> => shown'[v] = 1 .. Least(ds[1].start, Count(ds[1].list))
  BY <1>3, <1>4, <1>8 DEF ReadUpTo
<1>12. ds = <<>> => shown'[v] = {}
  BY <1>4, <1>10 DEF Follows, Followed
<1>13. Followed(v)'
  BY <1>4, <1>9, <1>11, <1>12 DEF Followed, ReadUpTo
<1> QED BY <1>6, <1>7, <1>13 DEF Follows

LEMMA DeleteFollows ==
  ASSUME Typed, NEW v \in Users, v \notin jumped', Follows(v), NEW s \in Slots,
         Delete(s), v = Of(s)
  PROVE  Follows(v)'
<1> DEFINE ds == IF docs[v] = <<>> THEN <<>> ELSE Tail(docs[v])
<1>1. /\ jumped' = jumped \cup (IF On(v) = {s} THEN {} ELSE {v})
      /\ StepOf(s, Idle, ds, {})
  BY DeleteStep DEF Typed
<1>2. On(v) = {s}
  BY <1>1
<1>3. docs[v] \in Seq(Doc)
  BY Same DEF Typed
<1>4. /\ Len(ds) \in Nat /\ ds \in Seq(Doc)
      /\ \A i \in 1 .. Len(ds) : i + 1 \in 2 .. Len(docs[v]) /\ ds[i] = docs[v][i + 1]
  BY <1>3
<1> HIDE DEF ds
<1>5. \A i \in 1 .. Len(ds) : ds[i].start = 0
  BY <1>4 DEF Follows, OthersUnread
<1>6. /\ calls'[s] = Idle /\ \A t \in Slots \ {s} : calls'[t] = calls[t]
      /\ docs'[v] = ds /\ shown'[v] = {}
  BY <1>1 DEF StepOf, Typed, TypeOK
<1>7. On(v)' = {}
  BY <1>2, <1>6 DEF On
<1>8. ds # <<>> => 1 .. Least(ds[1].start, Count(ds[1].list)) = {}
  <2> SUFFICES ASSUME ds # <<>>
               PROVE  1 .. Least(ds[1].start, Count(ds[1].list)) = {}
    OBVIOUS
  <2>1. ds[1] \in Doc /\ 1 \in 1 .. Len(ds)
    BY <1>4
  <2>2. ds[1].start = 0
    BY <1>5, <2>1
  <2>3. Count(ds[1].list) \in Nat
    BY <2>1, PostRecommendationAssumption DEF Doc, Lists, Count
  <2>4. Least(ds[1].start, Count(ds[1].list)) = 0
    BY <2>2, <2>3 DEF Least
  <2> QED BY <2>4
<1>9. Alone(v)'
  BY <1>7 DEF Alone
<1>10. OthersUnread(v)'
  BY <1>4, <1>5, <1>6 DEF OthersUnread
<1>11. Followed(v)'
  BY <1>6, <1>7, <1>8 DEF Followed, ReadUpTo
<1> QED BY <1>9, <1>10, <1>11 DEF Follows

LEMMA ContinueFollows ==
  ASSUME Typed, NEW v \in Users, v \notin jumped', Follows(v), NEW s \in Slots, Continue(s)
  PROVE  Follows(v)'
<1>1. PICK c, ds, places : StepOf(s, c, ds, places)
  BY Continues DEF Typed
<1>2. CASE v # Of(s)
  <2>1. Of(s) \in Users /\ calls[s] # Idle
    BY <1>1, CallOf DEF StepOf, Typed
  <2>2. /\ docs'[v] = docs[v] /\ shown'[v] = shown[v]
        /\ \A t \in Slots \ {s} : calls'[t] = calls[t]
        /\ calls[s].user # v /\ (calls'[s] = Idle \/ calls'[s].user # v)
    BY <1>1, <1>2, <2>1 DEF StepOf, Typed, TypeOK, Of
  <2> QED BY <2>2, OthersFollow
<1>3. CASE v = Of(s)
  <2>1. CASE \/ ReadState(s) \/ CountMatches(s) \/ SetState(s) \/ InsertState(s)
             \/ ReadWindow(s) \/ SaveReco(s) \/ InsertReco(s)
    <3>1. PICK cg, dg, pg : GeneratingStep(s, cg, dg, pg)
      BY <2>1, Generates DEF Typed
    <3>2. TypeOK'
      BY <1>1, StepTyped DEF Typed
    <3> QED BY <1>3, <3>1, <3>2, GenerationFollows
  <2> QED BY <1>3, <2>1, ReadPageFollows, AdvanceFollows, DeleteFollows DEF Continue
<1> QED BY <1>2, <1>3

LEMMA FailuresFollow ==
  ASSUME Typed, NEW v \in Users, v \notin jumped', Follows(v),
         Stop \/ \E s \in Slots : GenerateFails(s)
  PROVE  Follows(v)'
<1>1. docs' = docs /\ shown' = shown
  BY DEF Stop, GenerateFails, history
<1>2. ASSUME \A s \in Slots : calls'[s] = Idle, \A s \in On(v) : ~Paging(s)
      PROVE  Follows(v)'
  <2>1. On(v)' = {}
    BY <1>2 DEF On
  <2> QED BY <1>1, <1>2, <2>1, NobodyReads
<1>3. CASE Stop
  <2>1. \A s \in On(v) : ~Paging(s)
    <3>1. jumped' = jumped \cup {Of(s) : s \in {t \in Slots : Paging(t)}}
      BY <1>3 DEF Stop, Jump
    <3> QED BY <3>1 DEF On, Of
  <2>2. \A s \in Slots : calls'[s] = Idle
    BY <1>3 DEF Stop
  <2> QED BY <2>1, <2>2, <1>2
<1>4. ASSUME NEW s \in Slots, GenerateFails(s)
      PROVE  Follows(v)'
  <2>1. Generating(s)
    BY <1>4 DEF GenerateFails
  <2>2. CASE process = "filling"
    <3>1. \A t \in Slots : calls'[t] = Idle
      BY <1>4, <2>2 DEF GenerateFails
    <3>2. \A t \in On(v) : ~Paging(t)
      BY <2>2 DEF Typed, WorkFits, Generating, On
    <3> QED BY <3>1, <3>2, <1>2
  <2>3. CASE process # "filling"
    <3>1. calls'[s] = Idle /\ \A t \in Slots \ {s} : calls'[t] = calls[t]
      BY <1>4, <2>3 DEF GenerateFails, End, Typed, TypeOK
    <3> QED BY <1>1, <2>1, <3>1, OthersFollow
  <2> QED BY <2>2, <2>3
<1> QED BY <1>3, <1>4

LEMMA BootingFollows ==
  ASSUME Typed, NEW v \in Users, Follows(v), Booting
  PROVE  Follows(v)'
<1>1. CASE Boot \/ FindMark \/ CreateMark \/ Listen
  <2>1. UNCHANGED <<docs, shown, calls>>
    BY <1>1 DEF Boot, FindMark, CreateMark, Listen, history
  <2> QED BY <2>1 DEF Follows, Alone, OthersUnread, Followed, ReadUpTo, On, In, Paging
<1>2. CASE GenerateForAllUser
  <2>1. docs' = docs /\ shown' = shown
    BY <1>2 DEF GenerateForAllUser
  <2>2. \A s \in On(v) : ~Paging(s)
    BY <1>2 DEF GenerateForAllUser, Typed, WorkFits, On
  <2>3. \A u \in Users : Call("state", u).phase = "state"
    BY CallType DEF Phases
  <2>4. \A s \in On(v)' : ~Paging(s)'
    BY <1>2, <2>3 DEF GenerateForAllUser, On, Paging, In
  <2> QED BY <2>1, <2>2, <2>4, NobodyReads
<1> QED BY <1>1, <1>2 DEF Booting

LEMMA PagesInvInductive == PagesInv /\ [Next]_vars => PagesInv'
<1> SUFFICES ASSUME PagesInv, [Next]_vars
             PROVE  PagesInv'
  OBVIOUS
<1>1. Typed /\ Typed'
  BY NextTyped DEF PagesInv
<1>2. ASSUME NEW v \in Users, v \notin jumped'
      PROVE  Follows(v)'
  <2>1. CASE Next
    <3>1. Follows(v)
      BY <1>1, <1>2, <2>1, ExcusesStay DEF PagesInv, Follows
    <3> QED BY <1>1, <1>2, <2>1, <3>1, AskedFollow, UserFollows, ContinueFollows,
               FailuresFollow, BootingFollows DEF Next
  <2>2. CASE UNCHANGED vars
    BY <1>2, <2>2 DEF vars, history, PagesInv, Follows, Alone, OthersUnread, Followed,
       ReadUpTo, On, In, Paging
  <2> QED BY <2>1, <2>2
<1> QED BY <1>1, <1>2 DEF PagesInv, Follows

\* Who reads page after page has seen all posts of the list up to the stored
\* position, although the position is stored after the answer and generations
\* and deletions come in between.  (PostRecommendationService.getByUser)
THEOREM PagesAreInOrder == Spec => []PagesInOrder
<1>1. Init => PagesInv
  <2> SUFFICES ASSUME Init
               PROVE  PagesInv
    OBVIOUS
  <2>1. \A u \in Users : docs[u] = <<>> /\ shown[u] = {} /\ On(u) = {}
    BY DEF Init, On
  <2>2. \A u \in Users : Alone(u) /\ Followed(u)
    BY <2>1 DEF Alone, Followed
  <2>3. \A u \in Users : OthersUnread(u)
    BY <2>1 DEF OthersUnread
  <2> QED BY <2>2, <2>3, InitTyped DEF PagesInv
<1>2. PagesInv => PagesInOrder
  <2> SUFFICES ASSUME PagesInv, NEW u \in Users \ jumped, docs[u] # <<>>,
                      \A s \in On(u) : ~Paging(s)
               PROVE  shown[u] = 1 .. Least(Head(docs[u]).start, Count(Head(docs[u]).list))
    BY DEF PagesInOrder
  <2>1. \A s \in On(u) : ~In(s, "advance")
    BY DEF Paging
  <2>2. ReadUpTo(u, docs[u][1].start)
    BY <2>1 DEF PagesInv, Followed
  <2>3. Head(docs[u]) = docs[u][1]
    <3>1. docs[u] \in Seq(Doc)
      BY Same DEF PagesInv, Typed
    <3> QED BY <3>1
  <2> QED BY <2>2, <2>3 DEF ReadUpTo
<1> QED BY <1>1, <1>2, PagesInvInductive, PTL DEF Spec

=============================================================================
