------------------------ MODULE ConversationsProofs ------------------------
(***************************************************************************)
(* What Conversations promises, for any users, handlers, lists and bound:  *)
(* types, the admin outside its group, members that stay, the pair that is *)
(* found again, lists that name everyone, and no more duplicates of a pair *)
(* than calls that overlap.                                                *)
(***************************************************************************)
EXTENDS Conversations, FiniteSetTheorems, TLAPS

\* addParticipant at work never holds its own caller: self_added.  A
\* getOrCreate is for two users.
NeverSelf ==
  \A h \in Handlers : calls[h] # Idle =>
    /\ calls[h].user \notin calls[h].adding
    /\ calls[h].phase = "members" => calls[h].user \notin calls[h].validating
    /\ calls[h].op = "pair" =>
         /\ calls[h].phase # "members"
         /\ \E u, v \in Users : calls[h].validating = {u, v}

\* Who has been there since a list was begun is there now.
StillThere == \A r \in Readers : reads[r].there \subseteq persons

IInv == TypeOK /\ NeverSelf /\ AdminOutside /\ StillThere /\ ListsNameEveryone

-----------------------------------------------------------------------------
(* A step in three parts: what it does to the documents, to the calls and  *)
(* to the lists.                                                           *)

\* A conversation keeps its admin and members; a pair is never touched.
KeepsWell(id) ==
  /\ docs'[id].admin = docs[id].admin
  /\ docs[id].participants \subseteq docs'[id].participants
  /\ ~IsGroup(id) => /\ docs'[id].exists = docs[id].exists
                     /\ docs'[id].participants = docs[id].participants

OnlyGrows == Len(docs) <= Len(docs') /\ \A id \in Stored : KeepsWell(id)

DocsSafe ==
  /\ docs' \in Seq(Docs)
  /\ OnlyGrows
  /\ AdminOutside'

CallsSafe ==
  /\ calls' \in [Handlers -> Calls \cup {Idle}]
  /\ NeverSelf'

ListsSafe ==
  /\ persons' \subseteq Users
  /\ reads' \in [Readers -> Reads]
  /\ StillThere'
  /\ ListsNameEveryone'

\* Documents that no step touches are safe.
LEMMA SameDocs == ASSUME IInv, UNCHANGED docs PROVE DocsSafe
  BY DEF IInv, TypeOK, DocsSafe, OnlyGrows, KeepsWell, AdminOutside, Stored

LEMMA SameLists == ASSUME IInv, UNCHANGED <<persons, reads>> PROVE ListsSafe
  BY DEF IInv, TypeOK, ListsSafe, StillThere, ListsNameEveryone

\* Nor does it hurt to write one group that keeps its admin outside.
LEMMA OneDoc ==
  ASSUME IInv, NEW id \in Stored, IsGroup(id), NEW d \in Docs,
         docs' = [docs EXCEPT ![id] = d],
         d.admin = docs[id].admin,
         docs[id].participants \subseteq d.participants,
         d.admin \notin d.participants
  PROVE  DocsSafe
<1>1. docs \in Seq(Docs)
  BY DEF IInv, TypeOK
<1>2. docs' \in Seq(Docs) /\ Len(docs') = Len(docs)
  BY <1>1 DEF Stored
<1>3. \A i \in Stored : docs'[i] = IF i = id THEN d ELSE docs[i]
  BY <1>1 DEF Stored
<1>4. Stored' = Stored
  BY <1>2 DEF Stored
<1>5. Len(docs) <= Len(docs')
  BY <1>1, <1>2
<1>6. AdminOutside'
  BY <1>3, <1>4 DEF IInv, AdminOutside
<1> QED
  BY <1>2, <1>3, <1>5, <1>6 DEF DocsSafe, OnlyGrows, KeepsWell

\* The three parts give the invariant.
LEMMA Combine ==
  ASSUME DocsSafe, CallsSafe, ListsSafe
  PROVE  IInv' /\ OnlyGrows
  BY DEF IInv, TypeOK, DocsSafe, CallsSafe, ListsSafe

LEMMA IdleIsNoCall == Idle \notin Calls
  BY DEF Idle, Calls

LEMMA CallType ==
  ASSUME TypeOK, NEW h \in Handlers, calls[h].phase # "idle"
  PROVE  calls[h] \in Calls
  BY DEF TypeOK, Idle

\* Every entry of the document sequence is a document.
LEMMA DocType ==
  ASSUME TypeOK, NEW id \in Stored
  PROVE  docs[id] \in Docs
  BY DEF TypeOK, Stored

LEMMA InitIInv == Init => IInv
  BY DEF Init, IInv, TypeOK, NeverSelf, AdminOutside, StillThere, ListsNameEveryone,
         Idle, Stored, Reads, NoRead

-----------------------------------------------------------------------------
(* Every step changes at most one call.                                    *)

LEMMA OneCall ==
  ASSUME IInv, NEW h \in Handlers, NEW c \in Calls \cup {Idle},
         calls' = [calls EXCEPT ![h] = c],
         c # Idle => c.user \notin c.adding,
         c.phase = "members" => c.user \notin c.validating,
         c # Idle /\ c.op = "pair" =>
           c.phase # "members" /\ \E u, v \in Users : c.validating = {u, v}
  PROVE  CallsSafe
  BY DEF IInv, TypeOK, NeverSelf, CallsSafe, Idle

LEMMA SameCalls ==
  ASSUME IInv, UNCHANGED calls
  PROVE  CallsSafe
  BY DEF IInv, TypeOK, NeverSelf, CallsSafe, Idle

LEMMA Ended == ASSUME IInv, NEW h \in Handlers, End(h) PROVE CallsSafe
  BY OneCall DEF End, Idle

-----------------------------------------------------------------------------
(* The actions.                                                            *)

\* A request starts, or a step leaves the documents alone.
LEMMA QuietStep ==
  ASSUME IInv, CallsSafe, UNCHANGED <<docs, persons, reads>>
  PROVE  IInv' /\ OnlyGrows
  BY SameDocs, SameLists, Combine

LEMMA StartStep ==
  ASSUME IInv, NEW h \in Handlers, NEW u \in Users, NEW id \in Nat,
         NEW members \in SUBSET Users,
         NEW op \in {"create", "add", "pair"},
         NEW phase \in {"insert", "members", "find"},
         phase = "members" => u \notin members,
         op = "pair" => phase # "members" /\ \E x, y \in Users : members = {x, y},
         calls' = [calls EXCEPT ![h] = Call(op, phase, u, id, members)],
         UNCHANGED <<docs, persons, reads>>
  PROVE  IInv' /\ OnlyGrows
<1> DEFINE c == Call(op, phase, u, id, members)
<1>1. c \in Calls /\ c.phase = phase /\ c.user = u /\ c.validating = members
      /\ c.adding = {} /\ c.op = op
  BY DEF Calls, Call
<1>2. CallsSafe
  BY <1>1, OneCall
<1> QED
  BY <1>2, QuietStep

\* A group is inserted without participants; its caller leaves the members.
LEMMA CreateInsertStep ==
  ASSUME IInv, NEW h \in Handlers, CreateInsert(h)
  PROVE  IInv' /\ OnlyGrows
<1> DEFINE new == [exists |-> TRUE, admin |-> calls[h].user, participants |-> {}]
           c == [calls[h] EXCEPT !.phase = "members", !.id = Len(docs) + 1,
                                 !.validating = @ \ {calls[h].user}]
<1>1. calls[h] \in Calls
  BY CallType DEF IInv, CreateInsert, At, TypeOK, Calls, Idle
<1>2. new \in Docs /\ docs \in Seq(Docs) /\ docs' = Append(docs, new)
  BY <1>1 DEF Docs, Calls, IInv, TypeOK, CreateInsert, Insert
<1>3. DocsSafe
  BY <1>2 DEF DocsSafe, OnlyGrows, KeepsWell, AdminOutside, Stored, IInv
<1>4. c \in Calls /\ c.user \notin c.validating \cup c.adding /\ c.op = "create"
  <2>1. Len(docs) + 1 \in Nat
    BY <1>2
  <2>2. calls[h].user \notin calls[h].adding
    BY <1>1, IdleIsNoCall DEF IInv, NeverSelf
  <2>3. calls[h].op = "create"
    BY DEF CreateInsert, At
  <2> QED
    BY <1>1, <2>1, <2>2, <2>3 DEF Calls
<1>5. calls' = [calls EXCEPT ![h] = c]
  BY <1>1 DEF CreateInsert, IInv, TypeOK
<1>6. CallsSafe
  <2> HIDE DEF c
  <2> QED
    BY <1>4, <1>5, OneCall
<1> QED
  BY <1>3, <1>6, SameLists, Combine DEF CreateInsert

LEMMA ValidateMemberStep ==
  ASSUME IInv, NEW h \in Handlers, NEW member \in Users, ValidateMember(h, member)
  PROVE  IInv' /\ OnlyGrows
<1> DEFINE c == [calls[h] EXCEPT
                   !.validating = @ \ {member},
                   !.adding = IF AdminOf(calls[h].user, calls[h].id)
                                THEN @ \cup {member} ELSE @]
<1>1. calls[h] \in Calls /\ calls[h].phase = "members"
  BY CallType DEF IInv, ValidateMember
<1>2. /\ calls[h].user \notin calls[h].validating
      /\ calls[h].user \notin calls[h].adding
      /\ calls[h].op # "pair"
  BY <1>1, IdleIsNoCall DEF IInv, NeverSelf
<1>3. /\ c \in Calls
      /\ c.user \notin c.adding
      /\ c.user \notin c.validating
      /\ c.op # "pair"
  BY <1>1, <1>2 DEF Calls, ValidateMember
<1>4. calls' = [calls EXCEPT ![h] = c]
  BY <1>1 DEF ValidateMember, IInv, TypeOK
<1>5. CallsSafe
  <2> HIDE DEF c
  <2> QED
    BY <1>3, <1>4, OneCall
<1> QED
  BY <1>5, QuietStep DEF ValidateMember

\* The member is not the caller, and the caller is the admin at the write.
LEMMA AddMemberStep ==
  ASSUME IInv, NEW h \in Handlers, NEW member \in Users, AddMember(h, member)
  PROVE  IInv' /\ OnlyGrows
<1> DEFINE c == [calls[h] EXCEPT !.adding = @ \ {member}]
           id == calls[h].id
<1>1. calls[h] \in Calls /\ calls[h].phase = "members"
  BY CallType DEF IInv, AddMember
<1>2. /\ calls[h].user \notin calls[h].validating
      /\ calls[h].user \notin calls[h].adding
      /\ calls[h].op # "pair"
  BY <1>1, IdleIsNoCall DEF IInv, NeverSelf
<1>3. c \in Calls /\ c.user \notin c.adding /\ c.user \notin c.validating
      /\ c.op # "pair"
  BY <1>1, <1>2 DEF Calls
<1>4. calls' = [calls EXCEPT ![h] = c]
  BY <1>1 DEF AddMember, IInv, TypeOK
<1>5. CallsSafe
  <2> HIDE DEF c
  <2> QED
    BY <1>3, <1>4, OneCall
<1>6. CASE ~AdminOf(calls[h].user, id)
  <2>1. UNCHANGED <<docs, persons, reads>>
    BY <1>6 DEF AddMember
  <2> QED
    BY <2>1, <1>5, QuietStep
<1>7. CASE AdminOf(calls[h].user, id)
  <2>1. id \in Stored /\ docs[id].admin # member /\ IsGroup(id)
    BY <1>1, <1>2, <1>7, ConversationsAssumption DEF AdminOf, AddMember, IsGroup, Calls
  <2>2. /\ docs' = [docs EXCEPT ![id] = [docs[id] EXCEPT !.participants = @ \cup {member}]]
        /\ UNCHANGED <<persons, reads>>
    BY <1>7 DEF AddMember, Update
  <2>3. DocsSafe
    <3> DEFINE d == [docs[id] EXCEPT !.participants = @ \cup {member}]
    <3>1. docs[id] \in Docs
      BY <2>1, DocType DEF IInv
    <3>2. docs[id].admin \notin docs[id].participants
      BY <2>1 DEF IInv, AdminOutside
    <3>3. /\ d \in Docs /\ d.admin = docs[id].admin /\ d.admin \notin d.participants
          /\ docs[id].participants \subseteq d.participants
      BY <2>1, <3>1, <3>2 DEF Docs
    <3>4. docs' = [docs EXCEPT ![id] = d]
      BY <2>2
    <3> HIDE DEF d
    <3> QED
      BY <2>1, <3>3, <3>4, OneDoc
  <2> QED
    BY <1>5, <2>2, <2>3, SameLists, Combine
<1> QED
  BY <1>6, <1>7

LEMMA RemoveGroupStep ==
  ASSUME IInv, NEW u \in Users, NEW id \in Stored, RemoveGroup(u, id)
  PROVE  IInv' /\ OnlyGrows
<1>1. docs' = [docs EXCEPT ![id].exists = FALSE] /\ IsGroup(id)
  BY DEF RemoveGroup, Delete, InGroup
<1>2. DocsSafe
  <2> DEFINE d == [docs[id] EXCEPT !.exists = FALSE]
  <2>1. docs[id] \in Docs
    BY DocType DEF IInv
  <2>2. docs[id].admin \notin docs[id].participants
    BY DEF IInv, AdminOutside
  <2>3. /\ d \in Docs /\ d.admin = docs[id].admin /\ d.admin \notin d.participants
          /\ docs[id].participants \subseteq d.participants
    BY <2>1, <2>2 DEF Docs
  <2>4. docs' = [docs EXCEPT ![id] = d]
    BY <1>1
  <2> HIDE DEF d
  <2> QED
    BY <1>1, <2>3, <2>4, OneDoc
<1> QED
  BY <1>2, SameCalls, SameLists, Combine DEF RemoveGroup

LEMMA FindPairStep ==
  ASSUME IInv, NEW h \in Handlers, FindPair(h)
  PROVE  IInv' /\ OnlyGrows
<1> DEFINE c == [calls[h] EXCEPT !.phase = "insert"]
<1>1. calls[h] \in Calls
  BY CallType DEF IInv, FindPair, At, TypeOK
<1>2. CASE PairsOf(calls[h].validating) = {}
  <2>1. calls[h].user \notin calls[h].adding
        /\ \E u, v \in Users : calls[h].validating = {u, v}
    BY <1>1, IdleIsNoCall DEF IInv, NeverSelf, FindPair, At
  <2>2. c \in Calls /\ c.user \notin c.adding /\ c.phase = "insert"
        /\ c.validating = calls[h].validating
    BY <1>1, <2>1 DEF Calls
  <2>3. calls' = [calls EXCEPT ![h] = c]
    BY <1>1, <1>2 DEF FindPair, Go, IInv, TypeOK
  <2>4. CallsSafe
    <3> HIDE DEF c
    <3> QED
      BY <2>1, <2>2, <2>3, OneCall
  <2> QED
    BY <2>4, QuietStep DEF FindPair
<1>3. CASE PairsOf(calls[h].validating) # {}
  BY <1>3, Ended, QuietStep DEF FindPair
<1> QED
  BY <1>2, <1>3

\* A pair has no admin, so none that takes part.
LEMMA CreatePairStep ==
  ASSUME IInv, NEW h \in Handlers, CreatePair(h)
  PROVE  IInv' /\ OnlyGrows
<1> DEFINE new == [exists |-> TRUE, admin |-> NoUser,
                   participants |-> calls[h].validating]
<1>1. calls[h] \in Calls
  BY CallType DEF IInv, CreatePair, At, TypeOK
<1>2. new \in Docs /\ docs \in Seq(Docs) /\ NoUser \notin calls[h].validating
  BY <1>1, ConversationsAssumption DEF Docs, Calls, IInv, TypeOK
<1>3. docs' = Append(docs, new)
  BY DEF CreatePair, Insert
<1>4. DocsSafe
  BY <1>2, <1>3 DEF DocsSafe, OnlyGrows, KeepsWell, AdminOutside, Stored, IInv
<1> QED
  BY <1>4, Ended, SameLists, Combine DEF CreatePair

-----------------------------------------------------------------------------
(* Lists.                                                                  *)

LEMMA ListStep ==
  ASSUME IInv, UNCHANGED <<docs, calls>>, ListsSafe
  PROVE  IInv' /\ OnlyGrows
  BY SameDocs, SameCalls, Combine

\* One list goes on.
LEMMA OneRead ==
  ASSUME IInv, NEW r \in Readers, NEW read \in Reads,
         reads' = [reads EXCEPT ![r] = read],
         read.asked \cap read.there \subseteq read.names,
         read.there \subseteq persons,
         UNCHANGED <<docs, persons, calls>>
  PROVE  IInv' /\ OnlyGrows
<1>1. ListsSafe
  BY DEF IInv, TypeOK, ListsSafe, StillThere, ListsNameEveryone
<1> QED
  BY <1>1, ListStep

LEMMA StartReadStep ==
  ASSUME IInv, NEW r \in Readers, NEW u \in Users, NEW kind \in {"group", "pair"},
         NEW ids, StartRead(r, u, kind, ids)
  PROVE  IInv' /\ OnlyGrows
<1> DEFINE left == {docs[id].participants : id \in Found(u, kind, ids)}
           read == [left |-> left, asked |-> {}, names |-> {}, there |-> persons]
<1>1. left \in SUBSET SUBSET Users /\ persons \in SUBSET Users
  BY DocType DEF IInv, TypeOK, Found, Docs
<1>2. reads[r] = NoRead /\ reads' = [reads EXCEPT ![r] = read]
  BY DEF StartRead
<1> HIDE DEF left
<1>3. read \in Reads /\ read.asked = {} /\ read.there = persons
  BY <1>1, <1>2 DEF Reads, NoRead
<1> HIDE DEF read
<1> QED
  BY <1>2, <1>3, OneRead DEF StartRead

\* Who is there and is a member is named.
LEMMA AskNamesStep ==
  ASSUME IInv, NEW r \in Readers, NEW members \in reads[r].left, AskNames(r, members)
  PROVE  IInv' /\ OnlyGrows
<1> DEFINE read == [reads[r] EXCEPT !.left = @ \ {members},
                                    !.asked = @ \cup members,
                                    !.names = @ \cup (members \cap persons)]
<1>1. reads[r] \in Reads /\ members \in SUBSET Users
  BY DEF IInv, TypeOK, Reads
<1>2. /\ reads[r].asked \cap reads[r].there \subseteq reads[r].names
      /\ reads[r].there \subseteq persons
  BY DEF IInv, StillThere, ListsNameEveryone
<1>3. /\ read \in Reads
      /\ read.asked = reads[r].asked \cup members
      /\ read.names = reads[r].names \cup (members \cap persons)
      /\ read.there = reads[r].there
  BY <1>1 DEF Reads
<1>4. reads' = [reads EXCEPT ![r] = read]
  BY DEF AskNames, IInv, TypeOK
<1> HIDE DEF read
<1> QED
  BY <1>2, <1>3, <1>4, OneRead DEF AskNames

LEMMA AnswerStep ==
  ASSUME IInv, NEW r \in Readers, Answer(r)
  PROVE  IInv' /\ OnlyGrows
<1>1. NoRead \in Reads /\ NoRead.asked = {} /\ NoRead.there = {}
  BY DEF NoRead, Reads
<1> QED
  BY <1>1, OneRead DEF Answer

LEMMA PersonsStep ==
  ASSUME IInv, NEW u \in Users, Arrive(u) \/ Leave(u)
  PROVE  IInv' /\ OnlyGrows
<1>1. CASE Arrive(u)
  <2>1. ListsSafe
    BY <1>1 DEF Arrive, IInv, TypeOK, ListsSafe, StillThere, ListsNameEveryone
  <2> QED
    BY <1>1, <2>1, ListStep DEF Arrive
<1>2. CASE Leave(u)
  <2>1. ASSUME NEW r \in Readers
        PROVE  /\ reads'[r] \in Reads
               /\ reads'[r].asked \cap reads'[r].there \subseteq reads'[r].names
               /\ reads'[r].there \subseteq persons'
    <3>1. /\ reads[r] \in Reads
          /\ reads[r].asked \cap reads[r].there \subseteq reads[r].names
          /\ reads[r].there \subseteq persons
      BY DEF IInv, TypeOK, StillThere, ListsNameEveryone
    <3>2. reads'[r] = [reads[r] EXCEPT !.there = @ \ {u}]
      BY <1>2 DEF Leave
    <3> QED
      BY <1>2, <3>1, <3>2 DEF Reads, Leave
  <2>2. reads' = [r \in Readers |-> reads'[r]] /\ persons' \subseteq Users
    BY <1>2 DEF Leave, IInv, TypeOK
  <2>3. ListsSafe
    BY <2>1, <2>2 DEF ListsSafe, StillThere, ListsNameEveryone
  <2> QED
    BY <1>2, <2>3, ListStep DEF Leave
<1> QED
  BY <1>1, <1>2

-----------------------------------------------------------------------------

LEMMA NextIInv == IInv /\ [Next]_vars => IInv' /\ OnlyGrows
<1> SUFFICES ASSUME IInv, [Next]_vars PROVE IInv' /\ OnlyGrows
  OBVIOUS
<1> USE DEF Stored
<1>1. ASSUME NEW h \in Handlers, NEW u \in Users, NEW members \in SUBSET Users,
             StartCreate(h, u, members)
      PROVE  IInv' /\ OnlyGrows
  BY <1>1, StartStep DEF StartCreate
<1>2. ASSUME NEW h \in Handlers, NEW u \in Users, NEW member \in Users,
             NEW id \in Stored, StartAdd(h, u, id, member)
      PROVE  IInv' /\ OnlyGrows
  <2>1. id \in Nat /\ {member} \in SUBSET Users /\ u \notin {member}
    BY <1>2 DEF StartAdd
  <2>2. calls' = [calls EXCEPT ![h] = Call("add", "members", u, id, {member})]
        /\ UNCHANGED <<docs, persons, reads>>
    BY <1>2 DEF StartAdd
  <2> QED
    BY <2>1, <2>2, StartStep
<1>3. ASSUME NEW h \in Handlers, NEW u \in Users, NEW v \in Users, StartPair(h, u, v)
      PROVE  IInv' /\ OnlyGrows
  <2>1. 0 \in Nat /\ {u, v} \in SUBSET Users
    OBVIOUS
  <2>2. calls' = [calls EXCEPT ![h] = Call("pair", "find", u, 0, {u, v})]
        /\ UNCHANGED <<docs, persons, reads>>
    BY <1>3 DEF StartPair
  <2> QED
    BY <2>1, <2>2, StartStep
<1>4. ASSUME NEW h \in Handlers, EndMembers(h)
      PROVE  IInv' /\ OnlyGrows
  BY <1>4, Ended, QuietStep DEF EndMembers
<1>5. CASE UNCHANGED vars
  BY <1>5, SameCalls, QuietStep DEF vars
<1>6. ASSUME NEW r \in Readers,
             \/ \E u \in Users, kind \in {"group", "pair"} : StartRead(r, u, kind, Stored)
             \/ \E u \in Users, id \in Stored : StartRead(r, u, "group", {id})
             \/ \E members \in reads[r].left : AskNames(r, members)
             \/ Answer(r)
      PROVE  IInv' /\ OnlyGrows
  BY <1>6, StartReadStep, AskNamesStep, AnswerStep
<1> QED
  BY <1>1, <1>2, <1>3, <1>4, <1>5, <1>6, CreateInsertStep, ValidateMemberStep,
     AddMemberStep, RemoveGroupStep, FindPairStep, CreatePairStep, PersonsStep DEF Next

LEMMA AlwaysIInv == Spec => []IInv
  BY InitIInv, NextIInv, PTL DEF Spec

-----------------------------------------------------------------------------
(* Pairs.                                                                  *)

\* Of the conversations there are, a step adds none to the pairs of two users
\* and takes none away.
LEMMA SamePair ==
  ASSUME IInv, IInv', OnlyGrows, NEW i \in Stored, NEW pair
  PROVE  i \in PairsOf(pair)' <=> i \in PairsOf(pair)
<1>1. KeepsWell(i)
  BY DEF OnlyGrows
<1>2. i \in Stored'
  BY DEF IInv, TypeOK, OnlyGrows, Stored
<1>3. IsGroup(i)' <=> IsGroup(i)
  BY <1>1 DEF KeepsWell, IsGroup
<1>4. CASE IsGroup(i)
  BY <1>3, <1>4 DEF PairsOf
<1>5. CASE ~IsGroup(i)
  <2>1. /\ docs'[i].exists = docs[i].exists
        /\ docs'[i].participants = docs[i].participants
    BY <1>1, <1>5 DEF KeepsWell
  <2> QED
    BY <1>2, <1>3, <2>1 DEF PairsOf
<1> QED
  BY <1>4, <1>5

\* A pair that is first stays first: nothing before it appears or changes.
LEMMA FirstStays ==
  ASSUME IInv, IInv', OnlyGrows, NEW id \in Stored, NEW pair, First(pair, id)
  PROVE  First(pair, id)'
<1>1. Len(docs) \in Nat /\ Len(docs') \in Nat /\ Len(docs) <= Len(docs')
  BY DEF IInv, TypeOK, OnlyGrows
<1>2. \A i \in Stored : i \in PairsOf(pair)' <=> i \in PairsOf(pair)
  BY SamePair
<1>3. id \in PairsOf(pair)'
  BY <1>2 DEF First
<1>4. ASSUME NEW i \in PairsOf(pair)' PROVE id <= i
  <2>1. CASE i \in Stored
    BY <1>2, <1>4, <2>1 DEF First
  <2>2. CASE i \notin Stored
    <3>1. i \in 1 .. Len(docs') /\ id \in 1 .. Len(docs) /\ i \notin 1 .. Len(docs)
      BY <1>4, <2>2 DEF PairsOf, Stored
    <3> QED
      BY <1>1, <3>1
  <2> QED
    BY <2>1, <2>2
<1> QED
  BY <1>3, <1>4 DEF First

-----------------------------------------------------------------------------
(* Duplicates of a pair: as many handlers as have found none may each make *)
(* one more, and once there is one nobody else joins them.                 *)

HasRoom(pair) ==
  Cardinality(PairsOf(pair)) + Cardinality(AboutToPair(pair)) <= Cardinality(Handlers)

LEMMA CountsType ==
  ASSUME IsFiniteSet(Handlers), IInv, NEW pair
  PROVE  /\ IsFiniteSet(PairsOf(pair)) /\ Cardinality(PairsOf(pair)) \in Nat
         /\ IsFiniteSet(AboutToPair(pair)) /\ Cardinality(AboutToPair(pair)) \in Nat
         /\ Cardinality(AboutToPair(pair)) <= Cardinality(Handlers)
         /\ Cardinality(Handlers) \in Nat
<1>1. IsFiniteSet(Stored)
  <2>1. 1 \in Int /\ Len(docs) \in Int
    BY DEF IInv, TypeOK
  <2> QED
    BY <2>1, FS_Interval DEF Stored
<1>2. PairsOf(pair) \subseteq Stored /\ AboutToPair(pair) \subseteq Handlers
  BY DEF PairsOf, AboutToPair
<1> QED
  BY <1>1, <1>2, FS_Subset, FS_CardinalityType

\* Fewer pairs and fewer calls about to make one leave room.
LEMMA StillRoom ==
  ASSUME IsFiniteSet(Handlers), IInv, NEW pair, HasRoom(pair),
         PairsOf(pair)' = PairsOf(pair), AboutToPair(pair)' \subseteq AboutToPair(pair)
  PROVE  HasRoom(pair)'
<1>1. /\ Cardinality(AboutToPair(pair)') <= Cardinality(AboutToPair(pair))
      /\ Cardinality(AboutToPair(pair)') \in Nat
  BY CountsType, FS_Subset, FS_CardinalityType
<1>2. Cardinality(PairsOf(pair)') = Cardinality(PairsOf(pair))
  OBVIOUS
<1> HIDE DEF HasRoom
<1> QED
  BY <1>1, <1>2, CountsType DEF HasRoom

\* Most steps make no pair and bring no call to its insert.
LEMMA NoNewPair ==
  ASSUME IsFiniteSet(Handlers), IInv, IInv', OnlyGrows, NEW pair, HasRoom(pair),
         \A i \in Stored' \ Stored : IsGroup(i)',
         \A h \in Handlers : At(h, "pair", "insert")' => calls'[h] = calls[h]
  PROVE  HasRoom(pair)'
<1>1. Stored \subseteq Stored'
  BY DEF IInv, TypeOK, OnlyGrows, Stored
<1>2. PairsOf(pair) \subseteq Stored /\ PairsOf(pair)' \subseteq Stored'
      /\ \A i \in Stored' \ Stored : i \notin PairsOf(pair)'
  BY DEF PairsOf
<1>3. PairsOf(pair)' = PairsOf(pair)
  BY <1>2, SamePair
<1>4. AboutToPair(pair)' \subseteq AboutToPair(pair)
  BY DEF AboutToPair, At
<1> QED
  BY <1>3, <1>4, StillRoom

LEMMA FindPairRoom ==
  ASSUME IsFiniteSet(Handlers), IInv, IInv', OnlyGrows, NEW pair, HasRoom(pair),
         NEW h \in Handlers, FindPair(h)
  PROVE  HasRoom(pair)'
<1>1. docs' = docs /\ PairsOf(pair)' = PairsOf(pair)
  BY DEF FindPair, PairsOf, Stored, IsGroup
<1>2. CASE pair = calls[h].validating /\ PairsOf(pair) = {}
  <2>1. Cardinality(PairsOf(pair)') = 0
    BY <1>1, <1>2, FS_EmptySet
  <2>2. AboutToPair(pair)' \subseteq Handlers
    BY DEF AboutToPair
  <2>3. /\ Cardinality(AboutToPair(pair)') <= Cardinality(Handlers)
        /\ Cardinality(AboutToPair(pair)') \in Nat
    BY <2>2, FS_Subset, FS_CardinalityType
  <2>4. Cardinality(Handlers) \in Nat
    BY FS_CardinalityType
  <2> QED
    BY <2>1, <2>3, <2>4 DEF HasRoom
<1>3. CASE ~(pair = calls[h].validating /\ PairsOf(pair) = {})
  <2>1. calls[h] \in Calls
    BY CallType DEF IInv, FindPair, At, TypeOK
  <2>2. h \notin AboutToPair(pair)'
    <3>1. calls'[h] = Idle \/ (calls'[h].validating = calls[h].validating
                               /\ PairsOf(calls[h].validating) = {})
      BY <2>1 DEF FindPair, Go, End, IInv, TypeOK, Calls
    <3> QED
      BY <1>3, <3>1 DEF AboutToPair, At
  <2>3. \A g \in Handlers \ {h} : calls'[g] = calls[g]
    BY DEF FindPair, Go, End, IInv, TypeOK
  <2>4. AboutToPair(pair)' \subseteq AboutToPair(pair)
    BY <2>2, <2>3 DEF AboutToPair, At
  <2> QED
    BY <1>1, <2>4, StillRoom
<1> QED
  BY <1>2, <1>3

\* The pair is one more, and the handler that made it one less.
LEMMA CreatePairRoom ==
  ASSUME IsFiniteSet(Handlers), IInv, IInv', OnlyGrows,
         NEW u \in Users, NEW v \in Users, u # v, HasRoom({u, v}),
         NEW h \in Handlers, CreatePair(h)
  PROVE  HasRoom({u, v})'
<1> DEFINE pair == {u, v}
           new == Len(docs) + 1
           before == AboutToPair(pair)
<1>1. /\ \E x, y \in Users : calls[h].validating = {x, y}
      /\ calls[h] # Idle
      /\ Len(docs) \in Nat
  BY DEF IInv, NeverSelf, TypeOK, CreatePair, At
<1>2. /\ Stored' = Stored \cup {new}
      /\ docs'[new].participants = calls[h].validating
      /\ new \notin Stored
  BY <1>1 DEF CreatePair, Insert, Stored, IInv, TypeOK
<1>3. \A i \in Stored : i \in PairsOf(pair)' <=> i \in PairsOf(pair)
  BY SamePair
<1>4. PairsOf(pair)' \subseteq PairsOf(pair) \cup {new}
  BY <1>2, <1>3 DEF PairsOf
<1>5. calls' = [calls EXCEPT ![h] = Idle]
  BY DEF CreatePair, End
<1>6. AboutToPair(pair)' \subseteq AboutToPair(pair) \ {h}
  BY <1>5 DEF AboutToPair, At, IInv, TypeOK
<1>7. CASE calls[h].validating = pair
  <2>1. h \in AboutToPair(pair)
    BY <1>7 DEF AboutToPair, CreatePair
  <2>2. /\ IsFiniteSet(before \ {h})
        /\ Cardinality(before \ {h}) = Cardinality(before) - 1
    BY <2>1, CountsType, FS_RemoveElement
  <2> DEFINE fewer == before \ {h}
             pairs == PairsOf(pair)
  <2>3. /\ Cardinality(AboutToPair(pair)') <= Cardinality(before) - 1
        /\ Cardinality(AboutToPair(pair)') \in Nat
    <3>1. AboutToPair(pair)' \subseteq fewer
      BY <1>6
    <3>2. IsFiniteSet(fewer) /\ Cardinality(fewer) = Cardinality(before) - 1
      BY <2>2
    <3> HIDE DEF fewer, before, pair
    <3>3. /\ IsFiniteSet(AboutToPair(pair)')
          /\ Cardinality(AboutToPair(pair)') <= Cardinality(fewer)
      BY <3>1, <3>2, FS_Subset
    <3> QED
      BY <3>2, <3>3, FS_CardinalityType
  <2>4. /\ IsFiniteSet(PairsOf(pair) \cup {new})
        /\ Cardinality(PairsOf(pair) \cup {new}) <= Cardinality(PairsOf(pair)) + 1
    <3>1. IsFiniteSet(pairs) /\ Cardinality(pairs) \in Nat
      BY CountsType
    <3> HIDE DEF pairs, new
    <3>2. /\ IsFiniteSet(pairs \cup {new})
          /\ Cardinality(pairs \cup {new}) =
               IF new \in pairs THEN Cardinality(pairs) ELSE Cardinality(pairs) + 1
      BY <3>1, FS_AddElement
    <3>3. Cardinality(pairs \cup {new}) <= Cardinality(pairs) + 1
      BY <3>1, <3>2
    <3> QED
      BY <3>2, <3>3 DEF pairs
  <2>5. /\ Cardinality(PairsOf(pair)') <= Cardinality(PairsOf(pair) \cup {new})
        /\ Cardinality(PairsOf(pair)') \in Nat
        /\ Cardinality(PairsOf(pair) \cup {new}) \in Nat
    BY <1>4, <2>4, FS_Subset, FS_CardinalityType
  <2> HIDE DEF pair, new, before, fewer, pairs
  <2>6. Cardinality(PairsOf(pair)) \in Nat /\ Cardinality(before) \in Nat
        /\ Cardinality(Handlers) \in Nat
    BY CountsType DEF before
  <2>7. Cardinality(PairsOf(pair)) + Cardinality(before) <= Cardinality(Handlers)
    BY DEF HasRoom, pair, before
  <2>8. Cardinality(PairsOf(pair)') + Cardinality(AboutToPair(pair)')
          <= Cardinality(Handlers)
    BY <2>3, <2>4, <2>5, <2>6, <2>7
  <2> QED
    BY <2>8 DEF HasRoom, pair
<1>8. CASE calls[h].validating # pair
  <2>1. ~(pair \subseteq calls[h].validating)
    BY <1>1, <1>8
  <2>2. new \notin PairsOf(pair)'
    BY <1>2, <2>1 DEF PairsOf
  <2>3. PairsOf(pair)' = PairsOf(pair)
    <3>1. PairsOf(pair) \subseteq Stored
      BY DEF PairsOf
    <3> QED
      BY <1>3, <1>4, <2>2, <3>1
  <2> QED
    BY <1>6, <2>3, StillRoom
<1> QED
  BY <1>7, <1>8

LEMMA NextRoom ==
  ASSUME IsFiniteSet(Handlers), IInv, [Next]_vars,
         NEW u \in Users, NEW v \in Users, u # v, HasRoom({u, v})
  PROVE  HasRoom({u, v})'
<1>1. IInv' /\ OnlyGrows
  BY NextIInv
<1>2. CASE \E h \in Handlers : FindPair(h)
  BY <1>1, <1>2, FindPairRoom
<1>3. CASE \E h \in Handlers : CreatePair(h)
  BY <1>1, <1>3, CreatePairRoom
<1>4. CASE /\ \A i \in Stored' \ Stored : IsGroup(i)'
           /\ \A h \in Handlers : At(h, "pair", "insert")' => calls'[h] = calls[h]
  BY <1>1, <1>4, NoNewPair
<1>5. ASSUME UNCHANGED calls, UNCHANGED docs \/ \E id \in Stored : Delete(id)
      PROVE  HasRoom({u, v})'
  BY <1>4, <1>5 DEF Delete, Stored, At, IInv, TypeOK
<1>6. ASSUME NEW h \in Handlers,
             UNCHANGED docs \/ \E id \in Stored, doc \in Docs : Update(id, doc),
             \A g \in Handlers \ {h} : calls'[g] = calls[g],
             ~At(h, "pair", "insert")'
      PROVE  HasRoom({u, v})'
  <2>1. Stored' = Stored
    BY <1>6 DEF Update, Stored, IInv, TypeOK
  <2> QED
    BY <1>4, <1>6, <2>1
<1>7. ASSUME NEW h \in Handlers, CreateInsert(h)
      PROVE  HasRoom({u, v})'
  <2>1. calls[h] \in Calls /\ calls[h].op = "create"
    BY <1>7, CallType DEF IInv, CreateInsert, At, TypeOK
  <2>2. \A i \in Stored' \ Stored : IsGroup(i)'
    BY <1>7, <2>1, ConversationsAssumption
       DEF CreateInsert, Insert, Stored, IsGroup, Calls, IInv, TypeOK
  <2>3. \A g \in Handlers : At(g, "pair", "insert")' => calls'[g] = calls[g]
    BY <1>7, <2>1 DEF CreateInsert, At, Calls, IInv, TypeOK
  <2> QED
    BY <1>4, <2>2, <2>3
<1>8. ASSUME NEW h \in Handlers, NEW member \in Users,
             ValidateMember(h, member) \/ AddMember(h, member)
      PROVE  HasRoom({u, v})'
  <2>1. calls[h] \in Calls /\ calls[h].phase = "members"
    BY <1>8, CallType DEF IInv, ValidateMember, AddMember
  <2>2. ~At(h, "pair", "insert")' /\ \A g \in Handlers \ {h} : calls'[g] = calls[g]
    BY <1>8, <2>1 DEF ValidateMember, AddMember, At, Calls, IInv, TypeOK
  <2>3. Stored' = Stored
    BY <1>8 DEF ValidateMember, AddMember, Update, Stored, IInv, TypeOK
  <2> QED
    BY <1>4, <2>2, <2>3
<1>9. ASSUME NEW h \in Handlers,
             \/ EndMembers(h)
             \/ \E x \in Users, members \in SUBSET Users : StartCreate(h, x, members)
             \/ \E x, member \in Users, id \in Stored : StartAdd(h, x, id, member)
             \/ \E x, y \in Users : StartPair(h, x, y)
      PROVE  HasRoom({u, v})'
  <2>1. ~At(h, "pair", "insert")' /\ \A g \in Handlers \ {h} : calls'[g] = calls[g]
    BY <1>9 DEF EndMembers, End, StartCreate, StartAdd, StartPair, Call, At, IInv, TypeOK
  <2>2. UNCHANGED docs
    BY <1>9 DEF EndMembers, StartCreate, StartAdd, StartPair
  <2> QED
    BY <1>6, <2>1, <2>2
<1>10. ASSUME \/ UNCHANGED vars
              \/ \E x \in Users : Arrive(x) \/ Leave(x)
              \/ \E x \in Users, id \in Stored : RemoveGroup(x, id)
              \/ \E r \in Readers, x \in Users, kind \in {"group", "pair"}, ids \in SUBSET Nat :
                    StartRead(r, x, kind, ids)
              \/ \E r \in Readers : Answer(r) \/ \E members \in reads[r].left : AskNames(r, members)
       PROVE  HasRoom({u, v})'
  BY <1>5, <1>10 DEF vars, Arrive, Leave, RemoveGroup, StartRead, Answer, AskNames
<1>11. \A id \in Stored : {id} \in SUBSET Nat /\ Stored \in SUBSET Nat
  BY DEF Stored
<1>12. Stored \in SUBSET Nat
  BY DEF Stored
<1> QED
  BY <1>2, <1>3, <1>7, <1>8, <1>9, <1>10, <1>11, <1>12 DEF Next

LEMMA InitRoom ==
  ASSUME IsFiniteSet(Handlers), Init, NEW pair
  PROVE  HasRoom(pair)
<1>1. PairsOf(pair) = {} /\ AboutToPair(pair) = {}
  BY DEF Init, PairsOf, AboutToPair, Stored, At
<1> QED
  BY <1>1, FS_EmptySet, FS_CardinalityType DEF HasRoom

-----------------------------------------------------------------------------
\* Documents, calls and lists keep their types
\* (conversation.collection.ts:9-40, conversations.service.ts:44-134).
THEOREM ConversationsTypeCorrect == Spec => []TypeOK
  BY AlwaysIInv, PTL DEF IInv

\* No interleaving of creations, additions and removals makes the admin of a
\* group one of its participants (conversations.service.ts:113-121).
THEOREM AdminStaysOutside == Spec => []AdminOutside
  BY AlwaysIInv, PTL DEF IInv

\* A list names every member it has asked for and who has been there since it
\* was begun (conversations.group.controller.ts:21-45).
THEOREM ListsNameEveryoneThere == Spec => []ListsNameEveryone
  BY AlwaysIInv, PTL DEF IInv

\* The conversation that getOrCreate finds for two users is the one it goes
\* on finding (conversations.pair.service.ts:26-31).
THEOREM FoundPairStays == Spec => PairStaysFound
<1>1. IInv /\ [Next]_vars =>
        [\A id \in Stored : \A pair \in {docs[id].participants} :
           First(pair, id) => First(pair, id)']_docs
  <2> SUFFICES ASSUME IInv, [Next]_vars, NEW id \in Stored, NEW pair, First(pair, id)
               PROVE  First(pair, id)'
    OBVIOUS
  <2> QED
    BY NextIInv, FirstStays
<1> QED
  BY <1>1, AlwaysIInv, PTL DEF Spec, PairStaysFound

\* Two users have no more conversations than calls can overlap
\* (conversations.pair.service.ts:21-41).
THEOREM DuplicatesAreBounded ==
  ASSUME IsFiniteSet(Handlers) PROVE Spec => []BoundedDuplicates
<1>1. Init => BoundedDuplicates
  BY InitRoom DEF BoundedDuplicates, HasRoom, Couples
<1>2. IInv /\ BoundedDuplicates /\ [Next]_vars => BoundedDuplicates'
  <2> SUFFICES ASSUME IInv, BoundedDuplicates, [Next]_vars,
                      NEW u \in Users, NEW v \in Users, u # v
               PROVE  HasRoom({u, v})'
    BY DEF BoundedDuplicates, HasRoom, Couples
  <2>1. HasRoom({u, v})
    BY DEF BoundedDuplicates, HasRoom, Couples
  <2> QED
    BY <2>1, NextRoom
<1> QED
  BY <1>1, <1>2, AlwaysIInv, PTL DEF Spec

\* Nobody leaves a group while it exists: a removal is an addition
\* (conversations.group.service.ts:50-54).
THEOREM MembersAlwaysStay == Spec => MembersStay
<1>1. IInv /\ [Next]_vars =>
        [\A id \in Stored : docs[id].participants \subseteq docs'[id].participants]_docs
  <2> SUFFICES ASSUME IInv, [Next]_vars, NEW id \in Stored
               PROVE  docs[id].participants \subseteq docs'[id].participants
    OBVIOUS
  <2>1. KeepsWell(id)
    BY NextIInv DEF OnlyGrows
  <2> QED
    BY <2>1 DEF KeepsWell
<1> QED
  BY <1>1, AlwaysIInv, PTL DEF Spec, MembersStay

=============================================================================
