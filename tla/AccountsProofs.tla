-------------------------- MODULE AccountsProofs --------------------------
(***************************************************************************)
(* What Accounts promises, for any users, links and handlers.              *)
(*                                                                         *)
(* A link's uses are counted with the handlers that are at it: while the   *)
(* link is valid each use is by a handler that is about to delete it, and  *)
(* once it is deleted only those that had read it can still use it.        *)
(*                                                                         *)
(* The second half is about Sessions, which follows the same users once    *)
(* they are registered: its types, and that who is signed out everywhere   *)
(* after having been deleted stays so, for any users, browsers and         *)
(* handlers.                                                               *)
(*                                                                         *)
(* The last part is about the same table in Deployment: that the users the *)
(* seeds make are there together, for any of them.  It has no name in      *)
(* common with Accounts.                                                   *)
(***************************************************************************)
EXTENDS Accounts, Deployment, FiniteSetTheorems, SequenceTheorems, TLAPS

\* What a request is about, and which row a save holds.
CallFits(c) ==
  /\ c.op = "register" => c.phase = "mail"
  /\ c.op = "confirm" => c.phase = "save"
  /\ c.op = "reset" => c.phase \in {"save", "delete"}
  /\ c.op = "forgot" => c.phase \in {"insert", "mail"}
  /\ c.op \in {"register", "confirm"} \/ c.phase = "insert" => c.subject \in Users
  /\ c.op = "reset" \/ (c.op = "forgot" /\ c.phase = "mail")
       => c.subject \in Links /\ links[c.subject].owner \in Users
  /\ c.phase = "save" => c.row.state = "kept"

CallsFit == \A h \in Handlers : calls[h] # Idle => CallFits(calls[h])

MailedLinksHaveOwners == \A l \in mailed \cap Links : links[l].owner \in Users

Typed == TypeOK /\ CallsFit /\ MailedLinksHaveOwners

Writers(l, phase) ==
  {h \in Handlers : At(h, "reset", phase) /\ calls[h].subject = l}

Counted(l) ==
  l \notin torn =>
    /\ uses[l] + Cardinality(Writers(l, "save")) <= Cardinality(Handlers)
    /\ ~ links[l].used => uses[l] = Cardinality(Writers(l, "delete"))

UsesCounted == \A l \in Links : Counted(l)

IInv == Typed /\ UsesCounted

-----------------------------------------------------------------------------
(* Types.                                                                  *)

LEMMA IdleIsNoCall == Idle \notin Calls
<1>1. \A c \in Calls : c.op \in {"register", "confirm", "forgot", "reset"}
                       /\ c = [op |-> c.op, phase |-> c.phase,
                               subject |-> c.subject, row |-> c.row]
  BY DEF Calls
<1>2. DOMAIN Idle = {"phase"}
  BY DEF Idle
<1>3. \A c \in Calls : "op" \in DOMAIN c
  BY DEF Calls
<1> QED BY <1>2, <1>3

LEMMA CallType ==
  ASSUME NEW op \in {"register", "confirm", "forgot", "reset"},
         NEW phase \in {"mail", "save", "insert", "delete"},
         NEW subject \in Users \cup Links, NEW row \in Row
  PROVE  /\ Call(op, phase, subject, row) \in Calls
         /\ Call(op, phase, subject, row).op = op
         /\ Call(op, phase, subject, row).phase = phase
         /\ Call(op, phase, subject, row).subject = subject
         /\ Call(op, phase, subject, row).row = row
  BY DEF Call, Calls

LEMMA NoRowType == NoRow \in Row
  BY DEF NoRow, Row

LEMMA InitTyped == Init => Typed
  BY DEF Init, Typed, TypeOK, CallsFit, MailedLinksHaveOwners, NoRow, Row,
     NoForgot,
         Forgot

\* A request that begins.
LEMMA BeginTyped ==
  ASSUME Typed, NEW h \in Handlers, NEW c \in Calls, Begin(h, c),
         CallFits(c), users' \in [Users -> Row], UNCHANGED <<links, mailed, history>>
  PROVE  Typed'
<1>1. TypeOK'
  BY DEF Typed, TypeOK, Begin, history
<1>2. CallsFit'
  <2> SUFFICES ASSUME NEW g \in Handlers, calls'[g] # Idle
               PROVE  CallFits(calls[g])'
    BY DEF CallsFit
  <2>1. calls' = [calls EXCEPT ![h] = c] /\ DOMAIN calls = Handlers
    BY DEF Begin, Typed, TypeOK
  <2>2. calls'[g] = c \/ (calls'[g] = calls[g] /\ calls[g] # Idle)
    BY <2>1
  <2>3. CallFits(calls'[g])
    BY <2>2 DEF Typed, CallsFit
  <2> QED BY <2>3 DEF CallFits
<1>3. MailedLinksHaveOwners'
  BY DEF Typed, MailedLinksHaveOwners
<1> QED BY <1>1, <1>2, <1>3 DEF Typed

\* A request that ends, perhaps with its mail sent or its link deleted.
LEMMA EndTyped ==
  ASSUME Typed, NEW h \in Handlers, End(h), users' \in [Users -> Row],
         links' \in [Links -> Forgot],
         \A l \in Links : links'[l].owner = links[l].owner,
         mailed' \subseteq Users \cup Links,
         \A l \in mailed' \cap Links : links[l].owner \in Users,
         UNCHANGED history
  PROVE  Typed'
<1>1. TypeOK'
  BY DEF Typed, TypeOK, End, history
<1>2. CallsFit'
  <2> SUFFICES ASSUME NEW g \in Handlers, calls'[g] # Idle
               PROVE  CallFits(calls[g])'
    BY DEF CallsFit
  <2>1. CallFits(calls'[g]) /\ calls'[g] = calls[g]
    BY DEF Typed, TypeOK, CallsFit, End
  <2> QED BY <2>1 DEF CallFits
<1>3. MailedLinksHaveOwners'
  BY DEF MailedLinksHaveOwners
<1> QED BY <1>1, <1>2, <1>3 DEF Typed

LEMMA RequestTyped ==
  ASSUME Typed, NEW h \in Handlers, Request(h)
  PROVE  Typed'
<1>1. ASSUME NEW u \in Users, Register(h, u)
      PROVE  Typed'
  <2> DEFINE c == Call("register", "mail", u, NoRow)
  <2>1. /\ c \in Calls /\ c.op = "register" /\ c.phase = "mail" /\ c.subject = u
    BY CallType, NoRowType
  <2>2. Begin(h, c) /\ UNCHANGED <<links, mailed, history>>
    BY <1>1 DEF Register
  <2>3. users' \in [Users -> Row]
    BY <1>1 DEF Register, Typed, TypeOK, Row
  <2> HIDE DEF c
  <2>4. CallFits(c)
    BY <2>1 DEF CallFits
  <2> QED BY <2>1, <2>2, <2>3, <2>4, BeginTyped
<1>2. ASSUME NEW u \in Users, Confirm(h, u)
      PROVE  Typed'
  <2> DEFINE c == Call("confirm", "save", u, users[u])
  <2>0. users[u] \in Row /\ users[u].state = "kept"
    BY <1>2 DEF Confirm, Found, Typed, TypeOK
  <2>1. /\ c \in Calls /\ c.op = "confirm" /\ c.phase = "save" /\ c.subject = u
        /\ c.row = users[u]
    BY <2>0, CallType
  <2>2. Begin(h, c) /\ UNCHANGED <<links, mailed, history>> /\ users' \in [Users -> Row]
    BY <1>2 DEF Confirm, Typed, TypeOK, tables
  <2> HIDE DEF c
  <2>3. CallFits(c)
    BY <2>0, <2>1 DEF CallFits
  <2> QED BY <2>1, <2>2, <2>3, BeginTyped
<1>3. ASSUME NEW u \in Users, ForgotPassword(h, u)
      PROVE  Typed'
  <2> DEFINE c == Call("forgot", "insert", u, NoRow)
  <2>1. /\ c \in Calls /\ c.op = "forgot" /\ c.phase = "insert" /\ c.subject = u
    BY CallType, NoRowType
  <2>2. Begin(h, c) /\ UNCHANGED <<links, mailed, history>> /\ users' \in [Users -> Row]
    BY <1>3 DEF ForgotPassword, Typed, TypeOK, tables
  <2> HIDE DEF c
  <2>3. CallFits(c)
    BY <2>1 DEF CallFits
  <2> QED BY <2>1, <2>2, <2>3, BeginTyped
<1>4. ASSUME NEW l \in Links, Reset(h, l)
      PROVE  Typed'
  <2> DEFINE c == Call("reset", "save", l, users[links[l].owner])
  <2>0. /\ links[l].owner \in Users
        /\ users[links[l].owner] \in Row /\ users[links[l].owner].state = "kept"
    BY <1>4 DEF Reset, Found, Typed, TypeOK, MailedLinksHaveOwners
  <2>1. /\ c \in Calls /\ c.op = "reset" /\ c.phase = "save" /\ c.subject = l
        /\ c.row = users[links[l].owner]
    BY <2>0, CallType
  <2>2. Begin(h, c) /\ UNCHANGED <<links, mailed, history>> /\ users' \in [Users -> Row]
    BY <1>4 DEF Reset, Typed, TypeOK, tables
  <2> HIDE DEF c
  <2>3. CallFits(c)
    BY <2>0, <2>1 DEF CallFits
  <2> QED BY <2>1, <2>2, <2>3, BeginTyped
<1> QED BY <1>1, <1>2, <1>3, <1>4 DEF Request

LEMMA AtType ==
  ASSUME Typed, NEW h \in Handlers, calls[h] # Idle
  PROVE  calls[h] \in Calls /\ CallFits(calls[h])
BY DEF Typed, TypeOK, CallsFit

LEMMA MailTyped ==
  ASSUME Typed, NEW h \in Handlers, Mail(h)
  PROVE  Typed'
<1>1. /\ calls[h] \in Calls /\ CallFits(calls[h])
      /\ calls[h].phase = "mail"
  BY AtType DEF Mail, UserSignUp, ForgotPasswordMail, SendMail, At
<1>2. calls[h].subject \in Users \/
      (calls[h].subject \in Links /\ links[calls[h].subject].owner \in Users)
  BY <1>1 DEF CallFits, Calls
<1>3. /\ mailed' \subseteq Users \cup Links
      /\ \A l \in mailed' \cap Links : links[l].owner \in Users
  BY <1>2, AccountsAssumption DEF Mail, UserSignUp, ForgotPasswordMail,
     SendMail, At, Typed, TypeOK, MailedLinksHaveOwners
<1> QED BY <1>3, EndTyped DEF Mail, UserSignUp, ForgotPasswordMail, SendMail,
   At, Typed, TypeOK, tables

LEMMA ConfirmSaveTyped ==
  ASSUME Typed, NEW h \in Handlers, ConfirmSave(h)
  PROVE  Typed'
<1>1. /\ calls[h] \in Calls /\ CallFits(calls[h])
      /\ calls[h].op = "confirm"
  BY AtType DEF ConfirmSave, At
<1>2. calls[h].subject \in Users /\ calls[h].row \in Row
  BY <1>1 DEF CallFits, Calls
<1>3. users' \in [Users -> Row]
  BY <1>2 DEF ConfirmSave, Typed, TypeOK, Row
<1> QED BY <1>3, EndTyped DEF ConfirmSave, Typed, TypeOK, MailedLinksHaveOwners

LEMMA ForgotInsertTyped ==
  ASSUME Typed, NEW h \in Handlers, ForgotInsert(h)
  PROVE  Typed'
<1> DEFINE c == calls[h]
<1>1. /\ c \in Calls /\ CallFits(c)
      /\ c.op = "forgot" /\ c.phase = "insert"
  BY AtType DEF ForgotInsert, At
<1>2. c.subject \in Users
  BY <1>1 DEF CallFits
<1>3. PICK l \in Links :
        /\ links[l] = NoForgot
        /\ links' = [links EXCEPT ![l].owner = c.subject]
        /\ calls' = [calls EXCEPT ![h].phase = "mail", ![h].subject = l]
  BY DEF ForgotInsert
<1>4. /\ links' \in [Links -> Forgot]
      /\ links'[l].owner \in Users
      /\ \A k \in Links : k # l => links'[k] = links[k]
  BY <1>2, <1>3 DEF Typed, TypeOK, Forgot
<1>5. /\ calls'[h] \in Calls
      /\ calls'[h].op = "forgot" /\ calls'[h].phase = "mail"
      /\ calls'[h].subject = l
      /\ DOMAIN calls' = Handlers
      /\ \A g \in Handlers : g # h => calls'[g] = calls[g]
  BY <1>1, <1>3 DEF Typed, TypeOK, Calls
<1>6. \A k \in Links : links[k].owner \in Users => links'[k].owner \in Users
  BY <1>4
<1>7. TypeOK'
  <2>1. calls' \in [Handlers -> {Idle} \cup Calls]
    BY <1>3, <1>5 DEF Typed, TypeOK
  <2> QED BY <2>1, <1>4 DEF Typed, TypeOK, ForgotInsert, history
<1>8. CallsFit'
  <2> SUFFICES ASSUME NEW g \in Handlers, calls'[g] # Idle
               PROVE  CallFits(calls[g])'
    BY DEF CallsFit
  <2>1. CASE g = h
    BY <2>1, <1>4, <1>5 DEF CallFits
  <2>2. CASE g # h
    <3>1. calls'[g] = calls[g] /\ CallFits(calls[g])
      BY <2>2, <1>5 DEF Typed, CallsFit
    <3> QED BY <3>1, <1>6 DEF CallFits
  <2> QED BY <2>1, <2>2
<1>9. MailedLinksHaveOwners'
  BY <1>6 DEF MailedLinksHaveOwners, Typed, ForgotInsert
<1> QED BY <1>7, <1>8, <1>9 DEF Typed

LEMMA ResetSaveTyped ==
  ASSUME Typed, NEW h \in Handlers, ResetSave(h)
  PROVE  Typed'
<1> DEFINE c == calls[h]
           l == c.subject
<1>1. /\ c \in Calls /\ CallFits(c)
      /\ c.op = "reset" /\ c.phase = "save"
  BY AtType DEF ResetSave, At
<1>2. l \in Links /\ links[l].owner \in Users /\ c.row \in Row
  BY <1>1 DEF CallFits, Calls
<1>3. users' \in [Users -> Row] /\ uses' \in [Links -> Nat]
  BY <1>2 DEF ResetSave, Typed, TypeOK
<1>4. calls' = [calls EXCEPT ![h].phase = "delete"]
  BY DEF ResetSave
<1>5. /\ calls'[h] \in Calls
      /\ calls'[h].op = "reset" /\ calls'[h].phase = "delete"
      /\ calls'[h].subject = l
      /\ \A g \in Handlers : g # h => calls'[g] = calls[g]
  BY <1>1, <1>4 DEF Typed, TypeOK, Calls
<1>6. TypeOK'
  <2>1. calls' \in [Handlers -> {Idle} \cup Calls]
    BY <1>4, <1>5 DEF Typed, TypeOK
  <2> QED BY <2>1, <1>3 DEF Typed, TypeOK, ResetSave
<1>7. CallsFit'
  <2> SUFFICES ASSUME NEW g \in Handlers, calls'[g] # Idle
               PROVE  CallFits(calls[g])'
    BY DEF CallsFit
  <2>0. links' = links
    BY DEF ResetSave
  <2>1. CASE g = h
    BY <2>0, <2>1, <1>2, <1>5 DEF CallFits
  <2>2. CASE g # h
    <3>1. calls'[g] = calls[g] /\ CallFits(calls[g])
      BY <2>2, <1>5 DEF Typed, CallsFit
    <3> QED BY <3>1, <2>0 DEF CallFits
  <2> QED BY <2>1, <2>2
<1>8. MailedLinksHaveOwners'
  BY DEF MailedLinksHaveOwners, Typed, ResetSave
<1> QED BY <1>6, <1>7, <1>8 DEF Typed

LEMMA ResetDeleteTyped ==
  ASSUME Typed, NEW h \in Handlers, ResetDelete(h)
  PROVE  Typed'
<1>1. /\ links' \in [Links -> Forgot]
      /\ \A l \in Links : links'[l].owner = links[l].owner
  BY DEF ResetDelete, Typed, TypeOK, Forgot
<1> QED BY <1>1, EndTyped DEF ResetDelete, Typed, TypeOK, MailedLinksHaveOwners

\* The steps that leave links and requests alone.
LEMMA TableTyped ==
  ASSUME Typed, users' \in [Users -> Row],
         UNCHANGED <<links, mailed, calls, uses, torn>>
  PROVE  Typed'
<1>1. TypeOK'
  BY DEF Typed, TypeOK
<1>2. CallsFit' /\ MailedLinksHaveOwners'
  BY DEF Typed, CallsFit, CallFits, MailedLinksHaveOwners
<1> QED BY <1>1, <1>2 DEF Typed

LEMMA StopTyped ==
  ASSUME Typed, Stop
  PROVE  Typed'
<1>1. TypeOK'
  BY DEF Typed, TypeOK, Stop, tables
<1>2. CallsFit' /\ MailedLinksHaveOwners'
  BY DEF Typed, CallsFit, MailedLinksHaveOwners, Stop, tables
<1> QED BY <1>1, <1>2 DEF Typed

LEMMA NextTyped ==
  ASSUME Typed, [Next]_vars
  PROVE  Typed'
<1>1. ASSUME NEW h \in Handlers, Request(h)
      PROVE  Typed'
  BY <1>1, RequestTyped
<1>2. ASSUME NEW h \in Handlers, Continue(h)
      PROVE  Typed'
  BY <1>2, MailTyped, ConfirmSaveTyped, ForgotInsertTyped, ResetSaveTyped,
     ResetDeleteTyped DEF Continue
<1>3. ASSUME NEW u \in Users, Create(u) \/ UpdateStatus(u) \/ Delete(u)
      PROVE  Typed'
  <2>1. users' \in [Users -> Row]
    <3>1. users[u] \in Row /\ users \in [Users -> Row]
      BY DEF Typed, TypeOK
    <3>2. CASE Create(u)
      BY <3>1, <3>2 DEF Create, Row
    <3>3. CASE UpdateStatus(u)
      BY <3>1, <3>3 DEF UpdateStatus, Row
    <3>4. CASE Delete(u)
      BY <3>1, <3>4 DEF Delete, Row
    <3> QED BY <1>3, <3>2, <3>3, <3>4
  <2>2. UNCHANGED <<links, mailed, calls, uses, torn>>
    BY <1>3 DEF Create, UpdateStatus, Delete, history
  <2> QED BY <2>1, <2>2, TableTyped
<1>4. ASSUME UNCHANGED vars
      PROVE  Typed'
  BY <1>4, TableTyped DEF vars, tables, history, Typed, TypeOK
<1> QED BY <1>1, <1>2, <1>3, <1>4, StopTyped DEF Next

LEMMA SpecTyped == Spec => []Typed
BY InitTyped, NextTyped, PTL DEF Spec

\* Every variable keeps its type and, with it, a request its subject: what is
\* saved is always a user that exists.  (auth.service.ts)
THEOREM AccountsTypeCorrect == Spec => []TypeOK
<1>1. Typed => TypeOK
  BY DEF Typed
<1> QED BY <1>1, SpecTyped, PTL

-----------------------------------------------------------------------------
(* What a save can bring back.                                             *)

\* A save begins with the row as it is, and only if that row is found.
LEMMA NewSaves ==
  ASSUME Typed, NEW u \in Users, NEW g \in Handlers, Next, SavesUser(g, u)'
  PROVE  \/ SavesUser(g, u) /\ calls'[g] = calls[g]
         \/ Found(u) /\ calls'[g].row = users[u]
<1>0. calls'[g] # Idle /\ calls'[g].phase = "save" /\ DOMAIN calls = Handlers
  BY DEF SavesUser, Typed, TypeOK
<1>1. ASSUME calls'[g] = calls[g],
             calls[g].op = "reset" =>
               links'[calls[g].subject].owner = links[calls[g].subject].owner
      PROVE  SavesUser(g, u)
  BY <1>0, <1>1 DEF SavesUser, Saved
<1>2. ASSUME NEW h \in Handlers, NEW c, Begin(h, c), links' = links
      PROVE  calls'[g] = c \/ (SavesUser(g, u) /\ calls'[g] = calls[g])
  <2>1. calls'[g] = c \/ calls'[g] = calls[g]
    BY <1>2, <1>0 DEF Begin
  <2> QED BY <2>1, <1>1, <1>2
<1>3. ASSUME NEW h \in Handlers, Request(h)
      PROVE  \/ SavesUser(g, u) /\ calls'[g] = calls[g]
             \/ Found(u) /\ calls'[g].row = users[u]
  <2>1. ASSUME NEW v \in Users, Register(h, v)
        PROVE  SavesUser(g, u) /\ calls'[g] = calls[g]
    <3>1. Begin(h, Call("register", "mail", v, NoRow)) /\ links' = links
      BY <2>1 DEF Register
    <3>2. calls'[g] # Call("register", "mail", v, NoRow)
      BY <1>0 DEF Call
    <3> QED BY <3>1, <3>2, <1>2
  <2>2. ASSUME NEW v \in Users, Confirm(h, v)
        PROVE  \/ SavesUser(g, u) /\ calls'[g] = calls[g]
               \/ Found(u) /\ calls'[g].row = users[u]
    <3> DEFINE c == Call("confirm", "save", v, users[v])
    <3>1. Begin(h, c) /\ links' = links /\ Found(v)
      BY <2>2 DEF Confirm, tables
    <3>2. c.op = "confirm" /\ c.subject = v /\ c.row = users[v]
      BY DEF Call
    <3>3. calls'[g] = c => v = u
      BY <3>2 DEF SavesUser, Saved
    <3> HIDE DEF c
    <3> QED BY <3>1, <3>2, <3>3, <1>2
  <2>3. ASSUME NEW v \in Users, ForgotPassword(h, v)
        PROVE  SavesUser(g, u) /\ calls'[g] = calls[g]
    <3>1. Begin(h, Call("forgot", "insert", v, NoRow)) /\ links' = links
      BY <2>3 DEF ForgotPassword, tables
    <3>2. calls'[g] # Call("forgot", "insert", v, NoRow)
      BY <1>0 DEF Call
    <3> QED BY <3>1, <3>2, <1>2
  <2>4. ASSUME NEW l \in Links, Reset(h, l)
        PROVE  \/ SavesUser(g, u) /\ calls'[g] = calls[g]
               \/ Found(u) /\ calls'[g].row = users[u]
    <3> DEFINE c == Call("reset", "save", l, users[links[l].owner])
    <3>1. Begin(h, c) /\ links' = links /\ Found(links[l].owner)
      BY <2>4 DEF Reset, tables
    <3>2. c.op = "reset" /\ c.subject = l /\ c.row = users[links[l].owner]
      BY DEF Call
    <3>3. calls'[g] = c => links[l].owner = u
      BY <3>1, <3>2 DEF SavesUser, Saved
    <3> HIDE DEF c
    <3> QED BY <3>1, <3>2, <3>3, <1>2
  <2> QED BY <1>3, <2>1, <2>2, <2>3, <2>4 DEF Request
<1>4. ASSUME NEW h \in Handlers, Continue(h)
      PROVE  SavesUser(g, u) /\ calls'[g] = calls[g]
  <2>1. calls'[g] = calls[g]
    <3>1. CASE Mail(h) \/ ConfirmSave(h) \/ ResetDelete(h)
      BY <1>0, <3>1 DEF Mail, UserSignUp, ForgotPasswordMail, SendMail, At,
         ConfirmSave, ResetDelete, End
    <3>2. CASE ForgotInsert(h)
      <4>1. PICK l \in Links :
              calls' = [calls EXCEPT ![h].phase = "mail", ![h].subject = l]
        BY <3>2 DEF ForgotInsert
      <4>2. calls[h] \in Calls
        BY <3>2, AtType DEF ForgotInsert, At
      <4>3. g # h
        BY <1>0, <4>1, <4>2 DEF Calls
      <4> QED BY <1>0, <4>1, <4>3
    <3>3. CASE ResetSave(h)
      <4>1. calls[h] \in Calls
        BY <3>3, AtType DEF ResetSave, At
      <4>2. g # h
        BY <1>0, <3>3, <4>1 DEF ResetSave, Calls
      <4> QED BY <1>0, <3>3, <4>2 DEF ResetSave
    <3> QED BY <1>4, <3>1, <3>2, <3>3 DEF Continue
  <2>2. calls[g].op = "reset" =>
          links'[calls[g].subject].owner = links[calls[g].subject].owner
    <3> SUFFICES ASSUME calls[g].op = "reset"
                 PROVE  links'[calls[g].subject].owner = links[calls[g].subject].owner
      OBVIOUS
    <3>1. calls[g].subject \in Links /\ links[calls[g].subject].owner \in Users
      BY <1>0, <2>1, AtType DEF CallFits
    <3>2. CASE ForgotInsert(h)
      <4>1. links[calls[g].subject] # NoForgot
        BY <3>1, AccountsAssumption DEF NoForgot
      <4> QED BY <3>1, <3>2, <4>1 DEF ForgotInsert, Typed, TypeOK
    <3>3. CASE ResetDelete(h)
      BY <3>1, <3>3 DEF ResetDelete, Typed, TypeOK, Forgot
    <3>4. CASE Mail(h) \/ ConfirmSave(h) \/ ResetSave(h)
      BY <3>4 DEF Mail, UserSignUp, ForgotPasswordMail, SendMail, At,
         ConfirmSave, ResetSave, tables
    <3> QED BY <1>4, <3>2, <3>3, <3>4 DEF Continue
  <2> QED BY <2>1, <2>2, <1>1
<1>5. ASSUME NEW v \in Users, Create(v) \/ UpdateStatus(v) \/ Delete(v)
      PROVE  SavesUser(g, u) /\ calls'[g] = calls[g]
  BY <1>1, <1>5 DEF Create, UpdateStatus, Delete
<1>6. ~ Stop
  BY <1>0 DEF Stop
<1> QED BY <1>3, <1>4, <1>5, <1>6 DEF Next

\* What a step does to the row of a user: it is the user's first, or one that a
\* save had read, or the step changes no hash and no state but to deleted.
LEMMA RowWritten ==
  ASSUME Typed, NEW u \in Users, Next
  PROVE  \/ users[u].state = "none"
         \/ \E h \in Handlers : /\ SavesUser(h, u)
                                /\ users'[u].state = "kept"
                                /\ users'[u].hash => calls[h].row.hash
         \/ /\ users'[u].hash = users[u].hash
            /\ users'[u].state \in {users[u].state, "deleted"}
<1> DEFINE Remains == /\ users'[u].hash = users[u].hash
                      /\ users'[u].state \in {users[u].state, "deleted"}
<1>0. users[u] \in Row /\ users \in [Users -> Row]
  BY DEF Typed, TypeOK
<1>1. ASSUME NEW h \in Handlers, Request(h)
      PROVE  users[u].state = "none" \/ Remains
  <2>1. ASSUME NEW v \in Users, Register(h, v)
        PROVE  users[u].state = "none" \/ Remains
    BY <1>0, <2>1 DEF Register
  <2> QED BY <1>1, <2>1 DEF Request, Confirm, ForgotPassword, Reset, tables
<1>2. ASSUME NEW h \in Handlers, ConfirmSave(h)
      PROVE  \/ /\ SavesUser(h, u)
                /\ users'[u].state = "kept"
                /\ users'[u].hash => calls[h].row.hash
             \/ Remains
  <2>1. /\ calls[h].row.state = "kept" /\ calls[h].row \in Row
        /\ calls[h] # Idle /\ calls[h].op = "confirm" /\ calls[h].phase = "save"
    BY <1>2, AtType DEF ConfirmSave, At, CallFits, Calls
  <2>2. CASE u = calls[h].subject
    <3>1. users'[u] = [calls[h].row EXCEPT !.status = "active", !.hash = FALSE]
      BY <1>0, <1>2, <2>2 DEF ConfirmSave
    <3> QED BY <2>1, <2>2, <3>1 DEF SavesUser, Saved, Row
  <2>3. CASE u # calls[h].subject
    BY <1>0, <1>2, <2>3 DEF ConfirmSave
  <2> QED BY <2>2, <2>3
<1>3. ASSUME NEW h \in Handlers, ResetSave(h)
      PROVE  \/ /\ SavesUser(h, u)
                /\ users'[u].state = "kept"
                /\ users'[u].hash => calls[h].row.hash
             \/ Remains
  <2>1. /\ calls[h].row.state = "kept"
        /\ calls[h] # Idle /\ calls[h].op = "reset" /\ calls[h].phase = "save"
    BY <1>3, AtType DEF ResetSave, At, CallFits
  <2>2. CASE u = links[calls[h].subject].owner
    <3>1. users'[u] = calls[h].row
      BY <1>0, <1>3, <2>2 DEF ResetSave
    <3> QED BY <2>1, <2>2, <3>1 DEF SavesUser, Saved
  <2>3. CASE u # links[calls[h].subject].owner
    BY <1>0, <1>3, <2>3 DEF ResetSave
  <2> QED BY <2>2, <2>3
<1>4. ASSUME NEW h \in Handlers, Mail(h) \/ ForgotInsert(h) \/ ResetDelete(h)
      PROVE  Remains
  BY <1>4 DEF Mail, UserSignUp, ForgotPasswordMail, SendMail, At,
     ForgotInsert, ResetDelete, tables
<1>5. ASSUME NEW v \in Users, Create(v)
      PROVE  users[u].state = "none" \/ Remains
  BY <1>0, <1>5 DEF Create
<1>6. ASSUME NEW v \in Users, UpdateStatus(v)
      PROVE  Remains
  <2>1. PICK status \in {"inactive", "active"} :
          users' = [users EXCEPT ![v].status = status]
    BY <1>6 DEF UpdateStatus
  <2> QED BY <1>0, <2>1 DEF Row
<1>7. ASSUME NEW v \in Users, Delete(v)
      PROVE  Remains
  <2>1. users' = [users EXCEPT ![v].state = "deleted"]
    BY <1>7 DEF Delete
  <2> QED BY <1>0, <2>1 DEF Row
<1>8. ASSUME Stop
      PROVE  Remains
  BY <1>8 DEF Stop, tables
<1> HIDE DEF Remains
<1>9. ASSUME NEW h \in Handlers, Continue(h)
      PROVE  \/ \E g \in Handlers : /\ SavesUser(g, u)
                                    /\ users'[u].state = "kept"
                                    /\ users'[u].hash => calls[g].row.hash
             \/ Remains
  BY <1>2, <1>3, <1>4, <1>9 DEF Continue
<1>10. \/ users[u].state = "none"
       \/ \E h \in Handlers : /\ SavesUser(h, u)
                              /\ users'[u].state = "kept"
                              /\ users'[u].hash => calls[h].row.hash
       \/ Remains
  BY <1>1, <1>5, <1>6, <1>7, <1>8, <1>9 DEF Next
<1> QED BY <1>10 DEF Remains

\* A step that changes nothing changes no user's standing.
LEMMA StutterKeeps ==
  ASSUME NEW u \in Users, UNCHANGED vars
  PROVE  (Gone(u) => Gone(u)') /\ (Settled(u) => Settled(u)')
BY DEF vars, tables, Gone, Settled, SavesUser, Saved

LEMMA NextKeepsGone ==
  ASSUME Typed, NEW u \in Users, Gone(u), Next
  PROVE  Gone(u)'
<1>1. users'[u].state = "deleted"
  BY RowWritten DEF Gone
<1>2. ASSUME NEW h \in Handlers, SavesUser(h, u)'
      PROVE  FALSE
  BY <1>2, NewSaves DEF Gone, Found
<1> QED BY <1>1, <1>2 DEF Gone

\* A deletion is final, however many links are still about and whoever
\* registers with the address, once no confirmation and no reset holds the row
\* as it was before.  (confirmEmail, resetPassword, register, softDelete)
THEOREM DeletedIsForGood == Spec => DeletedForGood
<1>1. Typed /\ [Next]_vars => [\A u \in Users : Gone(u) => Gone(u)']_vars
  BY NextKeepsGone, StutterKeeps
<1> QED BY <1>1, SpecTyped, PTL DEF Spec, DeletedForGood

LEMMA NextKeepsSettled ==
  ASSUME Typed, NEW u \in Users, Settled(u), Next
  PROVE  Settled(u)'
<1>1. users'[u].state # "none" /\ ~ users'[u].hash
  BY RowWritten DEF Settled
<1>2. ASSUME NEW h \in Handlers, SavesUser(h, u)'
      PROVE  ~ calls'[h].row.hash
  BY <1>2, NewSaves DEF Settled
<1> QED BY <1>1, <1>2 DEF Settled

\* A confirmation's link never becomes valid again once no request holds the
\* row with its hash.  (confirmEmail, resetPassword, forgotPassword)
THEOREM ConfirmedIsForGood == Spec => ConfirmedForGood
<1>1. Typed /\ [Next]_vars => [\A u \in Users : Settled(u) => Settled(u)']_vars
  BY NextKeepsSettled, StutterKeeps
<1> QED BY <1>1, SpecTyped, PTL DEF Spec, ConfirmedForGood

-----------------------------------------------------------------------------
(* How often a link is used.                                               *)

LEMMA WritersFinite ==
  ASSUME NEW l, NEW phase
  PROVE  /\ Writers(l, phase) \subseteq Handlers
         /\ IsFiniteSet(Writers(l, phase))
         /\ Cardinality(Writers(l, phase)) \in Nat
<1>1. Writers(l, phase) \subseteq Handlers
  BY DEF Writers
<1> QED BY <1>1, AccountsAssumption, FS_Subset, FS_CardinalityType

LEMMA HandlersCount == Cardinality(Handlers) \in Nat
BY AccountsAssumption, FS_CardinalityType

\* Two sets of handlers with nothing in common.
LEMMA DisjointHandlers ==
  ASSUME NEW S, NEW D, S \subseteq Handlers, D \subseteq Handlers, S \cap D = {}
  PROVE  Cardinality(S) + Cardinality(D) <= Cardinality(Handlers)
<1>1. /\ IsFiniteSet(S) /\ IsFiniteSet(D)
      /\ Cardinality(S) \in Nat /\ Cardinality(D) \in Nat
  BY AccountsAssumption, FS_Subset, FS_CardinalityType
<1>2. Cardinality(S \cup D) = Cardinality(S) + Cardinality(D)
  <2>1. Cardinality({}) = 0
    BY FS_EmptySet
  <2>2. Cardinality(S \cup D) =
          Cardinality(S) + Cardinality(D) - Cardinality(S \cap D)
    BY <1>1, FS_Union
  <2>3. Cardinality(S \cap D) = 0
    BY <2>1
  <2> QED BY <1>1, <2>2, <2>3
<1>3. Cardinality(S \cup D) <= Cardinality(Handlers)
  BY AccountsAssumption, FS_Subset
<1> QED BY <1>2, <1>3

\* A step that changes nothing of what is counted.
LEMMA CountKept ==
  ASSUME NEW l \in Links, Counted(l), uses'[l] = uses[l], torn' = torn,
         links'[l].used = links[l].used,
         \A g \in Handlers : \A phase \in {"save", "delete"} :
           g \in Writers(l, phase)' <=> g \in Writers(l, phase)
  PROVE  Counted(l)'
<1>1. Writers(l, "save")' = Writers(l, "save")
  BY DEF Writers
<1>2. Writers(l, "delete")' = Writers(l, "delete")
  BY DEF Writers
<1> QED BY <1>1, <1>2 DEF Counted

\* One handler's step, neither out of nor into a reset.
LEMMA OtherCallsCount ==
  ASSUME Typed, NEW l \in Links, Counted(l), NEW h \in Handlers,
         uses'[l] = uses[l], torn' = torn, links'[l].used = links[l].used,
         \A g \in Handlers \ {h} : calls'[g] = calls[g],
         calls[h] # Idle => calls[h].op # "reset" \/ calls[h].subject # l,
         calls'[h] # Idle => calls'[h].op # "reset" \/ calls'[h].subject # l
  PROVE  Counted(l)'
<1>1. \A g \in Handlers : \A phase \in {"save", "delete"} :
        g \in Writers(l, phase)' <=> g \in Writers(l, phase)
  BY DEF Writers, At
<1> QED BY <1>1, CountKept

LEMMA RequestCounts ==
  ASSUME Typed, NEW l \in Links, Counted(l), NEW h \in Handlers, Request(h)
  PROVE  Counted(l)'
<1>1. UNCHANGED <<links, uses, torn>>
  BY DEF Request, Register, Confirm, ForgotPassword, Reset, tables, history
<1>2. ASSUME NEW c, Begin(h, c)
      PROVE  /\ calls[h] = Idle /\ calls'[h] = c
             /\ \A g \in Handlers \ {h} : calls'[g] = calls[g]
  BY <1>2 DEF Begin, Typed, TypeOK
<1>3. ASSUME NEW c, Begin(h, c), c.op # "reset" \/ c.subject # l
      PROVE  Counted(l)'
  BY <1>1, <1>2, <1>3, OtherCallsCount
<1>4. ASSUME NEW u \in Users, Register(h, u)
      PROVE  Counted(l)'
  <2> DEFINE c == Call("register", "mail", u, NoRow)
  <2>1. Begin(h, c) /\ c.op # "reset"
    BY <1>4 DEF Register, Call
  <2> HIDE DEF c
  <2> QED BY <2>1, <1>3
<1>5. ASSUME NEW u \in Users, Confirm(h, u)
      PROVE  Counted(l)'
  <2> DEFINE c == Call("confirm", "save", u, users[u])
  <2>1. Begin(h, c) /\ c.op # "reset"
    BY <1>5 DEF Confirm, Call
  <2> HIDE DEF c
  <2> QED BY <2>1, <1>3
<1>6. ASSUME NEW u \in Users, ForgotPassword(h, u)
      PROVE  Counted(l)'
  <2> DEFINE c == Call("forgot", "insert", u, NoRow)
  <2>1. Begin(h, c) /\ c.op # "reset"
    BY <1>6 DEF ForgotPassword, Call
  <2> HIDE DEF c
  <2> QED BY <2>1, <1>3
<1>7. ASSUME NEW k \in Links, Reset(h, k)
      PROVE  Counted(l)'
  <2> DEFINE c == Call("reset", "save", k, users[links[k].owner])
  <2>1. /\ Begin(h, c) /\ ~ links[k].used
        /\ c.op = "reset" /\ c.phase = "save" /\ c.subject = k
    BY <1>7 DEF Reset, Call
  <2>2. c # Idle
    BY <1>7, CallType, IdleIsNoCall DEF Reset, Typed, TypeOK,
       MailedLinksHaveOwners
  <2> HIDE DEF c
  <2>3. CASE k # l
    BY <2>1, <2>3, <1>3
  <2>4. CASE k = l
    <3> DEFINE S == Writers(l, "save")
               D == Writers(l, "delete")
    <3>1. /\ calls[h] = Idle /\ calls'[h] = c
          /\ \A g \in Handlers \ {h} : calls'[g] = calls[g]
      BY <2>1, <1>2
    <3>2. S' = S \cup {h} /\ D' = D /\ h \notin S /\ h \notin D /\ S \cap D = {}
      <4>1. \A g \in Handlers : g \in S' <=> g \in S \/ g = h
        BY <2>1, <2>2, <2>4, <3>1 DEF Writers, At
      <4>2. \A g \in Handlers : g \in D' <=> g \in D
        BY <2>1, <3>1 DEF Writers, At
      <4>3. h \notin S /\ h \notin D /\ S \cap D = {}
        BY <3>1 DEF Writers, At
      <4> QED BY <4>1, <4>2, <4>3 DEF Writers
    <3>3. S \cup {h} \subseteq Handlers /\ D \subseteq Handlers /\ (S \cup {h}) \cap D = {}
      BY <3>2, WritersFinite
    <3> HIDE DEF S, D
    <3>4. Cardinality(S \cup {h}) + Cardinality(D) <= Cardinality(Handlers)
      BY <3>3, DisjointHandlers
    <3>5. l \notin torn => uses[l] = Cardinality(D)
      BY <2>1, <2>4 DEF Counted, D
    <3>6. Cardinality(D) \in Nat /\ Cardinality(S \cup {h}) \in Nat
      BY <3>3, AccountsAssumption, FS_Subset, FS_CardinalityType
    <3>7. /\ Writers(l, "save")' = S \cup {h}
          /\ Writers(l, "delete")' = D
      BY <3>2 DEF S, D
    <3>8. /\ l \notin torn => uses'[l] = Cardinality(D)
          /\ torn' = torn
      BY <1>1, <3>5
    <3>9. l \notin torn =>
            uses'[l] + Cardinality(S \cup {h}) <= Cardinality(Handlers)
      BY <3>4, <3>6, <3>8, HandlersCount
    <3> QED BY <3>7, <3>8, <3>9 DEF Counted
  <2> QED BY <2>3, <2>4
<1> QED BY <1>4, <1>5, <1>6, <1>7 DEF Request

LEMMA ResetSaveCounts ==
  ASSUME Typed, NEW l \in Links, Counted(l), NEW h \in Handlers, ResetSave(h)
  PROVE  Counted(l)'
<1>1. /\ calls[h] # Idle /\ calls[h] \in Calls
      /\ calls[h].op = "reset" /\ calls[h].phase = "save"
  BY AtType DEF ResetSave, At
<1>2. calls' = [calls EXCEPT ![h].phase = "delete"] /\ DOMAIN calls = Handlers
  BY DEF ResetSave, Typed, TypeOK
<1>3. /\ calls'[h] \in Calls
      /\ calls'[h].op = "reset" /\ calls'[h].phase = "delete"
      /\ calls'[h].subject = calls[h].subject
      /\ \A g \in Handlers \ {h} : calls'[g] = calls[g]
  BY <1>1, <1>2 DEF Calls
<1>4. calls'[h] # Idle
  BY <1>3, IdleIsNoCall
<1>5. links' = links /\ torn' = torn
  BY DEF ResetSave
<1>6. CASE calls[h].subject # l
  <2>1. uses'[l] = uses[l]
    BY <1>6 DEF ResetSave, Typed, TypeOK
  <2> QED BY <1>3, <1>5, <1>6, <2>1, OtherCallsCount
<1>7. CASE calls[h].subject = l
  <2> DEFINE S == Writers(l, "save")
             D == Writers(l, "delete")
  <2>1. S' = S \ {h} /\ D' = D \cup {h} /\ h \in S /\ h \notin D
    <3>1. \A g \in Handlers : g \in S' <=> g \in S /\ g # h
      BY <1>1, <1>3 DEF Writers, At
    <3>2. \A g \in Handlers : g \in D' <=> g \in D \/ g = h
      BY <1>1, <1>3, <1>4, <1>7 DEF Writers, At
    <3>3. h \in S /\ h \notin D
      BY <1>1, <1>7 DEF Writers, At
    <3> QED BY <3>1, <3>2, <3>3 DEF Writers
  <2>2. /\ IsFiniteSet(S) /\ IsFiniteSet(D)
        /\ Cardinality(S) \in Nat /\ Cardinality(D) \in Nat
    BY WritersFinite
  <2>3. l \notin torn => uses'[l] = uses[l] + 1 /\ uses[l] \in Nat
    BY <1>7 DEF ResetSave, Typed, TypeOK
  <2>4. l \notin torn =>
          /\ uses[l] + Cardinality(S) <= Cardinality(Handlers)
          /\ ~ links[l].used => uses[l] = Cardinality(D)
    BY DEF Counted
  <2>5. /\ Writers(l, "save")' = S \ {h}
        /\ Writers(l, "delete")' = D \cup {h}
    BY <2>1
  <2> HIDE DEF S, D
  <2>6. Cardinality(S \ {h}) = Cardinality(S) - 1
    BY <2>1, <2>2, FS_RemoveElement
  <2>7. Cardinality(D \cup {h}) = Cardinality(D) + 1
    BY <2>1, <2>2, FS_AddElement
  <2>8. l \notin torn =>
          /\ uses'[l] + Cardinality(S \ {h}) <= Cardinality(Handlers)
          /\ ~ links[l].used => uses'[l] = Cardinality(D \cup {h})
    BY <2>2, <2>3, <2>4, <2>6, <2>7, HandlersCount
  <2> QED BY <1>5, <2>5, <2>8 DEF Counted
<1> QED BY <1>6, <1>7

LEMMA ResetDeleteCounts ==
  ASSUME Typed, NEW l \in Links, Counted(l), NEW h \in Handlers, ResetDelete(h)
  PROVE  Counted(l)'
<1>1. /\ calls[h] # Idle /\ calls[h].op = "reset" /\ calls[h].phase = "delete"
  BY DEF ResetDelete, At
<1>2. /\ calls'[h] = Idle
      /\ \A g \in Handlers \ {h} : calls'[g] = calls[g]
      /\ uses' = uses /\ torn' = torn
  BY DEF ResetDelete, End, Typed, TypeOK, history
<1>3. CASE calls[h].subject # l
  <2>1. links'[l].used = links[l].used
    BY <1>3 DEF ResetDelete, Typed, TypeOK
  <2> QED BY <1>2, <1>3, <2>1, OtherCallsCount
<1>4. CASE calls[h].subject = l
  <2>1. links'[l].used
    BY <1>4 DEF ResetDelete, Typed, TypeOK, Forgot
  <2>2. \A g \in Handlers : g \in Writers(l, "save")' <=> g \in Writers(l, "save")
    BY <1>1, <1>2 DEF Writers, At
  <2>3. Writers(l, "save")' = Writers(l, "save")
    BY <2>2 DEF Writers
  <2> QED BY <1>2, <2>1, <2>3 DEF Counted
<1> QED BY <1>3, <1>4

\* The steps of a request that has nothing to do with a reset.
LEMMA OtherContinueCounts ==
  ASSUME Typed, NEW l \in Links, Counted(l), NEW h \in Handlers,
         Mail(h) \/ ConfirmSave(h) \/ ForgotInsert(h)
  PROVE  Counted(l)'
<1>1. UNCHANGED <<uses, torn>> /\ links'[l].used = links[l].used
  BY DEF Mail, UserSignUp, ForgotPasswordMail, SendMail, At, ConfirmSave,
     ForgotInsert, tables, history, Typed, TypeOK, Forgot
<1>2. calls[h] # Idle /\ calls[h] \in Calls /\ calls[h].op # "reset"
  BY AtType DEF Mail, UserSignUp, ForgotPasswordMail, SendMail, At,
     ConfirmSave, ForgotInsert, CallFits
<1>3. \A g \in Handlers \ {h} : calls'[g] = calls[g]
  BY DEF Mail, UserSignUp, ForgotPasswordMail, SendMail, At, ConfirmSave,
     ForgotInsert, End, Typed, TypeOK
<1>4. calls'[h] # Idle => calls'[h].op # "reset"
  <2>1. CASE Mail(h) \/ ConfirmSave(h)
    BY <2>1 DEF Mail, UserSignUp, ForgotPasswordMail, SendMail, At,
       ConfirmSave, End, Typed, TypeOK
  <2>2. CASE ForgotInsert(h)
    <3>1. PICK k \in Links :
            calls' = [calls EXCEPT ![h].phase = "mail", ![h].subject = k]
      BY <2>2 DEF ForgotInsert
    <3> QED BY <1>2, <3>1 DEF Calls, Typed, TypeOK
  <2> QED BY <2>1, <2>2
<1> QED BY <1>1, <1>2, <1>3, <1>4, OtherCallsCount

LEMMA StopCounts ==
  ASSUME Typed, NEW l \in Links, Counted(l), Stop
  PROVE  Counted(l)'
<1> SUFFICES ASSUME l \notin torn'
             PROVE  Counted(l)'
  BY DEF Counted
<1>1. l \notin torn /\ uses' = uses /\ links' = links
  BY DEF Stop, tables
<1>2. Writers(l, "delete") = {}
  BY DEF Stop, Writers
<1>3. Writers(l, "save")' = {} /\ Writers(l, "delete")' = {}
  BY DEF Stop, Writers, At
<1>4. Cardinality({}) = 0
  BY FS_EmptySet
<1>5. uses[l] \in Nat /\ Cardinality(Writers(l, "save")) \in Nat
  BY WritersFinite DEF Typed, TypeOK
<1>6. /\ uses[l] + Cardinality(Writers(l, "save")) <= Cardinality(Handlers)
      /\ ~ links[l].used => uses[l] = 0
  BY <1>1, <1>2, <1>4 DEF Counted
<1>7. uses[l] + 0 <= Cardinality(Handlers)
  BY <1>5, <1>6, HandlersCount
<1> QED BY <1>1, <1>3, <1>4, <1>6, <1>7 DEF Counted

LEMMA NextCounts ==
  ASSUME Typed, NEW l \in Links, Counted(l), [Next]_vars
  PROVE  Counted(l)'
<1>1. ASSUME NEW h \in Handlers, Continue(h)
      PROVE  Counted(l)'
  BY <1>1, ResetSaveCounts, ResetDeleteCounts, OtherContinueCounts DEF Continue
<1>2. ASSUME UNCHANGED <<links, calls, uses, torn>>
      PROVE  Counted(l)'
  BY <1>2 DEF Counted, Writers, At
<1>3. ASSUME NEW u \in Users, Create(u) \/ UpdateStatus(u) \/ Delete(u)
      PROVE  Counted(l)'
  BY <1>2, <1>3 DEF Create, UpdateStatus, Delete, history
<1>4. ASSUME UNCHANGED vars
      PROVE  Counted(l)'
  BY <1>2, <1>4 DEF vars, tables, history
<1> QED BY <1>1, <1>3, <1>4, RequestCounts, StopCounts DEF Next

LEMMA InitCounts == Init => UsesCounted
<1> SUFFICES ASSUME Init, NEW l \in Links
             PROVE  Counted(l)
  BY DEF UsesCounted
<1>1. Writers(l, "save") = {} /\ Writers(l, "delete") = {}
  BY DEF Init, Writers, At
<1>2. Cardinality({}) = 0
  BY FS_EmptySet
<1>3. uses[l] = 0
  BY DEF Init
<1> QED BY <1>1, <1>2, <1>3, HandlersCount DEF Counted

\* A link sets a password at most as often as requests are handled at the same
\* time, however often it is opened, unless main-app stopped between the
\* password and the deletion of the link.  (resetPassword)
THEOREM LinkUsesAreBounded == Spec => []LinkUsesBounded
<1>1. Init => IInv
  BY InitTyped, InitCounts DEF IInv
<1>2. IInv /\ [Next]_vars => IInv'
  BY NextTyped, NextCounts DEF IInv, UsesCounted
<1>3. IInv => LinkUsesBounded
  <2> SUFFICES ASSUME IInv, NEW l \in Links, l \notin torn
               PROVE  uses[l] <= Cardinality(Handlers)
    BY DEF LinkUsesBounded
  <2>1. uses[l] + Cardinality(Writers(l, "save")) <= Cardinality(Handlers)
    BY DEF IInv, UsesCounted, Counted
  <2>2. uses[l] \in Nat /\ Cardinality(Writers(l, "save")) \in Nat
    BY WritersFinite DEF IInv, Typed, TypeOK
  <2> QED BY <2>1, <2>2, HandlersCount
<1> QED BY <1>1, <1>2, <1>3, PTL DEF Spec

-----------------------------------------------------------------------------
(* Sessions, with the same ids and handlers; calls are here its requests.  *)

CONSTANT Browsers
VARIABLES rows, access, cookie, chats

S == INSTANCE Sessions

-----------------------------------------------------------------------------
(* Sessions: types.                                                        *)

LEMMA CallTyped ==
  ASSUME S!TypeOK, NEW op \in {"cookie", "body", "save"},
         NEW b \in Browsers, NEW u \in Users
  PROVE  /\ S!Call(op, b, u) \in S!Calls
         /\ S!Call(op, b, u).user = u
BY DEF S!TypeOK, S!Call, S!Calls

LEMMA RolesOf ==
  ASSUME S!TypeOK, NEW u \in Users
  PROVE  rows[u].state \in {"none", "kept", "deleted"} /\ rows[u].role \in S!Roles
BY DEF S!TypeOK, S!Row

LEMMA CallOf ==
  ASSUME S!TypeOK, NEW h \in Handlers, calls[h].op \in {"cookie", "body", "save"}
  PROVE  calls[h] \in S!Calls
<1>1. calls[h] \in {S!Idle} \cup S!Calls
  BY DEF S!TypeOK
<1>2. calls[h] # S!Idle
  BY DEF S!Idle
<1> QED BY <1>1, <1>2

\* A request that begins.
LEMMA SessionBeginTyped ==
  ASSUME S!TypeOK, NEW h \in Handlers, NEW c \in S!Calls, S!Begin(h, c),
         UNCHANGED <<rows, S!browser, chats>>
  PROVE  S!TypeOK'
BY DEF S!TypeOK, S!Begin, S!browser

LEMMA SigningInTyped ==
  ASSUME S!TypeOK, NEW h \in Handlers, NEW b \in Browsers, NEW u \in Users,
         \/ \E role \in S!Roles : S!Login(h, b, u, role)
         \/ S!GoogleLogin(h, b, u) \/ S!ReadEntity(h, b, u)
  PROVE  S!TypeOK'
<1>1. PICK op \in {"cookie", "body", "save"} :
        S!Begin(h, S!Call(op, b, u)) /\ UNCHANGED <<rows, S!browser, chats>>
  BY DEF S!Login, S!GoogleLogin, S!ReadEntity
<1>2. S!Call(op, b, u) \in S!Calls
  BY CallTyped
<1> QED BY <1>1, <1>2, SessionBeginTyped

LEMMA RefreshTyped ==
  ASSUME S!TypeOK, NEW h \in Handlers, NEW b \in Browsers, S!Refresh(h, b)
  PROVE  S!TypeOK'
<1>1. cookie[b] \in Users
  BY DEF S!TypeOK, S!Refresh
<1>2. S!Call("cookie", b, cookie[b]) \in S!Calls
  BY <1>1, CallTyped
<1> QED BY <1>2, SessionBeginTyped DEF S!Refresh

LEMMA ContinueTyped ==
  ASSUME S!TypeOK, NEW h \in Handlers, S!Continue(h)
  PROVE  S!TypeOK'
<1>0. calls[h].op \in {"cookie", "body", "save"}
  BY DEF S!Continue, S!Answer, S!SaveEntity
<1>1. calls[h] \in S!Calls
  BY <1>0, CallOf
<1>2. /\ calls[h].from \in Browsers
      /\ calls[h].user \in Users
      /\ calls[h].row \in S!Row
      /\ calls[h].row.role \in S!Roles
  BY <1>1 DEF S!Calls, S!Row
<1>3. calls' \in [Handlers -> S!Calls \cup {S!Idle}]
  BY DEF S!Continue, S!Answer, S!SaveEntity, S!End, S!TypeOK
<1>4. CASE S!Answer(h)
  <2>1. access' \in [Browsers -> S!Claims]
    BY <1>2, <1>4 DEF S!Answer, S!TypeOK, S!Claims
  <2>2. cookie' \in [Browsers -> Users \cup {NoUser}]
    BY <1>2, <1>4 DEF S!Answer, S!TypeOK
  <2> QED BY <2>1, <2>2, <1>3, <1>4 DEF S!Answer, S!TypeOK
<1>5. CASE S!SaveEntity(h)
  BY <1>2, <1>3, <1>5 DEF S!SaveEntity, S!SetRow, S!TypeOK, S!browser
<1> QED BY <1>4, <1>5 DEF S!Continue

\* What happens in a browser.
LEMMA BrowserTyped ==
  ASSUME S!TypeOK, NEW b \in Browsers,
         S!Logout(b) \/ S!Expire(b) \/ S!OpenChat(b) \/ S!CloseChat(b)
  PROVE  S!TypeOK'
<1>1. S!NoToken \in S!Claims
  BY DEF S!NoToken, S!Claims, S!Roles
<1>2. access[b] \in S!Claims /\ access[b].user \in Users \cup {NoUser}
  BY DEF S!TypeOK, S!Claims
<1>3. access' \in [Browsers -> S!Claims]
  BY <1>1 DEF S!Logout, S!Expire, S!ExpireAccess, S!ExpireRefresh, S!OpenChat,
      S!CloseChat,
              S!browser, S!TypeOK
<1>4. cookie' \in [Browsers -> Users \cup {NoUser}]
  BY DEF S!Logout, S!Expire, S!ExpireAccess, S!ExpireRefresh, S!OpenChat,
      S!CloseChat,
         S!browser, S!TypeOK
<1>5. chats' \in [Browsers -> Users \cup {NoUser}]
  BY <1>2 DEF S!Logout, S!Expire, S!ExpireAccess, S!ExpireRefresh, S!OpenChat,
      S!CloseChat,
              S!IdByToken, S!TypeOK
<1>6. UNCHANGED <<rows, calls>>
  BY DEF S!Logout, S!Expire, S!ExpireAccess, S!ExpireRefresh, S!OpenChat,
      S!CloseChat
<1> QED BY <1>3, <1>4, <1>5, <1>6 DEF S!TypeOK

\* A step on a user's row; a deleted user's row stays deleted.
RowStep(u) == /\ \E row \in S!Row : /\ S!SetRow(u, row)
                                    /\ rows[u].state = "deleted" => row.state = "deleted"
              /\ UNCHANGED <<S!browser, chats, calls>>

LEMMA RowSteps ==
  ASSUME S!TypeOK, NEW b, NEW u \in Users,
         S!Register(u) \/ S!AdminCreate(b, u) \/ S!AdminUpdate(b, u) \/ S!Delete(u)
  PROVE  RowStep(u)
<1>0. rows[u].state \in {"none", "kept", "deleted"} /\ rows[u].role \in S!Roles
  BY RolesOf
<1>1. CASE S!Register(u)
  <2>1. [state |-> "kept", role |-> "user"] \in S!Row
    BY DEF S!Row, S!Roles
  <2> QED BY <2>1, <1>1 DEF S!Register, S!Free, RowStep
<1>2. CASE S!AdminCreate(b, u)
  <2>1. PICK role \in S!Roles : S!SetRow(u, [state |-> "kept", role |-> role])
    BY <1>2 DEF S!AdminCreate
  <2>2. [state |-> "kept", role |-> role] \in S!Row
    BY DEF S!Row
  <2> QED BY <2>1, <2>2, <1>2 DEF S!AdminCreate, S!Free, RowStep
<1>3. CASE S!AdminUpdate(b, u)
  <2> DEFINE row(role) == [state |-> IF S!Free(u) THEN "kept" ELSE rows[u].state,
                           role |-> role]
  <2>1. PICK role \in S!Roles : S!SetRow(u, row(role))
    BY <1>3 DEF S!AdminUpdate
  <2>2. row(role) \in S!Row /\ (rows[u].state = "deleted" => row(role).state = "deleted")
    BY <1>0 DEF S!Row, S!Free
  <2>3. UNCHANGED <<S!browser, chats, calls>>
    BY <1>3 DEF S!AdminUpdate
  <2> HIDE DEF row
  <2> QED BY <2>1, <2>2, <2>3 DEF RowStep
<1>4. CASE S!Delete(u)
  <2>1. rows[u] \in S!Row
    BY DEF S!TypeOK
  <2> DEFINE row == [rows[u] EXCEPT !.state = "deleted"]
  <2>2. row \in S!Row /\ row.state = "deleted"
    BY <2>1 DEF S!Row
  <2>3. S!SetRow(u, row) /\ UNCHANGED <<S!browser, chats, calls>>
    BY <1>4 DEF S!Delete
  <2> HIDE DEF row
  <2> QED BY <2>2, <2>3 DEF RowStep
<1> QED BY <1>1, <1>2, <1>3, <1>4

LEMMA RowStepTyped ==
  ASSUME S!TypeOK, NEW u \in Users, RowStep(u)
  PROVE  S!TypeOK'
BY DEF S!TypeOK, RowStep, S!SetRow, S!browser

\* The strategy accepts only tokens of users.
TokensOfUsers == \A b \in Browsers : access[b].user = NoUser => access[b] = S!NoToken

\* Every step is one of these.
LEMMA Steps ==
  ASSUME S!TypeOK, TokensOfUsers, S!Next
  PROVE  \/ \E h \in Handlers, b \in Browsers, u \in Users :
              \/ \E role \in S!Roles : S!Login(h, b, u, role)
              \/ S!GoogleLogin(h, b, u) \/ S!ReadEntity(h, b, u)
         \/ \E h \in Handlers, b \in Browsers : S!Refresh(h, b)
         \/ \E h \in Handlers : S!Continue(h)
         \/ \E b \in Browsers :
              S!Logout(b) \/ S!Expire(b) \/ S!OpenChat(b) \/ S!CloseChat(b)
         \/ \E u \in Users : RowStep(u)
<1>1. ASSUME NEW b \in Browsers, S!DeleteSelf(b)
      PROVE  \E u \in Users : RowStep(u)
  <2>1. access[b].user \in Users
    BY <1>1 DEF S!DeleteSelf, S!Authenticated, S!TypeOK, S!Claims, TokensOfUsers
  <2> QED BY <1>1, <2>1, RowSteps DEF S!DeleteSelf
<1>2. ASSUME NEW b \in Browsers, NEW u \in Users,
             S!AdminCreate(b, u) \/ S!AdminUpdate(b, u) \/ S!AdminDelete(b, u)
      PROVE  RowStep(u)
  BY <1>2, RowSteps DEF S!AdminDelete
<1>3. ASSUME NEW u \in Users, S!Register(u)
      PROVE  RowStep(u)
  BY <1>3, RowSteps
<1> QED BY <1>1, <1>2, <1>3 DEF S!Next, S!PasswordEndpoint, S!GoogleEndpoint,
    S!ProfileByToken

LEMMA SessionsInitTyped == S!Init => S!TypeOK /\ TokensOfUsers
BY DEF S!Init, S!TypeOK, S!Row, S!NoRow, S!Roles, S!Claims, S!NoToken, TokensOfUsers

LEMMA TokensStayOfUsers ==
  ASSUME S!TypeOK, TokensOfUsers, [S!Next]_(S!vars)
  PROVE  TokensOfUsers'
<1>1. ASSUME UNCHANGED access
      PROVE  TokensOfUsers'
  BY <1>1 DEF TokensOfUsers
<1>2. ASSUME NEW b \in Browsers, access' = [access EXCEPT ![b] = S!NoToken]
      PROVE  TokensOfUsers'
  BY <1>2 DEF TokensOfUsers, S!TypeOK
<1>3. ASSUME NEW h \in Handlers, S!Answer(h)
      PROVE  TokensOfUsers'
  <2>1. calls[h] \in S!Calls
    BY <1>3, CallOf DEF S!Answer
  <2>2. calls[h].user \in Users /\ calls[h].user # NoUser
    BY <2>1, AccountsAssumption DEF S!Calls
  <2>3. access' = [access EXCEPT ![calls[h].from] =
                     [user |-> calls[h].user, role |-> calls[h].row.role]]
    BY <1>3 DEF S!Answer
  <2> QED BY <2>2, <2>3 DEF TokensOfUsers, S!TypeOK
<1>4. CASE S!Next
  BY <1>1, <1>2, <1>3, <1>4, Steps DEF S!Login, S!GoogleLogin, S!ReadEntity,
      S!Refresh,
     S!Continue, S!SaveEntity, S!Logout, S!Expire, S!ExpireAccess, S!ExpireRefresh, S!OpenChat,
     S!CloseChat, RowStep, S!browser
<1>5. CASE UNCHANGED S!vars
  BY <1>1, <1>5 DEF S!vars, S!browser
<1> QED BY <1>4, <1>5

LEMMA SessionsNextTyped ==
  ASSUME S!TypeOK, TokensOfUsers, [S!Next]_(S!vars)
  PROVE  S!TypeOK'
<1>1. CASE S!Next
  BY <1>1, Steps, SigningInTyped, RefreshTyped, ContinueTyped, BrowserTyped,
     RowStepTyped
<1>2. CASE UNCHANGED S!vars
  BY <1>2 DEF S!vars, S!browser, S!TypeOK
<1> QED BY <1>1, <1>2

LEMMA AlwaysTyped == S!Spec => [](S!TypeOK /\ TokensOfUsers)
BY SessionsInitTyped, SessionsNextTyped, TokensStayOfUsers, PTL DEF S!Spec

\* Rows, tokens, sockets and requests keep their types: a token is always of
\* a user's id.  (auth.service.ts)
THEOREM SessionsTypeCorrect == S!Spec => []S!TypeOK
BY AlwaysTyped, PTL

-----------------------------------------------------------------------------
(* Sessions: signed out for good.                                          *)

LEMMA BeginStaysOut ==
  ASSUME S!TypeOK, NEW v \in Users, S!SignedOut(v), NEW h \in Handlers, NEW c,
         S!Begin(h, c), c.user # v, UNCHANGED <<rows, S!browser, chats>>
  PROVE  S!SignedOut(v)'
<1>1. rows' = rows /\ access' = access
  BY DEF S!browser
<1>2. \A g \in Handlers : calls'[g] # S!Idle => calls'[g].user # v
  BY DEF S!Begin, S!TypeOK, S!SignedOut
<1> QED BY <1>1, <1>2 DEF S!SignedOut

\* The row of who is deleted is not found, so nothing begins for that user.
LEMMA SigningInStaysOut ==
  ASSUME S!TypeOK, NEW v \in Users, S!SignedOut(v), NEW h \in Handlers,
         NEW b \in Browsers, NEW u \in Users,
         \/ \E role \in S!Roles : S!Login(h, b, u, role)
         \/ S!GoogleLogin(h, b, u) \/ S!ReadEntity(h, b, u)
  PROVE  S!SignedOut(v)'
<1>1. PICK op \in {"cookie", "body", "save"} :
        S!Begin(h, S!Call(op, b, u)) /\ UNCHANGED <<rows, S!browser, chats>>
  BY DEF S!Login, S!GoogleLogin, S!ReadEntity
<1>2. u # v
  BY DEF S!Login, S!GoogleLogin, S!ReadEntity, S!Found, S!SignedOut
<1>3. S!Call(op, b, u).user # v
  BY <1>2, CallTyped
<1> QED BY <1>1, <1>3, BeginStaysOut

LEMMA RefreshStaysOut ==
  ASSUME S!TypeOK, NEW v \in Users, S!SignedOut(v), NEW h \in Handlers,
         NEW b \in Browsers, S!Refresh(h, b)
  PROVE  S!SignedOut(v)'
<1>1. cookie[b] \in Users /\ cookie[b] # v
  BY DEF S!TypeOK, S!Refresh, S!Found, S!SignedOut
<1>2. S!Call("cookie", b, cookie[b]).user # v
  BY <1>1, CallTyped
<1> QED BY <1>2, BeginStaysOut DEF S!Refresh

LEMMA ContinueStaysOut ==
  ASSUME S!TypeOK, NEW v \in Users, S!SignedOut(v), NEW h \in Handlers, S!Continue(h)
  PROVE  S!SignedOut(v)'
<1>0. calls[h].op \in {"cookie", "body", "save"}
  BY DEF S!Continue, S!Answer, S!SaveEntity
<1>1. calls[h] \in S!Calls /\ calls[h] # S!Idle
  BY <1>0, CallOf DEF S!Idle
<1>2. calls[h].user \in Users /\ calls[h].user # v
  BY <1>1 DEF S!Calls, S!SignedOut
<1>3. \A g \in Handlers : calls'[g] # S!Idle => calls'[g].user # v
  BY DEF S!Continue, S!Answer, S!SaveEntity, S!End, S!TypeOK, S!SignedOut
<1>4. CASE S!Answer(h)
  <2>1. \A b \in Browsers : access'[b].user # v
    BY <1>2, <1>4 DEF S!Answer, S!TypeOK, S!SignedOut
  <2> QED BY <2>1, <1>3, <1>4 DEF S!Answer, S!SignedOut
<1>5. CASE S!SaveEntity(h)
  <2>1. rows'[v] = rows[v] /\ access' = access
    BY <1>2, <1>5 DEF S!SaveEntity, S!SetRow, S!TypeOK, S!browser
  <2> QED BY <2>1, <1>3 DEF S!SignedOut
<1> QED BY <1>4, <1>5 DEF S!Continue

LEMMA BrowserStaysOut ==
  ASSUME S!TypeOK, NEW v \in Users, S!SignedOut(v), NEW b \in Browsers,
         S!Logout(b) \/ S!Expire(b) \/ S!OpenChat(b) \/ S!CloseChat(b)
  PROVE  S!SignedOut(v)'
<1>1. UNCHANGED <<rows, calls>>
  BY DEF S!Logout, S!Expire, S!ExpireAccess, S!ExpireRefresh, S!OpenChat,
      S!CloseChat
<1>2. access' \in {access, [access EXCEPT ![b] = S!NoToken]}
  BY DEF S!Logout, S!Expire, S!ExpireAccess, S!ExpireRefresh, S!OpenChat,
      S!CloseChat, S!browser
<1>3. S!NoToken.user # v
  BY AccountsAssumption DEF S!NoToken
<1>4. \A c \in Browsers : access'[c].user # v
  BY <1>2, <1>3 DEF S!TypeOK, S!SignedOut
<1> QED BY <1>1, <1>4 DEF S!SignedOut

LEMMA RowStepStaysOut ==
  ASSUME S!TypeOK, NEW v \in Users, S!SignedOut(v), NEW u \in Users, RowStep(u)
  PROVE  S!SignedOut(v)'
<1>1. rows'[v].state = "deleted"
  BY DEF RowStep, S!SetRow, S!TypeOK, S!SignedOut
<1>2. access' = access /\ calls' = calls
  BY DEF RowStep, S!browser
<1> QED BY <1>1, <1>2 DEF S!SignedOut

\* Only OpenChat opens a socket, for the user of the access token.
LEMMA ChatsStay ==
  ASSUME S!TypeOK, TokensOfUsers, S!Next, NEW v \in Users, S!SignedOut(v),
         NEW c \in Browsers, chats'[c] = v
  PROVE  chats[c] = v
<1>1. CASE UNCHANGED chats
  BY <1>1
<1>2. ASSUME NEW b \in Browsers, S!CloseChat(b)
      PROVE  chats[c] = v
  BY <1>2, AccountsAssumption DEF S!CloseChat, S!TypeOK
<1>3. ASSUME NEW b \in Browsers, S!OpenChat(b)
      PROVE  chats[c] = v
  BY <1>3 DEF S!OpenChat, S!IdByToken, S!TypeOK, S!SignedOut
<1> QED BY <1>1, <1>2, <1>3, Steps DEF S!Login, S!GoogleLogin, S!ReadEntity,
    S!Refresh,
     S!Continue, S!Answer, S!SaveEntity, S!Logout, S!Expire, S!ExpireAccess, S!ExpireRefresh,
     RowStep

LEMMA NextStaysOut ==
  ASSUME S!TypeOK, TokensOfUsers, [S!Next]_(S!vars), NEW v \in Users, S!SignedOut(v)
  PROVE  /\ S!SignedOut(v)'
         /\ \A b \in Browsers : chats'[b] = v => chats[b] = v
<1>1. CASE S!Next
  <2>1. S!SignedOut(v)'
    BY <1>1, Steps, SigningInStaysOut, RefreshStaysOut, ContinueStaysOut,
       BrowserStaysOut, RowStepStaysOut
  <2> QED BY <2>1, <1>1, ChatsStay
<1>2. CASE UNCHANGED S!vars
  BY <1>2 DEF S!vars, S!browser, S!SignedOut
<1> QED BY <1>1, <1>2

\* Who is deleted and signed out everywhere stays so: no login, refresh,
\* Google profile, stale save or administrator makes another token, and no
\* chat is opened for that user.  (auth.service.ts:33-51, 127-181)
THEOREM SignedOutStaysOut == S!Spec => S!SignedOutForGood
<1>1. S!TypeOK /\ TokensOfUsers /\ [S!Next]_(S!vars) =>
        [\A u \in Users : S!SignedOut(u) =>
           /\ S!SignedOut(u)'
           /\ \A b \in Browsers : chats'[b] = u => chats[b] = u]_(S!vars)
  BY NextStaysOut
<1> QED BY <1>1, AlwaysTyped, PTL DEF S!Spec, S!SignedOutForGood

-----------------------------------------------------------------------------
(* The users that the seeds make, of Deployment.                           *)

\* Whom of the list the seeds have made.
Seeded == {e \in ToSeed : userRows[e].seeded}

\* How many of the list have been gone through.
Inserted == Len(Seeds) - Len(seeding.left)

\* While users are seeded those before the next one are there, and no other of
\* the list; or all are, some of them deleted, and the first insertion fails.
SeedsPartly ==
  SeedingAt("users") =>
    /\ Inserted \in 0..Len(Seeds) - 1
    /\ \A i \in 1..Len(seeding.left) : seeding.left[i] = Seeds[Inserted + i]
    /\ ~ cut => \/ Seeded = {Seeds[i] : i \in 1..Inserted}
                \/ Inserted = 0 /\ Seeded = ToSeed

\* The types that matter, and that whoever the seeds made has a row.
SeedsInv ==
  /\ userRows \in [Emails -> Rows]
  /\ seeding \in [at : Phases \cup {"idle"}, left : Seq(ToSeed)]
  /\ \A e \in Emails : userRows[e].seeded => Taken(e)
  /\ SeedsPartly
  /\ SeededTogether

\* An empty database has none of them.
LEMMA SeedsInitially == DeploymentInit => SeedsInv
<1> SUFFICES ASSUME DeploymentInit PROVE SeedsInv
  OBVIOUS
<1>1. /\ userRows = [e \in Emails |-> NoUserRow] /\ NoUserRow \in Rows
      /\ seeding = [at |-> "idle", left |-> <<>>]
  BY DEF DeploymentInit, NotSeeding, NoUserRow, Rows
<1>2. \A e \in Emails : ~ userRows[e].seeded
  BY <1>1 DEF NoUserRow
<1>3. ToSeed \subseteq Emails
  BY DEF Emails
<1>4. SeededTogether
  BY <1>2, <1>3 DEF SeededTogether
<1>5. SeedsPartly
  BY <1>1 DEF SeedsPartly, SeedingAt
<1>6. seeding \in [at : Phases \cup {"idle"}, left : Seq(ToSeed)]
  BY <1>1
<1> QED BY <1>1, <1>2, <1>4, <1>5, <1>6 DEF SeedsInv

\* A table that has gone has no rows; else all stay.
LEMMA RowsKept ==
  ASSUME SeedsInv, seeding = NotSeeding, KeepRows, UNCHANGED <<seeding, cut>>
  PROVE  SeedsInv'
<1>1. userRows' = userRows \/ userRows' = [e \in Emails |-> NoUserRow]
  BY DEF KeepRows
<1>2. CASE userRows' = userRows
  BY <1>2 DEF SeedsInv, SeedsPartly, SeededTogether, SeedingAt, Taken, Seeded,
      Inserted
<1>3. CASE userRows' = [e \in Emails |-> NoUserRow]
  <2>1. \A e \in Emails : ~ userRows'[e].seeded
    BY <1>3 DEF NoUserRow
  <2>2. ToSeed \subseteq Emails
    BY DEF Emails
  <2>3. SeededTogether'
    BY <2>1, <2>2 DEF SeededTogether
  <2>4. SeedsPartly'
    BY DEF SeedsPartly, SeedingAt, NotSeeding
  <2>5. userRows' \in [Emails -> Rows]
    BY <1>3 DEF NoUserRow, Rows
  <2> QED BY <2>1, <2>3, <2>4, <2>5 DEF SeedsInv
<1> QED BY <1>1, <1>2, <1>3

\* The other steps of the seeds leave the users as they are, or add the admin.
LEMMA OtherSeedSteps ==
  ASSUME SeedsInv, ~ SeedingAt("users"), ~ SeedingAt("users")', UNCHANGED cut,
         seeding' \in [at : Phases \cup {"idle"}, left : Seq(ToSeed)],
         \/ UNCHANGED userRows
         \/ \E e \in Emails \ ToSeed : \E row \in Rows :
              row.role # "none" /\ userRows' = [userRows EXCEPT ![e] = row]
  PROVE  SeedsInv'
<1>1. ToSeed \subseteq Emails
  BY DEF Emails
<1>2. Seeded' = Seeded
  BY <1>1 DEF Seeded, SeedsInv
<1>3. SeededTogether'
  BY <1>2 DEF SeededTogether, SeedsInv, Seeded
<1>4. userRows' \in [Emails -> Rows] /\
      \A e \in Emails : userRows'[e].seeded => userRows'[e].role # "none"
  BY DEF SeedsInv, Taken
<1> QED BY <1>3, <1>4 DEF SeedsInv, SeedsPartly, Taken

\* A user inserted is the next one of the list.
LEMMA NextSeeded ==
  ASSUME SeedsInv, SeedUser
  PROVE  SeedsInv'
<1> DEFINE left == seeding.left
           e == Head(left)
           n == Len(Seeds)
           k == Inserted
<1>1. /\ seeding.at = "users" /\ left \in Seq(ToSeed) /\ Len(left) \in Nat
      /\ n \in Nat /\ k = n - Len(left) /\ k \in 0..n - 1
      /\ \A i \in 1..Len(left) : left[i] = Seeds[k + i]
      /\ Seeds \in Seq(ToSeed)
  BY LenProperties, DeploymentAssumption DEF SeedsInv, SeedsPartly, SeedUser,
      SeedingAt, Inserted
<1>0. SeedUser /\ e = Head(left) /\ left = seeding.left /\ k = Inserted /\ n = Len(Seeds)
  OBVIOUS
<1> HIDE DEF left, k, n
<1>2. Len(left) \in 1..n
  BY <1>1
<1>3. e = Seeds[k + 1] /\ e \in ToSeed /\ e \in Emails /\ left # <<>>
  <2>1. left # <<>> /\ left[1] = Seeds[k + 1] /\ left[1] \in ToSeed
    BY <1>1, <1>2, EmptySeq, ElementOfSeq
  <2>2. e = left[1]
    BY <1>1, <2>1
  <2> QED BY <2>1, <2>2 DEF Emails
<1>4. ~ Taken(e) /\ userRows' = [userRows EXCEPT ![e] = [role |-> "user", live |-> TRUE, seeded |-> TRUE]]
  BY DEF SeedUser, Insert, left
<1>5. /\ userRows' \in [Emails -> Rows] /\ userRows'[e].seeded
      /\ \A u \in Emails \ {e} : userRows'[u] = userRows[u]
      /\ ~ userRows[e].seeded
      /\ \A u \in Emails : userRows'[u].seeded => userRows'[u].role # "none"
  BY <1>3, <1>4 DEF SeedsInv, Rows, Taken
<1>6. Seeded' = Seeded \cup {e} /\ Seeded # ToSeed
  BY <1>3, <1>5 DEF Seeded, Emails
<1>7. cut' = cut
  BY DEF SeedUser
<1>8. ~ cut => Seeded' = {Seeds[i] : i \in 1..k + 1}
  <2>1. SUFFICES ASSUME ~ cut PROVE Seeded' = {Seeds[i] : i \in 1..k + 1}
    OBVIOUS
  <2>2. Seeded = {Seeds[i] : i \in 1..k}
    BY <1>1, <1>6, <2>1 DEF SeedsInv, SeedsPartly, SeedingAt, k
  <2>3. 1..k + 1 = (1..k) \cup {k + 1}
    BY <1>1
  <2> HIDE DEF e
  <2> QED BY <1>3, <1>6, <2>2, <2>3
<1>9. CASE Len(left) = 1
  <2>1. seeding' = [at |-> "drop", left |-> <<>>]
    BY <1>9 DEF SeedUser, left
  <2>2. k + 1 = n
    BY <1>1, <1>9
  <2>3. {Seeds[i] : i \in 1..n} = ToSeed
    BY <1>1, LenProperties DEF ToSeed, ToSet, n
  <2>4. SeededTogether'
    BY <1>7, <1>8, <2>2, <2>3 DEF SeededTogether, Seeded
  <2>5. ~ SeedingAt("users")' /\ seeding' \in [at : Phases \cup {"idle"}, left : Seq(ToSeed)]
    BY <2>1 DEF SeedingAt, Phases
  <2> QED BY <1>5, <2>4, <2>5 DEF SeedsInv, SeedsPartly, Taken
<1>10. CASE Len(left) # 1
  <2>1. seeding' = [seeding EXCEPT !.left = Tail(left)]
    BY <1>10 DEF SeedUser, left
  <2>2. /\ Tail(left) \in Seq(ToSeed) /\ Len(Tail(left)) = Len(left) - 1
        /\ \A i \in 1..Len(left) - 1 : Tail(left)[i] = left[i + 1]
    BY <1>1, <1>3, HeadTailProperties
  <2>3. seeding' = [at |-> "users", left |-> Tail(left)]
    BY <1>1, <2>1 DEF SeedsInv
  <2>4. SeedingAt("users")' /\ seeding' \in [at : Phases \cup {"idle"}, left : Seq(ToSeed)]
    BY <2>2, <2>3 DEF SeedingAt, Phases
  <2>5. Inserted' = k + 1 /\ k + 1 \in 0..n - 1
    BY <1>1, <1>10, <1>2, <2>2, <2>3 DEF Inserted, n
  <2>6. \A i \in 1..Len(seeding'.left) : seeding'.left[i] = Seeds[k + 1 + i]
    <3>1. ASSUME NEW i \in 1..Len(left) - 1 PROVE Tail(left)[i] = Seeds[k + 1 + i]
      <4>1. i + 1 \in 1..Len(left) /\ k + (i + 1) = k + 1 + i
        BY <1>1, <3>1
      <4> QED BY <1>1, <2>2, <4>1
    <3> QED BY <2>2, <2>3, <3>1
  <2>7. SeedsPartly'
    BY <1>7, <1>8, <2>5, <2>6 DEF SeedsPartly, n
  <2>8. SeededTogether'
    BY <2>4 DEF SeededTogether
  <2> QED BY <1>5, <2>4, <2>7, <2>8 DEF SeedsInv, Taken
<1> QED BY <1>9, <1>10

\* The list is begun when no user of that role is there but deleted ones.
LEMMA SeedsBegin ==
  ASSUME SeedsInv, SeedCount
  PROVE  SeedsInv'
<1>1. UNCHANGED <<userRows, cut>> /\ seeding.at = "count"
  BY DEF SeedCount, SeedingAt, rowTables
<1>2. CASE seeding' = [at |-> "drop", left |-> <<>>]
  BY <1>1, <1>2, OtherSeedSteps DEF SeedingAt, Phases
<1>3. CASE seeding' = [at |-> "users", left |-> Seeds]
  <2>1. seeding' \in [at : Phases \cup {"idle"}, left : Seq(ToSeed)] /\ SeedingAt("users")'
    BY <1>3, DeploymentAssumption DEF Phases, SeedingAt
  <2>2. Inserted' = 0 /\ Len(Seeds) \in Nat \ {0}
    BY <1>3, DeploymentAssumption, LenProperties DEF Inserted
  <2>3. ~ cut => Seeded' \in {{}, ToSeed}
    BY <1>1 DEF SeedsInv, SeededTogether, SeedingAt, Seeded
  <2>4. {Seeds[i] : i \in 1..0} = {}
    OBVIOUS
  <2>5. SeedsPartly'
    BY <1>1, <1>3, <2>2, <2>3, <2>4 DEF SeedsPartly
  <2> QED BY <1>1, <2>1, <2>5 DEF SeedsInv, SeededTogether, Taken
<1> QED BY <1>2, <1>3 DEF SeedCount

\* Somebody registers or is deleted.
LEMMA UsersMeanwhile ==
  ASSUME SeedsInv, NEW e \in Emails, RegisterUser(e) \/ SoftDelete(e)
  PROVE  SeedsInv'
<1>1. UNCHANGED <<seeding, cut>>
  BY DEF RegisterUser, SoftDelete
<1>2. /\ userRows' \in [Emails -> Rows]
      /\ \A u \in Emails : userRows'[u].seeded = userRows[u].seeded
      /\ \A u \in Emails : Taken(u) => userRows'[u].role # "none"
  <2>1. CASE RegisterUser(e)
    <3>1. ~ userRows[e].seeded /\ userRows[e] \in Rows
      BY <2>1 DEF RegisterUser, SeedsInv
    <3>2. userRows' = [userRows EXCEPT ![e] = [role |-> "user", live |-> TRUE, seeded |-> FALSE]]
      BY <2>1 DEF RegisterUser
    <3>3. userRows[e].seeded = FALSE
      BY <3>1 DEF Rows
    <3> QED BY <3>2, <3>3 DEF SeedsInv, Rows, Taken
  <2>2. CASE SoftDelete(e)
    <3>1. userRows' = [userRows EXCEPT ![e] = [userRows[e] EXCEPT !.live = FALSE]]
      BY <2>2 DEF SoftDelete
    <3>2. userRows[e] \in Rows
      BY DEF SeedsInv
    <3> QED BY <3>1, <3>2 DEF SeedsInv, Rows, Taken
  <2> QED BY <2>1, <2>2
<1>3. Seeded' = Seeded
  BY <1>2 DEF Seeded, Emails
<1> QED BY <1>1, <1>2, <1>3 DEF SeedsInv, SeedsPartly, SeededTogether,
    SeedingAt, Taken, Inserted, Seeded

\* Every step keeps the invariant.
LEMMA SeedsGoOnSo ==
  ASSUME SeedsInv, [DeploymentNext]_deploymentVars
  PROVE  SeedsInv'
<1> USE DEF SeedsInv
<1>1. ASSUME NEW release \in 1..Latest, Run(release) PROVE SeedsInv'
  BY <1>1, RowsKept DEF Run
<1>2. CASE Revert
  BY <1>2, RowsKept DEF Revert
<1>3. CASE StartSeeds \/ SeedRole \/ SeedStatus \/ SeedAddress \/ DeleteInterests \/ SaveInterests
  <2>1. UNCHANGED <<userRows, cut>>
    BY <1>3 DEF StartSeeds, SeedRole, SeedStatus, SeedAddress, DeleteInterests,
        SaveInterests, rowTables
  <2>2. ~ SeedingAt("users")
    BY <1>3 DEF StartSeeds, SeedRole, SeedStatus, SeedAddress, DeleteInterests,
        SaveInterests, SeedingAt, NotSeeding
  <2>3. \/ seeding' = seeding \/ seeding' = NotSeeding
        \/ \E phase \in Phases \ {"users"} : GoOn(phase)
    BY <1>3 DEF StartSeeds, SeedRole, SeedStatus, SeedAddress, DeleteInterests,
        SaveInterests, Phases
  <2>4. ~ SeedingAt("users")' /\ seeding' \in [at : Phases \cup {"idle"}, left : Seq(ToSeed)]
    <3>1. seeding' = seeding => ~ SeedingAt("users")'
      BY <2>2 DEF SeedingAt
    <3>2. ASSUME NEW phase \in (Phases \cup {"idle"}) \ {"users"},
                 seeding' = [at |-> phase, left |-> <<>>]
          PROVE  ~ SeedingAt("users")' /\ seeding' \in [at : Phases \cup {"idle"}, left : Seq(ToSeed)]
      BY <3>2 DEF SeedingAt
    <3> QED BY <2>3, <3>1, <3>2 DEF GoOn, NotSeeding
  <2> QED BY <2>1, <2>2, <2>4, OtherSeedSteps
<1>4. CASE SeedAdmin
  <2>1. UNCHANGED cut /\ seeding.at = "admin" /\ seeding' = [at |-> "count", left |-> <<>>]
    BY <1>4 DEF SeedAdmin, SeedingAt, GoOn
  <2>2. \/ UNCHANGED userRows
        \/ userRows' = [userRows EXCEPT ![Admin] = [role |-> "admin", live |-> TRUE, seeded |-> TRUE]]
    BY <1>4 DEF SeedAdmin, Insert
  <2>3. Admin \in Emails \ ToSeed /\ [role |-> "admin", live |-> TRUE, seeded |-> TRUE] \in Rows
    BY DeploymentAssumption DEF Emails, Rows
  <2>4. ~ SeedingAt("users") /\ ~ SeedingAt("users")' /\
        seeding' \in [at : Phases \cup {"idle"}, left : Seq(ToSeed)]
    BY <2>1 DEF SeedingAt, Phases
  <2> HIDE DEF SeedsInv
  <2> QED BY <2>1, <2>2, <2>3, <2>4, OtherSeedSteps
<1>5. CASE SeedCount
  BY <1>5, SeedsBegin
<1>6. CASE SeedUser
  BY <1>6, NextSeeded
<1>7. CASE EndSeeds
  <2>1. UNCHANGED userRows /\ seeding' = [at |-> "idle", left |-> <<>>] /\ cut'
    BY <1>7 DEF EndSeeds, NotSeeding, rowTables
  <2> QED BY <2>1 DEF SeedsPartly, SeededTogether, SeedingAt, Taken
<1>8. ASSUME NEW e \in Emails, RegisterUser(e) \/ SoftDelete(e) PROVE SeedsInv'
  BY <1>8, UsersMeanwhile
<1>9. CASE UNCHANGED <<userRows, seeding, cut>>
  BY <1>9 DEF SeedsPartly, SeededTogether, SeedingAt, Taken, Seeded, Inserted
<1> HIDE DEF SeedsInv
<1> QED BY <1>1, <1>2, <1>3, <1>4, <1>5, <1>6, <1>7, <1>8, <1>9
    DEF DeploymentNext, SeedStep, deploymentVars, rowTables, Befriend,
        CreateInterest, RemoveInterest, AddUserInterest

\* For any list of users to seed, whatever migrations are run and reverted and
\* whoever registers or is deleted meanwhile: unless a run of the seeds was
\* stopped, the users of run-seed.ts are there all or not at all.
THEOREM SeedsComeTogether == DeploymentSpec => []SeededTogether
<1>1. SeedsInv /\ [DeploymentNext]_deploymentVars => SeedsInv'
  BY SeedsGoOnSo
<1>2. SeedsInv => SeededTogether
  BY DEF SeedsInv
<1> QED BY <1>1, <1>2, SeedsInitially, PTL DEF DeploymentSpec

=============================================================================
