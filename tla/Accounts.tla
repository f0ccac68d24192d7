----------------------------- MODULE Accounts -----------------------------
(***************************************************************************)
(* Accounts of apps/main-app: registration, confirmation of the address,   *)
(* forgotten passwords and deletion, over the tables user and forgot.      *)
(*                                                                         *)
(* confirmEmail and resetPassword read a user, change a field and save the *)
(* entity.  TypeORM's save writes every column in which the entity differs *)
(* from the row, deletedAt included, so that whatever happened to the row  *)
(* after the read is taken back.  An update through UsersService.update    *)
(* has only the fields it was given.                                       *)
(***************************************************************************)
EXTENDS Naturals, FiniteSets

CONSTANTS
  Users,    \* e-mail addresses, each with at most one row
  Links,    \* hashes of forgot: bound on how often a password is forgotten
  Handlers, \* bound: requests handled at the same time
  NoUser

ASSUME AccountsAssumption ==
  /\ IsFiniteSet(Handlers)
  /\ NoUser \notin Users
  /\ Users \cap Links = {}

VARIABLES
  users,   \* the table user
  links,   \* the table forgot
  mailed,  \* users and links whose mail has been sent
  calls,   \* the requests in progress
  uses,    \* history: how often a link has set a password
  torn     \* history: links whose reset stopped between its two writes

tables == <<users, links>>
history == <<uses, torn>>
vars == <<tables, mailed, calls, history>>

-----------------------------------------------------------------------------
\* hash: whether the confirmation's hash is still in the row.
Row == [state : {"none", "kept", "deleted"},
        status : {"inactive", "active"},
        hash : BOOLEAN]
NoRow == [state |-> "none", status |-> "inactive", hash |-> FALSE]

Forgot == [owner : Users \cup {NoUser}, used : BOOLEAN]
NoForgot == [owner |-> NoUser, used |-> FALSE]

Idle == [phase |-> "idle"]
Call(op, phase, subject, row) ==
  [op |-> op, phase |-> phase, subject |-> subject, row |-> row]
Calls == [op : {"register", "confirm", "forgot", "reset"},
          phase : {"mail", "save", "insert", "delete"},
          subject : Users \cup Links,
          row : Row]

TypeOK ==
  /\ users \in [Users -> Row]
  /\ links \in [Links -> Forgot]
  /\ mailed \subseteq Users \cup Links
  /\ calls \in [Handlers -> {Idle} \cup Calls]
  /\ uses \in [Links -> Nat]
  /\ torn \subseteq Links

Init ==
  /\ users = [u \in Users |-> NoRow]
  /\ links = [l \in Links |-> NoForgot]
  /\ mailed = {}
  /\ calls = [h \in Handlers |-> Idle]
  /\ uses = [l \in Links |-> 0]
  /\ torn = {}

-----------------------------------------------------------------------------
\* What find and findOne return: no soft-deleted rows.
Found(u) == users[u].state = "kept"

Begin(h, call) ==
  /\ calls[h] = Idle
  /\ calls' = [calls EXCEPT ![h] = call]

End(h) == calls' = [calls EXCEPT ![h] = Idle]

At(h, op, phase) == calls[h] # Idle /\ calls[h].op = op /\ calls[h].phase = phase

\* The user a save is about.
Saved(h) == IF calls[h].op = "reset" THEN links[calls[h].subject].owner
                                     ELSE calls[h].subject
SavesUser(h, u) == /\ calls[h] # Idle
                   /\ calls[h].phase = "save"
                   /\ Saved(h) = u

\* Mutant: registering again takes over the row of a deleted user.
RegisterAgain(h, u) ==
  /\ users[u].state # "kept"
  /\ users' = [users EXCEPT ![u] =
                 [state |-> "kept", status |-> "inactive", hash |-> TRUE]]
  /\ Begin(h, Call("register", "mail", u, NoRow))
  /\ UNCHANGED <<links, mailed, history>>

\* The address is unique among all rows, deleted ones too.
Register(h, u) ==
  /\ users[u].state = "none"
  /\ users' = [users EXCEPT ![u] =
                 [state |-> "kept", status |-> "inactive", hash |-> TRUE]]
  /\ Begin(h, Call("register", "mail", u, NoRow))
  /\ UNCHANGED <<links, mailed, history>>

\* An administrator creates a user without a hash and with any status.
Create(u) ==
  /\ users[u].state = "none"
  /\ \E status \in {"inactive", "active"} :
       users' = [users EXCEPT ![u] =
                   [state |-> "kept", status |-> status, hash |-> FALSE]]
  /\ UNCHANGED <<links, mailed, calls, history>>

\* sendMail: the mail goes out, or the request fails without it.
SendMail(h) ==
  /\ mailed' \in {mailed, mailed \cup {calls[h].subject}}
  /\ End(h)
  /\ UNCHANGED <<tables, history>>

\* The mails that register and forgotPassword end with.
UserSignUp(h) == At(h, "register", "mail") /\ SendMail(h)
ForgotPasswordMail(h) == At(h, "forgot", "mail") /\ SendMail(h)
Mail(h) == UserSignUp(h) \/ ForgotPasswordMail(h)

\* confirmEmail finds the user by the hash; without one it refuses.
Confirm(h, u) ==
  /\ u \in mailed
  /\ Found(u)
  /\ users[u].hash
  /\ Begin(h, Call("confirm", "save", u, users[u]))
  /\ UNCHANGED <<tables, mailed, history>>

ConfirmSave(h) ==
  /\ At(h, "confirm", "save")
  /\ users' = [users EXCEPT ![calls[h].subject] =
                 [calls[h].row EXCEPT !.status = "active", !.hash = FALSE]]
  /\ End(h)
  /\ UNCHANGED <<links, mailed, history>>

\* forgotPassword finds the user by the address.
ForgotPassword(h, u) ==
  /\ Found(u)
  /\ Begin(h, Call("forgot", "insert", u, NoRow))
  /\ UNCHANGED <<tables, mailed, history>>

\* Mutant: the new hash goes into the user's row.
ForgotInsertIntoUser(h) ==
  /\ At(h, "forgot", "insert")
  /\ users' = [users EXCEPT ![calls[h].subject].hash = TRUE]
  /\ calls' = [calls EXCEPT ![h].phase = "mail"]
  /\ UNCHANGED <<links, mailed, history>>

ForgotInsert(h) ==
  /\ At(h, "forgot", "insert")
  /\ \E l \in Links :
       /\ links[l] = NoForgot
       /\ links' = [links EXCEPT ![l].owner = calls[h].subject]
       /\ calls' = [calls EXCEPT ![h].phase = "mail", ![h].subject = l]
  /\ UNCHANGED <<users, mailed, history>>

\* resetPassword finds the link, and with it the owner, unless deleted; then
\* there is no user to give the password to and the request fails.
Reset(h, l) ==
  /\ l \in mailed
  /\ ~ links[l].used
  /\ Found(links[l].owner)
  /\ Begin(h, Call("reset", "save", l, users[links[l].owner]))
  /\ UNCHANGED <<tables, mailed, history>>

\* The row as it was read, with another password.
ResetSave(h) ==
  /\ At(h, "reset", "save")
  /\ LET l == calls[h].subject
     IN /\ users' = [users EXCEPT ![links[l].owner] = calls[h].row]
        /\ uses' = IF l \in torn THEN uses ELSE [uses EXCEPT ![l] = @ + 1]
  /\ calls' = [calls EXCEPT ![h].phase = "delete"]
  /\ UNCHANGED <<links, mailed, torn>>

\* Mutant: the link stays.
ResetDeleteNothing(h) ==
  /\ At(h, "reset", "delete")
  /\ End(h)
  /\ UNCHANGED <<tables, mailed, history>>

ResetDelete(h) ==
  /\ At(h, "reset", "delete")
  /\ links' = [links EXCEPT ![calls[h].subject].used = TRUE]
  /\ End(h)
  /\ UNCHANGED <<users, mailed, history>>

\* An administrator sets a status; only that column is written, and in a
\* deleted row too.
UpdateStatus(u) ==
  /\ users[u].state # "none"
  /\ \E status \in {"inactive", "active"} :
       users' = [users EXCEPT ![u].status = status]
  /\ UNCHANGED <<links, mailed, calls, history>>

\* By oneself or by an administrator.
Delete(u) ==
  /\ users[u].state # "none"
  /\ users' = [users EXCEPT ![u].state = "deleted"]
  /\ UNCHANGED <<links, mailed, calls, history>>

\* main-app stops; requests in progress are lost.
Stop ==
  /\ \E h \in Handlers : calls[h] # Idle
  /\ calls' = [h \in Handlers |-> Idle]
  /\ torn' = torn \cup {l \in Links : \E h \in Handlers :
                          At(h, "reset", "delete") /\ calls[h].subject = l}
  /\ UNCHANGED <<tables, mailed, uses>>

-----------------------------------------------------------------------------
Request(h) ==
  \/ \E u \in Users : Register(h, u) \/ Confirm(h, u) \/ ForgotPassword(h, u)
  \/ \E l \in Links : Reset(h, l)

Continue(h) == \/ Mail(h) \/ ConfirmSave(h) \/ ForgotInsert(h)
               \/ ResetSave(h) \/ ResetDelete(h)

Next == \/ \E h \in Handlers : Request(h) \/ Continue(h)
        \/ \E u \in Users : Create(u) \/ UpdateStatus(u) \/ Delete(u)
        \/ Stop

Spec == Init /\ [][Next]_vars

-----------------------------------------------------------------------------
(* Properties.                                                             *)

Gone(u) == users[u].state = "deleted" /\ \A h \in Handlers : ~ SavesUser(h, u)

\* A deletion is final once no confirmation or reset that had read the user
\* before is still to save it: later links and registrations do not bring the
\* user back.  (confirmEmail, resetPassword, register)
DeletedForGood == [][\A u \in Users : Gone(u) => Gone(u)']_vars

Settled(u) == /\ users[u].state # "none"
              /\ ~ users[u].hash
              /\ \A h \in Handlers : SavesUser(h, u) => ~ calls[h].row.hash

\* A confirmation's link is void for ever once it has been used, unless a
\* request that read the user before is still to write the hash back.
\* (confirmEmail, resetPassword)
ConfirmedForGood == [][\A u \in Users : Settled(u) => Settled(u)']_vars

\* A link sets a password at most once for each request handled at the same
\* time; a stop between the password and the link's deletion is excepted.
\* (resetPassword)
LinkUsesBounded ==
  \A l \in Links : l \in torn \/ uses[l] <= Cardinality(Handlers)

=============================================================================
