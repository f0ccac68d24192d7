----------------------------- MODULE Sessions -----------------------------
(***************************************************************************)
(* Who is signed in to apps/main-app, and from there to the chat of        *)
(* apps/conversation: logins, refreshed and expired tokens, and what       *)
(* administrators do to users meanwhile.                                   *)
(*                                                                         *)
(* A token is never looked up: an access token carries a user's id and the *)
(* role the user had when it was signed, and is good until it expires.     *)
(* Every request that signs one reads the user's row first; its answer     *)
(* reaches the browser later.  Passwords are left out: whether the one     *)
(* typed is right is a choice, and a wrong one only ends the request.      *)
(***************************************************************************)
EXTENDS Naturals

CONSTANTS
  Users,     \* ids; a user's address is as good as the id
  Browsers,
  Handlers,  \* bound: requests handled at the same time
  NoUser

ASSUME SessionsAssumption == NoUser \notin Users

VARIABLES
  rows,     \* the table user: state and role
  access,   \* the access token a browser holds
  cookie,   \* whose refresh token its cookie holds
  chats,    \* whose socket to the chat it has open
  calls     \* the requests between their query and their end

browser == <<access, cookie>>
vars == <<rows, browser, chats, calls>>

-----------------------------------------------------------------------------
Roles == {"admin", "user"}
Row == [state : {"none", "kept", "deleted"}, role : Roles]
NoRow == [state |-> "none", role |-> "user"]

Claims == [user : Users \cup {NoUser}, role : Roles]
NoToken == [user |-> NoUser, role |-> "user"]

Idle == [op |-> "idle"]
\* "cookie" and "body" say where the answer has its refresh token; "save" is
\* a confirmEmail or resetPassword between its read and its save.
Calls == [op : {"cookie", "body", "save"}, from : Browsers, user : Users, row : Row]
Call(op, b, u) == [op |-> op, from |-> b, user |-> u, row |-> rows[u]]

TypeOK ==
  /\ rows \in [Users -> Row]
  /\ access \in [Browsers -> Claims]
  /\ cookie \in [Browsers -> Users \cup {NoUser}]
  /\ chats \in [Browsers -> Users \cup {NoUser}]
  /\ calls \in [Handlers -> Calls \cup {Idle}]

Init ==
  /\ rows \in [Users -> {NoRow} \cup [state : {"kept"}, role : Roles]]
  /\ access = [b \in Browsers |-> NoToken]
  /\ cookie = [b \in Browsers |-> NoUser]
  /\ chats = [b \in Browsers |-> NoUser]
  /\ calls = [h \in Handlers |-> Idle]

-----------------------------------------------------------------------------
\* findOne, in IsExist too: no soft-deleted rows.
Found(u) == rows[u].state = "kept"

\* IsNotExist and, for the rows it does not see, the unique address.
Free(u) == rows[u].state = "none"

Begin(h, call) ==
  /\ calls[h] = Idle
  /\ calls' = [calls EXCEPT ![h] = call]

End(h) == calls' = [calls EXCEPT ![h] = Idle]

SetRow(u, row) == rows' = [rows EXCEPT ![u] = row]

\* The strategy: any token that has not expired, whatever became of its user.
Authenticated(b) == access[b] # NoToken

\* RolesGuard asks for the role in the token.
IsAdmin(b) == Authenticated(b) /\ access[b].role = "admin"

-----------------------------------------------------------------------------
(* Signing in and out.                                                     *)

\* validateLogin: each role has its own endpoint.
Login(h, b, u, role) ==
  /\ Found(u)
  /\ rows[u].role = role
  /\ Begin(h, Call("cookie", b, u))
  /\ UNCHANGED <<rows, browser, chats>>

\* Mutant: the claim of the refresh token is taken for the user.
RefreshByClaim(h, b) ==
  /\ cookie[b] # NoUser
  /\ Begin(h, Call("cookie", b, cookie[b]))
  /\ UNCHANGED <<rows, browser, chats>>

\* getByRefreshToken reads the row of the id in the token.
Refresh(h, b) ==
  /\ cookie[b] # NoUser
  /\ Found(cookie[b])
  /\ Begin(h, Call("cookie", b, cookie[b]))
  /\ UNCHANGED <<rows, browser, chats>>

\* The addresses getProfileByToken may give; a token Google does not vouch for
\* ends the request instead.
ProfileByToken == Users

\* validateSocialLogin finds the user by the address Google vouches for.  No
\* row has a socialId: creating one gives no alias, which the table refuses.
GoogleLogin(h, b, u) ==
  /\ Found(u)
  /\ Begin(h, Call("body", b, u))
  /\ UNCHANGED <<rows, browser, chats>>

\* getCredentialData signs for the row that was read; the interceptor of the
\* password logins and of refresh moves the refresh token into a cookie.
Answer(h) ==
  /\ calls[h].op \in {"cookie", "body"}
  /\ LET c == calls[h]
     IN /\ access' = [access EXCEPT ![c.from] = [user |-> c.user, role |-> c.row.role]]
        /\ cookie' = IF c.op = "cookie" THEN [cookie EXCEPT ![c.from] = c.user]
                                        ELSE cookie
  /\ End(h)
  /\ UNCHANGED <<rows, chats>>

\* The cookie becomes "invalid"; a client may drop its access token too.
Logout(b) ==
  /\ cookie' = [cookie EXCEPT ![b] = NoUser]
  /\ access' \in {access, [access EXCEPT ![b] = NoToken]}
  /\ UNCHANGED <<rows, chats, calls>>

\* Mutant: only a user's token expires.
ExpireUsersOnly(b) ==
  /\ Authenticated(b) /\ ~ IsAdmin(b)
  /\ access' = [access EXCEPT ![b] = NoToken]
  /\ UNCHANGED <<rows, cookie, chats, calls>>

ExpireAccess(b) ==
  /\ Authenticated(b)
  /\ access' = [access EXCEPT ![b] = NoToken]
  /\ UNCHANGED <<rows, cookie, chats, calls>>

ExpireRefresh(b) ==
  /\ cookie[b] # NoUser
  /\ cookie' = [cookie EXCEPT ![b] = NoUser]
  /\ UNCHANGED <<rows, access, chats, calls>>

\* Mutant: a browser that had signed in is remembered by its cookie.
OpenChatByCookie(b) ==
  /\ cookie[b] # NoUser
  /\ chats' = [chats EXCEPT ![b] = cookie[b]]
  /\ UNCHANGED <<rows, browser, calls>>

\* allowRequest verifies the token, and handleConnection only decodes it.
Verified(b) == Authenticated(b)
IdByToken(b) == access[b].user

\* Nothing looks at the token again while the socket is open.
OpenChat(b) ==
  /\ Verified(b)
  /\ chats' = [chats EXCEPT ![b] = IdByToken(b)]
  /\ UNCHANGED <<rows, browser, calls>>

CloseChat(b) ==
  /\ chats[b] # NoUser
  /\ chats' = [chats EXCEPT ![b] = NoUser]
  /\ UNCHANGED <<rows, browser, calls>>

-----------------------------------------------------------------------------
(* What happens to rows.                                                   *)

\* register.
Register(u) ==
  /\ Free(u)
  /\ SetRow(u, [state |-> "kept", role |-> "user"])
  /\ UNCHANGED <<browser, chats, calls>>

\* confirmEmail and resetPassword read an entity and save all of it later.
ReadEntity(h, b, u) ==
  /\ Found(u)
  /\ Begin(h, Call("save", b, u))
  /\ UNCHANGED <<rows, browser, chats>>

SaveEntity(h) ==
  /\ calls[h].op = "save"
  /\ SetRow(calls[h].user, calls[h].row)
  /\ End(h)
  /\ UNCHANGED <<browser, chats>>

AdminCreate(b, u) ==
  /\ IsAdmin(b)
  /\ Free(u)
  /\ \E role \in Roles : SetRow(u, [state |-> "kept", role |-> role])
  /\ UNCHANGED <<browser, chats, calls>>

\* save of the given columns: a deleted row stays deleted, and an id without
\* a row gets one (bound: with a role).
AdminUpdate(b, u) ==
  /\ IsAdmin(b)
  /\ \E role \in Roles :
       SetRow(u, [state |-> IF Free(u) THEN "kept" ELSE rows[u].state,
                  role |-> role])
  /\ UNCHANGED <<browser, chats, calls>>

Delete(u) ==
  /\ ~Free(u)
  /\ SetRow(u, [rows[u] EXCEPT !.state = "deleted"])
  /\ UNCHANGED <<browser, chats, calls>>

AdminDelete(b, u) == IsAdmin(b) /\ Delete(u)
DeleteSelf(b) == Authenticated(b) /\ Delete(access[b].user)

-----------------------------------------------------------------------------
\* email/login and admin/email/login; auth/google/login.
PasswordEndpoint(h, b) == \E u \in Users, role \in Roles : Login(h, b, u, role)
GoogleEndpoint(h, b) == \E u \in ProfileByToken : GoogleLogin(h, b, u)

Continue(h) == Answer(h) \/ SaveEntity(h)
Expire(b) == ExpireAccess(b) \/ ExpireRefresh(b)

Next ==
  \/ \E h \in Handlers, b \in Browsers :
       \/ PasswordEndpoint(h, b) \/ GoogleEndpoint(h, b) \/ Refresh(h, b)
       \/ \E u \in Users : ReadEntity(h, b, u)
  \/ \E h \in Handlers : Continue(h)
  \/ \E b \in Browsers :
       \/ Logout(b) \/ Expire(b) \/ OpenChat(b) \/ CloseChat(b) \/ DeleteSelf(b)
       \/ \E u \in Users : AdminCreate(b, u) \/ AdminUpdate(b, u) \/ AdminDelete(b, u)
  \/ \E u \in Users : Register(u)

Spec == Init /\ [][Next]_vars

\* Requests are answered, and tokens expire.
Fairness == /\ \A h \in Handlers : WF_vars(Continue(h))
            /\ \A b \in Browsers : WF_vars(ExpireAccess(b)) /\ WF_vars(ExpireRefresh(b))

FairSpec == Spec /\ Fairness

-----------------------------------------------------------------------------
(* Properties.                                                             *)

\* The user is deleted, no browser has an access token of theirs, and no
\* request that had read the row is still at work.
SignedOut(u) ==
  /\ rows[u].state = "deleted"
  /\ \A b \in Browsers : access[b].user # u
  /\ \A h \in Handlers : calls[h] # Idle => calls[h].user # u

\* Nobody signs in as a deleted user again, not with the refresh token, which
\* nothing revokes, not through Google, and not because an administrator
\* still edits the row; nor does the user's chat come back where it is not
\* open still (auth.service.ts:33-51, 127-181, users.service.ts:55).
SignedOutForGood ==
  [][\A u \in Users : SignedOut(u) =>
       /\ SignedOut(u)'
       /\ \A b \in Browsers : chats'[b] = u => chats[b] = u]_vars

\* A user who stays deleted is in the end signed out everywhere, for good:
\* no session goes on refreshing itself without the row.
DeletedAreSignedOut ==
  \A u \in Users : []<>(rows[u].state # "deleted") \/ <>[]SignedOut(u)

\* Who stays no administrator has in the end no token that RolesGuard lets
\* pass (roles.guard.ts:26), however long the session is refreshed: a token's
\* role is as old as the token and no older.
DemotedLoseAdmin ==
  \A u \in Users :
    \/ []<>(rows[u].role = "admin")
    \/ <>[](\A b \in Browsers : access[b] # [user |-> u, role |-> "admin"])

=============================================================================
