----------------------------- MODULE Deployment -----------------------------
(***************************************************************************)
(* A database through the releases: `migration:run` and `migration:revert` *)
(* as TypeORM executes them, `seed:run` (seeds/run-seed.ts) with a stop    *)
(* between any two of its writes, and a main-app that goes on meanwhile.   *)
(*                                                                         *)
(* Of the rows there are: the roles and statuses, the users by their       *)
(* e-mail, the interests and what users have chosen of them, the addresses *)
(* and the rows of the former user_friend.                                 *)
(*                                                                         *)
(* Some names are longer than elsewhere, so that a module may extend this  *)
(* one beside Accounts, which is about the same table of users.            *)
(***************************************************************************)
EXTENDS Schema

CONSTANTS
  Admin,     \* the address admin@example.com
  Seeds,     \* the addresses of the users to seed, in their order
  Strangers, \* other addresses
  Interests, \* the names in interest-raw.json
  MaxSeeds   \* bound: runs of the seeds

ToSeed == ToSet(Seeds)
Emails == {Admin} \cup ToSeed \cup Strangers

ASSUME DeploymentAssumption ==
  /\ Seeds \in Seq(ToSeed) /\ Len(Seeds) > 0
  /\ Admin \notin ToSeed /\ Strangers \cap ({Admin} \cup ToSeed) = {}
  /\ Interests # {}
  /\ MaxSeeds \in Nat

VARIABLES
  schema,    \* the parts there are
  applied,   \* TypeORM's table migrations: how many of them
  roles, statuses, userRows, interests,
  chosen,    \* user_interest: the interests somebody has chosen
  addresses, \* the collection address
  friendRows, \* of user_friend: none, proper, or some that cannot have the key
  seeding,   \* the run of the seeds
  lost,      \* history: RemoveFriend has been reverted
  cut,       \* history: a run of the seeds ended before its time
  runs       \* bound

rowTables == <<roles, statuses, userRows, interests, chosen, friendRows>>
deploymentVars == <<schema, applied, rowTables, addresses, seeding, lost, cut, runs>>

-----------------------------------------------------------------------------
NoUserRow == [role |-> "none", live |-> FALSE, seeded |-> FALSE]
Rows == [role : {"none", "user", "admin"}, live : BOOLEAN, seeded : BOOLEAN]

NotSeeding == [at |-> "idle", left |-> <<>>]
Phases == {"role", "status", "admin", "count", "users", "drop", "insert",
           "delete", "save"}

DeploymentTypeOK ==
  /\ applied \in 0..Latest
  /\ roles \subseteq {"user", "admin"}
  /\ statuses \subseteq {"active", "inactive"}
  /\ userRows \in [Emails -> Rows]
  /\ chosen \subseteq interests /\ interests \subseteq Interests
  /\ addresses \in {"none", "some", "all"}
  /\ friendRows \in {"none", "proper", "unclean"}
  /\ seeding.at \in Phases \cup {"idle"} /\ IsSuffix(seeding.left, Seeds)
  /\ lost \in BOOLEAN /\ cut \in BOOLEAN
  /\ runs \in 0..MaxSeeds

DeploymentInit ==
  /\ schema = {} /\ applied = 0
  /\ roles = {} /\ statuses = {} /\ userRows = [e \in Emails |-> NoUserRow]
  /\ interests = {} /\ chosen = {} /\ addresses = "none" /\ friendRows = "none"
  /\ seeding = NotSeeding
  /\ lost = FALSE /\ cut = FALSE /\ runs = 0

Taken(e) == userRows[e].role # "none"
Live(role) == {e \in Emails : userRows[e].role = role /\ userRows[e].live}

-----------------------------------------------------------------------------
(* Migrations.  A command is one transaction.                              *)

Filled == {t \in {"user", "user_friend"} :
             IF t = "user" THEN \E e \in Emails : Taken(e) ELSE friendRows # "none"}
Unclean == IF friendRows = "unclean" THEN {"user_friend"} ELSE {}

\* A table that has gone takes its rows with it.
KeepRows ==
  LET Kept(t, rows, none) == IF Exists(schema', t) THEN rows ELSE none
  IN /\ roles' = Kept("role", roles, {})
     /\ statuses' = Kept("status", statuses, {})
     /\ userRows' = Kept("user", userRows, [e \in Emails |-> NoUserRow])
     /\ interests' = Kept("interest", interests, {})
     /\ chosen' = Kept("user_interest", chosen, {})
     /\ friendRows' = Kept("user_friend", friendRows, "none")

Pending(release) == FlattenSeq(SubSeq(Up, applied + 1, release))

\* The migrations of this release, or of an earlier one, that have not been.
Run(release) ==
  /\ seeding = NotSeeding
  /\ release > applied
  /\ LET done == Execute(schema, Pending(release), Filled, Unclean)
     IN done.ok /\ schema' = done.schema
  /\ applied' = release
  /\ KeepRows
  /\ UNCHANGED <<addresses, seeding, lost, cut, runs>>

Revert ==
  /\ seeding = NotSeeding
  /\ applied > 0
  /\ LET done == Execute(schema, Down[applied], Filled, Unclean)
     IN done.ok /\ schema' = done.schema
  /\ applied' = applied - 1
  /\ lost' = (lost \/ applied = Removal)
  /\ KeepRows
  /\ UNCHANGED <<addresses, seeding, cut, runs>>

-----------------------------------------------------------------------------
(* The seeds.                                                              *)

SeedingAt(phase) == seeding.at = phase
GoOn(phase) == seeding' = [at |-> phase, left |-> <<>>]

\* startup.ci.sh and the README run the migrations first.
StartSeeds ==
  /\ seeding = NotSeeding /\ applied = Latest /\ runs < MaxSeeds
  /\ runs' = runs + 1
  /\ GoOn("role")
  /\ UNCHANGED <<schema, applied, rowTables, addresses, lost, cut>>

\* Mutant: the second role is forgotten.
SeedOneRole ==
  /\ SeedingAt("role")
  /\ roles' = roles \cup {"user"}
  /\ GoOn("status")
  /\ UNCHANGED <<schema, applied, statuses, userRows, interests, chosen, friendRows,
                 addresses, lost, cut, runs>>

SeedRole ==
  /\ SeedingAt("role")
  /\ \/ "user" \notin roles /\ roles' = roles \cup {"user"} /\ UNCHANGED seeding
     \/ "user" \in roles /\ roles' = roles \cup {"admin"} /\ GoOn("status")
  /\ UNCHANGED <<schema, applied, statuses, userRows, interests, chosen, friendRows,
                 addresses, lost, cut, runs>>

SeedStatus ==
  /\ SeedingAt("status")
  /\ statuses' = IF statuses = {} THEN {"active", "inactive"} ELSE statuses
  /\ GoOn("admin")
  /\ UNCHANGED <<schema, applied, roles, userRows, interests, chosen, friendRows,
                 addresses, lost, cut, runs>>

Insert(e, role) ==
  /\ ~ Taken(e) /\ role \in roles /\ "active" \in statuses
  /\ userRows' = [userRows EXCEPT ![e] = [role |-> role, live |-> TRUE, seeded |-> TRUE]]

\* The count leaves out deleted users, the unique address does not.
SeedAdmin ==
  /\ SeedingAt("admin")
  /\ \/ Live("admin") # {} /\ UNCHANGED userRows
     \/ Live("admin") = {} /\ Insert(Admin, "admin")
  /\ GoOn("count")
  /\ UNCHANGED <<schema, applied, roles, statuses, interests, chosen, friendRows,
                 addresses, lost, cut, runs>>

SeedCount ==
  /\ SeedingAt("count")
  /\ seeding' = IF Live("user") = {} THEN [at |-> "users", left |-> Seeds]
                ELSE [at |-> "drop", left |-> <<>>]
  /\ UNCHANGED <<schema, applied, rowTables, addresses, lost, cut, runs>>

\* Mutant: the last one is left out.
SeedUserButLast ==
  /\ SeedingAt("users")
  /\ Insert(Head(seeding.left), "user")
  /\ seeding' = IF Len(seeding.left) <= 2 THEN [at |-> "drop", left |-> <<>>]
                ELSE [seeding EXCEPT !.left = Tail(@)]
  /\ UNCHANGED <<schema, applied, roles, statuses, interests, chosen, friendRows,
                 addresses, lost, cut, runs>>

SeedUser ==
  /\ SeedingAt("users")
  /\ Insert(Head(seeding.left), "user")
  /\ seeding' = IF Len(seeding.left) = 1 THEN [at |-> "drop", left |-> <<>>]
                ELSE [seeding EXCEPT !.left = Tail(@)]
  /\ UNCHANGED <<schema, applied, roles, statuses, interests, chosen, friendRows,
                 addresses, lost, cut, runs>>

SeedAddress ==
  /\ \/ SeedingAt("drop") /\ addresses' = "none" /\ GoOn("insert")
     \/ SeedingAt("insert") /\ addresses' \in {"some", "all"}
          /\ GoOn(IF addresses' = "all" THEN "delete" ELSE "insert")
  /\ UNCHANGED <<schema, applied, rowTables, lost, cut, runs>>

\* What becomes of the choices when interests are deleted.
Rule(s) == {p.rule : p \in {q \in s : q.table = "user_interest" /\ q.of = {"interestId"}
                                       /\ q.kind = "reference"}}
Removable(names) == chosen \cap names = {} \/ Rule(schema) = {"CASCADE"}

DeleteInterests ==
  /\ SeedingAt("delete") /\ Removable(interests)
  /\ interests' = {} /\ chosen' = {}
  /\ GoOn("save")
  /\ UNCHANGED <<schema, applied, roles, statuses, userRows, friendRows, addresses,
                 lost, cut, runs>>

SaveInterests ==
  /\ SeedingAt("save") /\ Interests \cap interests = {}
  /\ interests' = Interests
  /\ seeding' = NotSeeding
  /\ UNCHANGED <<schema, applied, roles, statuses, userRows, chosen, friendRows,
                 addresses, lost, cut, runs>>

\* A statement fails, or the process is stopped.
EndSeeds ==
  /\ seeding # NotSeeding
  /\ seeding' = NotSeeding
  /\ cut' = TRUE
  /\ UNCHANGED <<schema, applied, rowTables, addresses, lost, runs>>

SeedStep == \/ SeedRole \/ SeedStatus \/ SeedAdmin \/ SeedCount \/ SeedUser
            \/ SeedAddress \/ DeleteInterests \/ SaveInterests

-----------------------------------------------------------------------------
(* main-app, of this release or of an earlier one.                         *)

\* Bound: earlier releases know strangers only.
RegisterUser(e) ==
  /\ Exists(schema, "user") /\ ~ Taken(e)
  /\ e \in Strangers \/ applied = Latest
  /\ userRows' = [userRows EXCEPT ![e] = [role |-> "user", live |-> TRUE, seeded |-> FALSE]]
  /\ UNCHANGED <<schema, applied, roles, statuses, interests, chosen, friendRows,
                 addresses, seeding, lost, cut, runs>>

SoftDelete(e) ==
  /\ userRows[e].live
  /\ userRows' = [userRows EXCEPT ![e].live = FALSE]
  /\ UNCHANGED <<schema, applied, roles, statuses, interests, chosen, friendRows,
                 addresses, seeding, lost, cut, runs>>

\* What releases with the table user_friend wrote there.
Befriend ==
  /\ Exists(schema, "user_friend") /\ \E e \in Emails : Taken(e)
  /\ friendRows' = IF Key("user_friend", {"id"}) \in schema THEN "unclean" ELSE "proper"
  /\ UNCHANGED <<schema, applied, roles, statuses, userRows, interests, chosen,
                 addresses, seeding, lost, cut, runs>>

CreateInterest(i) ==
  /\ applied = Latest /\ i \notin interests
  /\ interests' = interests \cup {i}
  /\ UNCHANGED <<schema, applied, roles, statuses, userRows, chosen, friendRows,
                 addresses, seeding, lost, cut, runs>>

RemoveInterest(i) ==
  /\ applied = Latest /\ i \in interests /\ Removable({i})
  /\ interests' = interests \ {i}
  /\ chosen' = chosen \ {i}
  /\ UNCHANGED <<schema, applied, roles, statuses, userRows, friendRows, addresses,
                 seeding, lost, cut, runs>>

AddUserInterest(i) ==
  /\ applied = Latest /\ i \in interests /\ \E e \in Emails : userRows[e].live
  /\ chosen' = chosen \cup {i}
  /\ UNCHANGED <<schema, applied, roles, statuses, userRows, interests, friendRows,
                 addresses, seeding, lost, cut, runs>>

-----------------------------------------------------------------------------
DeploymentNext ==
  \/ \E release \in 1..Latest : Run(release)
  \/ Revert
  \/ StartSeeds \/ SeedStep \/ EndSeeds
  \/ \E e \in Emails : RegisterUser(e) \/ SoftDelete(e)
  \/ Befriend
  \/ \E i \in Interests : CreateInterest(i) \/ RemoveInterest(i) \/ AddUserInterest(i)

DeploymentSpec == DeploymentInit /\ [][DeploymentNext]_deploymentVars

-----------------------------------------------------------------------------
(* Properties.                                                             *)

\* However a database got to the last migration, by whatever releases and
\* reverts, it has what the entities ask for (entities/*.entity.ts).
EntitiesFit == applied = Latest => schema = Entities

\* The pending migrations can be run, and the last one reverted, whatever has
\* been run and reverted before, but for two: UserFriendCompositeKey relaxes
\* columns that are still in the key, and RemoveFriend does not bring back the
\* tables that it and its predecessors need.
NeverStuck ==
  ~ lost =>
    /\ applied < Latest => Execute(schema, Pending(Latest), {}, {}).ok
    /\ applied \notin {0, 8} => Execute(schema, Down[applied], {}, {}).ok

Unexpected(e) == Taken(e) /\ ~ (userRows[e].seeded /\ userRows[e].live)

\* The seeds can be run again and again, however often they were stopped
\* (run-seed.ts): with the schema in place they can always go on, unless one
\* of their addresses belongs to somebody who has been deleted or has
\* registered, or interests were added while they had deleted all.
SeedsGoOn ==
  (applied = Latest /\ seeding # NotSeeding) =>
    \/ ENABLED SeedStep
    \/ \E e \in {Admin} \cup ToSeed : Unexpected(e)
    \/ SeedingAt("save") /\ interests # {}

\* The seeded users are there all or not at all, until a run of the seeds is
\* stopped (user-seed.service.ts:52-75, which then leaves out the others).
SeededTogether ==
  ~ cut /\ ~ SeedingAt("users") =>
    {e \in ToSeed : userRows[e].seeded} \in {{}, ToSeed}

=============================================================================
