------------------------------- MODULE Schema -------------------------------
(***************************************************************************)
(* The PostgreSQL schema: the twelve migrations of libs/databases as the   *)
(* statements they send, what PostgreSQL makes of a statement, and the     *)
(* schema that the TypeORM entities ask for.                               *)
(*                                                                         *)
(* A schema is a set of parts: columns, keys, unique constraints, indices  *)
(* and references.  Column types and defaults are left out; whether a new  *)
(* column demands a value is not, because rows may be there already.       *)
(***************************************************************************)
EXTENDS Naturals, FiniteSets, SequencesExt

Part(t, kind, of, to, rule) ==
  [table |-> t, kind |-> kind, of |-> of, to |-> to, rule |-> rule]
Column(t, c) == Part(t, "column", {c}, "", "")
Key(t, cs) == Part(t, "key", cs, "", "")
Unique(t, c) == Part(t, "unique", {c}, "", "")
Index(t, c) == Part(t, "index", {c}, "", "")
Ref(t, c, to, rule) == Part(t, "reference", {c}, to, rule)

Columns(t, cs) == {Column(t, c) : c \in cs}
Table(t, cs, key) == Columns(t, cs) \cup {Key(t, key)}

Exists(s, t) == \E p \in s : p.table = t
Same(s, part) == {p \in s : p.table = part.table /\ p.kind = part.kind
                              /\ (part.kind = "key" \/ p.of = part.of)}

\* op is one of create, add, demand (add a column without a default), relax
\* (drop a column's NOT NULL), drop, dropTable and dropIfExists.
Statement(op, parts) == [op |-> op, parts |-> parts]
CreateTable(parts) == Statement("create", parts)
Add(part) == Statement("add", {part})
Demand(part) == Statement("demand", {part})
Relax(part) == Statement("relax", {part})
Drop(part) == Statement("drop", {part})
DropTable(t) == Statement("dropTable", {Key(t, {})})
DropIfExists(t) == Statement("dropIfExists", {Key(t, {})})

\* Whether PostgreSQL executes the statement, when the tables in rows have
\* rows and those in unclean have some that cannot have the key.
Fits(s, st, rows, unclean) ==
  \A p \in st.parts :
    CASE st.op = "create" -> ~ Exists(s, p.table)
      [] st.op \in {"add", "demand"} ->
           /\ Exists(s, p.table) /\ Same(s, p) = {}
           /\ p.kind # "column" => Columns(p.table, p.of) \subseteq s
           /\ p.kind = "reference" => Exists(s, p.to)
           /\ p.kind = "key" => p.table \notin unclean
           /\ st.op = "demand" => p.table \notin rows
      [] st.op = "relax" ->
           /\ p \in s
           /\ \A k \in s : ~ (k.table = p.table /\ k.kind = "key" /\ p.of \subseteq k.of)
      [] st.op = "drop" -> Same(s, p) # {}
      [] st.op = "dropTable" ->
           /\ Exists(s, p.table)
           /\ \A r \in s : r.to = p.table => r.table = p.table
      [] st.op = "dropIfExists" -> \A r \in s : r.to = p.table => r.table = p.table

Effect(s, st) ==
  CASE st.op \in {"create", "add", "demand"} -> s \cup st.parts
    [] st.op = "relax" -> s
    [] st.op = "drop" ->
         LET gone == UNION {Same(s, p) : p \in st.parts}
         IN {p \in s : p \notin gone /\ \A g \in gone :
               ~ (g.kind = "column" /\ g.table = p.table /\ g.of \subseteq p.of)}
    [] st.op \in {"dropTable", "dropIfExists"} ->
         {p \in s : \A g \in st.parts : g.table # p.table}

\* The statements one after the other, in one transaction.
Failed == [ok |-> FALSE, schema |-> {}]
Execute(s, sts, rows, unclean) ==
  FoldLeft(LAMBDA r, st : IF r.ok /\ Fits(r.schema, st, rows, unclean)
                            THEN [ok |-> TRUE, schema |-> Effect(r.schema, st)]
                            ELSE Failed,
           [ok |-> TRUE, schema |-> s], sts)

-----------------------------------------------------------------------------
(* The migrations, oldest first, and what reverts them.                    *)

CreateUser ==
  <<CreateTable(Table("file", {"id", "path"}, {"id"})),
    CreateTable(Table("role", {"id", "name"}, {"id"})),
    CreateTable(Table("status", {"id", "name"}, {"id"})),
    CreateTable(Table("user", {"id", "email", "password", "provider", "socialId",
                          "firstName", "lastName", "hash", "createdAt",
                          "updatedAt", "deletedAt", "photoId", "roleId",
                          "statusId"}, {"id"})
             \cup {Unique("user", "email")}),
    Add(Index("user", "socialId")), Add(Index("user", "firstName")),
    Add(Index("user", "lastName")), Add(Index("user", "hash")),
    CreateTable(Table("forgot", {"id", "hash", "createdAt", "deletedAt", "userId"}, {"id"})),
    Add(Index("forgot", "hash")),
    Add(Ref("user", "photoId", "file", "NO ACTION")),
    Add(Ref("user", "roleId", "role", "NO ACTION")),
    Add(Ref("user", "statusId", "status", "NO ACTION")),
    Add(Ref("forgot", "userId", "user", "NO ACTION"))>>
CreateUserDown ==
  <<Drop(Ref("forgot", "userId", "", "")), Drop(Ref("user", "statusId", "", "")),
    Drop(Ref("user", "roleId", "", "")), Drop(Ref("user", "photoId", "", "")),
    Drop(Index("forgot", "hash")), DropTable("forgot"),
    Drop(Index("user", "hash")), Drop(Index("user", "lastName")),
    Drop(Index("user", "firstName")), Drop(Index("user", "socialId")),
    DropTable("user"), DropTable("status"), DropTable("role"), DropTable("file")>>

AddColumnForUser ==
  <<Demand(Column("user", "alias")), Add(Unique("user", "alias")),
    Add(Index("user", "alias"))>>
AddColumnForUserDown ==
  <<Drop(Index("user", "alias")), Drop(Unique("user", "alias")),
    Drop(Column("user", "alias"))>>

FriendRef(c, rule) == Ref("user_friend", c, "user", rule)
FriendRefs(op(_), cs, rule) == [i \in 1..2 |-> op(FriendRef(cs[i], rule))]
OneTwo == <<"user1Id", "user2Id">>
TwoOne == <<"user2Id", "user1Id">>

Friend ==
  <<CreateTable(Table("friend_request", {"senderId", "recipientId", "createdAt"},
                 {"senderId", "recipientId"})),
    CreateTable(Table("user_friend", {"id", "createdAt", "user1Id", "user2Id"}, {"id"})),
    Add(Ref("friend_request", "senderId", "user", "NO ACTION")),
    Add(Ref("friend_request", "recipientId", "user", "NO ACTION"))>>
  \o FriendRefs(Add, OneTwo, "NO ACTION")
FriendDown ==
  FriendRefs(Drop, TwoOne, "")
  \o <<Drop(Ref("friend_request", "recipientId", "", "")),
       Drop(Ref("friend_request", "senderId", "", "")),
       DropTable("user_friend"), DropTable("friend_request")>>

UserFriendAddCascadeDelete ==
  FriendRefs(Drop, OneTwo, "") \o FriendRefs(Add, OneTwo, "CASCADE")
UserFriendAddCascadeDeleteDown ==
  FriendRefs(Drop, TwoOne, "") \o FriendRefs(Add, TwoOne, "NO ACTION")

AddAddressColForUser == <<Add(Column("user", "address"))>>
AddAddressColForUserDown == <<Drop(Column("user", "address"))>>
AddAgeColForUser == <<Add(Column("user", "age"))>>
AddAgeColForUserDown == <<Drop(Column("user", "age"))>>

UserInterest1 ==
  <<CreateTable(Table("interest", {"id", "name"}, {"id"}) \cup {Unique("interest", "name")}),
    CreateTable(Table("user_interests", {"interestId", "userId"}, {"interestId", "userId"})),
    Add(Index("user_interests", "interestId")), Add(Index("user_interests", "userId")),
    Add(Ref("user_interests", "interestId", "interest", "CASCADE")),
    Add(Ref("user_interests", "userId", "user", "NO ACTION"))>>
UserInterest1Down ==
  <<Drop(Ref("user_interests", "userId", "", "")),
    Drop(Ref("user_interests", "interestId", "", "")),
    Drop(Index("user_interests", "userId")), Drop(Index("user_interests", "interestId")),
    DropTable("user_interests"), DropTable("interest")>>

\* SET NOT NULL changes nothing here.  Its reverse comes before the key that
\* the columns are in is dropped.
UserFriendCompositeKey ==
  <<Drop(Key("user_friend", {})), Drop(Column("user_friend", "id")),
    Add(Key("user_friend", {"user1Id", "user2Id"}))>>
  \o FriendRefs(Drop, OneTwo, "") \o FriendRefs(Add, OneTwo, "CASCADE")
UserFriendCompositeKeyDown ==
  FriendRefs(Drop, TwoOne, "")
  \o <<Relax(Column("user_friend", "user2Id")), Relax(Column("user_friend", "user1Id"))>>
  \o FriendRefs(Add, TwoOne, "CASCADE")
  \o <<Drop(Key("user_friend", {})), Add(Column("user_friend", "id")),
       Add(Key("user_friend", {"id"}))>>

IndexUserFriend ==
  <<Add(Index("user_friend", "user2Id")), Add(Index("user_friend", "user1Id"))>>
IndexUserFriendDown ==
  <<Drop(Index("user_friend", "user1Id")), Drop(Index("user_friend", "user2Id"))>>

\* Mutant: one of the tables stays.
RemoveFriendOnly == <<DropTable("user_friend")>>

RemoveFriend == <<DropTable("user_friend"), DropTable("friend_request")>>
RemoveFriendDown == <<>>

\* Mutant: the table of the other migration has to be there.
UserInterest2Strict ==
  <<DropTable("user_interests"),
    CreateTable(Table("user_interest", {"userId", "interestId"}, {"userId", "interestId"})),
    Add(Ref("user_interest", "userId", "user", "CASCADE")),
    Add(Ref("user_interest", "interestId", "interest", "CASCADE"))>>

\* Mutant: an interest that somebody has chosen cannot be deleted.
UserInterest2NoCascade ==
  <<DropIfExists("user_interests"),
    CreateTable(Table("user_interest", {"userId", "interestId"}, {"userId", "interestId"})),
    Add(Ref("user_interest", "userId", "user", "CASCADE")),
    Add(Ref("user_interest", "interestId", "interest", "NO ACTION"))>>

UserInterest2 ==
  <<DropIfExists("user_interests"),
    CreateTable(Table("user_interest", {"userId", "interestId"}, {"userId", "interestId"})),
    Add(Ref("user_interest", "userId", "user", "CASCADE")),
    Add(Ref("user_interest", "interestId", "interest", "CASCADE"))>>
UserInterest2Down ==
  <<Drop(Ref("user_interest", "interestId", "", "")),
    Drop(Ref("user_interest", "userId", "", "")), DropTable("user_interest")>>

AddPost ==
  <<CreateTable(Table("post_interest", {"id", "postId", "interestId"}, {"id"})),
    CreateTable(Table("post", {"id", "title", "content", "backgroundCode", "userId",
                          "picId", "createdAt", "updatedAt"}, {"id"})),
    CreateTable(Table("comment", {"id", "postId", "content"}, {"id"})),
    Add(Column("file", "postId")), Add(Unique("file", "postId")),
    Add(Ref("file", "postId", "post", "CASCADE")),
    Add(Ref("post_interest", "postId", "post", "CASCADE")),
    Add(Ref("post_interest", "interestId", "interest", "CASCADE")),
    Add(Ref("post", "userId", "user", "NO ACTION")),
    Add(Ref("comment", "postId", "post", "NO ACTION"))>>

\* Mutant: the column of file stays.
AddPostDownKeepsColumn ==
  <<Drop(Ref("comment", "postId", "", "")), Drop(Ref("post", "userId", "", "")),
    Drop(Ref("post_interest", "interestId", "", "")),
    Drop(Ref("post_interest", "postId", "", "")),
    Drop(Ref("file", "postId", "", "")), Drop(Unique("file", "postId")),
    DropTable("comment"), DropTable("post"), DropTable("post_interest")>>

AddPostDown ==
  <<Drop(Ref("comment", "postId", "", "")), Drop(Ref("post", "userId", "", "")),
    Drop(Ref("post_interest", "interestId", "", "")),
    Drop(Ref("post_interest", "postId", "", "")),
    Drop(Ref("file", "postId", "", "")), Drop(Unique("file", "postId")),
    Drop(Column("file", "postId")),
    DropTable("comment"), DropTable("post"), DropTable("post_interest")>>

Up == <<CreateUser, AddColumnForUser, Friend, UserFriendAddCascadeDelete,
        AddAddressColForUser, AddAgeColForUser, UserInterest1,
        UserFriendCompositeKey, IndexUserFriend, RemoveFriend, UserInterest2,
        AddPost>>
Down == <<CreateUserDown, AddColumnForUserDown, FriendDown,
          UserFriendAddCascadeDeleteDown, AddAddressColForUserDown,
          AddAgeColForUserDown, UserInterest1Down, UserFriendCompositeKeyDown,
          IndexUserFriendDown, RemoveFriendDown, UserInterest2Down, AddPostDown>>
Latest == Len(Up)
\* The place of RemoveFriend.
Removal == 10

-----------------------------------------------------------------------------
(* The entities.                                                           *)

FileEntity ==
  Table("file", {"id", "path", "postId"}, {"id"})
  \cup {Unique("file", "postId"), Ref("file", "postId", "post", "CASCADE")}
RoleEntity == Table("role", {"id", "name"}, {"id"})
StatusEntity == Table("status", {"id", "name"}, {"id"})
UserEntity ==
  Table("user", {"id", "email", "password", "provider", "alias", "socialId",
                 "firstName", "lastName", "address", "age", "photoId", "roleId",
                 "statusId", "hash", "createdAt", "updatedAt", "deletedAt"}, {"id"})
  \cup {Unique("user", c) : c \in {"email", "alias"}}
  \cup {Index("user", c) : c \in {"alias", "socialId", "firstName", "lastName", "hash"}}
  \cup {Ref("user", "photoId", "file", "NO ACTION"),
        Ref("user", "roleId", "role", "NO ACTION"),
        Ref("user", "statusId", "status", "NO ACTION")}
ForgotEntity ==
  Table("forgot", {"id", "hash", "createdAt", "deletedAt", "userId"}, {"id"})
  \cup {Index("forgot", "hash"), Ref("forgot", "userId", "user", "NO ACTION")}
InterestEntity == Table("interest", {"id", "name"}, {"id"}) \cup {Unique("interest", "name")}
UserInterestEntity ==
  Table("user_interest", {"userId", "interestId"}, {"userId", "interestId"})
  \cup {Ref("user_interest", "userId", "user", "CASCADE"),
        Ref("user_interest", "interestId", "interest", "CASCADE")}
PostEntity ==
  Table("post", {"id", "title", "content", "backgroundCode", "userId", "picId",
                 "createdAt", "updatedAt"}, {"id"})
  \cup {Ref("post", "userId", "user", "NO ACTION")}
PostInterestEntity ==
  Table("post_interest", {"id", "postId", "interestId"}, {"id"})
  \cup {Ref("post_interest", "postId", "post", "CASCADE"),
        Ref("post_interest", "interestId", "interest", "CASCADE")}
CommentEntity ==
  Table("comment", {"id", "postId", "content"}, {"id"})
  \cup {Ref("comment", "postId", "post", "NO ACTION")}

Entities ==
  UNION {FileEntity, RoleEntity, StatusEntity, UserEntity, ForgotEntity, InterestEntity,
         UserInterestEntity, PostEntity, PostInterestEntity, CommentEntity}

=============================================================================
