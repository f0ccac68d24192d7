---------------------------- MODULE ChatGateway ----------------------------
(***************************************************************************)
(* The chat gateway (apps/conversation/src/gateway) over one conversation: *)
(* sockets that connect, read the latest messages, join and leave, and the *)
(* handlers of their SEND, UPDATE, DELETE, SEEN and LOAD_HISTORY events.   *)
(*                                                                         *)
(* A handler stops at each await: the existence query, the write, the      *)
(* query for the updated message.  A connection stops twice: until the     *)
(* database has read the conversation, and until its answer and the users' *)
(* are back.  A socket that drops meanwhile stops neither.                 *)
(*                                                                         *)
(* client.broadcast.emit reaches every other socket of the namespace, also *)
(* one whose handleConnection is still at work.                            *)
(***************************************************************************)
EXTENDS Naturals, Sequences, FiniteSets

CONSTANTS
  Users,         \* who may connect
  Sockets,       \* the sockets that may be open together
  Handlers,      \* the message handlers that may be in flight together
  Latest,        \* latestMessagesCount of the handshake
  MaxMessages,   \* bound: messages of the conversation
  Asked          \* bound: messages that are edited, deleted or marked as seen

ASSUME ChatAssumption ==
  /\ Latest \in Nat \ {0}
  /\ MaxMessages \in Nat
  /\ Asked \subseteq Nat

VARIABLES
  exists,     \* Mongo: the conversation has not been removed
  members,    \* Mongo: its admin and participants
  messages,   \* Mongo: its messages; the index stands for the uuid
  seenLog,    \* Mongo: messageSeenLog, the last message seen by a user
  sockets,    \* socket.io: the sockets and what their clients were sent
  calls,      \* the message handlers in flight
  ghosts      \* history: users whose JOIN_CHAT came from a dropped socket

store == <<exists, members, messages, seenLog>>
vars == <<store, sockets, calls, ghosts>>

-----------------------------------------------------------------------------
Messages == [from : Users, text : {"sent", "edited", "deleted"}]

\* A connection: "read" and "answer" are the awaits of handleConnection, "in"
\* has client.data set.  shown are the messages the client has been sent or
\* CONNECT is about to bring; CONNECT, and history loaded later, begin after the
\* first since messages; online are the users it has been told of, by CONNECT and later.
Connections == [phase : {"read", "answer", "in"},
                alive : BOOLEAN,
                user : Users,
                since : Nat,
                shown : SUBSET Nat,
                online : SUBSET Users]

Closed == [phase |-> "off"]
Open(u) == [phase |-> "read", alive |-> TRUE, user |-> u, since |-> 0,
            shown |-> {}, online |-> {}]

Idle == [phase |-> "idle"]
Calls == [op : {"send", "update", "delete", "seen"},
          phase : {"validate", "write", "fetch", "announce"},
          socket : Sockets, user : Users, id : Nat]

TypeOK ==
  /\ exists \in BOOLEAN
  /\ members \subseteq Users
  /\ messages \in Seq(Messages)
  /\ seenLog \in [Users -> Nat]
  /\ sockets \in [Sockets -> Connections \cup {Closed}]
  /\ calls \in [Handlers -> Calls \cup {Idle}]
  /\ ghosts \subseteq Users

Init ==
  /\ exists = TRUE
  /\ \E u \in Users : members = {u}
  /\ messages = <<>>
  /\ seenLog = [u \in Users |-> 0]
  /\ sockets = [s \in Sockets |-> Closed]
  /\ calls = [h \in Handlers |-> Idle]
  /\ ghosts = {}

-----------------------------------------------------------------------------
\* The filter of getOrExtendsDefaultFilter, admin or participant.
Matches(u) == exists /\ u \in members

Stored == 1 .. Len(messages)
Connected(s) == sockets[s] # Closed /\ sockets[s].alive
InChat(s) == Connected(s) /\ sockets[s].phase = "in"

\* Mutant: the room instead of the namespace.
ReachedInRoom(s) == {t \in Sockets \ {s} : InChat(t)}

\* client.broadcast: everybody connected but the client itself.
Reached(s) == {t \in Sockets \ {s} : Connected(t)}

\* JOIN_CHAT and LEAVE_CHAT; what they tell a client before its CONNECT is
\* replaced by CONNECT.
TellJoin(s, u) ==
  [t \in Sockets |-> IF t \in Reached(s) /\ InChat(t)
                       THEN [sockets[t] EXCEPT !.online = @ \cup {u}]
                       ELSE sockets[t]]
TellLeave(s, u) ==
  [t \in Sockets |-> IF t \in Reached(s) /\ InChat(t)
                       THEN [sockets[t] EXCEPT !.online = @ \ {u}]
                       ELSE sockets[t]]

\* getActiveUserIdsById: the users of the sockets in the room that are open.
ActiveUsers == {sockets[s].user : s \in {t \in Sockets : InChat(t)}}

-----------------------------------------------------------------------------
(* Connections.                                                            *)

\* A slot is free for the next socket once nothing of the last is in flight.
Connect(s, u) ==
  /\ sockets[s] = Closed
  /\ \A h \in Handlers : calls[h] # Idle => calls[h].socket # s
  /\ sockets' = [sockets EXCEPT ![s] = Open(u)]
  /\ UNCHANGED <<store, calls, ghosts>>

\* The latest messages: { $slice: -latestMessagesCount }.
FirstLatest == IF Len(messages) > Latest THEN Len(messages) - Latest + 1 ELSE 1
LatestMessages == FirstLatest .. Len(messages)

\* A connection that has read the conversation.
Loaded(connection) ==
  [connection EXCEPT !.phase = "answer",
                     !.since = FirstLatest - 1,
                     !.shown = @ \cup LatestMessages]

\* getConversationById reads the latest messages; who is not a member is
\* disconnected.
ReadConversation(s) ==
  /\ sockets[s].phase = "read"
  /\ sockets' = [sockets EXCEPT ![s] =
                   IF Matches(sockets[s].user) THEN Loaded(sockets[s]) ELSE Closed]
  /\ UNCHANGED <<store, calls, ghosts>>

\* The rest of handleConnection: data, join, CONNECT to the client and
\* JOIN_CHAT to the others, sent even for a socket that has dropped.
Join(s) ==
  /\ sockets[s].phase = "answer"
  /\ LET u == sockets[s].user
     IN \/ /\ sockets[s].alive
           /\ sockets' = [TellJoin(s, u) EXCEPT ![s].phase = "in",
                                                ![s].online = ActiveUsers \cup {u}]
           /\ UNCHANGED ghosts
        \/ /\ ~ sockets[s].alive
           /\ sockets' = [TellJoin(s, u) EXCEPT ![s] = Closed]
           /\ ghosts' = ghosts \cup {u}
  /\ UNCHANGED <<store, calls>>

\* Mutant: the page ends one message early.
HistoryStartEarly(count, nthFromEnd) ==
  IF count + nthFromEnd < Len(messages) THEN Len(messages) - (count + nthFromEnd) ELSE 1

\* getMessagesByOrder: { $slice: [-(count + nthFromEnd), count] }, which begins
\* with the first message when there are no more than that, or
\* { $slice: -count }.
HistoryStart(count, nthFromEnd) ==
  IF count + nthFromEnd < Len(messages) THEN Len(messages) - (count + nthFromEnd) + 1 ELSE 1

History(count, nthFromEnd) ==
  {i \in Stored : /\ HistoryStart(count, nthFromEnd) <= i
                  /\ i < HistoryStart(count, nthFromEnd) + count}

\* What a client has since CONNECT.
Held(connection) == {i \in connection.shown : i > connection.since}

\* LOAD_HISTORY of a client that asks for what comes before all it holds; who
\* is no member any more gets nothing.
LoadHistory(s, count) ==
  /\ InChat(s)
  /\ Matches(sockets[s].user)
  /\ LET nthFromEnd == Cardinality(Held(sockets[s]))
         start == HistoryStart(count, nthFromEnd)
     IN sockets' = [sockets EXCEPT
          ![s].shown = @ \cup History(count, nthFromEnd),
          ![s].since = IF start <= @ THEN start - 1 ELSE @]
  /\ UNCHANGED <<store, calls, ghosts>>

\* Mutant: nobody is told that the user has left.
DisconnectSilently(s) ==
  /\ Connected(s)
  /\ sockets' = [sockets EXCEPT ![s] =
                   IF InChat(s) THEN Closed ELSE [@ EXCEPT !.alive = FALSE]]
  /\ UNCHANGED <<store, calls, ghosts>>

\* handleDisconnect says LEAVE_CHAT only if client.data is set; otherwise
\* handleConnection goes on for the dropped socket.
Disconnect(s) ==
  /\ Connected(s)
  /\ \/ /\ InChat(s)
        /\ sockets' = [TellLeave(s, sockets[s].user) EXCEPT ![s] = Closed]
     \/ /\ ~InChat(s)
        /\ sockets' = [sockets EXCEPT ![s].alive = FALSE]
  /\ UNCHANGED <<store, calls, ghosts>>

-----------------------------------------------------------------------------
(* Message handlers.  A client without data is refused (validateUserSocket).*)

Sending == {h \in Handlers : calls[h] # Idle /\ calls[h].op = "send"}
At(h, op, phase) == calls[h] # Idle /\ calls[h].op = op /\ calls[h].phase = phase

End(h) == calls' = [calls EXCEPT ![h] = Idle]
Go(h, phase) == calls' = [calls EXCEPT ![h].phase = phase]

Start(h, s, op, id) ==
  /\ calls[h] = Idle
  /\ InChat(s)
  /\ IF op = "send"
       THEN id = 0 /\ Len(messages) + Cardinality(Sending) < MaxMessages
       ELSE id \in Stored \cap Asked
  /\ calls' = [calls EXCEPT ![h] = [op |-> op, phase |-> "validate",
                                    socket |-> s, user |-> sockets[s].user,
                                    id |-> id]]
  /\ UNCHANGED <<store, sockets, ghosts>>

\* validateConversation: any conversation that exists will do.
Validate(h) ==
  /\ calls[h].phase = "validate"
  /\ IF exists THEN Go(h, "write") ELSE End(h)
  /\ UNCHANGED <<store, sockets, ghosts>>

\* addMessage: $push, or SEND_FAILURE when the filter matches nothing.
WriteMessage(h) ==
  /\ At(h, "send", "write")
  /\ IF Matches(calls[h].user)
       THEN /\ messages' = Append(messages,
                                  [from |-> calls[h].user, text |-> "sent"])
            /\ calls' = [calls EXCEPT ![h].phase = "announce",
                                      ![h].id = Len(messages) + 1]
       ELSE End(h) /\ UNCHANGED messages
  /\ UNCHANGED <<exists, members, seenLog, sockets, ghosts>>

\* updateMessage edits the author's own message.  The update counts as done
\* whenever the conversation matches, since updatedAt changes, unless two
\* writes share a millisecond.
EditMessage(h) ==
  /\ At(h, "update", "write")
  /\ LET id == calls[h].id
         mine == Matches(calls[h].user) /\ messages[id].from = calls[h].user
     IN /\ messages' = IF mine THEN [messages EXCEPT ![id].text = "edited"]
                               ELSE messages
        /\ \/ Matches(calls[h].user) /\ Go(h, "fetch")
           \/ ~mine /\ End(h)
  /\ UNCHANGED <<exists, members, seenLog, sockets, ghosts>>

\* getMessageById: a conversation that holds the message and one of the
\* user; if there is none, UPDATE_FAILURE.
FetchUpdated(h) ==
  /\ At(h, "update", "fetch")
  /\ IF Matches(calls[h].user) /\ \E i \in Stored : messages[i].from = calls[h].user
       THEN Go(h, "announce")
       ELSE End(h)
  /\ UNCHANGED <<store, sockets, ghosts>>

\* removeMessage blanks the message, whoever wrote it.
DeleteMessage(h) ==
  /\ At(h, "delete", "write")
  /\ IF Matches(calls[h].user)
       THEN /\ messages' = [messages EXCEPT ![calls[h].id].text = "deleted"]
            /\ Go(h, "announce")
       ELSE End(h) /\ UNCHANGED messages
  /\ UNCHANGED <<exists, members, seenLog, sockets, ghosts>>

\* updateMessageSeenLog returns unless the user has an entry already; the
\* branch that adds the first entry is behind that return.
MarkSeen(h) ==
  /\ At(h, "seen", "write")
  /\ LET u == calls[h].user
     IN IF Matches(u) /\ seenLog[u] # 0
          THEN seenLog' = [seenLog EXCEPT ![u] = calls[h].id] /\ Go(h, "announce")
          ELSE UNCHANGED seenLog /\ End(h)
  /\ UNCHANGED <<exists, members, messages, sockets, ghosts>>

\* RECEIVE to the others, and the message as the acknowledgement of SEND.
AnnounceMessage(h) ==
  /\ At(h, "send", "announce")
  /\ LET s == calls[h].socket
         told == Reached(s) \cup {t \in {s} : Connected(t)}
     IN sockets' = [t \in Sockets |->
                      IF t \in told
                        THEN [sockets[t] EXCEPT !.shown = @ \cup {calls[h].id}]
                        ELSE sockets[t]]
  /\ End(h)
  /\ UNCHANGED <<store, ghosts>>

\* UPDATE_NOTIFY, DELETE_NOTIFY or READ_RECEIPT to the others.
AnnounceChange(h) ==
  /\ calls[h].phase = "announce"
  /\ calls[h].op # "send"
  /\ End(h)
  /\ UNCHANGED <<store, sockets, ghosts>>

-----------------------------------------------------------------------------
(* The REST side of the service.                                           *)

AddParticipant(u) ==
  /\ exists
  /\ members' = members \cup {u}
  /\ UNCHANGED <<exists, messages, seenLog, sockets, calls, ghosts>>

RemoveConversation ==
  /\ exists' = FALSE
  /\ UNCHANGED <<members, messages, seenLog, sockets, calls, ghosts>>

-----------------------------------------------------------------------------
Continue(h) == \/ Validate(h)
               \/ WriteMessage(h) \/ EditMessage(h) \/ DeleteMessage(h)
               \/ MarkSeen(h) \/ FetchUpdated(h)
               \/ AnnounceMessage(h) \/ AnnounceChange(h)

Next == \/ \E s \in Sockets, u \in Users : Connect(s, u)
        \/ \E s \in Sockets : ReadConversation(s) \/ Join(s) \/ Disconnect(s)
        \/ \E s \in Sockets, count \in 1 .. MaxMessages : LoadHistory(s, count)
        \/ \E h \in Handlers, s \in Sockets,
              op \in {"send", "update", "delete", "seen"}, id \in 0 .. MaxMessages :
             Start(h, s, op, id)
        \/ \E h \in Handlers : Continue(h)
        \/ \E u \in Users : AddParticipant(u)
        \/ RemoveConversation

Spec == Init /\ [][Next]_vars

-----------------------------------------------------------------------------
(* What the gateway promises its clients.                                  *)

\* A client in the chat misses no message: whatever is stored after what its
\* CONNECT began with, or the history it has loaded since, is in what it was
\* sent or in the hands of a handler about to send it.  Two things are hard:
\* the messages stored while handleConnection is waiting, and pages counted
\* from an end that moves (gateway/index.ts:56-72, 204-223).
NothingMissed ==
  \A s \in Sockets : InChat(s) =>
    \A i \in Stored :
      \/ i <= sockets[s].since
      \/ i \in sockets[s].shown
      \/ \E h \in Handlers : At(h, "send", "announce") /\ calls[h].id = i

\* Nobody is shown as active who has no socket in the chat, except users of
\* a socket that dropped while handleConnection waited: their JOIN_CHAT is
\* sent all the same, and no LEAVE_CHAT follows (gateway/index.ts:56-78).
PresenceJustified ==
  \A s \in Sockets : InChat(s) => sockets[s].online \subseteq ActiveUsers \cup ghosts

=============================================================================
