------------------------- MODULE ChatGatewayProofs -------------------------
(***************************************************************************)
(* What ChatGateway promises, for any users, sockets, handlers and bounds: *)
(* types, no message missed, no presence without a cause.                  *)
(*                                                                         *)
(* NothingMissed speaks of clients in the chat and is not inductive: when  *)
(* Join lets a client in, all must have come already.  Covered says so of  *)
(* every open connection that has read the conversation.                   *)
(***************************************************************************)
EXTENDS ChatGateway, FiniteSetTheorems, TLAPS

\* The message has been stored and its handler has yet to send it.
OnItsWay(i) == \E h \in Handlers : At(h, "send", "announce") /\ calls[h].id = i

\* A connection that has read the conversation and not dropped.
HasRead(s) == Connected(s) /\ sockets[s].phase \in {"answer", "in"}

Covered ==
  \A s \in Sockets : HasRead(s) =>
    \A i \in Stored : i <= sockets[s].since \/ i \in sockets[s].shown \/ OnItsWay(i)

IInv == TypeOK /\ Covered /\ PresenceJustified

\* What clients have been sent, and what is about to be, is stored.
InStore ==
  /\ \A s \in Sockets : sockets[s] # Closed =>
       sockets[s].shown \subseteq Stored /\ sockets[s].since <= Len(messages)
  /\ \A i \in Nat : OnItsWay(i) => i \in Stored

-----------------------------------------------------------------------------
(* Types.                                                                  *)

LEMMA Apart == Closed \notin Connections /\ Idle \notin Calls
  BY DEF Closed, Connections, Idle, Calls

LEMMA SocketType ==
  ASSUME TypeOK, NEW s \in Sockets, sockets[s] # Closed
  PROVE  sockets[s] \in Connections
  BY DEF TypeOK

LEMMA CallType ==
  ASSUME TypeOK, NEW h \in Handlers, calls[h] # Idle
  PROVE  calls[h] \in Calls
  BY DEF TypeOK

LEMMA InitIInv == Init => IInv
  BY DEF Init, IInv, TypeOK, Covered, PresenceJustified, HasRead, InChat,
         Connected, Closed, Idle

-----------------------------------------------------------------------------
(* Shapes of steps.                                                        *)

\* One handler goes on or ends; a message on its way stays so unless its own
\* handler moves.
LEMMA StillOnItsWay ==
  ASSUME IInv, NEW h \in Handlers, NEW c \in Calls \cup {Idle},
         calls' = [calls EXCEPT ![h] = c],
         ~At(h, "send", "announce")
  PROVE  \A i \in Nat : OnItsWay(i) => OnItsWay(i)'
<1> SUFFICES ASSUME NEW i \in Nat, NEW g \in Handlers,
                    At(g, "send", "announce"), calls[g].id = i
             PROVE  OnItsWay(i)'
  BY DEF OnItsWay
<1>1. g # h
  OBVIOUS
<1>2. calls'[g] = calls[g]
  BY <1>1 DEF IInv, TypeOK
<1> QED
  BY <1>2 DEF OnItsWay, At

\* A step of the handlers that touches neither sockets nor the number of
\* messages.
LEMMA HandlerStep ==
  ASSUME IInv, TypeOK', UNCHANGED <<sockets, ghosts>>,
         Len(messages') = Len(messages),
         \A i \in Nat : OnItsWay(i) => OnItsWay(i)'
  PROVE  IInv'
<1>1. Stored' = Stored /\ Stored \subseteq Nat
  BY DEF Stored, IInv, TypeOK
<1>2. Covered'
  BY <1>1 DEF Covered, HasRead, Connected, IInv
<1>3. PresenceJustified'
  BY DEF PresenceJustified, InChat, Connected, ActiveUsers, IInv
<1> QED
  BY <1>2, <1>3 DEF IInv

\* A handler that touches only the calls, the seen log and the output.
LEMMA QuietStep ==
  ASSUME IInv, NEW h \in Handlers, NEW c \in Calls \cup {Idle},
         calls' = [calls EXCEPT ![h] = c],
         ~At(h, "send", "announce"),
         UNCHANGED <<exists, members, messages, sockets, ghosts>>,
         seenLog' \in [Users -> Nat]
  PROVE  IInv'
<1>1. TypeOK'
  BY DEF IInv, TypeOK
<1> QED
  BY <1>1, StillOnItsWay, HandlerStep

\* A connection that is new to the chat has all; one that was there keeps
\* what it had.
LEMMA SocketStep ==
  ASSUME IInv, TypeOK', PresenceJustified', UNCHANGED <<messages, calls>>,
         \A t \in Sockets : HasRead(t)' =>
           \/ /\ HasRead(t)
              /\ sockets'[t].since = sockets[t].since
              /\ sockets[t].shown \subseteq sockets'[t].shown
           \/ \A i \in Stored : i <= sockets'[t].since \/ i \in sockets'[t].shown
  PROVE  IInv'
<1>1. Stored' = Stored /\ \A i : OnItsWay(i)' = OnItsWay(i)
  BY DEF Stored, OnItsWay, At
<1>2. Covered'
  BY <1>1 DEF Covered, IInv
<1> QED
  BY <1>2 DEF IInv

-----------------------------------------------------------------------------
(* Connections.                                                            *)

\* Who is in the chat and online there is known from the sockets alone.
LEMMA SamePresence ==
  ASSUME IInv, UNCHANGED ghosts,
         \A t \in Sockets : InChat(t)' <=> InChat(t),
         \A t \in Sockets : InChat(t) =>
           /\ sockets'[t].online = sockets[t].online
           /\ sockets'[t].user = sockets[t].user
  PROVE  PresenceJustified'
  BY DEF IInv, PresenceJustified, ActiveUsers

LEMMA ConnectStep ==
  ASSUME IInv, NEW s \in Sockets, NEW u \in Users, Connect(s, u)
  PROVE  IInv'
<1>1. Open(u) \in Connections /\ Open(u).phase = "read"
  BY DEF Open, Connections
<1>2. \A t \in Sockets : sockets'[t] = IF t = s THEN Open(u) ELSE sockets[t]
  BY DEF Connect, IInv, TypeOK
<1>3. TypeOK'
  BY <1>1 DEF Connect, IInv, TypeOK, store
<1>4. PresenceJustified'
  BY <1>1, <1>2, SamePresence DEF Connect, InChat, Connected
<1>5. \A t \in Sockets : HasRead(t)' => HasRead(t) /\ sockets'[t] = sockets[t]
  BY <1>1, <1>2 DEF HasRead, Connected
<1> QED
  BY <1>3, <1>4, <1>5, SocketStep DEF Connect, store

\* The connection has what is stored when it reads.
LEMMA ReadConversationStep ==
  ASSUME IInv, NEW s \in Sockets, ReadConversation(s)
  PROVE  IInv'
<1> DEFINE c == Loaded(sockets[s])
           next == IF Matches(sockets[s].user) THEN c ELSE Closed
<1>1. sockets[s] \in Connections /\ sockets[s].phase = "read"
  BY SocketType DEF IInv, ReadConversation, Closed
<1>2. Len(messages) \in Nat /\ FirstLatest \in Nat /\ FirstLatest - 1 \in Nat
  BY ChatAssumption DEF IInv, TypeOK, FirstLatest
<1>3. LatestMessages \in SUBSET Nat
  BY <1>2 DEF LatestMessages
<1>4. /\ c \in Connections
      /\ c.phase = "answer"
      /\ c.since = FirstLatest - 1
      /\ LatestMessages \subseteq c.shown
  BY <1>1, <1>2, <1>3 DEF Connections, Loaded
<1>5. sockets' = [sockets EXCEPT ![s] = next]
  BY DEF ReadConversation
<1>6. \A t \in Sockets : sockets'[t] = IF t = s THEN next ELSE sockets[t]
  BY <1>5 DEF IInv, TypeOK
<1>7. next \in Connections \cup {Closed} /\ (next # Closed => next = c)
  BY <1>4
<1>8. next.phase # "in"
  BY <1>4 DEF Closed
<1> HIDE DEF c, next
<1>9. TypeOK'
  BY <1>5, <1>7 DEF ReadConversation, IInv, TypeOK, store
<1>10. PresenceJustified'
  BY <1>1, <1>6, <1>8, SamePresence DEF ReadConversation, InChat, Connected
<1>11. \A i \in Stored : i <= FirstLatest - 1 \/ i \in LatestMessages
  BY <1>2 DEF Stored, LatestMessages
<1>12. \A t \in Sockets : HasRead(t)' =>
         \/ HasRead(t) /\ sockets'[t] = sockets[t]
         \/ \A i \in Stored : i <= sockets'[t].since \/ i \in sockets'[t].shown
  BY <1>4, <1>6, <1>7, <1>11 DEF HasRead, Connected
<1> QED
  BY <1>9, <1>10, <1>12, SocketStep DEF ReadConversation, store

LEMMA ActiveUsersType == ASSUME TypeOK PROVE ActiveUsers \in SUBSET Users
<1>1. \A t \in Sockets : InChat(t) => sockets[t].user \in Users
  BY SocketType DEF InChat, Connected, Connections
<1> QED
  BY <1>1 DEF ActiveUsers

\* JOIN_CHAT and LEAVE_CHAT keep the types.
LEMMA TellType ==
  ASSUME TypeOK, NEW s \in Sockets, NEW u \in Users
  PROVE  /\ TellJoin(s, u) \in [Sockets -> Connections \cup {Closed}]
         /\ TellLeave(s, u) \in [Sockets -> Connections \cup {Closed}]
<1>1. ASSUME NEW t \in Sockets, InChat(t)
      PROVE  /\ [sockets[t] EXCEPT !.online = @ \cup {u}] \in Connections
             /\ [sockets[t] EXCEPT !.online = @ \ {u}] \in Connections
  <2>1. sockets[t] \in Connections
    BY <1>1, SocketType DEF InChat, Connected
  <2> QED
    BY <2>1 DEF Connections
<1> QED
  BY <1>1 DEF TellJoin, TellLeave, TypeOK

\* Everybody else keeps all but, in the chat, the online users.
Like(c, d) ==
  /\ d = Closed <=> c = Closed
  /\ c # Closed => /\ d.phase = c.phase
                   /\ d.alive = c.alive
                   /\ d.user = c.user
                   /\ d.since = c.since
                   /\ d.shown = c.shown

LEMMA TellRest ==
  ASSUME TypeOK, NEW s \in Sockets, NEW u \in Users, NEW t \in Sockets, t # s
  PROVE  /\ Like(sockets[t], TellJoin(s, u)[t])
         /\ Like(sockets[t], TellLeave(s, u)[t])
         /\ InChat(t) => /\ TellJoin(s, u)[t].online = sockets[t].online \cup {u}
                         /\ TellLeave(s, u)[t].online = sockets[t].online \ {u}
<1>1. CASE InChat(t)
  <2>1. sockets[t] \in Connections /\ t \in Reached(s)
    BY <1>1, SocketType DEF InChat, Connected, Reached
  <2>2. /\ TellJoin(s, u)[t] = [sockets[t] EXCEPT !.online = @ \cup {u}]
        /\ TellLeave(s, u)[t] = [sockets[t] EXCEPT !.online = @ \ {u}]
    BY <1>1, <2>1 DEF TellJoin, TellLeave
  <2>3. /\ [sockets[t] EXCEPT !.online = @ \cup {u}] \in Connections
        /\ [sockets[t] EXCEPT !.online = @ \ {u}] \in Connections
    BY <2>1 DEF Connections
  <2> QED
    BY <2>1, <2>2, <2>3, Apart DEF Like, Connections
<1>2. CASE ~InChat(t)
  BY <1>2 DEF TellJoin, TellLeave, Like
<1> QED
  BY <1>1, <1>2

\* The client that joins knows who is active, and they learn of it.
LEMMA JoinStep ==
  ASSUME IInv, NEW s \in Sockets, Join(s)
  PROVE  IInv'
<1> DEFINE u == sockets[s].user
           c == [sockets[s] EXCEPT !.phase = "in", !.online = ActiveUsers \cup {u}]
<1>1. sockets[s] \in Connections /\ sockets[s].phase = "answer" /\ u \in Users
  BY SocketType DEF IInv, Join, Closed, Connections
<1>2. ~InChat(s)
  BY <1>1 DEF InChat
<1>3. /\ TellJoin(s, u) \in [Sockets -> Connections \cup {Closed}]
      /\ TellJoin(s, u)[s] = sockets[s]
  BY <1>1, TellType DEF IInv, TellJoin, Reached
<1>4. c \in Connections
  BY <1>1, ActiveUsersType DEF IInv, Connections
<1>5. \A t \in Sockets \ {s} :
        /\ Like(sockets[t], TellJoin(s, u)[t])
        /\ InChat(t) => TellJoin(s, u)[t].online = sockets[t].online \cup {u}
  BY <1>1, TellRest DEF IInv
<1>6. CASE sockets[s].alive
  <2>1. sockets' = [TellJoin(s, u) EXCEPT ![s] = c] /\ UNCHANGED ghosts
    BY <1>3, <1>6 DEF Join
  <2>2. \A t \in Sockets : sockets'[t] = IF t = s THEN c ELSE TellJoin(s, u)[t]
    BY <1>3, <2>1
  <2>3. /\ c.phase = "in" /\ c.alive /\ c.user = u
        /\ c.since = sockets[s].since /\ c.shown = sockets[s].shown
        /\ c.online = ActiveUsers \cup {u}
    BY <1>1, <1>6 DEF Connections
  <2> HIDE DEF c, u
  <2>4. TypeOK'
    BY <1>3, <1>4, <2>1 DEF Join, IInv, TypeOK, store
  <2>5. \A t \in Sockets \ {s} : /\ InChat(t)' <=> InChat(t)
                                 /\ HasRead(t)' <=> HasRead(t)
    BY <1>5, <2>2 DEF InChat, HasRead, Connected, Like
  <2>6. InChat(s)' /\ sockets'[s].user = u
    BY <1>4, <2>2, <2>3, Apart DEF InChat, Connected
  <2>7. ActiveUsers \cup {u} \subseteq ActiveUsers'
    <3>1. \A t \in Sockets : InChat(t) => InChat(t)' /\ sockets'[t].user = sockets[t].user
      BY <1>2, <1>5, <2>2, <2>5 DEF Like, InChat, Connected
    <3> QED
      BY <2>6, <3>1 DEF ActiveUsers
  <2>8. PresenceJustified'
    <3> SUFFICES ASSUME NEW t \in Sockets, InChat(t)'
                 PROVE  sockets'[t].online \subseteq ActiveUsers' \cup ghosts'
      BY DEF PresenceJustified
    <3>1. CASE t = s
      BY <2>2, <2>3, <2>7, <3>1
    <3>2. CASE t # s
      <4>1. InChat(t) /\ sockets'[t].online = sockets[t].online \cup {u}
        BY <1>5, <2>2, <2>5, <3>2
      <4>2. sockets[t].online \subseteq ActiveUsers \cup ghosts
        BY <4>1 DEF IInv, PresenceJustified
      <4> QED
        BY <2>1, <2>7, <4>1, <4>2
    <3> QED
      BY <3>1, <3>2
  <2>9. HasRead(s)
    BY <1>1, <1>6, Apart DEF HasRead, Connected
  <2>10. \A t \in Sockets : HasRead(t)' => /\ HasRead(t)
                                           /\ sockets'[t].since = sockets[t].since
                                           /\ sockets'[t].shown = sockets[t].shown
    BY <1>5, <2>2, <2>3, <2>5, <2>9 DEF Like, HasRead, Connected
  <2> QED
    BY <2>4, <2>8, <2>10, SocketStep DEF Join, store
<1>7. CASE ~sockets[s].alive
  <2>1. sockets' = [TellJoin(s, u) EXCEPT ![s] = Closed] /\ ghosts' = ghosts \cup {u}
    BY <1>7 DEF Join
  <2>2. \A t \in Sockets : sockets'[t] = IF t = s THEN Closed ELSE TellJoin(s, u)[t]
    BY <1>3, <2>1
  <2> HIDE DEF c, u
  <2>3. TypeOK'
    BY <1>1, <1>3, <2>1 DEF Join, IInv, TypeOK, store
  <2>4. \A t \in Sockets \ {s} : /\ InChat(t)' <=> InChat(t)
                                 /\ HasRead(t)' <=> HasRead(t)
    BY <1>5, <2>2 DEF InChat, HasRead, Connected, Like
  <2>5. ~InChat(s)' /\ ~HasRead(s)'
    BY <2>2 DEF InChat, HasRead, Connected
  <2>6. ActiveUsers \subseteq ActiveUsers'
    <3>1. \A t \in Sockets : InChat(t) => InChat(t)' /\ sockets'[t].user = sockets[t].user
      BY <1>2, <1>5, <2>2, <2>4 DEF Like, InChat, Connected
    <3> QED
      BY <3>1 DEF ActiveUsers
  <2>7. PresenceJustified'
    <3> SUFFICES ASSUME NEW t \in Sockets, InChat(t)'
                 PROVE  sockets'[t].online \subseteq ActiveUsers' \cup ghosts'
      BY DEF PresenceJustified
    <3>1. t # s /\ InChat(t) /\ sockets'[t].online = sockets[t].online \cup {u}
      BY <1>5, <2>2, <2>4, <2>5
    <3>2. sockets[t].online \subseteq ActiveUsers \cup ghosts
      BY <3>1 DEF IInv, PresenceJustified
    <3> QED
      BY <2>1, <2>6, <3>1, <3>2
  <2>8. \A t \in Sockets : HasRead(t)' => /\ HasRead(t)
                                          /\ sockets'[t].since = sockets[t].since
                                          /\ sockets'[t].shown = sockets[t].shown
    BY <1>5, <2>2, <2>4, <2>5 DEF Like, HasRead, Connected
  <2> QED
    BY <2>3, <2>7, <2>8, SocketStep DEF Join, store
<1> QED
  BY <1>6, <1>7

\* A user leaves the online users of the others with a socket of the chat.
LEMMA DisconnectStep ==
  ASSUME IInv, NEW s \in Sockets, Disconnect(s)
  PROVE  IInv'
<1> DEFINE u == sockets[s].user
<1>1. sockets[s] \in Connections /\ u \in Users /\ UNCHANGED ghosts
  BY SocketType DEF IInv, Disconnect, Connected, Connections
<1>2. CASE InChat(s)
  <2>1. sockets' = [TellLeave(s, u) EXCEPT ![s] = Closed]
    BY <1>2 DEF Disconnect
  <2>2. TellLeave(s, u) \in [Sockets -> Connections \cup {Closed}]
    BY <1>1, TellType DEF IInv
  <2>3. \A t \in Sockets : sockets'[t] = IF t = s THEN Closed ELSE TellLeave(s, u)[t]
    BY <2>1, <2>2
  <2>4. \A t \in Sockets \ {s} :
          /\ Like(sockets[t], sockets'[t])
          /\ InChat(t) => sockets'[t].online = sockets[t].online \ {u}
    BY <1>1, <2>3, TellRest DEF IInv
  <2>5. TypeOK'
    BY <2>1, <2>2 DEF Disconnect, IInv, TypeOK, store
  <2>6. \A t \in Sockets \ {s} : /\ InChat(t)' <=> InChat(t)
                                 /\ HasRead(t)' <=> HasRead(t)
    BY <2>4 DEF InChat, HasRead, Connected, Like
  <2>7. ~InChat(s)' /\ ~HasRead(s)'
    BY <2>3 DEF InChat, HasRead, Connected
  <2>8. ActiveUsers \ {u} \subseteq ActiveUsers'
    <3>1. \A t \in Sockets \ {s} :
            InChat(t) => InChat(t)' /\ sockets'[t].user = sockets[t].user
      BY <2>4, <2>6 DEF Like, InChat, Connected
    <3> QED
      BY <3>1 DEF ActiveUsers
  <2>9. PresenceJustified'
    <3> SUFFICES ASSUME NEW t \in Sockets, InChat(t)'
                 PROVE  sockets'[t].online \subseteq ActiveUsers' \cup ghosts'
      BY DEF PresenceJustified
    <3>1. t # s /\ InChat(t) /\ sockets'[t].online = sockets[t].online \ {u}
      BY <2>4, <2>6, <2>7
    <3>2. sockets[t].online \subseteq ActiveUsers \cup ghosts
      BY <3>1 DEF IInv, PresenceJustified
    <3> QED
      BY <1>1, <2>8, <3>1, <3>2
  <2>10. \A t \in Sockets : HasRead(t)' => /\ HasRead(t)
                                           /\ sockets'[t].since = sockets[t].since
                                           /\ sockets'[t].shown = sockets[t].shown
    BY <2>4, <2>6, <2>7 DEF Like, HasRead, Connected
  <2> QED
    BY <2>5, <2>9, <2>10, SocketStep DEF Disconnect, store
<1>3. CASE ~InChat(s)
  <2> DEFINE c == [sockets[s] EXCEPT !.alive = FALSE]
  <2>1. sockets' = [sockets EXCEPT ![s] = c]
    BY <1>3 DEF Disconnect
  <2>2. c \in Connections /\ ~c.alive
    BY <1>1 DEF Connections
  <2>3. \A t \in Sockets : sockets'[t] = IF t = s THEN c ELSE sockets[t]
    BY <2>1 DEF IInv, TypeOK
  <2> HIDE DEF c
  <2>4. TypeOK'
    BY <2>1, <2>2 DEF Disconnect, IInv, TypeOK, store
  <2>5. PresenceJustified'
    BY <1>1, <1>3, <2>2, <2>3, SamePresence DEF InChat, Connected
  <2>6. \A t \in Sockets : HasRead(t)' => HasRead(t) /\ sockets'[t] = sockets[t]
    BY <2>2, <2>3 DEF HasRead, Connected
  <2> QED
    BY <2>4, <2>5, <2>6, SocketStep DEF Disconnect, store
<1> QED
  BY <1>2, <1>3

\* A client holds no more messages than there are after the first since.
LEMMA HeldBound ==
  ASSUME IInv, InStore, NEW s \in Sockets, sockets[s] # Closed
  PROVE  /\ Cardinality(Held(sockets[s])) \in Nat
         /\ Cardinality(Held(sockets[s])) <= Len(messages) - sockets[s].since
<1> DEFINE low == sockets[s].since
           top == Len(messages)
           later == low + 1 .. top
<1>1. low \in Nat /\ top \in Nat /\ low <= top
  BY SocketType DEF IInv, TypeOK, InStore, Connections
<1>2. Held(sockets[s]) \subseteq later
  BY <1>1 DEF InStore, Held, Stored
<1> HIDE DEF low, top
<1>3. IsFiniteSet(later) /\ Cardinality(later) = top - low
  <2>1. low + 1 \in Int /\ top \in Int
    BY <1>1
  <2>2. /\ IsFiniteSet(later)
        /\ Cardinality(later) = IF low + 1 > top THEN 0 ELSE top - (low + 1) + 1
    BY <2>1, FS_Interval
  <2> HIDE DEF later
  <2> QED
    BY <1>1, <2>2
<1>4. Cardinality(Held(sockets[s])) <= Cardinality(later)
  BY <1>2, <1>3, FS_Subset
<1>5. Cardinality(Held(sockets[s])) \in Nat
  BY <1>2, <1>3, FS_Subset, FS_CardinalityType
<1> QED
  BY <1>3, <1>4, <1>5 DEF low, top

\* A page that begins before what a client holds leaves no gap.
LEMMA PageReaches ==
  ASSUME NEW len \in Nat, NEW low \in Nat, NEW n \in Nat, NEW count \in Nat \ {0},
         n <= len - low, Len(messages) = len
  PROVE  LET start == HistoryStart(count, n)
         IN /\ start \in Nat \ {0}
            /\ \A i \in Stored : i < start \/ i \in History(count, n) \/ i > low
  BY DEF HistoryStart, History, Stored

LEMMA LoadHistoryStep ==
  ASSUME IInv, InStore, NEW s \in Sockets, NEW count \in 1 .. MaxMessages,
         LoadHistory(s, count)
  PROVE  IInv'
<1> DEFINE n == Cardinality(Held(sockets[s]))
           start == HistoryStart(count, n)
           low == IF start <= sockets[s].since THEN start - 1 ELSE sockets[s].since
           c == [sockets[s] EXCEPT !.shown = @ \cup History(count, n), !.since = low]
<1>1. sockets[s] \in Connections /\ sockets[s] # Closed /\ HasRead(s)
  BY SocketType DEF IInv, LoadHistory, InChat, Connected, HasRead
<1>2. /\ sockets[s].since \in Nat
      /\ Len(messages) \in Nat
      /\ count \in Nat \ {0}
      /\ n \in Nat
      /\ n <= Len(messages) - sockets[s].since
  BY <1>1, HeldBound, ChatAssumption DEF Connections, IInv, TypeOK
<1>3. /\ start \in Nat \ {0}
      /\ \A i \in Stored : i < start \/ i \in History(count, n) \/ i > sockets[s].since
  BY <1>2, PageReaches
<1>4. History(count, n) \subseteq Stored /\ Stored \subseteq Nat
  BY <1>2 DEF History, Stored
<1>5. sockets' = [sockets EXCEPT ![s] = c]
  BY <1>1 DEF LoadHistory, IInv, TypeOK, Connections
<1>6. low \in Nat /\ (low = sockets[s].since \/ low = start - 1)
  BY <1>2, <1>3
<1> HIDE DEF n, start, low
<1>7. /\ c \in Connections
      /\ c.since = low
      /\ c.shown = sockets[s].shown \cup History(count, n)
      /\ c.phase = sockets[s].phase /\ c.alive = sockets[s].alive
      /\ c.user = sockets[s].user /\ c.online = sockets[s].online
  BY <1>1, <1>4, <1>6 DEF Connections
<1> HIDE DEF c
<1>8. \A t \in Sockets : sockets'[t] = IF t = s THEN c ELSE sockets[t]
  BY <1>5 DEF IInv, TypeOK
<1>9. TypeOK'
  BY <1>5, <1>7 DEF LoadHistory, IInv, TypeOK, store
<1>10. \A t \in Sockets : /\ InChat(t)' <=> InChat(t)
                          /\ HasRead(t)' <=> HasRead(t)
  BY <1>1, <1>7, <1>8, Apart DEF InChat, HasRead, Connected
<1>11. PresenceJustified'
  BY <1>7, <1>8, <1>10, SamePresence DEF LoadHistory
<1>12. Stored' = Stored /\ \A i : OnItsWay(i)' = OnItsWay(i)
  BY DEF LoadHistory, store, Stored, OnItsWay, At
<1>13. Covered'
  <2> SUFFICES ASSUME NEW t \in Sockets, HasRead(t), NEW i \in Stored
               PROVE  i <= sockets'[t].since \/ i \in sockets'[t].shown \/ OnItsWay(i)
    BY <1>10, <1>12 DEF Covered
  <2>1. i <= sockets[t].since \/ i \in sockets[t].shown \/ OnItsWay(i)
    BY DEF IInv, Covered
  <2>2. CASE t # s
    BY <1>8, <2>1, <2>2
  <2>3. CASE t = s /\ low = sockets[s].since
    BY <1>7, <1>8, <2>1, <2>3
  <2>4. CASE t = s /\ low = start - 1
    <3>1. sockets'[t].since = low /\ sockets[s].shown \subseteq sockets'[t].shown
          /\ History(count, n) \subseteq sockets'[t].shown
      BY <1>7, <1>8, <2>4
    <3>2. CASE i < start
      BY <1>3, <1>4, <2>4, <3>1, <3>2
    <3>3. CASE i \in History(count, n)
      BY <3>1, <3>3
    <3>4. CASE i > sockets[s].since
      BY <1>2, <1>4, <2>1, <2>4, <3>1, <3>4
    <3> QED
      BY <1>3, <3>2, <3>3, <3>4
  <2> QED
    BY <1>6, <2>2, <2>3, <2>4
<1> QED
  BY <1>9, <1>11, <1>13 DEF IInv

-----------------------------------------------------------------------------
(* Message handlers.                                                       *)

LEMMA StartStep ==
  ASSUME IInv, NEW h \in Handlers, NEW s \in Sockets,
         NEW op \in {"send", "update", "delete", "seen"}, NEW id \in Nat,
         Start(h, s, op, id)
  PROVE  IInv'
<1> DEFINE c == [op |-> op, phase |-> "validate", socket |-> s,
                 user |-> sockets[s].user, id |-> id]
<1>1. sockets[s].user \in Users
  BY SocketType DEF IInv, Start, InChat, Connected, Connections
<1>2. c \in Calls
  BY <1>1 DEF Calls
<1>3. calls' = [calls EXCEPT ![h] = c] /\ ~At(h, "send", "announce")
  BY DEF Start, At
<1> HIDE DEF c
<1> QED
  BY <1>2, <1>3, QuietStep DEF Start, store, IInv, TypeOK

\* Go and End leave the sockets and messages to the rest of the step.
LEMMA GoType ==
  ASSUME IInv, NEW h \in Handlers, calls[h] # Idle,
         NEW phase \in {"validate", "write", "fetch", "announce"}
  PROVE  [calls[h] EXCEPT !.phase = phase] \in Calls
  BY CallType DEF IInv, Calls

LEMMA ValidateStep ==
  ASSUME IInv, NEW h \in Handlers, Validate(h)
  PROVE  IInv'
<1>1. calls[h] # Idle /\ ~At(h, "send", "announce")
  BY DEF Validate, Idle, At
<1>2. CASE exists
  BY <1>1, <1>2, GoType, QuietStep DEF Validate, Go, store, IInv, TypeOK
<1>3. CASE ~exists
  BY <1>1, <1>3, QuietStep DEF Validate, End, store, IInv, TypeOK
<1> QED
  BY <1>2, <1>3

LEMMA FetchUpdatedStep ==
  ASSUME IInv, NEW h \in Handlers, FetchUpdated(h)
  PROVE  IInv'
<1>1. calls[h] # Idle /\ ~At(h, "send", "announce")
  BY DEF FetchUpdated, At
<1>2. CASE Go(h, "announce")
  BY <1>1, <1>2, GoType, QuietStep DEF FetchUpdated, Go, store, IInv, TypeOK
<1>3. CASE End(h)
  BY <1>1, <1>3, QuietStep DEF FetchUpdated, End, store, IInv, TypeOK
<1> QED
  BY <1>2, <1>3 DEF FetchUpdated

LEMMA MarkSeenStep ==
  ASSUME IInv, NEW h \in Handlers, MarkSeen(h)
  PROVE  IInv'
<1>1. calls[h] # Idle /\ ~At(h, "send", "announce") /\ calls[h] \in Calls
  BY CallType DEF MarkSeen, At, IInv
<1>2. seenLog' \in [Users -> Nat]
  BY <1>1 DEF MarkSeen, IInv, TypeOK, Calls
<1>3. CASE Go(h, "announce")
  BY <1>1, <1>2, <1>3, GoType, QuietStep DEF MarkSeen, Go
<1>4. CASE End(h)
  BY <1>1, <1>2, <1>4, QuietStep DEF MarkSeen, End
<1> QED
  BY <1>3, <1>4 DEF MarkSeen

\* What is announced is no message that somebody still waits for.
LEMMA AnnounceChangeStep ==
  ASSUME IInv, NEW h \in Handlers, AnnounceChange(h)
  PROVE  IInv'
<1>1. calls[h] # Idle /\ ~At(h, "send", "announce")
  BY DEF AnnounceChange, Idle, At
<1> QED
  BY <1>1, QuietStep DEF AnnounceChange, End, store, IInv, TypeOK

\* Two writes that change one text and no message's place.
LEMMA TextStep ==
  ASSUME IInv, NEW h \in Handlers, NEW text \in {"edited", "deleted"},
         EditMessage(h) \/ DeleteMessage(h),
         \/ UNCHANGED messages
         \/ messages' = [messages EXCEPT ![calls[h].id].text = text],
         Go(h, "fetch") \/ Go(h, "announce") \/ End(h)
  PROVE  IInv'
<1>1. calls[h] # Idle /\ ~At(h, "send", "announce")
  BY DEF EditMessage, DeleteMessage, At
<1>2. PICK c \in Calls \cup {Idle} : calls' = [calls EXCEPT ![h] = c]
  <2>1. CASE Go(h, "fetch")
    BY <1>1, <2>1, GoType DEF Go
  <2>2. CASE Go(h, "announce")
    BY <1>1, <2>2, GoType DEF Go
  <2>3. CASE End(h)
    BY <2>3 DEF End
  <2> QED
    BY <2>1, <2>2, <2>3
<1>3. messages' \in Seq(Messages) /\ Len(messages') = Len(messages)
  <2> DEFINE id == calls[h].id
  <2>1. messages \in Seq(Messages)
    BY DEF IInv, TypeOK
  <2>2. \A i \in 1 .. Len(messages) :
          [messages[i] EXCEPT !.text = text] \in Messages
    <3> SUFFICES ASSUME NEW i \in 1 .. Len(messages)
                 PROVE  [messages[i] EXCEPT !.text = text] \in Messages
      OBVIOUS
    <3>1. messages[i] \in Messages
      BY <2>1
    <3> QED
      BY <3>1 DEF Messages
  <2>3. CASE messages' = [messages EXCEPT ![id].text = text]
    <3>1. CASE id \in 1 .. Len(messages)
      <4> DEFINE new == [messages[id] EXCEPT !.text = text]
      <4>1. messages' = [messages EXCEPT ![id] = new] /\ new \in Messages
        BY <2>2, <2>3, <3>1
      <4> HIDE DEF new, id
      <4> QED
        BY <2>1, <3>1, <4>1
    <3>2. CASE id \notin 1 .. Len(messages)
      <4>1. messages' = messages
        BY <2>1, <2>3, <3>2
      <4> QED
        BY <2>1, <4>1
    <3> QED
      BY <3>1, <3>2
  <2>4. CASE UNCHANGED messages
    BY <2>1, <2>4
  <2> QED
    BY <2>3, <2>4
<1>4. TypeOK'
  BY <1>2, <1>3 DEF EditMessage, DeleteMessage, IInv, TypeOK
<1>5. UNCHANGED <<sockets, ghosts>>
  BY DEF EditMessage, DeleteMessage
<1> QED
  BY <1>1, <1>2, <1>3, <1>4, <1>5, StillOnItsWay, HandlerStep

LEMMA EditMessageStep ==
  ASSUME IInv, NEW h \in Handlers, EditMessage(h)
  PROVE  IInv'
<1>1. Go(h, "fetch") \/ End(h)
  BY DEF EditMessage
<1>2. UNCHANGED messages \/ messages' = [messages EXCEPT ![calls[h].id].text = "edited"]
  BY DEF EditMessage
<1> QED
  BY <1>1, <1>2, TextStep

LEMMA DeleteMessageStep ==
  ASSUME IInv, NEW h \in Handlers, DeleteMessage(h)
  PROVE  IInv'
<1>1. Go(h, "announce") \/ End(h)
  BY DEF DeleteMessage
<1>2. UNCHANGED messages \/ messages' = [messages EXCEPT ![calls[h].id].text = "deleted"]
  BY DEF DeleteMessage
<1> QED
  BY <1>1, <1>2, TextStep

\* The new message is on its way; no other has changed place.
LEMMA WriteMessageStep ==
  ASSUME IInv, NEW h \in Handlers, WriteMessage(h)
  PROVE  IInv'
<1>1. calls[h] \in Calls /\ calls[h] # Idle /\ ~At(h, "send", "announce")
  BY CallType DEF WriteMessage, At, IInv
<1>2. CASE ~Matches(calls[h].user)
  BY <1>1, <1>2, QuietStep DEF WriteMessage, End, IInv, TypeOK
<1>3. CASE Matches(calls[h].user)
  <2> DEFINE new == [from |-> calls[h].user, text |-> "sent"]
             c == [calls[h] EXCEPT !.phase = "announce", !.id = Len(messages) + 1]
  <2>1. new \in Messages /\ messages \in Seq(Messages) /\ Len(messages) \in Nat
    BY <1>1 DEF Messages, Calls, IInv, TypeOK
  <2>2. c \in Calls /\ c.phase = "announce" /\ c.op = "send" /\ c.id = Len(messages) + 1
    <3> DEFINE n == Len(messages) + 1
    <3>1. n \in Nat /\ calls[h].op = "send"
      BY <2>1 DEF WriteMessage, At
    <3> HIDE DEF n
    <3>2. [calls[h] EXCEPT !.phase = "announce", !.id = n] \in Calls
      BY <1>1, <3>1 DEF Calls
    <3> QED
      BY <1>1, <3>1, <3>2 DEF Calls, n
  <2>3. calls' = [calls EXCEPT ![h] = c]
    BY <1>1, <1>3 DEF WriteMessage, IInv, TypeOK
  <2>4. messages' \in Seq(Messages) /\ Len(messages') = Len(messages) + 1
    BY <1>3, <2>1 DEF WriteMessage
  <2>5. calls'[h] = c
    BY <2>3 DEF IInv, TypeOK
  <2> HIDE DEF c
  <2>6. TypeOK'
    BY <2>2, <2>3, <2>4 DEF WriteMessage, IInv, TypeOK
  <2>7. \A i \in Nat : OnItsWay(i) => OnItsWay(i)'
    BY <1>1, <2>2, <2>3, StillOnItsWay
  <2>8. \A n \in Nat : n = Len(messages) + 1 => OnItsWay(n)'
    BY <2>2, <2>5, Apart DEF OnItsWay, At
  <2>9. UNCHANGED <<sockets, ghosts>>
    BY DEF WriteMessage
  <2>10. Covered'
    <3> SUFFICES ASSUME NEW s \in Sockets, HasRead(s), NEW i \in Stored'
                 PROVE  i <= sockets[s].since \/ i \in sockets[s].shown \/ OnItsWay(i)'
      BY <2>9 DEF Covered, HasRead, Connected
    <3>1. i \in Stored \/ i = Len(messages) + 1
      BY <2>1, <2>4 DEF Stored
    <3>2. i \in Nat
      BY <2>1, <2>4 DEF Stored
    <3> QED
      BY <2>7, <2>8, <3>1, <3>2 DEF IInv, Covered
  <2>11. PresenceJustified'
    BY <2>9 DEF IInv, PresenceJustified, InChat, Connected, ActiveUsers
  <2> QED
    BY <2>6, <2>10, <2>11 DEF IInv
<1> QED
  BY <1>2, <1>3

\* RECEIVE and the acknowledgement reach every connection: nobody waits for
\* the message any more.
LEMMA AnnounceMessageStep ==
  ASSUME IInv, NEW h \in Handlers, AnnounceMessage(h)
  PROVE  IInv'
<1> DEFINE id == calls[h].id
           With(t) == [sockets[t] EXCEPT !.shown = @ \cup {id}]
<1>1. calls[h] \in Calls /\ id \in Nat
  BY CallType DEF AnnounceMessage, At, IInv, Calls
<1>2. \A t \in Sockets : sockets'[t] = IF Connected(t) THEN With(t) ELSE sockets[t]
  BY DEF AnnounceMessage, Reached
<1>3. ASSUME NEW t \in Sockets, Connected(t)
      PROVE  /\ With(t) \in Connections
             /\ With(t).shown = sockets[t].shown \cup {id}
             /\ With(t).phase = sockets[t].phase
             /\ With(t).alive = sockets[t].alive
             /\ With(t).user = sockets[t].user
             /\ With(t).since = sockets[t].since
             /\ With(t).online = sockets[t].online
  <2>1. sockets[t] \in Connections
    BY <1>3, SocketType DEF IInv, Connected
  <2> HIDE DEF id
  <2> QED
    BY <1>1, <2>1 DEF Connections
<1>4. sockets' \in [Sockets -> Connections \cup {Closed}]
  <2>1. sockets' = [t \in Sockets |-> sockets'[t]]
    BY DEF AnnounceMessage
  <2>2. \A t \in Sockets : sockets'[t] \in Connections \cup {Closed}
    BY <1>2, <1>3 DEF IInv, TypeOK
  <2> QED
    BY <2>1, <2>2
<1> HIDE DEF With
<1>5. calls' = [calls EXCEPT ![h] = Idle] /\ UNCHANGED <<store, ghosts>>
  BY DEF AnnounceMessage, End
<1>6. TypeOK'
  BY <1>4, <1>5 DEF IInv, TypeOK, store
<1>7. \A t \in Sockets : Connected(t)' <=> Connected(t)
  BY <1>2, <1>3, Apart DEF Connected
<1>8. \A t \in Sockets : (InChat(t)' <=> InChat(t)) /\ (HasRead(t)' <=> HasRead(t))
  BY <1>2, <1>3, <1>7 DEF InChat, HasRead
<1>9. PresenceJustified'
  BY <1>2, <1>3, <1>5, <1>8, SamePresence DEF InChat
<1>10. \A i \in Nat : OnItsWay(i) => i = id \/ OnItsWay(i)'
  BY <1>5 DEF OnItsWay, At, IInv, TypeOK
<1>11. Covered'
  <2> SUFFICES ASSUME NEW s \in Sockets, HasRead(s)', NEW i \in Stored'
               PROVE  i <= sockets'[s].since \/ i \in sockets'[s].shown \/ OnItsWay(i)'
    BY DEF Covered
  <2>1. HasRead(s) /\ i \in Stored /\ i \in Nat
    BY <1>5, <1>8 DEF Stored, store, IInv, TypeOK
  <2>2. i <= sockets[s].since \/ i \in sockets[s].shown \/ OnItsWay(i)
    BY <2>1 DEF IInv, Covered
  <2>3. /\ sockets'[s].shown = sockets[s].shown \cup {id}
        /\ sockets'[s].since = sockets[s].since
    BY <1>2, <1>3, <2>1 DEF HasRead
  <2> QED
    BY <1>10, <2>1, <2>2, <2>3
<1> QED
  BY <1>6, <1>9, <1>11 DEF IInv

-----------------------------------------------------------------------------
\* Members and removal touch nothing a client has been told.
LEMMA RestStep ==
  ASSUME IInv, \/ \E u \in Users : AddParticipant(u)
               \/ RemoveConversation
               \/ UNCHANGED vars
  PROVE  IInv'
<1>1. /\ UNCHANGED <<messages, seenLog, sockets, calls, ghosts>>
      /\ exists' \in BOOLEAN
      /\ members' \subseteq Users
  BY DEF AddParticipant, RemoveConversation, vars, store, IInv, TypeOK
<1>2. TypeOK'
  BY <1>1 DEF IInv, TypeOK
<1>3. \A i \in Nat : OnItsWay(i) => OnItsWay(i)'
  BY <1>1 DEF OnItsWay, At
<1> QED
  BY <1>1, <1>2, <1>3, HandlerStep

LEMMA NextIInv == IInv /\ InStore /\ [Next]_vars => IInv'
<1> SUFFICES ASSUME IInv, InStore, [Next]_vars PROVE IInv'
  OBVIOUS
<1>1. ASSUME NEW h \in Handlers, Continue(h) PROVE IInv'
  BY <1>1, ValidateStep, WriteMessageStep, EditMessageStep, DeleteMessageStep,
     MarkSeenStep, FetchUpdatedStep, AnnounceMessageStep, AnnounceChangeStep
     DEF Continue
<1>2. ASSUME NEW s \in Sockets, ReadConversation(s) \/ Join(s) \/ Disconnect(s)
      PROVE  IInv'
  BY <1>2, ReadConversationStep, JoinStep, DisconnectStep
<1>3. ASSUME NEW h \in Handlers, NEW s \in Sockets,
             NEW op \in {"send", "update", "delete", "seen"},
             NEW id \in 0 .. MaxMessages, Start(h, s, op, id)
      PROVE  IInv'
  <2>1. id \in Nat
    BY ChatAssumption
  <2> QED
    BY <1>3, <2>1, StartStep
<1>4. ASSUME NEW s \in Sockets, NEW count \in 1 .. MaxMessages, LoadHistory(s, count)
      PROVE  IInv'
  BY <1>4, LoadHistoryStep
<1> QED
  BY <1>1, <1>2, <1>3, <1>4, ConnectStep, RestStep DEF Next

-----------------------------------------------------------------------------
(* Nothing is sent that is not stored, so that counting what a client holds *)
(* counts messages.                                                         *)

Within(c) == c # Closed => c.shown \subseteq Stored /\ c.since <= Len(messages)

LEMMA InitInStore == Init => InStore
  BY DEF Init, InStore, OnItsWay, At, Closed, Idle

\* A step of a handler; whatever is now on its way was so or is stored.
LEMMA HandlerStored ==
  ASSUME IInv, TypeOK', InStore, UNCHANGED sockets, Len(messages) <= Len(messages'),
         \A g \in Handlers : At(g, "send", "announce")' =>
           \/ At(g, "send", "announce") /\ calls'[g] = calls[g]
           \/ calls'[g].id \in Stored'
  PROVE  InStore'
<1>1. Len(messages) \in Nat /\ Len(messages') \in Nat
  BY DEF IInv, TypeOK
<1>2. Stored \subseteq Stored'
  BY <1>1 DEF Stored
<1>3. \A i \in Nat : OnItsWay(i)' => i \in Stored'
  BY <1>2 DEF OnItsWay, InStore
<1>4. ASSUME NEW s \in Sockets, sockets[s] # Closed
      PROVE  sockets[s].shown \subseteq Stored' /\ sockets[s].since <= Len(messages')
  <2>1. sockets[s].since \in Nat
    BY <1>4, SocketType DEF IInv, Connections
  <2> QED
    BY <1>1, <1>2, <1>4, <2>1 DEF InStore
<1> QED
  BY <1>3, <1>4 DEF InStore

\* One handler moves on, not with a message to send.
LEMMA MoveStored ==
  ASSUME IInv, TypeOK', InStore, UNCHANGED sockets, Len(messages) = Len(messages'),
         NEW h \in Handlers,
         \A g \in Handlers \ {h} : calls'[g] = calls[g],
         ~At(h, "send", "announce")'
  PROVE  InStore'
<1>1. Len(messages) <= Len(messages')
  BY DEF IInv, TypeOK
<1>2. \A g \in Handlers : At(g, "send", "announce")' =>
        At(g, "send", "announce") /\ calls'[g] = calls[g]
  BY DEF At
<1> QED
  BY <1>1, <1>2, HandlerStored

\* A step of the sockets.
LEMMA SocketsStored ==
  ASSUME IInv, InStore, UNCHANGED messages,
         \A i \in Nat : OnItsWay(i)' => OnItsWay(i),
         \A t \in Sockets : Within(sockets'[t])
  PROVE  InStore'
  BY DEF InStore, Within, Stored

LEMMA ConnectStored ==
  ASSUME IInv, InStore, NEW s \in Sockets, NEW u \in Users, Connect(s, u)
  PROVE  InStore'
<1>1. \A t \in Sockets : sockets'[t] = IF t = s THEN Open(u) ELSE sockets[t]
  BY DEF Connect, IInv, TypeOK
<1>2. Within(Open(u))
  BY DEF Within, Open, IInv, TypeOK
<1>3. \A t \in Sockets : Within(sockets'[t])
  BY <1>1, <1>2 DEF InStore, Within
<1> QED
  BY <1>3, SocketsStored DEF Connect, store, OnItsWay, At

LEMMA ReadConversationStored ==
  ASSUME IInv, InStore, NEW s \in Sockets, ReadConversation(s)
  PROVE  InStore'
<1> DEFINE c == Loaded(sockets[s])
<1>1. sockets[s] \in Connections /\ sockets[s] # Closed
  BY SocketType DEF IInv, ReadConversation, Closed
<1>2. Len(messages) \in Nat /\ FirstLatest \in Nat \ {0} /\ FirstLatest - 1 <= Len(messages)
  BY ChatAssumption DEF IInv, TypeOK, FirstLatest
<1>3. LatestMessages \subseteq Stored
  BY <1>2 DEF LatestMessages, Stored
<1>4. c.since = FirstLatest - 1 /\ c.shown = sockets[s].shown \cup LatestMessages
  BY <1>1 DEF Connections, Loaded
<1> HIDE DEF c
<1>5. Within(c)
  BY <1>1, <1>2, <1>3, <1>4 DEF Within, InStore
<1>6. \A t \in Sockets : sockets'[t] = sockets[t] \/ sockets'[t] = c \/ sockets'[t] = Closed
  BY DEF ReadConversation, IInv, TypeOK, c
<1>7. \A t \in Sockets : Within(sockets'[t])
  BY <1>5, <1>6 DEF InStore, Within
<1> QED
  BY <1>7, SocketsStored DEF ReadConversation, store, OnItsWay, At

\* Joining, leaving and dropping bring no messages.
LEMMA PresenceStored ==
  ASSUME IInv, InStore, NEW s \in Sockets, Join(s) \/ Disconnect(s)
  PROVE  InStore'
<1>1. sockets[s] \in Connections /\ sockets[s].user \in Users
  BY SocketType DEF IInv, Join, Disconnect, Connected, Connections, Closed
<1> DEFINE u == sockets[s].user
           join == TellJoin(s, u)
           leave == TellLeave(s, u)
<1>2. /\ join \in [Sockets -> Connections \cup {Closed}]
      /\ leave \in [Sockets -> Connections \cup {Closed}]
  BY <1>1, TellType DEF IInv
<1>3. \A t \in Sockets \ {s} : Within(join[t]) /\ Within(leave[t])
  BY <1>1, TellRest DEF Like, Within, InStore, IInv
<1>4. join[s] = sockets[s] /\ leave[s] = sockets[s]
  BY DEF TellJoin, TellLeave, Reached
<1>5. /\ sockets[s].shown \subseteq Stored
      /\ sockets[s].since <= Len(messages)
  BY <1>1, Apart DEF InStore
<1> HIDE DEF join, leave
<1>6. /\ \A t \in Sockets \ {s} : sockets'[t] \in {join[t], leave[t], sockets[t]}
      /\ \/ sockets'[s] = Closed
         \/ /\ sockets'[s].shown = sockets[s].shown
            /\ sockets'[s].since = sockets[s].since
  <2>1. CASE Join(s)
    <3>1. /\ \A t \in Sockets \ {s} : sockets'[t] = join[t]
          /\ \/ sockets'[s] = Closed
             \/ sockets'[s] = [sockets[s] EXCEPT !.phase = "in", !.online = ActiveUsers \cup {u}]
      BY <1>2, <1>4, <2>1 DEF Join, join
    <3> QED
      BY <1>1, <3>1 DEF Connections
  <2>2. CASE Disconnect(s)
    <3>1. /\ \A t \in Sockets \ {s} : sockets'[t] = leave[t] \/ sockets'[t] = sockets[t]
          /\ \/ sockets'[s] = Closed
             \/ sockets'[s] = [sockets[s] EXCEPT !.alive = FALSE]
      BY <1>2, <2>2 DEF Disconnect, leave, IInv, TypeOK
    <3> QED
      BY <1>1, <3>1 DEF Connections
  <2> QED
    BY <2>1, <2>2
<1>7. \A t \in Sockets : Within(sockets'[t])
  BY <1>3, <1>5, <1>6 DEF Within, InStore
<1> QED
  BY <1>7, SocketsStored DEF Join, Disconnect, store, OnItsWay, At

LEMMA LoadHistoryStored ==
  ASSUME IInv, InStore, NEW s \in Sockets, NEW count \in 1 .. MaxMessages,
         LoadHistory(s, count)
  PROVE  InStore'
<1> DEFINE n == Cardinality(Held(sockets[s]))
           start == HistoryStart(count, n)
           low == IF start <= sockets[s].since THEN start - 1 ELSE sockets[s].since
           c == [sockets[s] EXCEPT !.shown = @ \cup History(count, n), !.since = low]
<1>1. sockets[s] \in Connections /\ sockets[s] # Closed
  BY SocketType DEF IInv, LoadHistory, InChat, Connected
<1>2. /\ sockets[s].since \in Nat
      /\ sockets[s].since <= Len(messages)
      /\ sockets[s].shown \subseteq Stored
      /\ Len(messages) \in Nat
      /\ count \in Nat \ {0}
      /\ n \in Nat
      /\ n <= Len(messages) - sockets[s].since
  BY <1>1, HeldBound, ChatAssumption DEF Connections, IInv, TypeOK, InStore
<1>3. start \in Nat \ {0}
  BY <1>2, PageReaches
<1>4. sockets' = [sockets EXCEPT ![s] = c]
  BY <1>1 DEF LoadHistory, IInv, TypeOK, Connections
<1>5. low <= Len(messages)
  BY <1>2, <1>3
<1>6. History(count, n) \subseteq Stored
  BY DEF History
<1> HIDE DEF n, start, low
<1>7. c.since = low /\ c.shown = sockets[s].shown \cup History(count, n)
  BY <1>1 DEF Connections
<1> HIDE DEF c
<1>8. Within(c)
  BY <1>2, <1>5, <1>6, <1>7 DEF Within
<1>9. \A t \in Sockets : Within(sockets'[t])
  BY <1>4, <1>8 DEF InStore, Within, IInv, TypeOK
<1> QED
  BY <1>9, SocketsStored DEF LoadHistory, store, OnItsWay, At

LEMMA AnnounceMessageStored ==
  ASSUME IInv, InStore, NEW h \in Handlers, AnnounceMessage(h)
  PROVE  InStore'
<1> DEFINE id == calls[h].id
<1>1. calls[h] \in Calls /\ id \in Nat
  BY CallType DEF AnnounceMessage, At, IInv, Calls
<1>2. id \in Stored
  BY <1>1 DEF InStore, OnItsWay, AnnounceMessage
<1>3. \A t \in Sockets : Within(sockets'[t])
  <2> SUFFICES ASSUME NEW t \in Sockets PROVE Within(sockets'[t])
    OBVIOUS
  <2> DEFINE c == [sockets[t] EXCEPT !.shown = @ \cup {id}]
  <2>1. (sockets'[t] = c /\ Connected(t)) \/ sockets'[t] = sockets[t]
    BY DEF AnnounceMessage, Reached
  <2>2. CASE sockets'[t] = c /\ Connected(t)
    <3>1. sockets[t] \in Connections /\ sockets[t] # Closed
      BY <2>2, SocketType DEF Connected, IInv
    <3> HIDE DEF id
    <3>2. c.shown = sockets[t].shown \cup {id} /\ c.since = sockets[t].since
      BY <3>1 DEF Connections
    <3> QED
      BY <1>2, <2>2, <3>1, <3>2 DEF InStore, Within
  <2>3. CASE sockets'[t] = sockets[t]
    BY <2>3 DEF InStore, Within
  <2> QED
    BY <2>1, <2>2, <2>3
<1>4. \A i \in Nat : OnItsWay(i)' => OnItsWay(i)
  BY DEF AnnounceMessage, End, OnItsWay, At, IInv, TypeOK
<1> QED
  BY <1>3, <1>4, SocketsStored DEF AnnounceMessage, store

\* The message is stored when it is on its way.
LEMMA WriteMessageStored ==
  ASSUME IInv, TypeOK', InStore, NEW h \in Handlers, WriteMessage(h)
  PROVE  InStore'
<1>1. calls[h] \in Calls /\ UNCHANGED sockets /\ Len(messages) \in Nat
  BY CallType DEF WriteMessage, At, IInv, TypeOK
<1>2. \A g \in Handlers \ {h} : calls'[g] = calls[g]
  BY DEF WriteMessage, End, IInv, TypeOK
<1>3. CASE ~Matches(calls[h].user)
  <2>1. ~At(h, "send", "announce")' /\ UNCHANGED messages
    BY <1>3 DEF WriteMessage, End, At, IInv, TypeOK
  <2> QED
    BY <1>1, <1>2, <2>1, MoveStored
<1>4. CASE Matches(calls[h].user)
  <2>1. Len(messages') = Len(messages) + 1
    BY <1>4 DEF WriteMessage, IInv, TypeOK
  <2>2. calls'[h] = [calls[h] EXCEPT !.phase = "announce", !.id = Len(messages) + 1]
    BY <1>4 DEF WriteMessage, IInv, TypeOK
  <2>3. calls'[h].id = Len(messages) + 1
    BY <1>1, <2>2 DEF Calls
  <2>4. calls'[h].id \in Stored'
    BY <1>1, <2>1, <2>3 DEF Stored
  <2> QED
    BY <1>1, <1>2, <2>1, <2>4, HandlerStored DEF At
<1> QED
  BY <1>3, <1>4

\* The other steps of the handlers change no number of messages.
LEMMA MoveOnStored ==
  ASSUME IInv, TypeOK', InStore, NEW h \in Handlers,
         \/ Validate(h) \/ EditMessage(h) \/ DeleteMessage(h)
         \/ MarkSeen(h) \/ FetchUpdated(h) \/ AnnounceChange(h)
  PROVE  InStore'
<1>1. UNCHANGED sockets /\ \A g \in Handlers \ {h} : calls'[g] = calls[g]
  BY DEF Validate, EditMessage, DeleteMessage, MarkSeen, FetchUpdated, AnnounceChange,
         Go, End, IInv, TypeOK
<1>2. Len(messages') = Len(messages)
  BY DEF Validate, EditMessage, DeleteMessage, MarkSeen, FetchUpdated, AnnounceChange,
         store, IInv, TypeOK
<1>3. ~At(h, "send", "announce")'
  <2>1. CASE Validate(h)
    <3>1. calls[h] \in Calls
      BY <2>1, CallType DEF Validate, Idle, IInv
    <3> QED
      BY <2>1, <3>1 DEF Validate, Go, End, At, Calls, IInv, TypeOK
  <2>2. CASE EditMessage(h) \/ DeleteMessage(h) \/ MarkSeen(h) \/ FetchUpdated(h)
    <3>1. calls[h] \in Calls /\ calls[h].op # "send"
      BY <2>2, CallType DEF EditMessage, DeleteMessage, MarkSeen, FetchUpdated, At, IInv
    <3>2. Go(h, "fetch") \/ Go(h, "announce") \/ End(h)
      BY <2>2 DEF EditMessage, DeleteMessage, MarkSeen, FetchUpdated
    <3> QED
      BY <3>1, <3>2 DEF Go, End, At, Calls, IInv, TypeOK
  <2>3. CASE AnnounceChange(h)
    BY <2>3 DEF AnnounceChange, End, At, IInv, TypeOK
  <2> QED
    BY <2>1, <2>2, <2>3
<1> QED
  BY <1>1, <1>2, <1>3, MoveStored

LEMMA StartStored ==
  ASSUME IInv, TypeOK', InStore, NEW h \in Handlers, NEW s \in Sockets,
         NEW op \in {"send", "update", "delete", "seen"}, NEW id \in Nat,
         Start(h, s, op, id)
  PROVE  InStore'
<1>1. /\ UNCHANGED <<sockets, messages>>
      /\ \A g \in Handlers \ {h} : calls'[g] = calls[g]
      /\ ~At(h, "send", "announce")'
  BY DEF Start, store, At, IInv, TypeOK
<1> QED
  BY <1>1, MoveStored

LEMMA NextInStore == IInv /\ InStore /\ [Next]_vars => InStore'
<1> SUFFICES ASSUME IInv, InStore, [Next]_vars PROVE InStore'
  OBVIOUS
<1>1. TypeOK'
  BY NextIInv DEF IInv
<1>2. ASSUME NEW h \in Handlers, Continue(h) PROVE InStore'
  BY <1>1, <1>2, MoveOnStored, WriteMessageStored, AnnounceMessageStored DEF Continue
<1>3. ASSUME NEW s \in Sockets, ReadConversation(s) \/ Join(s) \/ Disconnect(s)
      PROVE  InStore'
  BY <1>3, ReadConversationStored, PresenceStored
<1>4. ASSUME NEW h \in Handlers, NEW s \in Sockets,
             NEW op \in {"send", "update", "delete", "seen"},
             NEW id \in 0 .. MaxMessages, Start(h, s, op, id)
      PROVE  InStore'
  <2>1. id \in Nat
    BY ChatAssumption
  <2> QED
    BY <1>1, <1>4, <2>1, StartStored
<1>5. ASSUME NEW s \in Sockets, NEW count \in 1 .. MaxMessages, LoadHistory(s, count)
      PROVE  InStore'
  BY <1>5, LoadHistoryStored
<1>6. ASSUME NEW s \in Sockets, NEW u \in Users, Connect(s, u) PROVE InStore'
  BY <1>6, ConnectStored
<1>7. ASSUME \/ \E u \in Users : AddParticipant(u)
             \/ RemoveConversation
             \/ UNCHANGED vars
      PROVE  InStore'
  BY <1>7 DEF AddParticipant, RemoveConversation, vars, store, InStore, Stored, OnItsWay, At
<1> QED
  BY <1>2, <1>3, <1>4, <1>5, <1>6, <1>7 DEF Next

LEMMA AlwaysIInv == Spec => [](IInv /\ InStore)
  BY InitIInv, InitInStore, NextIInv, NextInStore, PTL DEF Spec

-----------------------------------------------------------------------------
\* Sockets, calls, store and output keep their types
\* (gateway/index.ts:46-202).
THEOREM ChatTypeCorrect == Spec => []TypeOK
  BY AlwaysIInv, PTL DEF IInv

\* No client in the chat misses a message, also none stored while its
\* handleConnection waited (gateway/index.ts:56-109).
THEOREM NoMessageMissed == Spec => []NothingMissed
<1>1. IInv => NothingMissed
  BY DEF IInv, Covered, NothingMissed, HasRead, InChat, OnItsWay
<1> QED
  BY <1>1, AlwaysIInv, PTL

\* Who is shown as active has a socket in the chat, or was announced by one
\* that had dropped (gateway/index.ts:56-81).
THEOREM PresenceHasCause == Spec => []PresenceJustified
  BY AlwaysIInv, PTL DEF IInv

=============================================================================
