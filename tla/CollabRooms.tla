------------------------------ MODULE CollabRooms ------------------------------
(***************************************************************************)
(* The rooms of the collaboration service, for one document: connections   *)
(* join and leave the room, their updates are appended to the document in  *)
(* Redis and relayed to the others, their presence is kept in a Redis hash.*)
(* Documents share the table's lock and nothing else that is modelled.     *)
(*                                                                         *)
(* A connection is one goroutine (Collaborate, then readPump and its       *)
(* deferred cleanup) and a writePump that empties its queue.  An action is *)
(* one critical section or one Redis call of them.  GetOrCreateRoom is one *)
(* step: the second look under the write lock makes it atomic.  So is a    *)
(* broadcast, which keeps every Join and Leave out with the room's read    *)
(* lock; its sends to different queues commute.  A queue is its length:    *)
(* what was put into it matters, the order of updates does not.            *)
(*                                                                         *)
(* What the environment may do is chosen at the start: "redis", a Redis    *)
(* call fails; "race", a connection joins while another one leaves.        *)
(***************************************************************************)
EXTENDS Naturals, Sequences

CONSTANTS Conns, Users, Updates,
          Padded,           \* updates whose base64 text ends in padding
          Rooms,            \* identities of Room structs, reused when garbage
          NoRoom, NoUser, NoUpdate,
          Cap               \* capacity of Send

ASSUME CollabAssumption ==
  /\ NoRoom \notin Rooms /\ NoUser \notin Users /\ NoUpdate \notin Updates
  /\ Padded \subseteq Updates
  /\ Cap \in Nat \ {0}

VARIABLES
  faults,     \* what the environment does, chosen once
  current,    \* s.rooms[documentID]
  members,    \* Clients of each room
  queue,      \* the number of messages in each connection's Send
  closed,     \* the connections whose Send is closed
  log,        \* the chunks of the document in Redis
  online,     \* the users in the presence hash
  conn,       \* what each connection's goroutine does next, and its locals
  sender,     \* history: the connection that sent an update
  relayed,    \* history: the updates whose broadcast is done
  offered     \* history: the updates put into a queue, or dropped by a full one

vars == <<faults, current, members, queue, closed, log, online, conn,
          sender, relayed, offered>>

JoinSteps  == {"enter", "add"}
LeaveSteps == {"forget", "leave", "remove", "drop", "hdel", "close"}
LoopSteps  == {"serve", "persist", "present"}
EndSteps   == {"off", "refused", "dead", "done"}
Reasons    == {"hello", "relay", "presence", "bye"}

Conn == [at : JoinSteps \cup LeaveSteps \cup LoopSteps \cup EndSteps
              \cup {"load", "state", "hello", "find", "cast"},
         why : Reasons, user : Users \cup {NoUser}, room : Rooms \cup {NoRoom},
         update : Updates \cup {NoUpdate}, seen : SUBSET Updates]

Off == [at |-> "off", why |-> "hello", user |-> NoUser, room |-> NoRoom,
        update |-> NoUpdate, seen |-> {}]

Init ==
  /\ faults \in SUBSET {"redis", "race"}
  /\ current = NoRoom
  /\ members = [m \in Rooms |-> {}]
  /\ queue = [c \in Conns |-> 0]
  /\ closed = {}
  /\ log = <<>>
  /\ online = {}
  /\ conn = [c \in Conns |-> Off]
  /\ sender = [u \in Updates |-> {}]
  /\ relayed = {}
  /\ offered = [c \in Conns |-> {}]

At(c, s) == conn[c].at = s
Goto(c, s) == conn' = [conn EXCEPT ![c].at = s]

MayFail == "redis" \in faults

Joining(c) == conn[c].at \in JoinSteps
Leaving(c) ==
  \/ conn[c].at \in LeaveSteps
  \/ conn[c].why = "bye"

\* Joins and leaves keep apart.
Apart == "race" \notin faults

history == <<sender, relayed, offered>>

------------------------------------------------------------------------------
(* GetOrCreateRoom.                                                        *)

Garbage(m) == m # current /\ members[m] = {} /\ \A c \in Conns : conn[c].room # m

GetOrCreateRoomUnchecked(c, s) ==    \* mutant: no second look under the write lock
  \E m \in Rooms :
    /\ m = current \/ Garbage(m)
    /\ current' = m
    /\ conn' = [conn EXCEPT ![c].room = m, ![c].at = s]

GetOrCreateRoom(c, s) ==
  \E m \in Rooms :
    /\ IF current = NoRoom THEN Garbage(m) ELSE m = current
    /\ current' = m
    /\ conn' = [conn EXCEPT ![c].room = m, ![c].at = s]

------------------------------------------------------------------------------
(* Collaborate.                                                            *)

Connect(c, u) ==
  /\ At(c, "off")
  /\ Apart => \A d \in Conns : ~ Leaving(d)
  /\ conn' = [conn EXCEPT ![c].at = "enter", ![c].user = u]
  /\ UNCHANGED <<faults, current, members, queue, closed, log, online, history>>

Enter(c) ==
  /\ At(c, "enter")
  /\ GetOrCreateRoom(c, "add")
  /\ UNCHANGED <<faults, members, queue, closed, log, online, history>>

AddClient(c) ==
  /\ At(c, "add")
  /\ members' = [members EXCEPT ![conn[c].room] = @ \cup {c}]
  /\ conn' = [conn EXCEPT ![c].at = "load", ![c].room = NoRoom]
  /\ UNCHANGED <<faults, current, queue, closed, log, online, history>>

\* The document is decoded as one base64 text: padding may only end it.
Decodes(l) == \A i \in DOMAIN l : l[i] \in Padded => i = Len(l)

Chunks == {log[i] : i \in DOMAIN log}

\* When the read fails the handler closes the connection and returns: the client
\* stays in the room.
LoadDocument(c) ==
  /\ At(c, "load")
  /\ \/ /\ Decodes(log)
        /\ conn' = [conn EXCEPT ![c].at = IF log = <<>> THEN "hello" ELSE "state",
                                ![c].seen = Chunks]
     \/ (MayFail \/ ~ Decodes(log)) /\ Goto(c, "refused")
  /\ UNCHANGED <<faults, current, members, queue, closed, log, online, history>>

SendStateUnbounded(c) ==             \* mutant: the queue has no bound
  /\ At(c, "state")
  /\ queue' = [queue EXCEPT ![c] = @ + 1]
  /\ offered' = [offered EXCEPT ![c] = @ \cup conn[c].seen]
  /\ conn' = [conn EXCEPT ![c].at = "hello", ![c].seen = {}]
  /\ UNCHANGED <<faults, current, members, closed, log, online, sender, relayed>>

\* A blocking send into the connection's own queue, which others may have filled
\* and which no writePump empties yet.
SendState(c) ==
  /\ At(c, "state")
  /\ queue[c] < Cap
  /\ queue' = [queue EXCEPT ![c] = @ + 1]
  /\ offered' = [offered EXCEPT ![c] = @ \cup conn[c].seen]
  /\ conn' = [conn EXCEPT ![c].at = "hello", ![c].seen = {}]
  /\ UNCHANGED <<faults, current, members, closed, log, online, sender, relayed>>

PresenceSnapshot(c) ==
  /\ At(c, "hello")
  /\ \/ Goto(c, "find")
     \/ MayFail /\ Goto(c, "serve")
  /\ UNCHANGED <<faults, current, members, queue, closed, log, online, history>>

------------------------------------------------------------------------------
(* readPump.                                                               *)

ReceiveUpdate(c, u) ==
  /\ At(c, "serve")
  /\ sender[u] = {}
  /\ sender' = [sender EXCEPT ![u] = {c}]
  /\ conn' = [conn EXCEPT ![c].at = "persist", ![c].update = u]
  /\ UNCHANGED <<faults, current, members, queue, closed, log, online, relayed, offered>>

PersistSkipped(c) ==                 \* mutant: the update is not appended
  /\ At(c, "persist")
  /\ conn' = [conn EXCEPT ![c].at = "find", ![c].why = "relay"]
  /\ UNCHANGED <<faults, current, members, queue, closed, log, online, history>>

\* A failing append is logged, and the update is relayed all the same.
PersistDocument(c) ==
  /\ At(c, "persist")
  /\ \/ log' = Append(log, conn[c].update)
     \/ MayFail /\ log' = log
  /\ conn' = [conn EXCEPT ![c].at = "find", ![c].why = "relay"]
  /\ UNCHANGED <<faults, current, members, queue, closed, online, history>>

\* HSET, EXPIRE and HGETALL; the reply of any of them may be an error.  The list
\* of users that is read, and broadcast later, is not modelled.
UpdatePresence(c) ==
  /\ At(c, "serve")
  /\ \/ /\ online' = online \cup {conn[c].user}
        /\ conn' = [conn EXCEPT ![c].at = "find", ![c].why = "presence"]
     \/ /\ MayFail
        /\ online' \in {online, online \cup {conn[c].user}}
        /\ UNCHANGED conn
  /\ UNCHANGED <<faults, current, members, queue, closed, log, history>>

\* The room to broadcast to is looked up before its lock is taken.
FindRoom(c) ==
  /\ At(c, "find")
  /\ GetOrCreateRoom(c, "cast")
  /\ UNCHANGED <<faults, members, queue, closed, log, online, history>>

Audience(c) ==
  members[conn[c].room] \ (IF conn[c].why = "relay" THEN {c} ELSE {})

\* The message reaches the queues of the connections in T that have room for it.
Deliver(c, T) ==
  /\ queue' = [d \in Conns |-> IF d \in T /\ queue[d] < Cap THEN queue[d] + 1
                                                           ELSE queue[d]]
  /\ offered' = [d \in Conns |-> IF d \in T /\ conn[c].why = "relay"
                                 THEN offered[d] \cup {conn[c].update}
                                 ELSE offered[d]]

Broadcast(c) ==
  /\ At(c, "cast")
  /\ Audience(c) \cap closed = {}
  /\ Deliver(c, Audience(c))
  /\ relayed' = relayed \cup (IF conn[c].why = "relay" THEN {conn[c].update} ELSE {})
  /\ conn' = [conn EXCEPT ![c].at = IF conn[c].why = "bye" THEN "leave" ELSE "serve",
                          ![c].why = "hello", ![c].room = NoRoom,
                          ![c].update = NoUpdate]
  /\ UNCHANGED <<faults, current, members, closed, log, online, sender>>

\* Sending on a closed channel panics.  In readPump the deferred cleanup runs, in
\* Collaborate and in the cleanup itself nothing more does.
Panic(c) ==
  /\ At(c, "cast")
  /\ Audience(c) \cap closed # {}
  /\ \E T \in SUBSET (Audience(c) \ closed) : Deliver(c, T)
  /\ conn' = [conn EXCEPT
       ![c].at = IF conn[c].why \in {"hello", "bye"} THEN "dead" ELSE "forget",
       ![c].why = "hello", ![c].room = NoRoom, ![c].update = NoUpdate]
  /\ UNCHANGED <<faults, current, members, closed, log, online, sender, relayed>>

------------------------------------------------------------------------------
(* The deferred cleanup: presence first, then Leave, then the channel.     *)

ReadErrorUnhandled(c) ==             \* mutant: the cleanup is not deferred
  /\ At(c, "serve")
  /\ Apart => \A d \in Conns : ~ Joining(d)
  /\ Goto(c, "close")
  /\ UNCHANGED <<faults, current, members, queue, closed, log, online, history>>

ReadError(c) ==
  /\ At(c, "serve")
  /\ Apart => \A d \in Conns : ~ Joining(d)
  /\ Goto(c, "forget")
  /\ UNCHANGED <<faults, current, members, queue, closed, log, online, history>>

\* HDEL and HGETALL.
RemovePresence(c) ==
  /\ At(c, "forget")
  /\ \/ /\ online' = online \ {conn[c].user}
        /\ conn' = [conn EXCEPT ![c].at = "find", ![c].why = "bye"]
     \/ /\ MayFail
        /\ online' \in {online, online \ {conn[c].user}}
        /\ Goto(c, "leave")
  /\ UNCHANGED <<faults, current, members, queue, closed, log, history>>

LeaveFindClosed(c) ==                \* mutant: the channel is closed before Leave
  /\ At(c, "leave")
  /\ GetOrCreateRoom(c, "remove")
  /\ closed' = closed \cup {c}
  /\ UNCHANGED <<faults, members, queue, log, online, history>>

LeaveFind(c) ==
  /\ At(c, "leave")
  /\ GetOrCreateRoom(c, "remove")
  /\ UNCHANGED <<faults, members, queue, closed, log, online, history>>

RemoveClientKept(c) ==               \* mutant: the client stays in the room
  /\ At(c, "remove")
  /\ conn' = [conn EXCEPT ![c].at = "hdel", ![c].room = NoRoom]
  /\ UNCHANGED <<faults, current, members, queue, closed, log, online, history>>

RemoveClientOnly(c) ==               \* mutant: an empty room stays in the table
  LET m == conn[c].room IN
  /\ At(c, "remove")
  /\ members' = [members EXCEPT ![m] = @ \ {c}]
  /\ conn' = [conn EXCEPT ![c].at = "hdel", ![c].room = NoRoom]
  /\ UNCHANGED <<faults, current, queue, closed, log, online, history>>

\* Emptiness is decided under the room's lock ...
RemoveClient(c) ==
  LET m == conn[c].room IN
  /\ At(c, "remove")
  /\ members' = [members EXCEPT ![m] = @ \ {c}]
  /\ conn' = [conn EXCEPT ![c].at = IF members'[m] = {} THEN "drop" ELSE "hdel",
                          ![c].room = NoRoom]
  /\ UNCHANGED <<faults, current, queue, closed, log, online, history>>

\* ... and the document's room removed under the table's, whichever it is by then.
DropRoom(c) ==
  /\ At(c, "drop")
  /\ current' = NoRoom
  /\ Goto(c, "hdel")
  /\ UNCHANGED <<faults, members, queue, closed, log, online, history>>

DeletePresence(c) ==
  /\ At(c, "hdel")
  /\ \/ online' = online \ {conn[c].user}
     \/ MayFail /\ online' = online
  /\ Goto(c, "close")
  /\ UNCHANGED <<faults, current, members, queue, closed, log, history>>

CloseSend(c) ==
  /\ At(c, "close")
  /\ closed' = closed \cup {c}
  /\ Goto(c, "done")
  /\ UNCHANGED <<faults, current, members, queue, log, online, history>>

------------------------------------------------------------------------------
(* writePump, and the presence hash's time to live.                        *)

Pumping(c) ==
  \/ conn[c].at \in LoopSteps \cup LeaveSteps \cup {"done"}
  \/ conn[c].why # "hello"

WritePump(c) ==
  /\ Pumping(c)
  /\ queue[c] > 0
  /\ queue' = [queue EXCEPT ![c] = @ - 1]
  /\ UNCHANGED <<faults, current, members, closed, log, online, conn, history>>

ExpirePresence ==
  /\ online # {}
  /\ online' = {}
  /\ UNCHANGED <<faults, current, members, queue, closed, log, conn, history>>

Handshake(c) ==
  \/ \E u \in Users : Connect(c, u)
  \/ Enter(c) \/ AddClient(c) \/ LoadDocument(c) \/ SendState(c) \/ PresenceSnapshot(c)

ReadPump(c) ==
  \/ \E u \in Updates : ReceiveUpdate(c, u)
  \/ PersistDocument(c) \/ UpdatePresence(c)
  \/ FindRoom(c) \/ Broadcast(c) \/ Panic(c)

Cleanup(c) ==
  \/ ReadError(c) \/ RemovePresence(c) \/ LeaveFind(c) \/ RemoveClient(c)
  \/ DropRoom(c) \/ DeletePresence(c) \/ CloseSend(c)

Next ==
  \/ \E c \in Conns : Handshake(c) \/ ReadPump(c) \/ Cleanup(c) \/ WritePump(c)
  \/ ExpirePresence

Spec == Init /\ [][Next]_vars

------------------------------------------------------------------------------
(* Properties.                                                             *)

TypeOK ==
  /\ faults \subseteq {"redis", "race"}
  /\ current \in Rooms \cup {NoRoom}
  /\ members \in [Rooms -> SUBSET Conns]
  /\ queue \in [Conns -> 0 .. Cap]
  /\ closed \subseteq Conns
  /\ log \in Seq(Updates)
  /\ online \subseteq Users
  /\ conn \in [Conns -> Conn]
  /\ \A c \in Conns : conn[c].at \in {"add", "cast", "remove"} => conn[c].room \in Rooms
  /\ \A c \in Conns : conn[c].at # "off" => conn[c].user \in Users
  /\ \A c \in Conns : At(c, "persist") \/ conn[c].why = "relay" => conn[c].update \in Updates
  /\ sender \in [Updates -> SUBSET Conns]
  /\ relayed \subseteq Updates
  /\ offered \in [Conns -> SUBSET Updates]

Joined(c) == conn[c].at \notin EndSteps \cup {"enter", "add", "drop", "hdel", "close"}

Present(c) == current # NoRoom /\ c \in members[current]

\* Leave decides emptiness and drops the room under two different locks.  While
\* joins and leaves keep apart, every joined connection is in the room that
\* updates are relayed to.
OneRoom == Apart => \A c \in Conns : Joined(c) => Present(c)

\* Whatever races, a connection whose channel is closed is not in the room of the
\* table: only a broadcast that looked its room up before can hit it.
ClosedApart == \A c \in closed : ~ Present(c)

\* While joins and leaves keep apart no broadcast sends on a closed channel.
NoPanic == Apart => \A c \in Conns : At(c, "cast") => Audience(c) \cap closed = {}

\* Join enters the room before it reads the document and an update is appended
\* before it is relayed: a connection that has joined was offered every update
\* whose relay is done, from the document or from the relay.
RelayComplete ==
  faults = {} => \A c \in Conns, u \in relayed :
    (Joined(c) /\ conn[c].at \notin {"load", "state"}) => (u \in offered[c] \/ c \in sender[u])

\* Whatever races, the room of a document is dropped with its last connection,
\* unless a refused or crashed one stays behind in it.
RoomFreed ==
  (\A c \in Conns : conn[c].at \in {"off", "done"}) => current = NoRoom

\* While Redis answers, a user listed as present has a connection.
GhostFree ==
  ~ MayFail => \A u \in online : \E c \in Conns :
    conn[c].user = u /\ conn[c].at \notin EndSteps

\* README.md:12: "Persist Yjs document state to Redis so late-joining clients get
\* the full document".
LateJoinerServed == ~ MayFail => \A c \in Conns : ~ At(c, "refused")
==============================================================================
