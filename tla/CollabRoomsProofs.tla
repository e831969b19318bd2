--------------------------- MODULE CollabRoomsProofs ---------------------------
(***************************************************************************)
(* Theorems about CollabRooms for every set of connections, users, updates *)
(* and rooms and every capacity of the queues.                             *)
(***************************************************************************)
EXTENDS CollabRooms, TLAPS

USE DEF JoinSteps, LeaveSteps, LoopSteps, EndSteps, Reasons

------------------------------------------------------------------------------
(* Types.                                                                  *)

\* What TypeOK says of the connections.
ConnsOK ==
  /\ conn \in [Conns -> Conn]
  /\ \A c \in Conns : conn[c].at \in {"add", "cast", "remove"} => conn[c].room \in Rooms
  /\ \A c \in Conns : conn[c].at # "off" => conn[c].user \in Users
  /\ \A c \in Conns : At(c, "persist") \/ conn[c].why = "relay" => conn[c].update \in Updates

\* A step of connection c changes its own record only.
Moves(c) == \A d \in Conns \ {c} : conn'[d] = conn[d]

\* The initial state has the types.
LEMMA TypeInit == Init => TypeOK
BY CollabAssumption DEF Init, TypeOK, At, Conn, Off

\* One lemma per action: ConnsOK is kept, and the step is the connection's own.
LEMMA ConnectConns ==
  ASSUME ConnsOK, log \in Seq(Updates), NEW c \in Conns, NEW u \in Users, Connect(c, u)
  PROVE  ConnsOK' /\ Moves(c)
<1>1. conn[c] \in Conn
  BY DEF ConnsOK
<1> QED
  BY <1>1 DEF ConnsOK, Conn, Moves, At, Connect

LEMMA EnterConns ==
  ASSUME ConnsOK, log \in Seq(Updates), NEW c \in Conns, Enter(c)
  PROVE  ConnsOK' /\ Moves(c)
<1>1. conn[c] \in Conn
  BY DEF ConnsOK
<1> QED
  BY <1>1 DEF ConnsOK, Conn, Moves, At, Enter, GetOrCreateRoom

LEMMA AddClientConns ==
  ASSUME ConnsOK, log \in Seq(Updates), NEW c \in Conns, AddClient(c)
  PROVE  ConnsOK' /\ Moves(c)
<1>1. conn[c] \in Conn
  BY DEF ConnsOK
<1> QED
  BY <1>1 DEF ConnsOK, Conn, Moves, At, AddClient

LEMMA LoadDocumentConns ==
  ASSUME ConnsOK, log \in Seq(Updates), NEW c \in Conns, LoadDocument(c)
  PROVE  ConnsOK' /\ Moves(c)
<1>1. conn[c] \in Conn
  BY DEF ConnsOK
<1>2. CASE conn' = [conn EXCEPT ![c].at = IF log = <<>> THEN "hello" ELSE "state",
                                ![c].seen = Chunks]
  <2>1. Chunks \in SUBSET Updates
    BY DEF Chunks
  <2> QED
    BY <1>1, <1>2, <2>1 DEF ConnsOK, Conn, Moves, At, LoadDocument
<1>3. CASE Goto(c, "refused")
  BY <1>1, <1>3 DEF ConnsOK, Conn, Moves, At, LoadDocument, Goto
<1> QED
  BY <1>2, <1>3 DEF LoadDocument

LEMMA SendStateConns ==
  ASSUME ConnsOK, log \in Seq(Updates), NEW c \in Conns, SendState(c)
  PROVE  ConnsOK' /\ Moves(c)
<1>1. conn[c] \in Conn
  BY DEF ConnsOK
<1> QED
  BY <1>1 DEF ConnsOK, Conn, Moves, At, SendState

LEMMA PresenceSnapshotConns ==
  ASSUME ConnsOK, log \in Seq(Updates), NEW c \in Conns, PresenceSnapshot(c)
  PROVE  ConnsOK' /\ Moves(c)
<1>1. conn[c] \in Conn
  BY DEF ConnsOK
<1>2. \E s \in {"find", "serve"} : conn' = [conn EXCEPT ![c].at = s]
  BY DEF PresenceSnapshot, Goto
<1> QED
  BY <1>1, <1>2 DEF ConnsOK, Conn, Moves, At, PresenceSnapshot

LEMMA ReceiveUpdateConns ==
  ASSUME ConnsOK, log \in Seq(Updates), NEW c \in Conns, NEW u \in Updates, ReceiveUpdate(c, u)
  PROVE  ConnsOK' /\ Moves(c)
<1>1. conn[c] \in Conn
  BY DEF ConnsOK
<1> QED
  BY <1>1 DEF ConnsOK, Conn, Moves, At, ReceiveUpdate

LEMMA PersistDocumentConns ==
  ASSUME ConnsOK, log \in Seq(Updates), NEW c \in Conns, PersistDocument(c)
  PROVE  ConnsOK' /\ Moves(c)
<1>1. conn[c] \in Conn
  BY DEF ConnsOK
<1> QED
  BY <1>1 DEF ConnsOK, Conn, Moves, At, PersistDocument

LEMMA UpdatePresenceConns ==
  ASSUME ConnsOK, log \in Seq(Updates), NEW c \in Conns, UpdatePresence(c)
  PROVE  ConnsOK' /\ Moves(c)
<1>1. conn[c] \in Conn
  BY DEF ConnsOK
<1> QED
  BY <1>1 DEF ConnsOK, Conn, Moves, At, UpdatePresence

LEMMA FindRoomConns ==
  ASSUME ConnsOK, log \in Seq(Updates), NEW c \in Conns, FindRoom(c)
  PROVE  ConnsOK' /\ Moves(c)
<1>1. conn[c] \in Conn
  BY DEF ConnsOK
<1> QED
  BY <1>1 DEF ConnsOK, Conn, Moves, At, FindRoom, GetOrCreateRoom

LEMMA BroadcastConns ==
  ASSUME ConnsOK, log \in Seq(Updates), NEW c \in Conns, Broadcast(c)
  PROVE  ConnsOK' /\ Moves(c)
<1>1. conn[c] \in Conn
  BY DEF ConnsOK
<1> QED
  BY <1>1, ZenonT(60) DEF ConnsOK, Conn, Moves, At, Broadcast

LEMMA PanicConns ==
  ASSUME ConnsOK, log \in Seq(Updates), NEW c \in Conns, Panic(c)
  PROVE  ConnsOK' /\ Moves(c)
<1>1. conn[c] \in Conn
  BY DEF ConnsOK
<1> QED
  BY <1>1, ZenonT(60) DEF ConnsOK, Conn, Moves, At, Panic

LEMMA ReadErrorConns ==
  ASSUME ConnsOK, log \in Seq(Updates), NEW c \in Conns, ReadError(c)
  PROVE  ConnsOK' /\ Moves(c)
<1>1. conn[c] \in Conn
  BY DEF ConnsOK
<1> QED
  BY <1>1 DEF ConnsOK, Conn, Moves, At, ReadError, Goto

LEMMA RemovePresenceConns ==
  ASSUME ConnsOK, log \in Seq(Updates), NEW c \in Conns, RemovePresence(c)
  PROVE  ConnsOK' /\ Moves(c)
<1>1. conn[c] \in Conn
  BY DEF ConnsOK
<1>2. CASE conn' = [conn EXCEPT ![c].at = "find", ![c].why = "bye"]
  BY <1>1, <1>2 DEF ConnsOK, Conn, Moves, At, RemovePresence
<1>3. CASE Goto(c, "leave")
  BY <1>1, <1>3 DEF ConnsOK, Conn, Moves, At, RemovePresence, Goto
<1> QED
  BY <1>2, <1>3 DEF RemovePresence

LEMMA LeaveFindConns ==
  ASSUME ConnsOK, log \in Seq(Updates), NEW c \in Conns, LeaveFind(c)
  PROVE  ConnsOK' /\ Moves(c)
<1>1. conn[c] \in Conn
  BY DEF ConnsOK
<1> QED
  BY <1>1 DEF ConnsOK, Conn, Moves, At, LeaveFind, GetOrCreateRoom

LEMMA RemoveClientConns ==
  ASSUME ConnsOK, log \in Seq(Updates), NEW c \in Conns, RemoveClient(c)
  PROVE  ConnsOK' /\ Moves(c)
<1>1. conn[c] \in Conn
  BY DEF ConnsOK
<1> QED
  BY <1>1 DEF ConnsOK, Conn, Moves, At, RemoveClient

LEMMA DropRoomConns ==
  ASSUME ConnsOK, log \in Seq(Updates), NEW c \in Conns, DropRoom(c)
  PROVE  ConnsOK' /\ Moves(c)
<1>1. conn[c] \in Conn
  BY DEF ConnsOK
<1> QED
  BY <1>1 DEF ConnsOK, Conn, Moves, At, DropRoom, Goto

LEMMA DeletePresenceConns ==
  ASSUME ConnsOK, log \in Seq(Updates), NEW c \in Conns, DeletePresence(c)
  PROVE  ConnsOK' /\ Moves(c)
<1>1. conn[c] \in Conn
  BY DEF ConnsOK
<1> QED
  BY <1>1 DEF ConnsOK, Conn, Moves, At, DeletePresence, Goto

LEMMA CloseSendConns ==
  ASSUME ConnsOK, log \in Seq(Updates), NEW c \in Conns, CloseSend(c)
  PROVE  ConnsOK' /\ Moves(c)
<1>1. conn[c] \in Conn
  BY DEF ConnsOK
<1> QED
  BY <1>1 DEF ConnsOK, Conn, Moves, At, CloseSend, Goto

------------------------------------------------------------------------------
\* A delivery to a full queue leaves it as it is.
LEMMA DeliverType ==
  ASSUME TypeOK, NEW c \in Conns, NEW T, Deliver(c, T)
  PROVE  (queue' \in [Conns -> 0 .. Cap]) /\ (offered' \in [Conns -> SUBSET Updates])
<1>1. conn[c].why = "relay" => conn[c].update \in Updates
  BY DEF TypeOK
<1>2. \A d \in Conns : queue[d] \in 0 .. Cap /\ offered[d] \subseteq Updates
  BY DEF TypeOK
<1>3. queue' \in [Conns -> 0 .. Cap]
  <2>1. \A d \in Conns : (IF d \in T /\ queue[d] < Cap THEN queue[d] + 1 ELSE queue[d]) \in 0 .. Cap
    <3>1. TAKE d \in Conns
    <3>2. queue[d] \in Nat /\ Cap \in Nat /\ queue[d] <= Cap
      BY <1>2, CollabAssumption
    <3>3. CASE d \in T /\ queue[d] < Cap
      BY <3>2, <3>3
    <3>4. CASE ~ (d \in T /\ queue[d] < Cap)
      BY <3>2, <3>4
    <3> QED
      BY <3>3, <3>4
  <2> QED
    BY <2>1 DEF Deliver
<1>4. offered' \in [Conns -> SUBSET Updates]
  BY <1>1, <1>2 DEF Deliver
<1> QED
  BY <1>3, <1>4

\* The other variables, action by action.
LEMMA TypeStep ==
  ASSUME TypeOK, [Next]_vars
  PROVE  TypeOK'
<1> DEFINE Goal == TypeOK'
<1>1. ConnsOK /\ log \in Seq(Updates)
  BY DEF TypeOK, ConnsOK
<1>2. ASSUME NEW c \in Conns, NEW u \in Users, Connect(c, u)
      PROVE  Goal
  BY <1>1, <1>2, ConnectConns DEF TypeOK, ConnsOK, At, history, Connect
<1>3. ASSUME NEW c \in Conns, Enter(c)
      PROVE  Goal
  BY <1>1, <1>3, EnterConns DEF TypeOK, ConnsOK, At, history, Enter, GetOrCreateRoom
<1>4. ASSUME NEW c \in Conns, AddClient(c)
      PROVE  Goal
  BY <1>1, <1>4, AddClientConns DEF TypeOK, ConnsOK, At, history, AddClient
<1>5. ASSUME NEW c \in Conns, LoadDocument(c)
      PROVE  Goal
  BY <1>1, <1>5, LoadDocumentConns
  DEF TypeOK, ConnsOK, At, history, LoadDocument, Goto, Chunks
<1>6. ASSUME NEW c \in Conns, SendState(c)
      PROVE  Goal
  <2>1. queue[c] \in 0 .. Cap /\ conn[c].seen \subseteq Updates
    BY <1>6 DEF TypeOK, Conn
  <2>2. queue' \in [Conns -> 0 .. Cap]
    BY <1>6, <2>1, CollabAssumption DEF TypeOK, SendState
  <2>3. offered' \in [Conns -> SUBSET Updates]
    BY <1>6, <2>1 DEF TypeOK, SendState
  <2> QED
    BY <1>1, <1>6, <2>2, <2>3, SendStateConns DEF TypeOK, ConnsOK, At, SendState
<1>7. ASSUME NEW c \in Conns, PresenceSnapshot(c)
      PROVE  Goal
  BY <1>1, <1>7, PresenceSnapshotConns
  DEF TypeOK, ConnsOK, At, history, PresenceSnapshot, Goto
<1>8. ASSUME NEW c \in Conns, NEW u \in Updates, ReceiveUpdate(c, u)
      PROVE  Goal
  BY <1>1, <1>8, ReceiveUpdateConns DEF TypeOK, ConnsOK, At, history, ReceiveUpdate
<1>9. ASSUME NEW c \in Conns, PersistDocument(c)
      PROVE  Goal
  <2>1. conn[c].update \in Updates
    BY <1>9 DEF TypeOK, At, PersistDocument
  <2>2. log' \in Seq(Updates)
    BY <1>1, <1>9, <2>1 DEF PersistDocument
  <2> QED
    BY <1>1, <1>9, <2>2, PersistDocumentConns
    DEF TypeOK, ConnsOK, At, history, PersistDocument
<1>10. ASSUME NEW c \in Conns, UpdatePresence(c)
      PROVE  Goal
  BY <1>1, <1>10, UpdatePresenceConns DEF TypeOK, ConnsOK, At, history, UpdatePresence
<1>11. ASSUME NEW c \in Conns, FindRoom(c)
      PROVE  Goal
  BY <1>1, <1>11, FindRoomConns DEF TypeOK, ConnsOK, At, history, FindRoom, GetOrCreateRoom
<1>12. ASSUME NEW c \in Conns, Broadcast(c)
      PROVE  Goal
  <2>1. conn[c] \in Conn /\ (conn[c].why = "relay" => conn[c].update \in Updates)
    BY <1>12 DEF TypeOK
  <2>2. relayed' \subseteq Updates
    BY <1>12, <2>1 DEF TypeOK, Broadcast
  <2>3. (queue' \in [Conns -> 0 .. Cap]) /\ (offered' \in [Conns -> SUBSET Updates])
    BY <1>12, <2>1, DeliverType DEF Broadcast
  <2> QED
    BY <1>1, <1>12, <2>2, <2>3, BroadcastConns DEF TypeOK, ConnsOK, At, Broadcast
<1>13. ASSUME NEW c \in Conns, Panic(c)
      PROVE  Goal
  <2>1. (queue' \in [Conns -> 0 .. Cap]) /\ (offered' \in [Conns -> SUBSET Updates])
    BY <1>13, DeliverType DEF Panic
  <2> QED
    BY <1>1, <1>13, <2>1, PanicConns DEF TypeOK, ConnsOK, At, Panic
<1>14. ASSUME NEW c \in Conns, ReadError(c)
      PROVE  Goal
  BY <1>1, <1>14, ReadErrorConns DEF TypeOK, ConnsOK, At, history, ReadError, Goto
<1>15. ASSUME NEW c \in Conns, RemovePresence(c)
      PROVE  Goal
  BY <1>1, <1>15, RemovePresenceConns DEF TypeOK, ConnsOK, At, history, RemovePresence, Goto
<1>16. ASSUME NEW c \in Conns, LeaveFind(c)
      PROVE  Goal
  BY <1>1, <1>16, LeaveFindConns
  DEF TypeOK, ConnsOK, At, history, LeaveFind, GetOrCreateRoom
<1>17. ASSUME NEW c \in Conns, RemoveClient(c)
      PROVE  Goal
  BY <1>1, <1>17, RemoveClientConns DEF TypeOK, ConnsOK, At, history, RemoveClient
<1>18. ASSUME NEW c \in Conns, DropRoom(c)
      PROVE  Goal
  BY <1>1, <1>18, DropRoomConns DEF TypeOK, ConnsOK, At, history, DropRoom, Goto
<1>19. ASSUME NEW c \in Conns, DeletePresence(c)
      PROVE  Goal
  BY <1>1, <1>19, DeletePresenceConns DEF TypeOK, ConnsOK, At, history, DeletePresence, Goto
<1>20. ASSUME NEW c \in Conns, CloseSend(c)
      PROVE  Goal
  BY <1>1, <1>20, CloseSendConns DEF TypeOK, ConnsOK, At, history, CloseSend, Goto
<1>21. ASSUME NEW c \in Conns, WritePump(c)
      PROVE  Goal
  BY <1>21, CollabAssumption DEF TypeOK, At, WritePump, history
<1>22. ASSUME ExpirePresence
      PROVE  Goal
  BY <1>22 DEF TypeOK, At, ExpirePresence, history
<1>23. ASSUME UNCHANGED vars
      PROVE  Goal
  BY <1>23 DEF TypeOK, At, vars
<1> HIDE DEF Goal
<1>q. Goal
  BY <1>2, <1>3, <1>4, <1>5, <1>6, <1>7, <1>8, <1>9, <1>10, <1>11, <1>12, <1>13, <1>14,
     <1>15, <1>16, <1>17, <1>18, <1>19, <1>20, <1>21, <1>22, <1>23
  DEF Next, Handshake, ReadPump, Cleanup
<1> QED
  BY <1>q DEF Goal

\* Types: a queue holds at most Cap messages, a goroutine that uses a room has one.
THEOREM TypeCorrect == Spec => []TypeOK
BY TypeInit, TypeStep, PTL DEF Spec

------------------------------------------------------------------------------
(* A closed connection is out of the room of the table.                    *)

\* A connection that has looked the room up to leave it is in no other room the
\* table holds: rooms enter the table empty, and only their owners fill them.
Membership ==
  /\ \A c \in Conns, m \in Rooms : conn[c].at \in {"off", "enter", "add"} => c \notin members[m]
  /\ \A c \in Conns : At(c, "remove") /\ Present(c) => conn[c].room = current
  /\ \A c \in Conns : conn[c].at \in {"drop", "hdel", "close", "done"} => ~ Present(c)
  /\ \A c \in closed : At(c, "done")

LEMMA MembershipInit == Init => Membership
BY DEF Init, Membership, Off, Present, At

LEMMA MembershipStep ==
  ASSUME TypeOK, Membership, [Next]_vars
  PROVE  Membership'
<1> DEFINE Goal == Membership'
<1>1. conn \in [Conns -> Conn] /\ members \in [Rooms -> SUBSET Conns]
      /\ current \in Rooms \cup {NoRoom} /\ closed \subseteq Conns /\ NoRoom \notin Rooms
  BY CollabAssumption DEF TypeOK
<1>2. ASSUME NEW c \in Conns, NEW u \in Users, Connect(c, u)
      PROVE  Goal
  BY <1>1, <1>2 DEF Membership, Present, At, Conn, Connect
<1>3. ASSUME NEW c \in Conns, Enter(c)
      PROVE  Goal
  BY <1>1, <1>3 DEF Membership, Present, At, Conn, Enter, GetOrCreateRoom, Garbage
<1>4. ASSUME NEW c \in Conns, AddClient(c)
      PROVE  Goal
  BY <1>1, <1>4 DEF Membership, Present, At, Conn, AddClient
<1>5. ASSUME NEW c \in Conns, LoadDocument(c)
      PROVE  Goal
  BY <1>1, <1>5 DEF Membership, Present, At, Conn, LoadDocument, Goto
<1>6. ASSUME NEW c \in Conns, SendState(c)
      PROVE  Goal
  BY <1>1, <1>6 DEF Membership, Present, At, Conn, SendState
<1>7. ASSUME NEW c \in Conns, PresenceSnapshot(c)
      PROVE  Goal
  BY <1>1, <1>7 DEF Membership, Present, At, Conn, PresenceSnapshot, Goto
<1>8. ASSUME NEW c \in Conns, NEW u \in Updates, ReceiveUpdate(c, u)
      PROVE  Goal
  BY <1>1, <1>8 DEF Membership, Present, At, Conn, ReceiveUpdate
<1>9. ASSUME NEW c \in Conns, PersistDocument(c)
      PROVE  Goal
  BY <1>1, <1>9 DEF Membership, Present, At, Conn, PersistDocument
<1>10. ASSUME NEW c \in Conns, UpdatePresence(c)
      PROVE  Goal
  BY <1>1, <1>10 DEF Membership, Present, At, Conn, UpdatePresence
<1>11. ASSUME NEW c \in Conns, FindRoom(c)
      PROVE  Goal
  BY <1>1, <1>11 DEF Membership, Present, At, Conn, FindRoom, GetOrCreateRoom, Garbage
<1>12. ASSUME NEW c \in Conns, Broadcast(c)
      PROVE  Goal
  BY <1>1, <1>12 DEF Membership, Present, At, Conn, Broadcast
<1>13. ASSUME NEW c \in Conns, Panic(c)
      PROVE  Goal
  BY <1>1, <1>13 DEF Membership, Present, At, Conn, Panic
<1>14. ASSUME NEW c \in Conns, ReadError(c)
      PROVE  Goal
  BY <1>1, <1>14 DEF Membership, Present, At, Conn, ReadError, Goto
<1>15. ASSUME NEW c \in Conns, RemovePresence(c)
      PROVE  Goal
  BY <1>1, <1>15, SMTT(30) DEF Membership, Present, At, Conn, RemovePresence, Goto
<1>16. ASSUME NEW c \in Conns, LeaveFind(c)
      PROVE  Goal
  BY <1>1, <1>16 DEF Membership, Present, At, Conn, LeaveFind, GetOrCreateRoom, Garbage
<1>17. ASSUME NEW c \in Conns, RemoveClient(c)
      PROVE  Goal
  BY <1>1, <1>17 DEF Membership, Present, At, Conn, RemoveClient
<1>18. ASSUME NEW c \in Conns, DropRoom(c)
      PROVE  Goal
  BY <1>1, <1>18 DEF Membership, Present, At, Conn, DropRoom, Goto
<1>19. ASSUME NEW c \in Conns, DeletePresence(c)
      PROVE  Goal
  BY <1>1, <1>19 DEF Membership, Present, At, Conn, DeletePresence, Goto
<1>20. ASSUME NEW c \in Conns, CloseSend(c)
      PROVE  Goal
  BY <1>1, <1>20 DEF Membership, Present, At, Conn, CloseSend, Goto
<1>21. ASSUME NEW c \in Conns, WritePump(c)
      PROVE  Goal
  BY <1>1, <1>21 DEF Membership, Present, At, Conn, WritePump
<1>22. ASSUME ExpirePresence
      PROVE  Goal
  BY <1>1, <1>22 DEF Membership, Present, At, Conn, ExpirePresence
<1>23. ASSUME UNCHANGED vars
      PROVE  Goal
  BY <1>1, <1>23 DEF Membership, Present, At, Conn, vars
<1> HIDE DEF Goal
<1>q. Goal
  BY <1>2, <1>3, <1>4, <1>5, <1>6, <1>7, <1>8, <1>9, <1>10, <1>11, <1>12, <1>13, <1>14,
     <1>15, <1>16, <1>17, <1>18, <1>19, <1>20, <1>21, <1>22, <1>23
  DEF Next, Handshake, ReadPump, Cleanup
<1> QED
  BY <1>q DEF Goal

\* ClosedApart holds whatever races and whatever fails.
THEOREM ClosedTheorem == Spec => []ClosedApart
<1>1. TypeOK /\ Membership => ClosedApart
  BY DEF TypeOK, Membership, ClosedApart, At
<1> QED
  BY <1>1, TypeInit, TypeStep, MembershipInit, MembershipStep, PTL DEF Spec

------------------------------------------------------------------------------
(* The room is dropped with its last connection.                           *)

\* The connection will find the room again, or will drop it: it has not passed
\* the removal of its client, or that removal left the room empty.
Holds(c) ==
  /\ conn[c].at \notin {"off", "enter", "hdel", "close", "done"}
  /\ At(c, "remove") => conn[c].room = current

Held == current # NoRoom => \E c \in Conns : Holds(c)

LEMMA HeldInit == Init => Held
BY DEF Init, Held

LEMMA HeldStep ==
  ASSUME TypeOK, Membership, Held, [Next]_vars
  PROVE  Held'
<1> DEFINE Goal == Held'
<1>1. conn \in [Conns -> Conn] /\ members \in [Rooms -> SUBSET Conns]
      /\ current \in Rooms \cup {NoRoom} /\ closed \subseteq Conns /\ NoRoom \notin Rooms
  BY CollabAssumption DEF TypeOK
<1>2. ASSUME NEW c \in Conns, NEW u \in Users, Connect(c, u)
      PROVE  Goal
  BY <1>1, <1>2 DEF Held, Holds, At, Conn, Connect
<1>3. ASSUME NEW c \in Conns, Enter(c)
      PROVE  Goal
  BY <1>1, <1>3 DEF Held, Holds, At, Conn, Enter, GetOrCreateRoom, Garbage
<1>4. ASSUME NEW c \in Conns, AddClient(c)
      PROVE  Goal
  BY <1>1, <1>4 DEF Held, Holds, At, Conn, AddClient
<1>5. ASSUME NEW c \in Conns, LoadDocument(c)
      PROVE  Goal
  BY <1>1, <1>5 DEF Held, Holds, At, Conn, LoadDocument, Goto
<1>6. ASSUME NEW c \in Conns, SendState(c)
      PROVE  Goal
  BY <1>1, <1>6 DEF Held, Holds, At, Conn, SendState
<1>7. ASSUME NEW c \in Conns, PresenceSnapshot(c)
      PROVE  Goal
  BY <1>1, <1>7 DEF Held, Holds, At, Conn, PresenceSnapshot, Goto
<1>8. ASSUME NEW c \in Conns, NEW u \in Updates, ReceiveUpdate(c, u)
      PROVE  Goal
  BY <1>1, <1>8 DEF Held, Holds, At, Conn, ReceiveUpdate
<1>9. ASSUME NEW c \in Conns, PersistDocument(c)
      PROVE  Goal
  BY <1>1, <1>9 DEF Held, Holds, At, Conn, PersistDocument
<1>10. ASSUME NEW c \in Conns, UpdatePresence(c)
      PROVE  Goal
  BY <1>1, <1>10 DEF Held, Holds, At, Conn, UpdatePresence
<1>11. ASSUME NEW c \in Conns, FindRoom(c)
      PROVE  Goal
  BY <1>1, <1>11 DEF Held, Holds, At, Conn, FindRoom, GetOrCreateRoom, Garbage
<1>12. ASSUME NEW c \in Conns, Broadcast(c)
      PROVE  Goal
  BY <1>1, <1>12 DEF Held, Holds, At, Conn, Broadcast
<1>13. ASSUME NEW c \in Conns, Panic(c)
      PROVE  Goal
  BY <1>1, <1>13 DEF Held, Holds, At, Conn, Panic
<1>14. ASSUME NEW c \in Conns, ReadError(c)
      PROVE  Goal
  BY <1>1, <1>14 DEF Held, Holds, At, Conn, ReadError, Goto
<1>15. ASSUME NEW c \in Conns, RemovePresence(c)
      PROVE  Goal
  BY <1>1, <1>15 DEF Held, Holds, At, Conn, RemovePresence, Goto
<1>16. ASSUME NEW c \in Conns, LeaveFind(c)
      PROVE  Goal
  BY <1>1, <1>16 DEF Held, Holds, At, Conn, LeaveFind, GetOrCreateRoom, Garbage
<1>17. ASSUME NEW c \in Conns, RemoveClient(c)
      PROVE  Goal
  <2>1. CASE members'[conn[c].room] = {}
    BY <1>1, <1>17, <2>1 DEF Held, Holds, At, Conn, RemoveClient
  <2>2. CASE members'[conn[c].room] # {} /\ conn[c].room # current
    BY <1>1, <1>17, <2>2 DEF Held, Holds, At, Conn, RemoveClient
  <2>3. CASE members'[conn[c].room] # {} /\ conn[c].room = current
    <3>1. PICK d \in members[current] : d # c
      BY <1>1, <1>17, <2>3 DEF TypeOK, At, RemoveClient
    <3>2. Holds(d)
      BY <1>1, <1>17, <2>3, <3>1 DEF Membership, Present, Holds, At, RemoveClient, TypeOK
    <3> QED
      BY <1>1, <1>17, <3>1, <3>2 DEF Held, Holds, At, Conn, RemoveClient
  <2> QED
    BY <2>1, <2>2, <2>3
<1>18. ASSUME NEW c \in Conns, DropRoom(c)
      PROVE  Goal
  BY <1>1, <1>18 DEF Held, Holds, At, Conn, DropRoom, Goto
<1>19. ASSUME NEW c \in Conns, DeletePresence(c)
      PROVE  Goal
  BY <1>1, <1>19 DEF Held, Holds, At, Conn, DeletePresence, Goto
<1>20. ASSUME NEW c \in Conns, CloseSend(c)
      PROVE  Goal
  BY <1>1, <1>20 DEF Held, Holds, At, Conn, CloseSend, Goto
<1>21. ASSUME NEW c \in Conns, WritePump(c)
      PROVE  Goal
  BY <1>1, <1>21 DEF Held, Holds, At, Conn, WritePump
<1>22. ASSUME ExpirePresence
      PROVE  Goal
  BY <1>1, <1>22 DEF Held, Holds, At, Conn, ExpirePresence
<1>23. ASSUME UNCHANGED vars
      PROVE  Goal
  BY <1>1, <1>23 DEF Held, Holds, At, Conn, vars
<1> HIDE DEF Goal
<1>q. Goal
  BY <1>2, <1>3, <1>4, <1>5, <1>6, <1>7, <1>8, <1>9, <1>10, <1>11, <1>12, <1>13, <1>14,
     <1>15, <1>16, <1>17, <1>18, <1>19, <1>20, <1>21, <1>22, <1>23
  DEF Next, Handshake, ReadPump, Cleanup
<1> QED
  BY <1>q DEF Goal

\* RoomFreed holds whatever races and whatever fails.
THEOREM FreedTheorem == Spec => []RoomFreed
<1>1. Held => RoomFreed
  BY DEF Held, Holds, RoomFreed
<1> QED
  BY <1>1, TypeInit, TypeStep, MembershipInit, MembershipStep, HeldInit, HeldStep, PTL
  DEF Spec

------------------------------------------------------------------------------
(* One room, and no panic, while joins and leaves keep apart.              *)

\* Nobody holds a room other than the table's, and when a room is about to be
\* dropped nobody is in it.
Together ==
  Apart =>
    /\ \A c, d \in Conns : ~ (Joining(c) /\ Leaving(d))
    /\ \A c \in Conns : Joined(c) => Present(c)
    /\ \A c \in Conns : At(c, "add") \/ At(c, "cast") => conn[c].room = current
    /\ \A c, d \in Conns : At(c, "drop") => ~ Present(d)

LEMMA TogetherInit == Init => Together
BY DEF Init, Together, Off, Joining, Leaving, Joined, At

\* The room a broadcast holds is the table's, which no closed connection is in.
LEMMA NoPanicFollows ==
  ASSUME TypeOK, Membership, Together
  PROVE  NoPanic
BY DEF TypeOK, Membership, Together, NoPanic, Joined, Present, Audience, At

LEMMA TogetherStep ==
  ASSUME TypeOK, Membership, Together, [Next]_vars
  PROVE  Together'
<1> DEFINE Goal == Together'
<1>1. conn \in [Conns -> Conn] /\ members \in [Rooms -> SUBSET Conns]
      /\ current \in Rooms \cup {NoRoom} /\ closed \subseteq Conns /\ NoRoom \notin Rooms
  BY CollabAssumption DEF TypeOK
<1>2. ASSUME NEW c \in Conns, NEW u \in Users, Connect(c, u)
      PROVE  Goal
  BY <1>1, <1>2
  DEF Together, Membership, Apart, Joining, Leaving, Joined, Present, At, Conn, Connect
<1>3. ASSUME NEW c \in Conns, Enter(c)
      PROVE  Goal
  BY <1>1, <1>3
  DEF Together, Membership, Apart, Joining, Leaving, Joined, Present, At, Conn, Enter,
      GetOrCreateRoom, Garbage
<1>4. ASSUME NEW c \in Conns, AddClient(c)
      PROVE  Goal
  <2>1. /\ members' = [members EXCEPT ![conn[c].room] = @ \cup {c}] /\ UNCHANGED <<current, faults>>
        /\ At(c, "add") /\ conn[c].room \in Rooms
    BY <1>4 DEF AddClient, At, TypeOK
  <2>2. conn' = [conn EXCEPT ![c].at = "load", ![c].room = NoRoom] /\ conn[c] \in Conn
    BY <1>4 DEF AddClient, TypeOK
  <2>3. \A d \in Conns \ {c} : conn'[d] = conn[d]
    BY <1>1, <2>2
  <2>4. conn'[c].at = "load" /\ conn'[c].why = conn[c].why
    BY <1>1, <2>2 DEF Conn
  <2>5. Apart => conn[c].room = current /\ Present(c)' /\ \A d \in Conns : ~ At(d, "drop")
    BY <1>1, <2>1, <1>4 DEF Together, Present, Joining, Leaving, Apart, At
  <2>6. \A d \in Conns : Present(d) => Present(d)'
    BY <1>1, <2>1 DEF Present
  <2> QED
    BY <1>1, <2>1, <2>3, <2>4, <2>5, <2>6 DEF Together, Apart, Joining, Leaving, Joined, At
<1>5. ASSUME NEW c \in Conns, LoadDocument(c)
      PROVE  Goal
  BY <1>1, <1>5
  DEF Together, Membership, Apart, Joining, Leaving, Joined, Present, At, Conn,
      LoadDocument, Goto
<1>6. ASSUME NEW c \in Conns, SendState(c)
      PROVE  Goal
  BY <1>1, <1>6
  DEF Together, Membership, Apart, Joining, Leaving, Joined, Present, At, Conn, SendState
<1>7. ASSUME NEW c \in Conns, PresenceSnapshot(c)
      PROVE  Goal
  BY <1>1, <1>7
  DEF Together, Membership, Apart, Joining, Leaving, Joined, Present, At, Conn,
      PresenceSnapshot, Goto
<1>8. ASSUME NEW c \in Conns, NEW u \in Updates, ReceiveUpdate(c, u)
      PROVE  Goal
  BY <1>1, <1>8
  DEF Together, Membership, Apart, Joining, Leaving, Joined, Present, At, Conn,
      ReceiveUpdate
<1>9. ASSUME NEW c \in Conns, PersistDocument(c)
      PROVE  Goal
  BY <1>1, <1>9
  DEF Together, Membership, Apart, Joining, Leaving, Joined, Present, At, Conn,
      PersistDocument
<1>10. ASSUME NEW c \in Conns, UpdatePresence(c)
      PROVE  Goal
  BY <1>1, <1>10
  DEF Together, Membership, Apart, Joining, Leaving, Joined, Present, At, Conn,
      UpdatePresence
<1>11. ASSUME NEW c \in Conns, FindRoom(c)
      PROVE  Goal
  BY <1>1, <1>11
  DEF Together, Membership, Apart, Joining, Leaving, Joined, Present, At, Conn, FindRoom,
      GetOrCreateRoom, Garbage
<1>12. ASSUME NEW c \in Conns, Broadcast(c)
      PROVE  Goal
  BY <1>1, <1>12
  DEF Together, Membership, Apart, Joining, Leaving, Joined, Present, At, Conn, Broadcast
<1>13. ASSUME NEW c \in Conns, Panic(c)
      PROVE  Goal
  BY <1>13, NoPanicFollows DEF NoPanic, Panic, Together, Apart
<1>14. ASSUME NEW c \in Conns, ReadError(c)
      PROVE  Goal
  BY <1>1, <1>14
  DEF Together, Membership, Apart, Joining, Leaving, Joined, Present, At, Conn, ReadError,
      Goto
<1>15. ASSUME NEW c \in Conns, RemovePresence(c)
      PROVE  Goal
  BY <1>1, <1>15
  DEF Together, Membership, Apart, Joining, Leaving, Joined, Present, At, Conn,
      RemovePresence, Goto
<1>16. ASSUME NEW c \in Conns, LeaveFind(c)
      PROVE  Goal
  BY <1>1, <1>16
  DEF Together, Membership, Apart, Joining, Leaving, Joined, Present, At, Conn, LeaveFind,
      GetOrCreateRoom, Garbage
<1>17. ASSUME NEW c \in Conns, RemoveClient(c)
      PROVE  Goal
  BY <1>1, <1>17
  DEF Together, Membership, Apart, Joining, Leaving, Joined, Present, At, Conn, RemoveClient
<1>18. ASSUME NEW c \in Conns, DropRoom(c)
      PROVE  Goal
  BY <1>1, <1>18
  DEF Together, Membership, Apart, Joining, Leaving, Joined, Present, At, Conn, DropRoom,
      Goto
<1>19. ASSUME NEW c \in Conns, DeletePresence(c)
      PROVE  Goal
  BY <1>1, <1>19
  DEF Together, Membership, Apart, Joining, Leaving, Joined, Present, At, Conn,
      DeletePresence, Goto
<1>20. ASSUME NEW c \in Conns, CloseSend(c)
      PROVE  Goal
  BY <1>1, <1>20
  DEF Together, Membership, Apart, Joining, Leaving, Joined, Present, At, Conn, CloseSend,
      Goto
<1>21. ASSUME NEW c \in Conns, WritePump(c)
      PROVE  Goal
  BY <1>1, <1>21
  DEF Together, Membership, Apart, Joining, Leaving, Joined, Present, At, Conn, WritePump
<1>22. ASSUME ExpirePresence
      PROVE  Goal
  BY <1>1, <1>22
  DEF Together, Membership, Apart, Joining, Leaving, Joined, Present, At, Conn,
      ExpirePresence
<1>23. ASSUME UNCHANGED vars
      PROVE  Goal
  BY <1>1, <1>23
  DEF Together, Membership, Apart, Joining, Leaving, Joined, Present, At, Conn, vars
<1> HIDE DEF Goal
<1>q. Goal
  BY <1>2, <1>3, <1>4, <1>5, <1>6, <1>7, <1>8, <1>9, <1>10, <1>11, <1>12, <1>13, <1>14,
     <1>15, <1>16, <1>17, <1>18, <1>19, <1>20, <1>21, <1>22, <1>23
  DEF Next, Handshake, ReadPump, Cleanup
<1> QED
  BY <1>q DEF Goal

\* OneRoom: the two locks of Leave are harmless as long as nobody joins between them.
THEOREM OneRoomTheorem == Spec => []OneRoom
<1>1. Together => OneRoom
  BY DEF Together, OneRoom
<1> QED
  BY <1>1, TypeInit, TypeStep, MembershipInit, MembershipStep, TogetherInit, TogetherStep,
     PTL DEF Spec

\* NoPanic: then no broadcast meets a closed channel either.
THEOREM NoPanicTheorem == Spec => []NoPanic
BY NoPanicFollows, TypeInit, TypeStep, MembershipInit, MembershipStep, TogetherInit,
   TogetherStep, PTL DEF Spec

------------------------------------------------------------------------------
(* Presence without ghosts.                                                *)

\* A connection between its first presence update and its HDEL.
Listed(c) ==
  \/ conn[c].at \in LoopSteps \cup {"forget"}
  \/ conn[c].at \in {"find", "cast"} /\ conn[c].why \in {"relay", "presence"}

\* While Redis answers, each user in the hash has such a connection.
Listing ==
  ~ MayFail => \A u \in online : \E c \in Conns : conn[c].user = u /\ Listed(c)

LEMMA ListingInit == Init => Listing
BY DEF Init, Listing

LEMMA ListingStep ==
  ASSUME TypeOK, Listing, [Next]_vars
  PROVE  Listing'
<1> DEFINE Goal == Listing'
<1>1. conn \in [Conns -> Conn] /\ members \in [Rooms -> SUBSET Conns]
      /\ current \in Rooms \cup {NoRoom} /\ closed \subseteq Conns /\ NoRoom \notin Rooms
  BY CollabAssumption DEF TypeOK
<1>2. ASSUME NEW c \in Conns, NEW u \in Users, Connect(c, u)
      PROVE  Goal
  BY <1>1, <1>2 DEF Listing, Listed, MayFail, At, Conn, Connect
<1>3. ASSUME NEW c \in Conns, Enter(c)
      PROVE  Goal
  BY <1>1, <1>3 DEF Listing, Listed, MayFail, At, Conn, Enter, GetOrCreateRoom, Garbage
<1>4. ASSUME NEW c \in Conns, AddClient(c)
      PROVE  Goal
  BY <1>1, <1>4 DEF Listing, Listed, MayFail, At, Conn, AddClient
<1>5. ASSUME NEW c \in Conns, LoadDocument(c)
      PROVE  Goal
  BY <1>1, <1>5 DEF Listing, Listed, MayFail, At, Conn, LoadDocument, Goto
<1>6. ASSUME NEW c \in Conns, SendState(c)
      PROVE  Goal
  BY <1>1, <1>6 DEF Listing, Listed, MayFail, At, Conn, SendState
<1>7. ASSUME NEW c \in Conns, PresenceSnapshot(c)
      PROVE  Goal
  BY <1>1, <1>7 DEF Listing, Listed, MayFail, At, Conn, PresenceSnapshot, Goto
<1>8. ASSUME NEW c \in Conns, NEW u \in Updates, ReceiveUpdate(c, u)
      PROVE  Goal
  BY <1>1, <1>8 DEF Listing, Listed, MayFail, At, Conn, ReceiveUpdate
<1>9. ASSUME NEW c \in Conns, PersistDocument(c)
      PROVE  Goal
  BY <1>1, <1>9 DEF Listing, Listed, MayFail, At, Conn, PersistDocument
<1>10. ASSUME NEW c \in Conns, UpdatePresence(c)
      PROVE  Goal
  BY <1>1, <1>10 DEF Listing, Listed, MayFail, At, Conn, UpdatePresence
<1>11. ASSUME NEW c \in Conns, FindRoom(c)
      PROVE  Goal
  BY <1>1, <1>11 DEF Listing, Listed, MayFail, At, Conn, FindRoom, GetOrCreateRoom, Garbage
<1>12. ASSUME NEW c \in Conns, Broadcast(c)
      PROVE  Goal
  BY <1>1, <1>12 DEF Listing, Listed, MayFail, At, Conn, Broadcast
<1>13. ASSUME NEW c \in Conns, Panic(c)
      PROVE  Goal
  BY <1>1, <1>13 DEF Listing, Listed, MayFail, At, Conn, Panic
<1>14. ASSUME NEW c \in Conns, ReadError(c)
      PROVE  Goal
  BY <1>1, <1>14 DEF Listing, Listed, MayFail, At, Conn, ReadError, Goto
<1>15. ASSUME NEW c \in Conns, RemovePresence(c)
      PROVE  Goal
  BY <1>1, <1>15 DEF Listing, Listed, MayFail, At, Conn, RemovePresence, Goto
<1>16. ASSUME NEW c \in Conns, LeaveFind(c)
      PROVE  Goal
  BY <1>1, <1>16 DEF Listing, Listed, MayFail, At, Conn, LeaveFind, GetOrCreateRoom, Garbage
<1>17. ASSUME NEW c \in Conns, RemoveClient(c)
      PROVE  Goal
  <2>1. PICK s \in {"drop", "hdel"} : conn' = [conn EXCEPT ![c].at = s, ![c].room = NoRoom]
    BY <1>17 DEF RemoveClient
  <2>2. At(c, "remove") /\ UNCHANGED <<faults, online>>
    BY <1>17 DEF RemoveClient
  <2> QED
    BY <1>1, <2>1, <2>2 DEF Listing, Listed, MayFail, At, Conn
<1>18. ASSUME NEW c \in Conns, DropRoom(c)
      PROVE  Goal
  BY <1>1, <1>18 DEF Listing, Listed, MayFail, At, Conn, DropRoom, Goto
<1>19. ASSUME NEW c \in Conns, DeletePresence(c)
      PROVE  Goal
  BY <1>1, <1>19 DEF Listing, Listed, MayFail, At, Conn, DeletePresence, Goto
<1>20. ASSUME NEW c \in Conns, CloseSend(c)
      PROVE  Goal
  BY <1>1, <1>20 DEF Listing, Listed, MayFail, At, Conn, CloseSend, Goto
<1>21. ASSUME NEW c \in Conns, WritePump(c)
      PROVE  Goal
  BY <1>1, <1>21 DEF Listing, Listed, MayFail, At, Conn, WritePump
<1>22. ASSUME ExpirePresence
      PROVE  Goal
  BY <1>1, <1>22 DEF Listing, Listed, MayFail, At, Conn, ExpirePresence
<1>23. ASSUME UNCHANGED vars
      PROVE  Goal
  BY <1>1, <1>23 DEF Listing, Listed, MayFail, At, Conn, vars
<1> HIDE DEF Goal
<1>q. Goal
  BY <1>2, <1>3, <1>4, <1>5, <1>6, <1>7, <1>8, <1>9, <1>10, <1>11, <1>12, <1>13, <1>14,
     <1>15, <1>16, <1>17, <1>18, <1>19, <1>20, <1>21, <1>22, <1>23
  DEF Next, Handshake, ReadPump, Cleanup
<1> QED
  BY <1>q DEF Goal

\* GhostFree: every user in the hash has a connection that will remove it.
THEOREM GhostTheorem == Spec => []GhostFree
<1>1. Listing => GhostFree
  BY DEF Listing, Listed, GhostFree
<1> QED
  BY <1>1, TypeInit, TypeStep, ListingInit, ListingStep, PTL DEF Spec

------------------------------------------------------------------------------
(* A joiner misses no update.                                              *)

\* While nothing fails and nobody leaves during a join: what is relayed is in the
\* document, what is being relayed too, and a joiner between its read of the
\* document and the send of it has every relayed update in one or the other.
Relaying ==
  faults = {} =>
    /\ \A c \in Conns : At(c, "persist") \/ conn[c].why = "relay" => c \in sender[conn[c].update]
    /\ \A c \in Conns : conn[c].why = "relay" => At(c, "find") \/ At(c, "cast")
    /\ \A c \in Conns : conn[c].why = "relay" => conn[c].update \in Chunks
    /\ relayed \subseteq Chunks
    /\ \A c \in Conns : At(c, "state") => relayed \subseteq conn[c].seen \cup offered[c]
    /\ \A c \in Conns, u \in relayed :
         (Joined(c) /\ conn[c].at \notin {"load", "state"}) => (u \in offered[c] \/ c \in sender[u])

LEMMA RelayingInit == Init => Relaying
BY DEF Init, Relaying, Off, At, Joined, Chunks

\* An append adds its chunk and keeps the others.
LEMMA AppendChunks ==
  ASSUME log \in Seq(Updates), NEW u \in Updates, log' = Append(log, u)
  PROVE  Chunks \subseteq Chunks' /\ u \in Chunks'
<1>1. DOMAIN log = 1 .. Len(log) /\ DOMAIN log' = 1 .. Len(log) + 1 /\ Len(log) \in Nat
  OBVIOUS
<1>2. log'[Len(log) + 1] = u /\ \A i \in 1 .. Len(log) : log'[i] = log[i]
  OBVIOUS
<1>3. 1 .. Len(log) \subseteq 1 .. Len(log) + 1 /\ Len(log) + 1 \in 1 .. Len(log) + 1
  BY <1>1
<1> QED
  BY <1>1, <1>2, <1>3 DEF Chunks

LEMMA RelayingStep ==
  ASSUME TypeOK, Membership, Together, Relaying, [Next]_vars
  PROVE  Relaying'
<1> DEFINE Goal == Relaying'
<1>1. conn \in [Conns -> Conn] /\ members \in [Rooms -> SUBSET Conns]
      /\ current \in Rooms \cup {NoRoom} /\ closed \subseteq Conns /\ NoRoom \notin Rooms
  BY CollabAssumption DEF TypeOK
<1>c. log' = log => Chunks' = Chunks
  BY DEF Chunks
<1>2. ASSUME NEW c \in Conns, NEW u \in Users, Connect(c, u)
      PROVE  Goal
  BY <1>1, <1>2, <1>c DEF Relaying, history, MayFail, Joined, At, Conn, Connect
<1>3. ASSUME NEW c \in Conns, Enter(c)
      PROVE  Goal
  BY <1>1, <1>3, <1>c
  DEF Relaying, history, MayFail, Joined, At, Conn, Enter, GetOrCreateRoom, Garbage
<1>4. ASSUME NEW c \in Conns, AddClient(c)
      PROVE  Goal
  BY <1>1, <1>4, <1>c DEF Relaying, history, MayFail, Joined, At, Conn, AddClient
<1>5. ASSUME NEW c \in Conns, LoadDocument(c)
      PROVE  Goal
  <2>1. CASE faults # {}
    BY <1>5, <2>1 DEF LoadDocument, Relaying
  <2>2. CASE Goto(c, "refused")
    BY <1>1, <1>c, <1>5, <2>2 DEF Relaying, history, Joined, At, Conn, LoadDocument, Goto
  <2>3. CASE conn' = [conn EXCEPT ![c].at = IF log = <<>> THEN "hello" ELSE "state",
                                  ![c].seen = Chunks]
    <3>1. log = <<>> => Chunks = {}
      BY DEF Chunks
    <3>2. \A d \in Conns \ {c} : conn'[d] = conn[d]
      BY <1>1, <2>3
    <3>3. /\ conn'[c].at \in {"hello", "state"} /\ conn'[c].seen = Chunks
          /\ conn'[c].at = "hello" => log = <<>>
          /\ conn'[c].why = conn[c].why /\ conn'[c].update = conn[c].update
      BY <1>1, <2>3 DEF Conn
    <3> QED
      BY <1>1, <1>c, <1>5, <3>1, <3>2, <3>3 DEF Relaying, history, Joined, At, LoadDocument
  <2> QED
    BY <1>5, <2>2, <2>3 DEF LoadDocument
<1>6. ASSUME NEW c \in Conns, SendState(c)
      PROVE  Goal
  BY <1>1, <1>6, <1>c DEF Relaying, history, MayFail, Joined, At, Conn, SendState
<1>7. ASSUME NEW c \in Conns, PresenceSnapshot(c)
      PROVE  Goal
  BY <1>1, <1>7, <1>c
  DEF Relaying, history, MayFail, Joined, At, Conn, PresenceSnapshot, Goto
<1>8. ASSUME NEW c \in Conns, NEW u \in Updates, ReceiveUpdate(c, u)
      PROVE  Goal
  <2>1. sender'[u] = {c} /\ \A v \in Updates : sender[v] \subseteq sender'[v]
    BY <1>8 DEF TypeOK, ReceiveUpdate
  <2>2. \A d \in Conns \ {c} : conn'[d] = conn[d]
    BY <1>1, <1>8 DEF ReceiveUpdate
  <2>3. /\ At(c, "serve") /\ conn'[c].at = "persist"
        /\ conn'[c].update = u /\ conn'[c].why = conn[c].why
    BY <1>1, <1>8 DEF ReceiveUpdate, At, Conn
  <2>4. relayed \subseteq Updates
        /\ \A d \in Conns : At(d, "persist") \/ conn[d].why = "relay" => conn[d].update \in Updates
    BY DEF TypeOK
  <2>5. UNCHANGED <<faults, log, relayed, offered>>
    BY <1>8 DEF ReceiveUpdate
  <2> QED
    BY <1>1, <1>c, <2>1, <2>2, <2>3, <2>4, <2>5 DEF Relaying, Joined, At
<1>9. ASSUME NEW c \in Conns, PersistDocument(c)
      PROVE  Goal
  <2>1. CASE faults # {}
    BY <1>9, <2>1 DEF PersistDocument, Relaying
  <2>2. CASE faults = {}
    <3>1. Chunks \subseteq Chunks' /\ conn[c].update \in Chunks'
      BY <1>9, <2>2, AppendChunks DEF TypeOK, PersistDocument, At, MayFail
    <3>2. \A d \in Conns \ {c} : conn'[d] = conn[d]
      BY <1>1, <1>9 DEF PersistDocument
    <3>3. /\ At(c, "persist") /\ conn'[c].at = "find" /\ conn'[c].why = "relay"
          /\ conn'[c].update = conn[c].update
      BY <1>1, <1>9 DEF PersistDocument, At, Conn
    <3>4. UNCHANGED <<faults, relayed, offered, sender>>
      BY <1>9 DEF PersistDocument, history
    <3> QED
      BY <1>1, <2>2, <3>1, <3>2, <3>3, <3>4 DEF Relaying, Joined, At
  <2> QED
    BY <2>1, <2>2
<1>10. ASSUME NEW c \in Conns, UpdatePresence(c)
      PROVE  Goal
  BY <1>1, <1>10, <1>c DEF Relaying, history, MayFail, Joined, At, Conn, UpdatePresence
<1>11. ASSUME NEW c \in Conns, FindRoom(c)
      PROVE  Goal
  BY <1>1, <1>11, <1>c
  DEF Relaying, history, MayFail, Joined, At, Conn, FindRoom, GetOrCreateRoom, Garbage
<1>12. ASSUME NEW c \in Conns, Broadcast(c)
      PROVE  Goal
  <2>1. CASE faults # {}
    BY <1>12, <2>1 DEF Broadcast, Relaying
  <2>2. CASE faults = {}
    <3>1. \A d \in Conns : Joined(d) /\ d # c => d \in Audience(c)
      BY <1>12, <2>2 DEF Together, Apart, Present, Audience, Broadcast
    <3>2. \A d \in Conns :
            (offered[d] \subseteq offered'[d])
            /\ (d \in Audience(c) /\ conn[c].why = "relay" => conn[c].update \in offered'[d])
      BY <1>12 DEF TypeOK, Broadcast, Deliver
    <3>3. relayed' \subseteq relayed \cup (IF conn[c].why = "relay" THEN {conn[c].update} ELSE {})
      BY <1>12 DEF Broadcast
    <3>4. \A d \in Conns \ {c} : conn'[d] = conn[d]
      BY <1>1, <1>12 DEF Broadcast
    <3>5. At(c, "cast") /\ conn'[c].at \in {"leave", "serve"} /\ conn'[c].why = "hello"
      BY <1>1, <1>12 DEF Broadcast, At, Conn
    <3>6. faults' = faults /\ log' = log /\ sender' = sender
      BY <1>12 DEF Broadcast
    <3>7. conn[c].why = "relay" => conn[c].update \in Chunks /\ c \in sender[conn[c].update]
      BY <2>2 DEF Relaying
    <3>8. \A d \in Conns : (At(d, "persist") \/ conn[d].why = "relay")'
                            => d # c /\ (At(d, "persist") \/ conn[d].why = "relay")
      BY <3>4, <3>5 DEF At
    <3>9. relayed' \subseteq Chunks'
      BY <1>c, <2>2, <3>3, <3>6, <3>7 DEF Relaying
    <3>10. ASSUME NEW d \in Conns, At(d, "state")'
           PROVE  relayed' \subseteq conn'[d].seen \cup offered'[d]
      <4>1. d # c /\ At(d, "state") /\ Joined(d) /\ conn'[d] = conn[d]
        BY <3>4, <3>5, <3>10 DEF At, Joined
      <4>2. relayed \subseteq conn[d].seen \cup offered[d]
        BY <2>2, <4>1 DEF Relaying
      <4> QED
        BY <3>1, <3>2, <3>3, <4>1, <4>2
    <3>11. ASSUME NEW d \in Conns, NEW u \in relayed',
                  (Joined(d) /\ conn[d].at \notin {"load", "state"})'
           PROVE  u \in offered'[d] \/ d \in sender'[u]
      <4>1. Joined(d) /\ conn[d].at \notin {"load", "state"}
        BY <3>4, <3>5, <3>11 DEF At, Joined
      <4>2. CASE u \in relayed
        <5>1. u \in offered[d] \/ d \in sender[u]
          BY <2>2, <4>1, <4>2 DEF Relaying, Joined, At
        <5>2. sender'[u] = sender[u] /\ offered[d] \subseteq offered'[d]
          BY <3>2, <3>6
        <5> QED
          BY <5>1, <5>2
      <4>3. CASE u \notin relayed
        <5>1. u = conn[c].update /\ conn[c].why = "relay"
          BY <3>3, <4>3
        <5>2. CASE d = c
          BY <3>6, <3>7, <5>1, <5>2
        <5>3. CASE d # c
          BY <3>1, <3>2, <4>1, <5>1, <5>3
        <5> QED
          BY <5>2, <5>3
      <4> QED
        BY <4>2, <4>3
    <3> QED
      BY <1>c, <2>2, <3>4, <3>6, <3>8, <3>9, <3>10, <3>11 DEF Relaying, At
  <2> QED
    BY <2>1, <2>2
<1>13. ASSUME NEW c \in Conns, Panic(c)
      PROVE  Goal
  BY <1>13, NoPanicFollows DEF NoPanic, Panic, Apart, Relaying
<1>14. ASSUME NEW c \in Conns, ReadError(c)
      PROVE  Goal
  BY <1>1, <1>14, <1>c DEF Relaying, history, MayFail, Joined, At, Conn, ReadError, Goto
<1>15. ASSUME NEW c \in Conns, RemovePresence(c)
      PROVE  Goal
  BY <1>1, <1>15, <1>c
  DEF Relaying, history, MayFail, Joined, At, Conn, RemovePresence, Goto
<1>16. ASSUME NEW c \in Conns, LeaveFind(c)
      PROVE  Goal
  BY <1>1, <1>16, <1>c
  DEF Relaying, history, MayFail, Joined, At, Conn, LeaveFind, GetOrCreateRoom, Garbage
<1>17. ASSUME NEW c \in Conns, RemoveClient(c)
      PROVE  Goal
  BY <1>1, <1>17, <1>c DEF Relaying, history, MayFail, Joined, At, Conn, RemoveClient
<1>18. ASSUME NEW c \in Conns, DropRoom(c)
      PROVE  Goal
  BY <1>1, <1>18, <1>c DEF Relaying, history, MayFail, Joined, At, Conn, DropRoom, Goto
<1>19. ASSUME NEW c \in Conns, DeletePresence(c)
      PROVE  Goal
  BY <1>1, <1>19, <1>c
  DEF Relaying, history, MayFail, Joined, At, Conn, DeletePresence, Goto
<1>20. ASSUME NEW c \in Conns, CloseSend(c)
      PROVE  Goal
  BY <1>1, <1>20, <1>c DEF Relaying, history, MayFail, Joined, At, Conn, CloseSend, Goto
<1>21. ASSUME NEW c \in Conns, WritePump(c)
      PROVE  Goal
  BY <1>1, <1>21, <1>c DEF Relaying, history, MayFail, Joined, At, Conn, WritePump
<1>22. ASSUME ExpirePresence
      PROVE  Goal
  BY <1>1, <1>22, <1>c DEF Relaying, history, MayFail, Joined, At, Conn, ExpirePresence
<1>23. ASSUME UNCHANGED vars
      PROVE  Goal
  BY <1>1, <1>23, <1>c DEF Relaying, history, MayFail, Joined, At, Conn, vars
<1> HIDE DEF Goal
<1>q. Goal
  BY <1>2, <1>3, <1>4, <1>5, <1>6, <1>7, <1>8, <1>9, <1>10, <1>11, <1>12, <1>13, <1>14,
     <1>15, <1>16, <1>17, <1>18, <1>19, <1>20, <1>21, <1>22, <1>23
  DEF Next, Handshake, ReadPump, Cleanup
<1> QED
  BY <1>q DEF Goal

\* RelayComplete: the order of Join, load, append and relay leaves no gap.
THEOREM RelayTheorem == Spec => []RelayComplete
<1>1. Relaying => RelayComplete
  BY DEF Relaying, RelayComplete
<1> QED
  BY <1>1, TypeInit, TypeStep, MembershipInit, MembershipStep, TogetherInit, TogetherStep,
     RelayingInit, RelayingStep, PTL DEF Spec

------------------------------------------------------------------------------
(* Who is refused.                                                         *)

\* Redis answers, and a connection is refused all the same: then a chunk of the
\* document ends in padding and another one follows it.
RefusedForPadding ==
  ~ MayFail => \A c \in Conns : At(c, "refused") => ~ Decodes(log)

\* What cannot be decoded never can again: chunks are only appended.
LEMMA AppendUndecodable ==
  ASSUME log \in Seq(Updates), NEW u \in Updates, Decodes(Append(log, u))
  PROVE  Decodes(log)
<1> DEFINE long == Append(log, u)
<1>1. Len(log) \in Nat /\ Len(long) = Len(log) + 1
  OBVIOUS
<1>2. ASSUME NEW i \in DOMAIN log, log[i] \in Padded
      PROVE  FALSE
  <2>1. i \in 1 .. Len(log) /\ i \in DOMAIN long /\ long[i] = log[i]
    OBVIOUS
  <2>2. i = Len(long)
    BY <1>2, <2>1 DEF Decodes
  <2> QED
    BY <1>1, <2>1, <2>2
<1> QED
  BY <1>2 DEF Decodes

LEMMA RefusedInit == Init => RefusedForPadding
BY DEF Init, RefusedForPadding, At, Off

LEMMA RefusedStep ==
  ASSUME TypeOK, RefusedForPadding, [Next]_vars
  PROVE  RefusedForPadding'
<1> DEFINE Goal == RefusedForPadding'
<1>1. conn \in [Conns -> Conn] /\ log \in Seq(Updates)
  BY DEF TypeOK
<1>2. ASSUME NEW c \in Conns, NEW u \in Users, Connect(c, u)
      PROVE  Goal
  BY <1>1, <1>2 DEF RefusedForPadding, MayFail, At, Conn, Connect
<1>3. ASSUME NEW c \in Conns, Enter(c)
      PROVE  Goal
  BY <1>1, <1>3 DEF RefusedForPadding, MayFail, At, Conn, Enter, GetOrCreateRoom
<1>4. ASSUME NEW c \in Conns, AddClient(c)
      PROVE  Goal
  BY <1>1, <1>4 DEF RefusedForPadding, MayFail, At, Conn, AddClient
<1>5. ASSUME NEW c \in Conns, LoadDocument(c)
      PROVE  Goal
  BY <1>1, <1>5 DEF RefusedForPadding, MayFail, At, Conn, LoadDocument, Goto
<1>6. ASSUME NEW c \in Conns, SendState(c)
      PROVE  Goal
  BY <1>1, <1>6 DEF RefusedForPadding, MayFail, At, Conn, SendState
<1>7. ASSUME NEW c \in Conns, PresenceSnapshot(c)
      PROVE  Goal
  BY <1>1, <1>7 DEF RefusedForPadding, MayFail, At, Conn, PresenceSnapshot, Goto
<1>8. ASSUME NEW c \in Conns, NEW u \in Updates, ReceiveUpdate(c, u)
      PROVE  Goal
  BY <1>1, <1>8 DEF RefusedForPadding, MayFail, At, Conn, ReceiveUpdate
<1>9. ASSUME NEW c \in Conns, PersistDocument(c)
      PROVE  Goal
  <2>1. log' = log \/ (log' = Append(log, conn[c].update) /\ conn[c].update \in Updates)
    BY <1>9 DEF TypeOK, At, PersistDocument
  <2>2. Decodes(log') => Decodes(log)
    BY <1>1, <2>1, AppendUndecodable
  <2> QED
    BY <1>1, <1>9, <2>2 DEF RefusedForPadding, MayFail, At, Conn, PersistDocument
<1>10. ASSUME NEW c \in Conns, UpdatePresence(c)
      PROVE  Goal
  BY <1>1, <1>10 DEF RefusedForPadding, MayFail, At, Conn, UpdatePresence
<1>11. ASSUME NEW c \in Conns, FindRoom(c)
      PROVE  Goal
  BY <1>1, <1>11 DEF RefusedForPadding, MayFail, At, Conn, FindRoom, GetOrCreateRoom
<1>12. ASSUME NEW c \in Conns, Broadcast(c)
      PROVE  Goal
  BY <1>1, <1>12 DEF RefusedForPadding, MayFail, At, Conn, Broadcast
<1>13. ASSUME NEW c \in Conns, Panic(c)
      PROVE  Goal
  BY <1>1, <1>13 DEF RefusedForPadding, MayFail, At, Conn, Panic
<1>14. ASSUME NEW c \in Conns, ReadError(c)
      PROVE  Goal
  BY <1>1, <1>14 DEF RefusedForPadding, MayFail, At, Conn, ReadError, Goto
<1>15. ASSUME NEW c \in Conns, RemovePresence(c)
      PROVE  Goal
  BY <1>1, <1>15 DEF RefusedForPadding, MayFail, At, Conn, RemovePresence, Goto
<1>16. ASSUME NEW c \in Conns, LeaveFind(c)
      PROVE  Goal
  BY <1>1, <1>16 DEF RefusedForPadding, MayFail, At, Conn, LeaveFind, GetOrCreateRoom
<1>17. ASSUME NEW c \in Conns, RemoveClient(c)
      PROVE  Goal
  <2>1. PICK s \in {"drop", "hdel"} : conn' = [conn EXCEPT ![c].at = s, ![c].room = NoRoom]
    BY <1>17 DEF RemoveClient
  <2>2. At(c, "remove") /\ UNCHANGED <<faults, log>>
    BY <1>17 DEF RemoveClient
  <2> QED
    BY <1>1, <2>1, <2>2 DEF RefusedForPadding, MayFail, At, Conn
<1>18. ASSUME NEW c \in Conns, DropRoom(c)
      PROVE  Goal
  BY <1>1, <1>18 DEF RefusedForPadding, MayFail, At, Conn, DropRoom, Goto
<1>19. ASSUME NEW c \in Conns, DeletePresence(c)
      PROVE  Goal
  BY <1>1, <1>19 DEF RefusedForPadding, MayFail, At, Conn, DeletePresence, Goto
<1>20. ASSUME NEW c \in Conns, CloseSend(c)
      PROVE  Goal
  BY <1>1, <1>20 DEF RefusedForPadding, MayFail, At, Conn, CloseSend, Goto
<1>21. ASSUME NEW c \in Conns, WritePump(c)
      PROVE  Goal
  BY <1>1, <1>21 DEF RefusedForPadding, MayFail, At, Conn, WritePump
<1>22. ASSUME ExpirePresence
      PROVE  Goal
  BY <1>1, <1>22 DEF RefusedForPadding, MayFail, At, Conn, ExpirePresence
<1>23. ASSUME UNCHANGED vars
      PROVE  Goal
  BY <1>1, <1>23 DEF RefusedForPadding, MayFail, At, Conn, vars
<1> HIDE DEF Goal
<1>q. Goal
  BY <1>2, <1>3, <1>4, <1>5, <1>6, <1>7, <1>8, <1>9, <1>10, <1>11, <1>12, <1>13, <1>14,
     <1>15, <1>16, <1>17, <1>18, <1>19, <1>20, <1>21, <1>22, <1>23
  DEF Next, Handshake, ReadPump, Cleanup
<1> QED
  BY <1>q DEF Goal

\* README.md:12 promises late joiners the full document.  While Redis answers the
\* padding in the middle of the document is the only thing in their way.
THEOREM RefusedTheorem == Spec => []RefusedForPadding
BY TypeInit, TypeStep, RefusedInit, RefusedStep, PTL DEF Spec
==============================================================================
