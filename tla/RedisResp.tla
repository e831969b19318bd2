------------------------------ MODULE RedisResp ------------------------------
(***************************************************************************)
(* The Redis client of the collaboration service: one connection that all  *)
(* goroutines share under a mutex.  A call writes its command and takes    *)
(* the first reply it can read for its own; a deadline of 5 s ends it.     *)
(* Nothing is done about what an ended call leaves in the stream, and      *)
(* nothing connects again.                                                 *)
(*                                                                         *)
(* Commands are numbered in the order they are written.  The stream of     *)
(* replies is the sequence of the pieces a reader has yet to take, each    *)
(* named by the command it belongs to: a reply is one piece until a call   *)
(* takes a part of it.                                                     *)
(***************************************************************************)
EXTENDS Naturals, Sequences, FiniteSets

CONSTANTS
  Callers,
  MaxCommands,                       \* bound on the commands written
  Rests,                             \* bound on the pieces a part of a reply leaves
  None

Failed == 0                          \* an error instead of a reply

ASSUME RedisRespAssumption == MaxCommands \in Nat /\ Rests \in Nat /\ None \notin Callers

VARIABLES
  mutex,   \* who holds Client.mu
  pc,      \* where each caller is in Do
  mine,    \* the number of its command
  answer,  \* what Do returned: the command whose reply it is
  sent,    \* how many commands were written, whole or in part
  wire,    \* the commands the server has not executed
  stream,  \* the pieces in the connection and the buffered reader
  torn,    \* the commands written in part
  down,    \* whether the connection is closed
  astray   \* whether a piece may be read that is not the reply waited for

network == <<wire, stream, torn, down>>
vars == <<mutex, pc, mine, answer, sent, wire, stream, torn, down, astray>>

\* New: the connection is made, AUTH and SELECT are answered.
Init ==
  /\ mutex = None
  /\ pc = [c \in Callers |-> "idle"]
  /\ mine = [c \in Callers |-> 0]
  /\ answer = [c \in Callers |-> Failed]
  /\ sent = 0
  /\ wire = <<>> /\ stream = <<>>
  /\ torn = {} /\ down = FALSE /\ astray = FALSE

\* A method of the repository calls Do and waits for the mutex.
Call(c) ==
  /\ pc[c] = "idle"
  /\ sent + Cardinality({d \in Callers : pc[d] = "waiting"}) < MaxCommands
  /\ pc' = [pc EXCEPT ![c] = "waiting"]
  /\ UNCHANGED <<mutex, mine, answer, sent, astray>> /\ UNCHANGED network

SendUnlocked(c) ==                   \* mutant: no mutex
  /\ pc[c] = "waiting"
  /\ mutex' = c
  /\ pc' = [pc EXCEPT ![c] = "reading"]
  /\ sent' = sent + 1
  /\ mine' = [mine EXCEPT ![c] = sent + 1]
  /\ wire' = IF down THEN wire ELSE Append(wire, sent + 1)
  /\ UNCHANGED <<answer, stream, torn, down, astray>>

\* Writing to a closed connection may go unnoticed.
Send(c) ==
  /\ pc[c] = "waiting" /\ mutex = None
  /\ mutex' = c
  /\ pc' = [pc EXCEPT ![c] = "reading"]
  /\ sent' = sent + 1
  /\ mine' = [mine EXCEPT ![c] = sent + 1]
  /\ wire' = IF down THEN wire ELSE Append(wire, sent + 1)
  /\ UNCHANGED <<answer, stream, torn, down, astray>>

\* Do returns.
Return(c, a) ==
  /\ pc' = [pc EXCEPT ![c] = "idle"]
  /\ answer' = [answer EXCEPT ![c] = a]
  /\ mutex' = None
  /\ UNCHANGED mine

\* The connection takes nothing or a part of the command before the deadline.
WriteFails(c) ==
  /\ pc[c] = "waiting" /\ mutex = None
  /\ Return(c, Failed)
  /\ \/ UNCHANGED <<sent, torn, astray>>
     \/ sent' = sent + 1 /\ torn' = torn \cup {sent + 1} /\ astray' = TRUE
  /\ UNCHANGED <<wire, stream, down>>

\* What is left of the pieces s when the first j are taken, of the last of them
\* only a part, which leaves m pieces.
Left(s, j, m) ==
  [i \in 1..(m + Len(s) - j) |-> IF i <= m THEN s[j] ELSE s[(j + i) - m]]

\* The first piece, whole or short: the body of a bulk reply is what one Read of the
\* buffered reader returns.  What is not the beginning of a reply may be taken for
\* the header of one that goes on in the next pieces.  A reply may be an error.
ReadReply(c) ==
  /\ pc[c] = "reading"
  /\ \E j \in 1..Len(stream), m \in 0..Rests :
       /\ j > 1 => astray
       /\ stream' = Left(stream, j, m)
       /\ astray' = (astray \/ m > 0)
       /\ \E a \in {stream[j], Failed} : Return(c, a)
  /\ UNCHANGED <<sent, wire, torn, down>>

TimeoutNever(c) == FALSE             \* mutant: SetDeadline is forgotten

TimeoutLocked(c) ==                  \* mutant: the mutex is not given back
  /\ pc[c] = "reading"
  /\ pc' = [pc EXCEPT ![c] = "idle"]
  /\ answer' = [answer EXCEPT ![c] = Failed]
  /\ astray' = TRUE
  /\ UNCHANGED <<mutex, mine, sent>> /\ UNCHANGED network

\* The deadline passes, or the connection is found closed.  A part may be taken.
Timeout(c) ==
  /\ pc[c] = "reading"
  /\ Return(c, Failed)
  /\ \/ UNCHANGED stream
     \/ \E j \in 1..Len(stream), m \in 0..Rests : stream' = Left(stream, j, m)
  /\ astray' = TRUE
  /\ UNCHANGED <<sent, wire, torn, down>>

\* The server answers the commands in their order.
Execute ==
  /\ wire # <<>>
  /\ stream' = Append(stream, Head(wire)) /\ wire' = Tail(wire)
  /\ UNCHANGED <<mutex, pc, mine, answer, sent, torn, down, astray>>

\* It takes a command for the rest of a torn one, which it answers when it has all.
Swallow ==
  /\ wire # <<>>
  /\ wire' = Tail(wire)
  /\ \E t \in torn : t < Head(wire) /\ stream' \in {stream, Append(stream, t)}
  /\ UNCHANGED <<mutex, pc, mine, answer, sent, torn, down, astray>>

\* The connection is closed: by the server, also because of a torn command, or by
\* the network.  Some of the replies may still be read.
Close ==
  /\ ~ down
  /\ down' = TRUE /\ wire' = <<>> /\ astray' = TRUE
  /\ \E n \in 0..Len(stream) : stream' = SubSeq(stream, 1, n)
  /\ UNCHANGED <<mutex, pc, mine, answer, sent, torn>>

Do(c) == Call(c) \/ Send(c) \/ WriteFails(c) \/ ReadReply(c) \/ Timeout(c)

Next == (\E c \in Callers : Do(c)) \/ Execute \/ Swallow \/ Close

\* The deadline is kept, and Go's mutex lets nobody starve.
Fairness ==
  \A c \in Callers : WF_vars(Timeout(c)) /\ SF_vars(Send(c) \/ WriteFails(c))

Spec == Init /\ [][Next]_vars /\ Fairness

------------------------------------------------------------------------------
(* Properties.                                                             *)

\* Type correctness; the mutex is held by the one caller who waits for a reply.
TypeOK ==
  /\ mutex \in Callers \cup {None}
  /\ pc \in [Callers -> {"idle", "waiting", "reading"}]
  /\ mine \in [Callers -> Nat] /\ answer \in [Callers -> Nat]
  /\ sent \in Nat
  /\ wire \in Seq(Nat) /\ stream \in Seq(Nat)
  /\ torn \in SUBSET Nat /\ down \in BOOLEAN /\ astray \in BOOLEAN
  /\ \A c \in Callers : pc[c] = "reading" <=> mutex = c

\* A call that returns a reply returns its own as long as no call before it timed
\* out, was torn or took a part of a reply and the connection is up; afterwards a
\* call may return the reply of any command before its own, but never one of a
\* command written later.
OwnReply ==
  [][\A c \in Callers :
       pc[c] = "reading" /\ pc'[c] = "idle" /\ answer'[c] # Failed =>
         answer'[c] <= mine[c] /\ (astray \/ answer'[c] = mine[c])]_vars

\* Whatever the server and the connection do, every call comes to an end.
CallEnds == \A c \in Callers : pc[c] = "waiting" ~> pc[c] = "idle"
==============================================================================
