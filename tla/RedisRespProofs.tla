--------------------------- MODULE RedisRespProofs ---------------------------
(***************************************************************************)
(* Theorems about RedisResp for every set of callers and all bounds.       *)
(***************************************************************************)
EXTENDS RedisResp, SequenceTheorems, TLAPS

\* No piece and no command, whole or torn, is of a number that was not written.
Known(s) == \A i \in 1..Len(s) : s[i] <= sent

\* Until something goes wrong the reply to the last command is all there is.
InStep ==
  /\ torn = {} /\ ~ down
  /\ mutex = None => stream = <<>> /\ wire = <<>>
  /\ mutex # None => \/ stream = <<sent>> /\ wire = <<>>
                     \/ stream = <<>> /\ wire = <<sent>>

PairInv ==
  /\ TypeOK
  /\ Known(stream) /\ Known(wire) /\ (\A t \in torn : t <= sent)
  /\ \A c \in Callers : mutex = c => mine[c] = sent
  /\ ~ astray => InStep

\* What is left of a sequence is made of its elements.
LEMMA LeftType ==
  ASSUME NEW s \in Seq(Nat), NEW j \in 1..Len(s), NEW m \in Nat
  PROVE  /\ Left(s, j, m) \in Seq(Nat)
         /\ Len(Left(s, j, m)) = (m + Len(s)) - j
         /\ \A i \in 1..Len(Left(s, j, m)) : \E k \in 1..Len(s) : Left(s, j, m)[i] = s[k]
<1> DEFINE n == m + Len(s) - j
           f == [i \in 1..n |-> IF i <= m THEN s[j] ELSE s[(j + i) - m]]
<1>1. Len(s) \in Nat /\ n \in Nat
  OBVIOUS
<1>2. ASSUME NEW i \in 1..n
      PROVE  \E k \in 1..Len(s) : f[i] = s[k]
  <2>1. CASE i <= m
    BY <2>1
  <2>2. CASE ~ (i <= m)
    <3>1. (j + i) - m \in 1..Len(s)
      BY <1>1, <2>2
    <3> QED
      BY <2>2, <3>1
  <2> QED
    BY <2>1, <2>2
<1>3. f \in [1..n -> Nat]
  <2>1. \A i \in 1..n : f[i] \in Nat
    BY <1>2
  <2> QED
    BY <2>1
<1>4. f \in Seq(Nat) /\ Len(f) = n
  BY <1>1, <1>3, SeqDef, LenProperties
<1> QED
  BY <1>2, <1>4 DEF Left

LEMMA LeftKnown ==
  ASSUME TypeOK, Known(stream), NEW j \in 1..Len(stream), NEW m \in 0..Rests,
         stream' = Left(stream, j, m), sent' = sent
  PROVE  stream' \in Seq(Nat) /\ Known(stream)'
<1>1. m \in Nat
  BY RedisRespAssumption
<1> QED
  BY <1>1, LeftType, ZenonT(60) DEF TypeOK, Known

\* The mutex is given back.
LEMMA ReturnFrees ==
  ASSUME PairInv, NEW c \in Callers, NEW a \in Nat, Return(c, a), mutex \in {None, c}
  PROVE  /\ mutex' = None /\ mine' = mine
         /\ pc' \in [Callers -> {"idle", "waiting", "reading"}] /\ answer' \in [Callers -> Nat]
         /\ \A d \in Callers : pc'[d] = "reading" <=> mutex' = d
         /\ \A d \in Callers : mutex' # d
BY RedisRespAssumption DEF PairInv, TypeOK, Return

LEMMA Start == ASSUME Init PROVE PairInv
<1>1. TypeOK
  <2>1. wire \in Seq(Nat) /\ stream \in Seq(Nat)
    BY EmptySeq DEF Init
  <2>2. \A c \in Callers : pc[c] = "reading" <=> mutex = c
    BY RedisRespAssumption DEF Init
  <2>3. torn \in SUBSET Nat /\ down \in BOOLEAN /\ astray \in BOOLEAN
    BY DEF Init
  <2>4. mutex \in Callers \cup {None} /\ pc \in [Callers -> {"idle", "waiting", "reading"}]
        /\ mine \in [Callers -> Nat] /\ answer \in [Callers -> Nat] /\ sent \in Nat
    BY DEF Init, Failed
  <2> QED
    BY <2>1, <2>2, <2>3, <2>4 DEF TypeOK
<1> QED
  BY <1>1, RedisRespAssumption DEF Init, PairInv, Known, InStep

LEMMA SendKeeps ==
  ASSUME PairInv, NEW c \in Callers, Send(c)
  PROVE  PairInv'
<1>0. /\ sent \in Nat /\ wire \in Seq(Nat) /\ mine \in [Callers -> Nat] /\ None \notin Callers
      /\ pc \in [Callers -> {"idle", "waiting", "reading"}]
      /\ \A d \in Callers : pc[d] = "reading" <=> mutex = d
      /\ mutex = None /\ mutex' = c /\ sent' = sent + 1 /\ stream' = stream
  BY RedisRespAssumption DEF PairInv, TypeOK, Send
<1>1. wire' \in Seq(Nat) /\ Known(wire)'
  <2>1. CASE down
    BY <1>0, <2>1 DEF Send, PairInv, Known
  <2>2. CASE ~ down
    <3>1. wire' = Append(wire, sent + 1) /\ sent + 1 \in Nat
      BY <1>0, <2>2 DEF Send
    <3> QED
      BY <1>0, <3>1 DEF PairInv, Known
  <2> QED
    BY <2>1, <2>2
<1>2. Known(stream)'
  BY <1>0 DEF PairInv, Known, TypeOK
<1>3. TypeOK'
  BY <1>0, <1>1 DEF Send, PairInv, TypeOK
<1>4. \A d \in Callers : mutex' = d => mine'[d] = sent'
  BY <1>0 DEF Send
<1>5. ~ astray' => InStep'
  <2> SUFFICES ASSUME ~ astray' PROVE InStep'
    OBVIOUS
  <2>1. torn = {} /\ ~ down /\ stream = <<>> /\ wire = <<>>
    BY <1>0 DEF Send, PairInv, InStep
  <2>2. wire' = <<sent'>>
    BY <1>0, <2>1 DEF Send
  <2> QED
    BY <1>0, <2>1, <2>2 DEF Send, InStep
<1>6. \A t \in torn' : t <= sent'
  BY <1>0 DEF Send, PairInv, TypeOK
<1> QED
  BY <1>1, <1>2, <1>3, <1>4, <1>5, <1>6 DEF PairInv

LEMMA WriteFailsKeeps ==
  ASSUME PairInv, NEW c \in Callers, WriteFails(c)
  PROVE  PairInv'
<1>1. Return(c, Failed) /\ mutex = None /\ Failed \in Nat
      /\ wire' = wire /\ stream' = stream /\ down' = down
      /\ torn \in SUBSET Nat /\ sent \in Nat
  BY DEF WriteFails, Failed, PairInv, TypeOK
<1>t. /\ sent' \in Nat /\ sent <= sent' /\ torn' \in SUBSET Nat /\ astray' \in BOOLEAN
      /\ \A t \in torn' : t <= sent'
  <2>1. CASE UNCHANGED <<sent, torn, astray>>
    BY <1>1, <2>1 DEF PairInv, TypeOK
  <2>2. CASE sent' = sent + 1 /\ torn' = torn \cup {sent + 1} /\ astray' = TRUE
    BY <1>1, <2>2 DEF PairInv
  <2> QED
    BY <2>1, <2>2 DEF WriteFails
<1>2. mutex' = None /\ mine' = mine
      /\ pc' \in [Callers -> {"idle", "waiting", "reading"}] /\ answer' \in [Callers -> Nat]
      /\ (\A d \in Callers : pc'[d] = "reading" <=> mutex' = d)
      /\ \A d \in Callers : mutex' # d
  BY <1>1, ReturnFrees
<1>3. TypeOK'
  BY <1>1, <1>t, <1>2 DEF PairInv, TypeOK
<1>4. Known(stream)' /\ Known(wire)'
  <2>1. stream \in Seq(Nat) /\ wire \in Seq(Nat) /\ Known(stream) /\ Known(wire)
    BY DEF PairInv, TypeOK
  <2> QED
    BY <1>1, <1>t, <2>1 DEF Known
<1>5. ~ astray' => InStep'
  <2> SUFFICES ASSUME ~ astray' PROVE InStep'
    OBVIOUS
  <2>1. UNCHANGED <<sent, torn, astray>>
    BY DEF WriteFails
  <2> QED
    BY <1>1, <1>2, <2>1 DEF PairInv, InStep
<1> QED
  BY <1>t, <1>2, <1>3, <1>4, <1>5 DEF PairInv

LEMMA ReadReplyKeeps ==
  ASSUME PairInv, NEW c \in Callers, ReadReply(c)
  PROVE  PairInv'
<1>1. PICK j \in 1..Len(stream), m \in 0..Rests :
        /\ j > 1 => astray
        /\ stream' = Left(stream, j, m)
        /\ astray' = (astray \/ m > 0)
        /\ \E a \in {stream[j], Failed} : Return(c, a)
  BY DEF ReadReply
<1>2. stream \in Seq(Nat) /\ m \in Nat /\ astray \in BOOLEAN /\ mutex = c
      /\ sent' = sent /\ wire' = wire /\ torn' = torn /\ down' = down
  BY RedisRespAssumption DEF PairInv, TypeOK, ReadReply
<1>3. PICK a \in Nat : Return(c, a)
  BY <1>1, <1>2 DEF Failed
<1>4. mutex' = None /\ mine' = mine
      /\ pc' \in [Callers -> {"idle", "waiting", "reading"}] /\ answer' \in [Callers -> Nat]
      /\ (\A d \in Callers : pc'[d] = "reading" <=> mutex' = d)
      /\ \A d \in Callers : mutex' # d
  BY <1>2, <1>3, ReturnFrees
<1>5. stream' \in Seq(Nat) /\ Known(stream)'
  BY <1>1, <1>2, LeftKnown DEF PairInv
<1>6. TypeOK'
  BY <1>1, <1>2, <1>4, <1>5 DEF PairInv, TypeOK
<1>7. Known(wire)' /\ \A t \in torn' : t <= sent'
  BY <1>2 DEF PairInv, Known
<1>8. ~ astray' => InStep'
  <2> SUFFICES ASSUME ~ astray' PROVE InStep'
    OBVIOUS
  <2>0. ~ astray /\ ~ (m > 0) /\ ~ (j > 1)
    BY <1>1
  <2>1. ~ astray /\ j = 1 /\ m = 0
    <3>1. Len(stream) \in Nat
      BY <1>2, LenProperties
    <3> QED
      BY <1>2, <2>0, <3>1
  <2>2. stream = <<sent>> /\ wire = <<>> /\ torn = {} /\ ~ down
    BY <1>2, <2>1, RedisRespAssumption DEF PairInv, InStep
  <2>3. Len(stream') = 0
    <3>1. Len(stream') = (m + Len(stream)) - j
      BY <1>1, <1>2, LeftType
    <3>2. Len(stream) = 1
      BY <2>2
    <3> QED
      BY <2>1, <3>1, <3>2
  <2>4. stream' = <<>>
    BY <1>5, <2>3, EmptySeq
  <2> QED
    BY <1>2, <1>4, <2>2, <2>4 DEF InStep
<1> QED
  BY <1>4, <1>5, <1>6, <1>7, <1>8 DEF PairInv

LEMMA TimeoutKeeps ==
  ASSUME PairInv, NEW c \in Callers, Timeout(c)
  PROVE  PairInv'
<1>1. Return(c, Failed) /\ mutex = c /\ Failed \in Nat /\ astray' = TRUE
      /\ sent' = sent /\ wire' = wire /\ torn' = torn /\ down' = down
  BY DEF Timeout, Failed, PairInv, TypeOK
<1>2. mutex' = None /\ mine' = mine
      /\ pc' \in [Callers -> {"idle", "waiting", "reading"}] /\ answer' \in [Callers -> Nat]
      /\ (\A d \in Callers : pc'[d] = "reading" <=> mutex' = d)
      /\ \A d \in Callers : mutex' # d
  BY <1>1, ReturnFrees
<1>3. stream' \in Seq(Nat) /\ Known(stream)'
  <2>1. CASE UNCHANGED stream
    BY <1>1, <2>1 DEF PairInv, TypeOK, Known
  <2>2. CASE \E j \in 1..Len(stream), m \in 0..Rests : stream' = Left(stream, j, m)
    BY <1>1, <2>2, LeftKnown DEF PairInv
  <2> QED
    BY <2>1, <2>2 DEF Timeout
<1>4. TypeOK'
  BY <1>1, <1>2, <1>3 DEF PairInv, TypeOK
<1>5. Known(wire)' /\ \A t \in torn' : t <= sent'
  BY <1>1 DEF PairInv, Known
<1> QED
  BY <1>1, <1>2, <1>3, <1>4, <1>5 DEF PairInv

LEMMA ServerKeeps ==
  ASSUME PairInv, Execute \/ Swallow \/ Close
  PROVE  PairInv'
<1>0. /\ mutex' = mutex /\ pc' = pc /\ mine' = mine /\ answer' = answer /\ sent' = sent
      /\ wire \in Seq(Nat) /\ stream \in Seq(Nat) /\ sent \in Nat
  BY DEF Execute, Swallow, Close, PairInv, TypeOK
<1>1. CASE Execute
  <2>1. /\ stream' = Append(stream, Head(wire)) /\ wire' = Tail(wire) /\ wire # <<>>
        /\ torn' = torn /\ down' = down /\ astray' = astray
    BY <1>1 DEF Execute
  <2>2. Head(wire) \in Nat /\ Head(wire) <= sent /\ Tail(wire) \in Seq(Nat)
    BY <1>0, <2>1 DEF PairInv, Known
  <2>3. stream' \in Seq(Nat) /\ wire' \in Seq(Nat)
    BY <1>0, <2>1, <2>2
  <2>4. Known(stream)' /\ Known(wire)'
    BY <1>0, <2>1, <2>2 DEF PairInv, Known
  <2>5. TypeOK'
    BY <1>0, <2>1, <2>3 DEF PairInv, TypeOK
  <2>6. ~ astray' => InStep'
    <3> SUFFICES ASSUME ~ astray' PROVE InStep'
      OBVIOUS
    <3>1. torn = {} /\ ~ down /\ mutex # None /\ stream = <<>> /\ wire = <<sent>>
      BY <2>1 DEF PairInv, InStep
    <3>2. stream' = <<sent>> /\ wire' = <<>>
      BY <1>0, <2>1, <3>1
    <3> QED
      BY <1>0, <2>1, <3>1, <3>2 DEF InStep
  <2> QED
    BY <1>0, <2>1, <2>4, <2>5, <2>6 DEF PairInv
<1>2. CASE Swallow
  <2>0. PICK t \in torn : t < Head(wire) /\ stream' \in {stream, Append(stream, t)}
    BY <1>2 DEF Swallow
  <2>1. /\ wire' = Tail(wire) /\ wire # <<>> /\ t \in Nat /\ t <= sent /\ astray
        /\ torn' = torn /\ down' = down /\ astray' = astray
    BY <1>2, <2>0 DEF Swallow, PairInv, InStep, TypeOK
  <2>2. wire' \in Seq(Nat) /\ Known(wire)'
    BY <1>0, <2>1 DEF PairInv, Known
  <2>4. stream' \in Seq(Nat) /\ Known(stream)'
    <3>1. CASE stream' = stream
      BY <1>0, <3>1 DEF PairInv, Known
    <3>2. CASE stream' = Append(stream, t)
      BY <1>0, <2>1, <3>2 DEF PairInv, Known
    <3> QED
      BY <2>0, <3>1, <3>2
  <2>3. TypeOK' /\ Known(stream)'
    BY <1>0, <2>1, <2>2, <2>4 DEF PairInv, TypeOK
  <2> QED
    BY <1>0, <2>1, <2>2, <2>3 DEF PairInv
<1>3. CASE Close
  <2>1. PICK n \in 0..Len(stream) : stream' = SubSeq(stream, 1, n)
    BY <1>3 DEF Close
  <2>2. wire' = <<>> /\ down' = TRUE /\ astray' = TRUE /\ torn' = torn
    BY <1>3 DEF Close
  <2>3. stream' \in Seq(Nat) /\ Known(stream)'
    BY <1>0, <2>1 DEF PairInv, Known
  <2>4. TypeOK' /\ Known(wire)'
    BY <1>0, <2>2, <2>3 DEF PairInv, TypeOK, Known
  <2> QED
    BY <1>0, <2>2, <2>3, <2>4 DEF PairInv
<1> QED
  BY <1>1, <1>2, <1>3

LEMMA IdleKeeps ==
  ASSUME PairInv, UNCHANGED vars \/ \E c \in Callers : Call(c)
  PROVE  PairInv'
<1>1. /\ UNCHANGED <<mutex, mine, answer, sent, wire, stream, torn, down, astray>>
      /\ pc' \in [Callers -> {"idle", "waiting", "reading"}]
      /\ \A d \in Callers : pc'[d] = "reading" <=> mutex = d
  BY DEF vars, Call, network, PairInv, TypeOK
<1> QED
  BY <1>1 DEF PairInv, TypeOK, Known, InStep

LEMMA PairKept ==
  ASSUME PairInv, [Next]_vars
  PROVE  PairInv'
BY SendKeeps, WriteFailsKeeps, ReadReplyKeeps, TimeoutKeeps, ServerKeeps, IdleKeeps DEF Next, Do

\* Every reachable state is well typed, and the mutex is held by who waits for a reply.
THEOREM TypeCorrect == Spec => []TypeOK
<1>1. PairInv /\ [Next]_vars => PairInv'
  BY PairKept
<1>2. PairInv => TypeOK
  BY DEF PairInv
<1> QED
  BY <1>1, <1>2, Start, PTL DEF Spec

OwnStep ==
  \A c \in Callers :
    pc[c] = "reading" /\ pc'[c] = "idle" /\ answer'[c] # Failed =>
      answer'[c] <= mine[c] /\ (astray \/ answer'[c] = mine[c])

LEMMA StepOwn ==
  ASSUME PairInv, [Next]_vars
  PROVE  OwnStep
<1> SUFFICES ASSUME NEW c \in Callers, pc[c] = "reading", pc'[c] = "idle", answer'[c] # Failed
             PROVE  answer'[c] <= mine[c] /\ (astray \/ answer'[c] = mine[c])
  BY DEF OwnStep
<1>1. pc \in [Callers -> {"idle", "waiting", "reading"}] /\ answer \in [Callers -> Nat]
      /\ mutex = c /\ mine[c] = sent /\ stream \in Seq(Nat) /\ None \notin Callers
  BY RedisRespAssumption DEF PairInv, TypeOK
<1>2. ReadReply(c)
  <2>1. pc'[c] # pc[c]
    OBVIOUS
  <2>2. PICK d \in Callers : Do(d)
    BY <2>1 DEF Next, Execute, Swallow, Close, vars
  <2>3. d = c
    BY <1>1, <2>1, <2>2 DEF Do, Call, Send, WriteFails, ReadReply, Timeout, Return
  <2>4. ~ Timeout(c)
    BY <1>1 DEF Timeout, Return
  <2> QED
    BY <1>1, <2>2, <2>3, <2>4 DEF Do, Call, Send, WriteFails
<1>3. PICK j \in 1..Len(stream) : (j > 1 => astray) /\ \E a \in {stream[j], Failed} : Return(c, a)
  BY <1>2 DEF ReadReply
<1>4. answer'[c] = stream[j]
  BY <1>1, <1>3 DEF Return
<1>5. answer'[c] <= mine[c]
  BY <1>1, <1>3, <1>4 DEF PairInv, Known
<1>6. ASSUME ~ astray PROVE answer'[c] = mine[c]
  <2>1. stream = <<sent>> \/ stream = <<>>
    BY <1>1, <1>6 DEF PairInv, InStep
  <2>2. j = 1 /\ stream # <<>>
    BY <1>1, <1>3, <1>6
  <2> QED
    BY <1>1, <1>4, <2>1, <2>2
<1> QED
  BY <1>5, <1>6

\* A call returns its own reply until one goes wrong, and never that of a later one.
THEOREM OwnReplyHolds == Spec => OwnReply
<1>1. PairInv /\ [Next]_vars => PairInv'
  BY PairKept
<1>2. PairInv /\ [Next]_vars => [OwnStep]_vars
  BY StepOwn
<1>3. OwnReply <=> [][OwnStep]_vars
  BY DEF OwnReply, OwnStep
<1> QED
  BY <1>1, <1>2, <1>3, Start, PTL DEF Spec
==============================================================================
