--------------------------- MODULE LockClientProofs ---------------------------
(***************************************************************************)
(* Theorems about LockClient, for any clients, periods and networks: how   *)
(* long an open and free file can go without being asked for, and what is  *)
(* left to happen once every editor is gone.                               *)
(***************************************************************************)
EXTENDS LockClient, TLAPS

LockKey == [user : Clients \cup {Nobody}, left : Nat]

TypeOK ==
  /\ key \in LockKey
  /\ key.user = Nobody => key = NoKey
  /\ open \subseteq Clients
  /\ due \in [Clients -> 0 .. Interval]
  /\ wire \in [Clients -> [Calls -> Nat]]
  /\ unasked \in Nat

\* Nothing is counted while there is a key.
KeyAsked == key # NoKey => unasked = 0

\* A free file that no acquire is coming for is asked for by the interval of any
\* editor that has it open before it went unasked for too long.
IntervalNear ==
  key = NoKey /\ ~ AcquireComing => \A c \in open : due[c] + unasked <= Interval

LockInv == TypeOK /\ KeyAsked /\ IntervalNear /\ AskedInTime

USE TimingAssumption

------------------------------------------------------------------------------
(* Calls on their way.                                                     *)

LEMMA KeyFacts ==
  ASSUME TypeOK
  PROVE  /\ key.left \in Nat
         /\ key = NoKey <=> key.user = Nobody
         /\ NoKey \in LockKey
         /\ NoKey.user = Nobody
BY DEF TypeOK, LockKey, NoKey

LEMMA GrantedFacts ==
  ASSUME NEW c \in Clients, NEW n \in Nat
  PROVE  /\ [user |-> c, left |-> n] \in LockKey
         /\ [user |-> c, left |-> n] # NoKey
         /\ [user |-> c, left |-> n].user = c
         /\ [user |-> c, left |-> n].left = n
BY DEF LockKey, NoKey

LEMMA SendFacts ==
  ASSUME TypeOK, NEW c \in Clients, NEW k \in Calls, Send(c, k)
  PROVE  /\ wire' \in [Clients -> [Calls -> Nat]]
         /\ wire'[c][k] = wire[c][k] + 1
         /\ \A d \in Clients : wire'[d]["acquire"] >= wire[d]["acquire"]
<1>1. /\ wire \in [Clients -> [Calls -> Nat]]
      /\ wire' = [wire EXCEPT ![c] = [wire[c] EXCEPT ![k] = wire[c][k] + 1]]
  BY DEF TypeOK, Send
<1>2. wire[c] \in [Calls -> Nat]
  BY <1>1
<1>3. [wire[c] EXCEPT ![k] = wire[c][k] + 1] \in [Calls -> Nat]
  BY <1>2
<1>4. \A d \in Clients : wire'[d] = IF d = c
                           THEN [wire[c] EXCEPT ![k] = wire[c][k] + 1] ELSE wire[d]
  BY <1>1
<1>5. wire'[c][k] = wire[c][k] + 1
  BY <1>2, <1>4
<1>6. ASSUME NEW d \in Clients
      PROVE  wire'[d]["acquire"] >= wire[d]["acquire"]
  <2>1. wire[d] \in [Calls -> Nat] /\ "acquire" \in Calls
    BY <1>1 DEF Calls
  <2>2. CASE d = c
    BY <1>2, <1>4, <2>1, <2>2
  <2>3. CASE d # c
    BY <1>4, <2>1, <2>3
  <2> QED
    BY <2>2, <2>3
<1> QED
  BY <1>1, <1>3, <1>5, <1>6

LEMMA TakeFacts ==
  ASSUME TypeOK, NEW c \in Clients, NEW k \in Calls, Take(c, k)
  PROVE  /\ wire' \in [Clients -> [Calls -> Nat]]
         /\ k = "release" => \A d \in Clients : wire'[d]["acquire"] = wire[d]["acquire"]
<1>1. /\ wire \in [Clients -> [Calls -> Nat]]
      /\ wire[c][k] > 0
      /\ wire' = [wire EXCEPT ![c] = [wire[c] EXCEPT ![k] = wire[c][k] - 1]]
  BY DEF TypeOK, Take
<1>2. wire[c] \in [Calls -> Nat] /\ wire[c][k] - 1 \in Nat
  BY <1>1
<1>3. [wire[c] EXCEPT ![k] = wire[c][k] - 1] \in [Calls -> Nat]
  BY <1>2
<1>4. \A d \in Clients : wire'[d] = IF d = c
                           THEN [wire[c] EXCEPT ![k] = wire[c][k] - 1] ELSE wire[d]
  BY <1>1
<1> QED
  BY <1>1, <1>2, <1>3, <1>4 DEF Calls

\* After an acquire was sent one is coming; other calls leave that as it is.
LEMMA AcquireSent ==
  ASSUME TypeOK, NEW c \in Clients, Send(c, "acquire")
  PROVE  AcquireComing'
<1>1. "acquire" \in Calls /\ wire[c]["acquire"] \in Nat
  BY DEF TypeOK, Calls
<1>2. wire'[c]["acquire"] > 0
  BY <1>1, SendFacts
<1> QED
  BY <1>2 DEF AcquireComing

LEMMA ReleaseSent ==
  ASSUME TypeOK, NEW c \in Clients, Send(c, "release"), AcquireComing
  PROVE  AcquireComing'
<1>1. PICK d \in Clients : wire[d]["acquire"] > 0
  BY DEF AcquireComing
<1>2. wire[d]["acquire"] \in Nat /\ wire' \in [Clients -> [Calls -> Nat]]
      /\ wire'[d]["acquire"] >= wire[d]["acquire"]
  BY SendFacts DEF TypeOK, Calls
<1>3. wire'[d]["acquire"] \in Nat
  BY <1>2 DEF Calls
<1> QED
  BY <1>1, <1>2, <1>3 DEF AcquireComing

------------------------------------------------------------------------------
(* The invariant, one lemma per action.                                    *)

LEMMA InitInv == Init => LockInv
<1> SUFFICES ASSUME Init PROVE LockInv
  OBVIOUS
<1>1. TypeOK
  BY DEF Init, TypeOK, LockKey, NoKey, Calls
<1> QED
  BY <1>1 DEF Init, LockInv, KeyAsked, IntervalNear, AskedInTime

LEMMA MountInv ==
  ASSUME LockInv, NEW c \in Clients, Mount(c)
  PROVE  LockInv'
<1>1. TypeOK /\ Send(c, "acquire") /\ key' = key /\ unasked' = unasked
  BY DEF LockInv, Mount
<1>2. TypeOK'
  BY <1>1, SendFacts DEF Mount, TypeOK, Calls
<1> QED
  BY <1>1, <1>2, AcquireSent DEF LockInv, KeyAsked, IntervalNear, AskedInTime

LEMMA HeartbeatInv ==
  ASSUME LockInv, NEW c \in Clients, Heartbeat(c)
  PROVE  LockInv'
<1>1. TypeOK /\ Send(c, "acquire") /\ key' = key /\ unasked' = unasked
  BY DEF LockInv, Heartbeat
<1>2. TypeOK'
  BY <1>1, SendFacts DEF Heartbeat, TypeOK, Calls
<1> QED
  BY <1>1, <1>2, AcquireSent DEF LockInv, KeyAsked, IntervalNear, AskedInTime

\* An editor that closes, with or without its cleanup, does not make the others
\* wait longer.
LEMMA ClosedInv ==
  ASSUME LockInv, NEW c \in Clients,
         wire' \in [Clients -> [Calls -> Nat]], AcquireComing => AcquireComing',
         open' = open \ {c}, due' = [due EXCEPT ![c] = 0],
         UNCHANGED <<key, unasked>>
  PROVE  LockInv'
<1>1. TypeOK /\ key' = key /\ unasked' = unasked
  BY DEF LockInv
<1>2. TypeOK'
  BY <1>1 DEF TypeOK
<1>3. \A d \in open' : d \in open /\ due'[d] = due[d]
  BY <1>1 DEF TypeOK
<1>4. IntervalNear'
  BY <1>1, <1>3 DEF LockInv, IntervalNear
<1> QED
  BY <1>1, <1>2, <1>4 DEF LockInv, KeyAsked, AskedInTime

LEMMA UnmountInv ==
  ASSUME LockInv, NEW c \in Clients, Unmount(c)
  PROVE  LockInv'
<1>1. TypeOK /\ Send(c, "release")
  BY DEF LockInv, Unmount
<1>2. wire' \in [Clients -> [Calls -> Nat]]
  BY <1>1, SendFacts DEF Calls
<1> QED
  BY <1>1, <1>2, ReleaseSent, ClosedInv DEF Unmount

LEMMA VanishInv ==
  ASSUME LockInv, NEW c \in Clients, Vanish(c)
  PROVE  LockInv'
<1>1. wire' = wire /\ wire \in [Clients -> [Calls -> Nat]]
  BY DEF LockInv, TypeOK, Vanish
<1> QED
  BY <1>1, ClosedInv DEF Vanish, AcquireComing

LEMMA AcquireLockInv ==
  ASSUME LockInv, NEW c \in Clients, AcquireLock(c)
  PROVE  LockInv'
<1>1. /\ TypeOK /\ wire' \in [Clients -> [Calls -> Nat]] /\ UNCHANGED <<open, due>>
      /\ unasked' = 0 /\ key' # NoKey
  BY TakeFacts, GrantedFacts DEF LockInv, AcquireLock, Calls
<1>2. key' \in LockKey /\ key'.user # Nobody
  BY <1>1, KeyFacts, GrantedFacts DEF AcquireLock, TypeOK
<1>3. TypeOK'
  BY <1>1, <1>2 DEF TypeOK
<1> QED
  BY <1>1, <1>3 DEF LockInv, KeyAsked, IntervalNear, AskedInTime

\* A key that goes, whichever way, leaves the file free for no time yet.
LEMMA FreeInv ==
  ASSUME LockInv, key # NoKey, key' = NoKey, UNCHANGED <<open, due, unasked>>,
         wire' \in [Clients -> [Calls -> Nat]]
  PROVE  LockInv'
<1>1. unasked' = 0
  BY DEF LockInv, KeyAsked
<1>2. TypeOK'
  BY <1>1, KeyFacts DEF LockInv, TypeOK
<1>3. \A c \in open : due[c] \in 0 .. Interval
  BY DEF LockInv, TypeOK
<1>4. IntervalNear'
  BY <1>1, <1>3 DEF IntervalNear
<1> QED
  BY <1>1, <1>2, <1>4 DEF LockInv, KeyAsked, AskedInTime

\* A release that changes nothing, or does not arrive, takes no acquire along.
LEMMA ReleaseGoneInv ==
  ASSUME LockInv, NEW c \in Clients, Take(c, "release"),
         UNCHANGED <<key, open, due, unasked>>
  PROVE  LockInv'
<1>1. /\ TypeOK /\ wire' \in [Clients -> [Calls -> Nat]]
      /\ \A d \in Clients : wire'[d]["acquire"] = wire[d]["acquire"]
  BY TakeFacts DEF LockInv, Calls
<1>2. TypeOK'
  BY <1>1 DEF TypeOK
<1>3. AcquireComing' <=> AcquireComing
  BY <1>1 DEF AcquireComing
<1> QED
  BY <1>1, <1>2, <1>3 DEF LockInv, KeyAsked, IntervalNear, AskedInTime

LEMMA ReleaseLockInv ==
  ASSUME LockInv, NEW c \in Clients, ReleaseLock(c)
  PROVE  LockInv'
<1>1. TypeOK /\ wire' \in [Clients -> [Calls -> Nat]] /\ UNCHANGED <<open, due, unasked>>
  BY TakeFacts DEF LockInv, ReleaseLock, Calls
<1>2. CASE key.user = c
  BY <1>1, <1>2, KeyFacts, FreeInv DEF ReleaseLock
<1>3. CASE key.user # c
  BY <1>3, ReleaseGoneInv DEF ReleaseLock
<1> QED
  BY <1>2, <1>3

\* After an acquire that failed every open editor asks again within its interval.
LEMMA FailInv ==
  ASSUME LockInv, NEW c \in Clients, NEW k \in Calls, Fail(c, k)
  PROVE  LockInv'
<1>1. CASE k = "acquire"
  <2>1. /\ TypeOK /\ wire' \in [Clients -> [Calls -> Nat]]
        /\ UNCHANGED <<key, open, due>> /\ unasked' = 0
    BY <1>1, TakeFacts DEF LockInv, Fail
  <2>2. TypeOK'
    BY <2>1 DEF TypeOK
  <2>3. \A d \in open : due[d] \in 0 .. Interval
    BY <2>1 DEF TypeOK
  <2>4. IntervalNear'
    BY <2>1, <2>3 DEF IntervalNear
  <2> QED
    BY <2>1, <2>2, <2>4 DEF LockInv, KeyAsked, AskedInTime
<1>2. CASE k = "release"
  BY <1>2, ReleaseGoneInv DEF Fail
<1> QED
  BY <1>1, <1>2 DEF Calls

LEMMA ExpireInv ==
  ASSUME LockInv, Expire
  PROVE  LockInv'
BY FreeInv DEF Expire, LockInv, TypeOK

LEMMA TickInv ==
  ASSUME LockInv, Tick
  PROVE  LockInv'
<1>1. TypeOK /\ open' = open /\ wire' = wire /\ (AcquireComing' <=> AcquireComing)
  BY DEF LockInv, Tick, AcquireComing
<1>2. /\ due' \in [Clients -> 0 .. Interval]
      /\ \A c \in open : due[c] \in Nat /\ due[c] > 0 /\ due'[c] = due[c] - 1
  BY <1>1 DEF Tick, TypeOK
<1>3. CASE key = NoKey
  <2>1. /\ key' = key
        /\ unasked' = IF open = {} THEN 0
                      ELSE IF AcquireComing THEN unasked ELSE unasked + 1
    BY <1>1, <1>3 DEF Tick, LockInv, AskedInTime, TypeOK
  <2>2. unasked' \in Nat
    BY <1>1, <2>1 DEF TypeOK
  <2>3. TypeOK'
    BY <1>1, <1>2, <2>1, <2>2 DEF TypeOK
  <2>4. ASSUME ~ AcquireComing, NEW c \in open
        PROVE  due'[c] + unasked' <= Interval /\ unasked' <= Interval
    <3>1. due[c] + unasked <= Interval /\ unasked \in Nat /\ unasked' = unasked + 1
      BY <1>1, <1>3, <2>1, <2>4 DEF LockInv, IntervalNear, TypeOK
    <3> QED
      BY <1>2, <3>1
  <2>5. IntervalNear'
    BY <1>1, <2>4 DEF IntervalNear
  <2>6. AskedInTime'
    <3>1. CASE open = {}
      BY <2>1, <3>1 DEF AskedInTime
    <3>2. CASE AcquireComing /\ open # {}
      BY <2>1, <3>2 DEF LockInv, AskedInTime
    <3>3. CASE ~ AcquireComing /\ open # {}
      BY <2>4, <3>3 DEF AskedInTime
    <3> QED
      BY <3>1, <3>2, <3>3
  <2> QED
    BY <1>3, <2>1, <2>3, <2>5, <2>6 DEF LockInv, KeyAsked
<1>4. CASE key # NoKey
  <2>1. key' = [key EXCEPT !.left = key.left - 1] /\ unasked' = 0 /\ key.left > 0
    BY <1>4 DEF Tick
  <2>2. key'.user = key.user /\ key'.left = key.left - 1 /\ key' \in LockKey
    BY <1>1, <2>1, KeyFacts DEF TypeOK, LockKey
  <2>3. key' # NoKey /\ key'.user # Nobody
    BY <1>1, <1>4, <2>2, KeyFacts
  <2>4. TypeOK'
    BY <1>1, <1>2, <2>1, <2>2, <2>3 DEF TypeOK
  <2> QED
    BY <2>1, <2>3, <2>4 DEF LockInv, KeyAsked, IntervalNear, AskedInTime
<1> QED
  BY <1>3, <1>4

LEMMA StutterInv ==
  ASSUME LockInv, UNCHANGED vars
  PROVE  LockInv'
BY DEF LockInv, TypeOK, KeyAsked, IntervalNear, AskedInTime, AcquireComing, vars

LEMMA NextInv == LockInv /\ [Next]_vars => LockInv'
<1> SUFFICES ASSUME LockInv, [Next]_vars PROVE LockInv'
  OBVIOUS
<1>1. ASSUME NEW c \in Clients, Mount(c) \/ Heartbeat(c) \/ Unmount(c) \/ Vanish(c)
      PROVE  LockInv'
  BY <1>1, MountInv, HeartbeatInv, UnmountInv, VanishInv
<1>2. ASSUME NEW c \in Clients, Serve(c)
      PROVE  LockInv'
  BY <1>2, AcquireLockInv, ReleaseLockInv, FailInv DEF Serve
<1> QED
  BY <1>1, <1>2, ExpireInv, TickInv, StutterInv DEF Next

LEMMA LockInvariant == Spec => []LockInv
BY InitInv, NextInv, PTL DEF Spec

------------------------------------------------------------------------------
(* Theorems.                                                               *)

\* The key belongs to a client or to nobody, and no interval is longer than the
\* code's LOCK_RENEW_INTERVAL_SECONDS.
THEOREM TypeTheorem == Spec => []TypeOK
BY LockInvariant, PTL DEF LockInv

\* Whichever way the key went, and whichever calls fail, an open file that is free is
\* asked for again within one interval, whoever else opens or closes it.
THEOREM AskedTheorem == Spec => []AskedInTime
BY LockInvariant, PTL DEF LockInv

------------------------------------------------------------------------------
(* An abandoned file.  AbandonedLockFrees is liveness and stays with TLC;  *)
(* what it rests on is that nothing but time and old calls is left.        *)

\* While no editor is open no call is sent, each time the key is taken a call
\* is used up, as it is when it fails, and a key that is there only gets older.
Fading ==
  open = {} /\ open' = {} =>
    /\ \A c \in Clients, k \in Calls : wire'[c][k] <= wire[c][k]
    /\ key = NoKey /\ key' # NoKey =>
         \E c \in Clients : wire'[c]["acquire"] < wire[c]["acquire"]
    /\ key # NoKey /\ key' # NoKey => key'.user = key.user /\ key'.left <= key.left

LEMMA TakeLess ==
  ASSUME TypeOK, NEW c \in Clients, NEW k \in Calls, Take(c, k)
  PROVE  /\ \A d \in Clients, l \in Calls : wire'[d][l] <= wire[d][l]
         /\ wire'[c][k] < wire[c][k]
<1>1. /\ wire \in [Clients -> [Calls -> Nat]]
      /\ wire' = [wire EXCEPT ![c] = [wire[c] EXCEPT ![k] = wire[c][k] - 1]]
  BY DEF TypeOK, Take
<1>2. \A d \in Clients, l \in Calls :
        /\ wire[d][l] \in Nat
        /\ wire'[d][l] = IF d = c /\ l = k THEN wire[c][k] - 1 ELSE wire[d][l]
  BY <1>1
<1> QED
  BY <1>2

LEMMA FadingStep ==
  ASSUME TypeOK, [Next]_vars
  PROVE  Fading
<1> SUFFICES ASSUME open = {}, open' = {} PROVE Fading
  BY DEF Fading
<1>1. /\ \A c \in Clients, k \in Calls : wire[c][k] \in Nat
      /\ key.left \in Nat /\ "acquire" \in Calls /\ "release" \in Calls
  BY KeyFacts DEF TypeOK, Calls
<1>2. ASSUME NEW c \in Clients, Mount(c) \/ Heartbeat(c) \/ Unmount(c) \/ Vanish(c)
      PROVE  FALSE
  BY <1>2 DEF Mount, Heartbeat, Unmount, Vanish
<1>3. ASSUME NEW c \in Clients, AcquireLock(c) PROVE Fading
  BY <1>1, <1>3, TakeLess DEF AcquireLock, Fading
<1>4. ASSUME NEW c \in Clients, ReleaseLock(c) \/ \E k \in Calls : Fail(c, k) PROVE Fading
  BY <1>1, <1>4, TakeLess DEF ReleaseLock, Fail, Fading
<1>5. CASE Expire
  BY <1>1, <1>5 DEF Expire, Fading
<1>6. CASE Tick
  <2>1. wire' = wire /\ (key = NoKey => key' = key)
    BY <1>6 DEF Tick
  <2>2. key # NoKey => key'.user = key.user /\ key'.left = key.left - 1
    BY <1>6 DEF Tick, TypeOK, LockKey
  <2> QED
    BY <1>1, <2>1, <2>2 DEF Fading
<1>7. CASE UNCHANGED vars
  BY <1>1, <1>7 DEF vars, Fading
<1> QED
  BY <1>2, <1>3, <1>4, <1>5, <1>6, <1>7 DEF Next, Serve

\* Once every editor is gone, by its cleanup or without it, the lock can be taken
\* again only by the calls that were under way, each of them once, and a key that
\* is there is not renewed.
THEOREM FadingTheorem == Spec => [][Fading]_vars
BY FadingStep, TypeTheorem, PTL DEF Spec
==============================================================================
