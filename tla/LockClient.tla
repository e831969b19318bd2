------------------------------ MODULE LockClient ------------------------------
(***************************************************************************)
(* The lock of one file as the web client uses it: the hook useFileLock of *)
(* each open editor against the Redis key with its time to live.           *)
(*                                                                         *)
(* Time is counted in ticks of the common divisor of the two periods (15 s *)
(* and 30 s in the code, so Interval = 1 and TTL = 2).  The hook fires and *)
(* forgets its calls: they wait in wire, and arrive in any order or fail.  *)
(* Their answers change nothing (fileService.ts turns an error into        *)
(* success).  With Prompt every call arrives before the next tick.         *)
(***************************************************************************)
EXTENDS Naturals

CONSTANTS Clients, Nobody,
          TTL, Interval,
          Prompt,
          MaxWire           \* bound: no editor opens with so many calls under way

ASSUME TimingAssumption ==
  /\ Nobody \notin Clients
  /\ TTL \in Nat \ {0} /\ Interval \in Nat \ {0}
  /\ Interval < TTL
  /\ Prompt \in BOOLEAN
  /\ MaxWire \in Nat \ {0}

VARIABLES
  key,      \* the Redis key: its user and the ticks it has left
  open,     \* the clients with the file open in an editor (hook mounted)
  due,      \* ticks until the interval of an open editor fires
  wire,     \* calls under way, per client and kind
  unasked   \* history: ticks the file has been open in an editor and its key
            \* free, without an acquire under way, since the key went or an
            \* acquire arrived or failed; counted as far as Interval + 1

vars == <<key, open, due, wire, unasked>>

Calls == {"acquire", "release"}
NoKey == [user |-> Nobody, left |-> 0]

Init ==
  /\ key = NoKey
  /\ open = {}
  /\ due = [c \in Clients |-> 0]
  /\ wire = [c \in Clients |-> [k \in Calls |-> 0]]
  /\ unasked = 0

Send(c, k) == wire' = [wire EXCEPT ![c][k] = @ + 1]

------------------------------------------------------------------------------
(* The hook.                                                               *)

\* The effect runs: acquire at once, then on every interval.
Mount(c) ==
  /\ c \notin open
  /\ wire[c]["acquire"] < MaxWire /\ wire[c]["release"] < MaxWire
  /\ open' = open \cup {c}
  /\ due' = [due EXCEPT ![c] = Interval]
  /\ Send(c, "acquire")
  /\ UNCHANGED <<key, unasked>>

HeartbeatUncleared(c) ==             \* mutant: the interval is never cleared
  /\ due[c] = 0
  /\ wire[c]["acquire"] < MaxWire
  /\ due' = [due EXCEPT ![c] = Interval]
  /\ Send(c, "acquire")
  /\ UNCHANGED <<key, open, unasked>>

HeartbeatSilent(c) ==                \* mutant: a renewal, void on a free key
  /\ c \in open /\ due[c] = 0
  /\ due' = [due EXCEPT ![c] = Interval]
  /\ UNCHANGED <<key, open, wire, unasked>>

\* The interval fires.  It calls acquireLock, not the renew endpoint.
Heartbeat(c) ==
  /\ c \in open /\ due[c] = 0
  /\ wire[c]["acquire"] < MaxWire
  /\ due' = [due EXCEPT ![c] = Interval]
  /\ Send(c, "acquire")
  /\ UNCHANGED <<key, open, unasked>>

\* The cleanup runs: the interval is cleared and the lock released.
Unmount(c) ==
  /\ c \in open
  /\ open' = open \ {c}
  /\ due' = [due EXCEPT ![c] = 0]
  /\ Send(c, "release")
  /\ UNCHANGED <<key, unasked>>

\* The tab is killed or loses its network: no cleanup.
Vanish(c) ==
  /\ c \in open
  /\ open' = open \ {c}
  /\ due' = [due EXCEPT ![c] = 0]
  /\ UNCHANGED <<key, wire, unasked>>

------------------------------------------------------------------------------
(* The lock endpoints, each one atomic Redis command.                      *)

Take(c, k) ==
  /\ wire[c][k] > 0
  /\ wire' = [wire EXCEPT ![c][k] = @ - 1]

\* SET key EX NX: it changes nothing while the key lives, its own included.
AcquireLock(c) ==
  /\ Take(c, "acquire")
  /\ key' = IF key = NoKey THEN [user |-> c, left |-> TTL] ELSE key
  /\ unasked' = 0
  /\ UNCHANGED <<open, due>>

ReleaseLock(c) ==
  /\ Take(c, "release")
  /\ key' = IF key.user = c THEN NoKey ELSE key
  /\ UNCHANGED <<open, due, unasked>>

\* The network or the gateway fails the call (429, 502, 5xx).  The client catches
\* that, answers itself with success and tries nothing again.
Fail(c, k) ==
  /\ ~ Prompt
  /\ Take(c, k)
  /\ unasked' = IF k = "acquire" THEN 0 ELSE unasked
  /\ UNCHANGED <<key, open, due>>

Expire ==
  /\ key # NoKey /\ key.left = 0
  /\ key' = NoKey
  /\ UNCHANGED <<open, due, wire, unasked>>

------------------------------------------------------------------------------
(* Time passes when nothing is overdue.                                    *)

Quiet == \A c \in Clients, k \in Calls : wire[c][k] = 0

AcquireComing == \E c \in Clients : wire[c]["acquire"] > 0

Tick ==
  /\ \A c \in open : due[c] > 0
  /\ key # NoKey => key.left > 0
  /\ Prompt => Quiet
  /\ due' = [c \in Clients |-> IF c \in open THEN due[c] - 1 ELSE 0]
  /\ key' = IF key = NoKey THEN key ELSE [key EXCEPT !.left = @ - 1]
  /\ unasked' = IF open = {} \/ key # NoKey THEN 0
                ELSE IF AcquireComing \/ unasked > Interval THEN unasked
                ELSE unasked + 1
  /\ UNCHANGED <<open, wire>>

Serve(c) == AcquireLock(c) \/ ReleaseLock(c) \/ \E k \in Calls : Fail(c, k)

Next ==
  \/ \E c \in Clients :
       Mount(c) \/ Heartbeat(c) \/ Unmount(c) \/ Vanish(c) \/ Serve(c)
  \/ Expire
  \/ Tick

\* Each call arrives or fails, timers fire and time passes; users do as they like.
\* Of the acquires of a client who keeps sending them not all fail (strong: there
\* may be none under way in between).
Fairness ==
  /\ \A c \in Clients : /\ WF_vars(Heartbeat(c))
                        /\ SF_vars(AcquireLock(c))
                        /\ WF_vars(ReleaseLock(c) \/ Fail(c, "release"))
  /\ WF_vars(Expire)
  /\ WF_vars(Tick)

Spec == Init /\ [][Next]_vars
FairSpec == Spec /\ Fairness

------------------------------------------------------------------------------
(* Properties.                                                             *)

\* file-service README.md:234: "Locks auto-expire after 30 seconds if the client
\* disconnects".  Once every editor is gone, by its cleanup or without it, and
\* though the release may fail and a late acquire overtake it, the file ends up
\* free.
AbandonedLockFrees ==
  <>[](open = {}) => <>[](key = NoKey)

\* While some editor stays open the file does not stay free: a heartbeat takes
\* a lock that ran out, for its own user, even after the key of a vanished one.
\* A failed acquire postpones it, and is not tried again before the next one.
LockTakenAgain ==
  \A c \in Clients : <>[](c \in open) => []<>(key # NoKey)

\* However calls are delayed, overtake each other and fail, and whoever comes, leaves
\* or vanishes, a file that is open somewhere and free is asked for: no later than
\* one interval after its key went, and after each acquire that came to nothing.
\* (So each failure costs the open file another interval without a lock.)
AskedInTime == unasked <= Interval

\* useFileLock.ts:6: "useFileLock handles lock acquire/release and heartbeat
\* renewal".  The key of an editor that stayed open for a full interval, and
\* whose calls all arrived, does not run out.
HeartbeatKeepsLock ==
  [][Expire => ~ (key.user \in open /\ due[key.user] = 0)]_vars
==============================================================================
