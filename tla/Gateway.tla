------------------------------- MODULE Gateway -------------------------------
(***************************************************************************)
(* The api gateway: what it does with each request until it forwards it,   *)
(* and the counters it keeps in Redis.  A preHandler asks the auth service *)
(* about the token, a second one counts the request, then the request is   *)
(* proxied.  Each call that is awaited ends an action.  ioredis sends a    *)
(* command again when the connection breaks before its reply.              *)
(*                                                                         *)
(* Time is counted in minutes, the part of it the keys of the counters     *)
(* are made of.  Route "public" needs no token; "api" stands for all that  *)
(* goes to another service than execution.                                 *)
(***************************************************************************)
EXTENDS Integers, FiniteSets

CONSTANTS
  Requests,                          \* each arrives at most once
  Callers,                           \* user ids and addresses
  UserLimit, IpLimit, ExecuteLimit,  \* rateLimitConfig
  LastMinute,                        \* bound on time
  MaxCount,                          \* bound on the commands sent again
  None

Routes == {"public", "api", "execute"}
Scopes == {"user", "ip", "execute"}
Limit(scope) == CASE scope = "user" -> UserLimit
                  [] scope = "ip" -> IpLimit
                  [] scope = "execute" -> ExecuteLimit

Keys == [scope : Scopes, id : Callers, minute : 0..LastMinute]

ASSUME GatewayAssumption ==
  /\ LastMinute \in Nat /\ MaxCount \in Nat
  /\ UserLimit \in Nat \ {0} /\ IpLimit \in Nat \ {0} /\ ExecuteLimit \in Nat \ {0}
  /\ None \notin Keys \cup Nat \cup Routes

VARIABLES
  minute,   \* the clock
  counter,  \* Redis: the value of each key, 0 without one
  ttl,      \* Redis: when the key was given its 60 seconds, None if it was not
  req,      \* what the gateway does for each request
  leaked,   \* history: the keys whose first INCR or whose EXPIRE went wrong
  passed    \* history: the requests each key let pass since it was created

redis == <<counter, ttl, leaked, passed>>
gateway == <<minute, counter, ttl, req, leaked, passed>>

GatewayInit ==
  /\ minute = 0
  /\ counter = [k \in Keys |-> 0]
  /\ ttl = [k \in Keys |-> None]
  /\ req = [r \in Requests |-> [stage |-> "new", route |-> None, caller |-> None, key |-> None]]
  /\ leaked = {}
  /\ passed = [k \in Keys |-> 0]

InStage(r, stage) == req[r].stage = stage

\* On to a stage in which nothing is counted.  The ends are "refused" by a check
\* (401, 429), "failed" (500), "abandoned" (502) and "answered".
Goto(r, stage) == req' = [req EXCEPT ![r].stage = stage, ![r].key = None]

\* The request is to be counted under this key, of the minute it is built in.
BuildKey(scope, id) == [scope |-> scope, id |-> id, minute |-> minute]

Count(r, scope) ==
  req' = [req EXCEPT ![r].stage = "incr", ![r].key = BuildKey(scope, req[r].caller)]

\* authMiddleware lets the public routes through and wants a token for the others.
Arrive(r) ==
  /\ InStage(r, "new")
  /\ \E route \in Routes, c \in Callers :
       req' = [req EXCEPT ![r] =
                 IF route = "public"
                 THEN [stage |-> "incr", route |-> route, caller |-> c, key |-> BuildKey("ip", c)]
                 ELSE [stage |-> "auth", route |-> route, caller |-> c, key |-> None]]
  /\ UNCHANGED redis /\ UNCHANGED minute

\* The auth service accepts or rejects the token, or cannot be reached.
Validate(r) ==
  /\ InStage(r, "auth")
  /\ Count(r, "user") \/ Goto(r, "refused") \/ Goto(r, "failed")
  /\ UNCHANGED redis /\ UNCHANGED minute

\* mutant: one request too many
DecideLoose(r, n) ==
  LET k == req[r].key IN
  IF n > Limit(k.scope) + 1
  THEN Goto(r, "refused") /\ UNCHANGED passed
  ELSE /\ passed' = [passed EXCEPT ![k] = @ + 1]
       /\ IF k.scope = "user" /\ req[r].route = "execute"
          THEN Count(r, "execute") ELSE Goto(r, "proxy")

\* What rateLimitMiddleware does with the result n of the counter.
Decide(r, n) ==
  LET k == req[r].key IN
  IF n > Limit(k.scope)
  THEN Goto(r, "refused") /\ UNCHANGED passed
  ELSE /\ passed' = [passed EXCEPT ![k] = @ + 1]
       /\ IF k.scope = "user" /\ req[r].route = "execute"
          THEN Count(r, "execute") ELSE Goto(r, "proxy")

IncrOnly(r) ==                       \* mutant: no EXPIRE
  LET k == req[r].key  n == counter[k] + 1 IN
  /\ InStage(r, "incr")
  /\ counter' = [counter EXCEPT ![k] = n]
  /\ Decide(r, n)
  /\ UNCHANGED <<minute, ttl, leaked>>

Incr(r) ==
  LET k == req[r].key  n == counter[k] + 1 IN
  /\ InStage(r, "incr")
  /\ counter' = [counter EXCEPT ![k] = n]
  /\ IF n = 1
     THEN req' = [req EXCEPT ![r].stage = "expire"] /\ UNCHANGED passed
     ELSE Decide(r, n)
  /\ UNCHANGED <<minute, ttl, leaked>>

\* The reply is lost: the command is sent again, or given up with 500.
IncrUnheard(r) ==
  LET k == req[r].key  n == counter[k] + 1 IN
  /\ InStage(r, "incr") /\ n <= MaxCount
  /\ counter' = [counter EXCEPT ![k] = n]
  /\ leaked' = IF n = 1 THEN leaked \cup {k} ELSE leaked
  /\ UNCHANGED req \/ Goto(r, "failed")
  /\ UNCHANGED <<minute, ttl, passed>>

Expire(r) ==
  /\ InStage(r, "expire")
  /\ ttl' = [ttl EXCEPT ![req[r].key] = minute]
  /\ Decide(r, 1)
  /\ UNCHANGED <<minute, counter, leaked>>

\* No time to live, and the request answers 500.
ExpireFails(r) ==
  /\ InStage(r, "expire")
  /\ leaked' = leaked \cup {req[r].key}
  /\ Goto(r, "failed")
  /\ UNCHANGED <<minute, counter, ttl, passed>>

AbandonNever(r) == FALSE             \* mutant: the timer is cleared before the fetch is awaited

\* The 10 seconds are over, or the connection fails.
Abandon(r) ==
  /\ InStage(r, "proxy") /\ Goto(r, "abandoned")
  /\ UNCHANGED redis /\ UNCHANGED minute

\* The downstream status and headers are here.  The body has no time limit.
ReadBody(r) ==
  /\ InStage(r, "proxy") /\ Goto(r, "body")
  /\ UNCHANGED redis /\ UNCHANGED minute

Answer(r) ==
  /\ InStage(r, "body")
  /\ Goto(r, "answered") \/ Goto(r, "failed")
  /\ UNCHANGED redis /\ UNCHANGED minute

\* Redis drops a key in the minute after its time to live began.
DropKey(k) ==
  /\ ttl[k] # None /\ minute > ttl[k]
  /\ counter' = [counter EXCEPT ![k] = 0]
  /\ ttl' = [ttl EXCEPT ![k] = None]
  /\ passed' = [passed EXCEPT ![k] = 0]
  /\ leaked' = leaked \ {k}
  /\ UNCHANGED <<minute, req>>

NextMinute ==
  /\ minute < LastMinute
  /\ \A k \in Keys : ttl[k] # None => ttl[k] >= minute
  /\ minute' = minute + 1
  /\ UNCHANGED redis /\ UNCHANGED req

Gateway(r) ==
  \/ Arrive(r) \/ Validate(r) \/ Incr(r) \/ IncrUnheard(r) \/ Expire(r) \/ ExpireFails(r)
  \/ Abandon(r) \/ Answer(r)

Redis == NextMinute \/ \E k \in Keys : DropKey(k)

------------------------------------------------------------------------------
(* Properties.                                                             *)

Stages == {"new", "auth", "incr", "expire", "proxy", "body",
           "refused", "failed", "abandoned", "answered"}

Request == [stage : Stages, route : Routes \cup {None},
            caller : Callers \cup {None}, key : Keys \cup {None}]

\* What the stages find in a request.
RequestOK(q) ==
  /\ q.stage \in {"incr", "expire"} => q.key \in Keys
  /\ q.stage \in {"auth", "incr", "expire"} => q.caller \in Callers

GatewayTypeOK ==
  /\ minute \in 0..LastMinute
  /\ counter \in [Keys -> Nat]
  /\ ttl \in [Keys -> 0..LastMinute \cup {None}]
  /\ req \in [Requests -> Request] /\ \A r \in Requests : RequestOK(req[r])
  /\ leaked \subseteq Keys
  /\ passed \in [Keys -> Nat]

\* However the requests of a caller overlap, and whether or not commands are sent
\* again, a counter lets no more requests pass than its limit until it expires.
\* (A counter is for one minute of the clock, so twice the limit may pass within
\* sixty seconds.)
WithinLimit == \A k \in Keys : passed[k] <= Limit(k.scope)

\* A counter that has no time to live is about to get it, unless a command about
\* it failed or was answered too late.  Only then does the key stay for ever.
Expires ==
  \A k \in Keys : counter[k] > 0 /\ ttl[k] = None =>
    k \in leaked \/ \E r \in Requests : InStage(r, "expire") /\ req[r].key = k
==============================================================================
