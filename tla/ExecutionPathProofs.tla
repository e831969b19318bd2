------------------------- MODULE ExecutionPathProofs -------------------------
(***************************************************************************)
(* Theorems about ExecutionPath for every set of requests and callers, all *)
(* limits, capacities and numbers of attempts.                             *)
(***************************************************************************)
EXTENDS ExecutionPath, FiniteSetTheorems, TLAPS

\* Which component moves in a step.
GatewayMoves ==
  /\ Redis \/ \E r \in Requests : Gateway(r) \/ ReadBody(r)
  /\ UNCHANGED <<execution, notification>>

ExecutionMoves ==
  /\ Crash \/ \E r \in Requests : Execution(r)
  /\ UNCHANGED <<gateway, notification>>

NotificationMoves ==
  /\ \E e \in Events : Deliver(e)
  /\ UNCHANGED <<gateway, execution>>

LEMMA StepCases ==
  ASSUME [Next]_vars
  PROVE  \/ GatewayMoves \/ ExecutionMoves \/ NotificationMoves
         \/ \E r \in Requests : PublishResult(r) \/ PublishOther(r)
         \/ UNCHANGED vars
BY DEF Next, GatewayStep, Respond, ExecutionStep, GatewayMoves, ExecutionMoves, NotificationMoves

LEMMA KeptByOthers ==
  ASSUME [Next]_vars
  PROVE  /\ GatewayMoves \/ UNCHANGED gateway
         /\ ExecutionMoves \/ UNCHANGED execution
            \/ \E r \in Requests, outcome \in {"published", "lost"} : Publish(r, outcome)
         /\ NotificationMoves \/ UNCHANGED notification
            \/ \E e \in Events, fits \in BOOLEAN : Enqueue(e, fits)
<1>1. CASE \E r \in Requests : PublishResult(r) \/ PublishOther(r)
  BY <1>1, EventsAssumption DEF PublishResult, PublishOther
<1> QED
  BY <1>1, StepCases DEF vars, GatewayMoves, ExecutionMoves, NotificationMoves

------------------------------------------------------------------------------
(* The gateway.                                                            *)

LEMMA LimitType == ASSUME NEW scope \in Scopes PROVE Limit(scope) \in Nat \ {0}
BY GatewayAssumption DEF Limit, Scopes

\* Request r becomes q, the others stay.
Becomes(r, q) == q \in Request /\ RequestOK(q) /\ req' = [req EXCEPT ![r] = q]

ReqTyped == req' \in [Requests -> Request] /\ \A r \in Requests : RequestOK(req'[r])

LEMMA BecomesTyped ==
  ASSUME GatewayTypeOK, NEW r \in Requests, NEW q, Becomes(r, q)
  PROVE  ReqTyped /\ req'[r] = q /\ \A p \in Requests : p # r => req'[p] = req[p]
BY DEF GatewayTypeOK, Becomes, ReqTyped

LEMMA GotoBecomes ==
  ASSUME GatewayTypeOK, NEW r \in Requests, NEW stage \in Stages \ {"auth", "incr", "expire"},
         Goto(r, stage)
  PROVE  \E q : Becomes(r, q) /\ q.stage = stage
<1> DEFINE q == [req[r] EXCEPT !.stage = stage, !.key = None]
<1>1. req[r] \in Request
  BY DEF GatewayTypeOK
<1>2. q \in Request /\ RequestOK(q) /\ q.stage = stage
  BY <1>1 DEF Request, RequestOK
<1>3. req' = [req EXCEPT ![r] = q]
  BY <1>1 DEF Goto, Request, GatewayTypeOK
<1> HIDE DEF q
<1>4. Becomes(r, q)
  BY <1>2, <1>3 DEF Becomes
<1> QED
  BY <1>2, <1>4

LEMMA CountBecomes ==
  ASSUME GatewayTypeOK, NEW r \in Requests, NEW scope \in Scopes, Count(r, scope),
         req[r].caller \in Callers
  PROVE  \E q : Becomes(r, q) /\ q.stage = "incr"
<1> DEFINE k == BuildKey(scope, req[r].caller)
           q == [req[r] EXCEPT !.stage = "incr", !.key = k]
<1>1. req[r] \in Request /\ k \in Keys
  BY DEF GatewayTypeOK, BuildKey, Keys
<1>2. q \in Request /\ RequestOK(q) /\ q.stage = "incr"
  BY <1>1 DEF Request, RequestOK, Stages
<1>3. req' = [req EXCEPT ![r] = q]
  BY <1>1 DEF Count, Request, GatewayTypeOK
<1> HIDE DEF q
<1>4. Becomes(r, q)
  BY <1>2, <1>3 DEF Becomes
<1> QED
  BY <1>2, <1>4

\* The stages that do not count.
LEMMA QuietBecomes ==
  ASSUME GatewayTypeOK, NEW r \in Requests,
         Arrive(r) \/ Validate(r) \/ Abandon(r) \/ ReadBody(r) \/ Answer(r)
  PROVE  /\ UNCHANGED redis /\ UNCHANGED minute
         /\ req[r].stage # "expire"
         /\ \E q : Becomes(r, q) /\ q.stage # "expire"
<1>1. CASE Arrive(r)
  <2>1. PICK route \in Routes, c \in Callers :
          req' = [req EXCEPT ![r] =
                 IF route = "public"
                 THEN [stage |-> "incr", route |-> route, caller |-> c, key |-> BuildKey("ip", c)]
                 ELSE [stage |-> "auth", route |-> route, caller |-> c, key |-> None]]
    BY <1>1 DEF Arrive
  <2> DEFINE q == IF route = "public"
                  THEN [stage |-> "incr", route |-> route, caller |-> c, key |-> BuildKey("ip", c)]
                  ELSE [stage |-> "auth", route |-> route, caller |-> c, key |-> None]
  <2>2. BuildKey("ip", c) \in Keys
    BY DEF GatewayTypeOK, BuildKey, Keys, Scopes
  <2>3. q \in Request /\ RequestOK(q) /\ q.stage # "expire"
    BY <2>2 DEF Request, RequestOK, Stages
  <2>4. req' = [req EXCEPT ![r] = q]
    BY <2>1
  <2> HIDE DEF q
  <2>5. Becomes(r, q) /\ q.stage # "expire"
    BY <2>3, <2>4 DEF Becomes
  <2> QED
    BY <1>1, <2>5 DEF Arrive, InStage
<1>2. CASE Validate(r)
  <2>1. req[r].caller \in Callers
    BY <1>2 DEF Validate, InStage, GatewayTypeOK, RequestOK
  <2>2. \E q : Becomes(r, q) /\ q.stage # "expire"
    BY <1>2, <2>1, GotoBecomes, CountBecomes DEF Validate, Stages, Scopes
  <2> QED
    BY <1>2, <2>2 DEF Validate, InStage
<1>3. CASE Abandon(r) \/ ReadBody(r) \/ Answer(r)
  <2>1. \E q : Becomes(r, q) /\ q.stage # "expire"
    BY <1>3, GotoBecomes DEF Abandon, ReadBody, Answer, Stages
  <2> QED
    BY <1>3, <2>1 DEF Abandon, ReadBody, Answer, InStage
<1> QED
  BY <1>1, <1>2, <1>3

LEMMA DecideBecomes ==
  ASSUME GatewayTypeOK, NEW r \in Requests, NEW n \in Nat, Decide(r, n),
         req[r].stage \in {"incr", "expire"}
  PROVE  /\ \E q : Becomes(r, q) /\ q.stage # "expire"
         /\ \/ UNCHANGED passed /\ n > Limit(req[r].key.scope)
            \/ /\ passed' = [passed EXCEPT ![req[r].key] = @ + 1]
               /\ n <= Limit(req[r].key.scope)
<1>1. req[r].key \in Keys /\ req[r].caller \in Callers
  BY DEF GatewayTypeOK, RequestOK
<1>2. Limit(req[r].key.scope) \in Nat
  BY <1>1, LimitType DEF Keys
<1>3. \E q : Becomes(r, q) /\ q.stage # "expire"
  BY <1>1, GotoBecomes, CountBecomes DEF Decide, Stages, Scopes
<1> QED
  BY <1>2, <1>3 DEF Decide

\* A request that got the first value of its key.
LEMMA ExpireBecomes ==
  ASSUME GatewayTypeOK, NEW r \in Requests, InStage(r, "incr"),
         req' = [req EXCEPT ![r].stage = "expire"]
  PROVE  \E q : Becomes(r, q) /\ q.stage = "expire" /\ q.key = req[r].key
<1> DEFINE q == [req[r] EXCEPT !.stage = "expire"]
<1>1. req[r] \in Request /\ RequestOK(req[r])
  BY DEF GatewayTypeOK
<1>2. q \in Request /\ RequestOK(q) /\ q.stage = "expire" /\ q.key = req[r].key
  BY <1>1 DEF Request, RequestOK, InStage, Stages
<1>3. req' = [req EXCEPT ![r] = q]
  OBVIOUS
<1> HIDE DEF q
<1>4. Becomes(r, q)
  BY <1>2, <1>3 DEF Becomes
<1> QED
  BY <1>2, <1>4

LEMMA GatewayTyped ==
  ASSUME GatewayTypeOK, [Next]_vars
  PROVE  GatewayTypeOK'
<1>0. /\ minute \in 0..LastMinute /\ LastMinute \in Nat
      /\ counter \in [Keys -> Nat] /\ passed \in [Keys -> Nat] /\ leaked \subseteq Keys
      /\ ttl \in [Keys -> 0..LastMinute \cup {None}]
  BY GatewayAssumption DEF GatewayTypeOK
<1> DEFINE Rest == /\ minute' \in 0..LastMinute
                   /\ counter' \in [Keys -> Nat] /\ passed' \in [Keys -> Nat]
                   /\ leaked' \subseteq Keys /\ ttl' \in [Keys -> 0..LastMinute \cup {None}]
<1>1. ASSUME Rest, ReqTyped PROVE GatewayTypeOK'
  BY <1>1 DEF GatewayTypeOK, ReqTyped
<1>2. CASE UNCHANGED gateway
  BY <1>2 DEF gateway, GatewayTypeOK
<1>3. ASSUME NEW r \in Requests,
             Arrive(r) \/ Validate(r) \/ Abandon(r) \/ ReadBody(r) \/ Answer(r)
      PROVE  GatewayTypeOK'
  BY <1>0, <1>1, <1>3, QuietBecomes, BecomesTyped DEF redis
<1>4. ASSUME NEW r \in Requests, Incr(r) PROVE GatewayTypeOK'
  <2>1. InStage(r, "incr") /\ req[r].key \in Keys /\ counter[req[r].key] + 1 \in Nat
    BY <1>0, <1>4 DEF Incr, InStage, GatewayTypeOK, RequestOK
  <2>2. CASE Decide(r, counter[req[r].key] + 1)
    <3>1. ReqTyped /\ (passed' = passed \/ passed' = [passed EXCEPT ![req[r].key] = @ + 1])
      BY <2>1, <2>2, DecideBecomes, BecomesTyped DEF InStage
    <3> QED
      BY <1>0, <1>1, <1>4, <2>1, <3>1 DEF Incr
  <2>3. CASE req' = [req EXCEPT ![r].stage = "expire"] /\ UNCHANGED passed
    <3>1. ReqTyped
      BY <2>1, <2>3, ExpireBecomes, BecomesTyped
    <3> QED
      BY <1>0, <1>1, <1>4, <2>1, <2>3, <3>1 DEF Incr
  <2> QED
    BY <1>4, <2>2, <2>3 DEF Incr
<1>5. ASSUME NEW r \in Requests, IncrUnheard(r) PROVE GatewayTypeOK'
  <2>1. req[r].key \in Keys
    BY <1>5 DEF IncrUnheard, InStage, GatewayTypeOK, RequestOK
  <2>2. ReqTyped
    <3>1. CASE UNCHANGED req
      BY <3>1 DEF GatewayTypeOK, ReqTyped
    <3>2. CASE Goto(r, "failed")
      BY <3>2, GotoBecomes, BecomesTyped DEF Stages
    <3> QED
      BY <1>5, <3>1, <3>2 DEF IncrUnheard
  <2> QED
    BY <1>0, <1>1, <1>5, <2>1, <2>2 DEF IncrUnheard
<1>6. ASSUME NEW r \in Requests, Expire(r) PROVE GatewayTypeOK'
  <2>1. req[r].key \in Keys
    BY <1>6 DEF Expire, InStage, GatewayTypeOK, RequestOK
  <2>2. ReqTyped /\ (passed' = passed \/ passed' = [passed EXCEPT ![req[r].key] = @ + 1])
    BY <1>6, DecideBecomes, BecomesTyped DEF Expire, InStage
  <2> QED
    BY <1>0, <1>1, <1>6, <2>1, <2>2 DEF Expire
<1>7. ASSUME NEW r \in Requests, ExpireFails(r) PROVE GatewayTypeOK'
  <2>1. req[r].key \in Keys
    BY <1>7 DEF ExpireFails, InStage, GatewayTypeOK, RequestOK
  <2>2. ReqTyped
    BY <1>7, GotoBecomes, BecomesTyped DEF ExpireFails, Stages
  <2> QED
    BY <1>0, <1>1, <1>7, <2>1, <2>2 DEF ExpireFails
<1>8. ASSUME Redis PROVE GatewayTypeOK'
  <2>1. ReqTyped
    BY <1>8 DEF Redis, NextMinute, DropKey, GatewayTypeOK, ReqTyped
  <2>2. CASE NextMinute
    BY <1>0, <1>1, <2>1, <2>2 DEF NextMinute, redis
  <2>3. CASE \E k \in Keys : DropKey(k)
    BY <1>0, <1>1, <2>1, <2>3 DEF DropKey
  <2> QED
    BY <1>8, <2>2, <2>3 DEF Redis
<1>9. ASSUME NEW r \in Requests, Gateway(r) \/ ReadBody(r) PROVE GatewayTypeOK'
  BY <1>3, <1>4, <1>5, <1>6, <1>7, <1>9 DEF Gateway
<1> QED
  <2>1. GatewayMoves \/ UNCHANGED gateway
    BY KeptByOthers
  <2> QED
    BY <1>2, <1>8, <1>9, <2>1 DEF GatewayMoves

\* A request that is about to set the time to live of a key.
Pending(r, k) == InStage(r, "expire") /\ req[r].key = k

\* What each counter let pass is less than its value and its limit as long as the
\* request with its first value is not counted.
KeyOK(k) ==
  /\ passed[k] <= counter[k] /\ passed[k] <= Limit(k.scope)
  /\ counter[k] = 0 => ttl[k] = None
  /\ \A r \in Requests : Pending(r, k) =>
       passed[k] < counter[k] /\ passed[k] < Limit(k.scope) /\ ttl[k] = None
  /\ \A r, p \in Requests : Pending(r, k) /\ Pending(p, k) => r = p

LimitInv == \A k \in Keys : KeyOK(k)

\* The requests that are about to set a time to live, after a step of r.
LEMMA PendingKept ==
  ASSUME GatewayTypeOK, NEW r \in Requests, NEW q, Becomes(r, q),
         req[r].stage # "expire", q.stage # "expire"
  PROVE  \A p \in Requests, k \in Keys : Pending(p, k)' <=> Pending(p, k)
<1>1. req'[r] = q /\ \A p \in Requests : p # r => req'[p] = req[p]
  BY BecomesTyped
<1> QED
  BY <1>1 DEF Pending, InStage

LEMMA PendingMore ==
  ASSUME GatewayTypeOK, NEW r \in Requests, NEW q, Becomes(r, q),
         req[r].stage # "expire", q.stage = "expire"
  PROVE  \A p \in Requests, k \in Keys : Pending(p, k)' <=> Pending(p, k) \/ (p = r /\ k = q.key)
<1>1. req'[r] = q /\ \A p \in Requests : p # r => req'[p] = req[p]
  BY BecomesTyped
<1>2. ASSUME NEW k \in Keys
      PROVE  (Pending(r, k)' <=> k = q.key) /\ ~ Pending(r, k)
  BY <1>1 DEF Pending, InStage
<1>3. ASSUME NEW p \in Requests, NEW k \in Keys, p # r
      PROVE  Pending(p, k)' <=> Pending(p, k)
  BY <1>1, <1>3 DEF Pending, InStage
<1> QED
  BY <1>2, <1>3

LEMMA PendingLess ==
  ASSUME GatewayTypeOK, NEW r \in Requests, NEW q, Becomes(r, q), q.stage # "expire"
  PROVE  \A p \in Requests, k \in Keys : Pending(p, k)' <=> Pending(p, k) /\ p # r
<1>1. req'[r] = q /\ \A p \in Requests : p # r => req'[p] = req[p]
  BY BecomesTyped
<1> QED
  BY <1>1 DEF Pending, InStage

LEMMA KeyType ==
  ASSUME GatewayTypeOK, NEW k \in Keys
  PROVE  counter[k] \in Nat /\ passed[k] \in Nat /\ Limit(k.scope) \in Nat \ {0}
BY LimitType DEF GatewayTypeOK, Keys

\* A key is kept in order by what leaves it alone.
LEMMA LimitKept ==
  ASSUME LimitInv, NEW k \in Keys,
         passed'[k] = passed[k], counter'[k] = counter[k], ttl'[k] = ttl[k],
         \A p \in Requests : Pending(p, k)' => Pending(p, k)
  PROVE  KeyOK(k)'
BY DEF LimitInv, KeyOK

LEMMA QuietLimit ==
  ASSUME GatewayTypeOK, LimitInv, NEW r \in Requests,
         Arrive(r) \/ Validate(r) \/ Abandon(r) \/ ReadBody(r) \/ Answer(r)
  PROVE  LimitInv'
<1>1. PICK q : Becomes(r, q) /\ q.stage # "expire"
  BY QuietBecomes
<1>2. \A p \in Requests, k \in Keys : Pending(p, k)' => Pending(p, k)
  BY <1>1, PendingLess
<1>3. \A k \in Keys : KeyOK(k)'
  BY <1>2, QuietBecomes, LimitKept DEF redis
<1> QED
  BY <1>3 DEF LimitInv

LEMMA IncrLimit ==
  ASSUME GatewayTypeOK, LimitInv, NEW r \in Requests, Incr(r)
  PROVE  LimitInv'
<1>k. PICK key \in Keys : key = req[r].key
  BY DEF Incr, IncrUnheard, Expire, InStage, GatewayTypeOK, RequestOK
<1>0. /\ key \in Keys /\ req[r].stage \in {"incr", "expire"} /\ req[r].stage # "expire"
      /\ counter[key] \in Nat /\ passed[key] \in Nat /\ Limit(key.scope) \in Nat \ {0}
      /\ counter \in [Keys -> Nat] /\ passed \in [Keys -> Nat]
      /\ counter' = [counter EXCEPT ![key] = counter[key] + 1] /\ ttl' = ttl
  BY <1>k, KeyType DEF Incr, InStage, GatewayTypeOK, RequestOK
<1>1. CASE counter[key] + 1 = 1
  <2>1. passed' = passed /\ req' = [req EXCEPT ![r].stage = "expire"] /\ InStage(r, "incr")
    BY <1>k, <1>1 DEF Incr
  <2>2. PICK q : Becomes(r, q) /\ q.stage = "expire" /\ q.key = key
    BY <1>k, <2>1, ExpireBecomes
  <2>3. \A p \in Requests, k \in Keys : Pending(p, k)' <=> Pending(p, k) \/ (p = r /\ k = key)
    BY <1>0, <2>2, PendingMore
  <2>4. ASSUME NEW k \in Keys, k # key PROVE KeyOK(k)'
    BY <1>0, <2>1, <2>3, <2>4, LimitKept
  <2>5. KeyOK(key)'
    <3>1. KeyOK(key) /\ counter[key] = 0 /\ passed[key] = 0 /\ ttl[key] = None
      BY <1>0, <1>1 DEF LimitInv, KeyOK
    <3>2. \A p \in Requests : ~ Pending(p, key)
      BY <1>0, <3>1 DEF KeyOK
    <3>3. \A p \in Requests : Pending(p, key)' => p = r
      BY <1>0, <2>3, <3>2
    <3>4. counter'[key] = 1 /\ passed'[key] = 0 /\ ttl'[key] = None
      BY <1>0, <2>1, <3>1
    <3> QED
      BY <1>0, <3>3, <3>4 DEF KeyOK
  <2> QED
    BY <2>4, <2>5 DEF LimitInv
<1>2. CASE counter[key] + 1 # 1
  <2>1. Decide(r, counter[key] + 1) /\ counter[key] + 1 \in Nat
    BY <1>k, <1>0, <1>2 DEF Incr
  <2>2. PICK q : Becomes(r, q) /\ q.stage # "expire"
    BY <1>k, <1>0, <2>1, DecideBecomes
  <2>3. \A p \in Requests, k \in Keys : Pending(p, k)' <=> Pending(p, k)
    BY <1>0, <2>2, PendingKept
  <2>4. \/ UNCHANGED passed
        \/ passed' = [passed EXCEPT ![key] = @ + 1] /\ counter[key] + 1 <= Limit(key.scope)
    BY <1>k, <1>0, <2>1, DecideBecomes
  <2>5. ASSUME NEW k \in Keys, k # key PROVE KeyOK(k)'
    BY <1>0, <2>3, <2>4, <2>5, LimitKept
  <2>6. KeyOK(key)'
    <3>1. KeyOK(key) /\ counter'[key] = counter[key] + 1 /\ ttl'[key] = ttl[key]
      BY <1>0 DEF LimitInv
    <3>2. \/ passed'[key] = passed[key]
          \/ passed'[key] = passed[key] + 1 /\ counter[key] + 1 <= Limit(key.scope)
      BY <1>0, <2>4
    <3>3. \A p \in Requests : Pending(p, key)' <=> Pending(p, key)
      BY <1>0, <2>3
    <3> QED
      BY <1>0, <3>1, <3>2, <3>3 DEF KeyOK
  <2> QED
    BY <2>5, <2>6 DEF LimitInv
<1> QED
  BY <1>1, <1>2

LEMMA IncrUnheardLimit ==
  ASSUME GatewayTypeOK, LimitInv, NEW r \in Requests, IncrUnheard(r)
  PROVE  LimitInv'
<1>k. PICK key \in Keys : key = req[r].key
  BY DEF Incr, IncrUnheard, Expire, InStage, GatewayTypeOK, RequestOK
<1>0. /\ key \in Keys /\ counter[key] \in Nat /\ passed[key] \in Nat
      /\ Limit(key.scope) \in Nat \ {0} /\ counter \in [Keys -> Nat]
      /\ counter' = [counter EXCEPT ![key] = counter[key] + 1] /\ ttl' = ttl /\ passed' = passed
  BY <1>k, KeyType DEF IncrUnheard, InStage, GatewayTypeOK, RequestOK
<1>1. \A p \in Requests, k \in Keys : Pending(p, k)' => Pending(p, k)
  <2>1. CASE UNCHANGED req
    BY <2>1 DEF Pending, InStage
  <2>2. CASE Goto(r, "failed")
    BY <2>2, GotoBecomes, PendingLess DEF Stages
  <2> QED
    BY <2>1, <2>2 DEF IncrUnheard
<1>2. ASSUME NEW k \in Keys, k # key PROVE KeyOK(k)'
  BY <1>0, <1>1, <1>2, LimitKept
<1>3. KeyOK(key)'
  <2>1. KeyOK(key) /\ counter'[key] = counter[key] + 1 /\ ttl'[key] = ttl[key]
        /\ passed'[key] = passed[key]
    BY <1>0 DEF LimitInv
  <2>2. \A p \in Requests : Pending(p, key)' => Pending(p, key)
    BY <1>0, <1>1
  <2> QED
    BY <1>0, <2>1, <2>2 DEF KeyOK
<1> QED
  BY <1>2, <1>3 DEF LimitInv

LEMMA ExpireLimit ==
  ASSUME GatewayTypeOK, LimitInv, NEW r \in Requests, Expire(r)
  PROVE  LimitInv'
<1>k. PICK key \in Keys : key = req[r].key
  BY DEF Incr, IncrUnheard, Expire, InStage, GatewayTypeOK, RequestOK
<1>0. /\ key \in Keys /\ req[r].stage \in {"incr", "expire"} /\ Pending(r, key)
      /\ counter[key] \in Nat /\ passed[key] \in Nat /\ Limit(key.scope) \in Nat \ {0}
      /\ passed \in [Keys -> Nat] /\ counter' = counter
      /\ ttl' = [ttl EXCEPT ![key] = minute] /\ Decide(r, 1)
  BY <1>k, KeyType DEF Expire, InStage, GatewayTypeOK, RequestOK, Pending
<1>1. PICK q : Becomes(r, q) /\ q.stage # "expire"
  BY <1>k, <1>0, DecideBecomes
<1>2. \A p \in Requests, k \in Keys : Pending(p, k)' <=> Pending(p, k) /\ p # r
  BY <1>1, PendingLess
<1>3. UNCHANGED passed \/ passed' = [passed EXCEPT ![key] = @ + 1]
  BY <1>k, <1>0, DecideBecomes
<1>4. ASSUME NEW k \in Keys, k # key PROVE KeyOK(k)'
  BY <1>0, <1>2, <1>3, <1>4, LimitKept
<1>5. KeyOK(key)'
  <2>1. KeyOK(key) /\ counter'[key] = counter[key]
        /\ (passed'[key] = passed[key] \/ passed'[key] = passed[key] + 1)
    BY <1>0, <1>3 DEF LimitInv
  <2>2. passed[key] < counter[key] /\ passed[key] < Limit(key.scope)
    BY <1>0, <2>1 DEF KeyOK
  <2>3. \A p \in Requests : ~ Pending(p, key)'
    BY <1>0, <1>2, <2>1 DEF KeyOK
  <2> QED
    BY <1>0, <2>1, <2>2, <2>3 DEF KeyOK
<1> QED
  BY <1>4, <1>5 DEF LimitInv

LEMMA ExpireFailsLimit ==
  ASSUME GatewayTypeOK, LimitInv, NEW r \in Requests, ExpireFails(r)
  PROVE  LimitInv'
<1>1. \A p \in Requests, k \in Keys : Pending(p, k)' => Pending(p, k)
  BY GotoBecomes, PendingLess DEF ExpireFails, Stages
<1>2. \A k \in Keys : KeyOK(k)'
  BY <1>1, LimitKept DEF ExpireFails
<1> QED
  BY <1>2 DEF LimitInv

LEMMA RedisLimit ==
  ASSUME GatewayTypeOK, LimitInv, Redis
  PROVE  LimitInv'
<1>1. \A p \in Requests, k \in Keys : Pending(p, k)' <=> Pending(p, k)
  BY DEF Redis, NextMinute, DropKey, Pending, InStage
<1>2. CASE NextMinute
  <2>1. \A k \in Keys : KeyOK(k)'
    BY <1>1, <1>2, LimitKept DEF NextMinute, redis
  <2> QED
    BY <2>1 DEF LimitInv
<1>3. ASSUME NEW key \in Keys, DropKey(key) PROVE LimitInv'
  <2>1. ASSUME NEW k \in Keys, k # key PROVE KeyOK(k)'
    BY <1>1, <1>3, <2>1, LimitKept DEF DropKey, GatewayTypeOK
  <2>2. KeyOK(key)'
    <3>1. counter'[key] = 0 /\ passed'[key] = 0 /\ ttl'[key] = None /\ ttl[key] # None
      BY <1>3 DEF DropKey, GatewayTypeOK
    <3>2. \A p \in Requests : ~ Pending(p, key)'
      BY <1>1, <3>1 DEF LimitInv, KeyOK
    <3> QED
      BY <3>1, <3>2, KeyType DEF KeyOK
  <2> QED
    BY <2>1, <2>2 DEF LimitInv
<1> QED
  BY <1>2, <1>3 DEF Redis

LEMMA LimitInvKept ==
  ASSUME GatewayTypeOK, LimitInv, [Next]_vars
  PROVE  LimitInv'
<1>1. CASE UNCHANGED gateway
  <2>1. \A p \in Requests, k \in Keys : Pending(p, k)' => Pending(p, k)
    BY <1>1 DEF gateway, Pending, InStage
  <2>2. \A k \in Keys : KeyOK(k)'
    BY <1>1, <2>1, LimitKept DEF gateway
  <2> QED
    BY <2>2 DEF LimitInv
<1>2. ASSUME NEW r \in Requests, Gateway(r) \/ ReadBody(r) PROVE LimitInv'
  BY <1>2, QuietLimit, IncrLimit, IncrUnheardLimit, ExpireLimit, ExpireFailsLimit DEF Gateway
<1> QED
  BY <1>1, <1>2, KeptByOthers, RedisLimit DEF GatewayMoves

\* A counter lets no more requests pass than its limit until it expires.
THEOREM WithinLimitHolds == Spec => []WithinLimit
<1>1. Init => GatewayTypeOK /\ LimitInv
  <2> SUFFICES ASSUME Init PROVE GatewayTypeOK /\ LimitInv
    OBVIOUS
  <2>1. GatewayTypeOK
    BY GatewayAssumption DEF Init, GatewayInit, GatewayTypeOK, Request, RequestOK, Stages
  <2>2. ASSUME NEW k \in Keys PROVE KeyOK(k)
    BY LimitType DEF Keys, KeyOK, Pending, InStage, Init, GatewayInit
  <2> QED
    BY <2>1, <2>2 DEF LimitInv
<1>2. GatewayTypeOK /\ LimitInv /\ [Next]_vars => (GatewayTypeOK /\ LimitInv)'
  BY GatewayTyped, LimitInvKept
<1>3. LimitInv => WithinLimit
  BY DEF LimitInv, KeyOK, WithinLimit
<1> QED
  BY <1>1, <1>2, <1>3, PTL DEF Spec

LEMMA ExpiresKept ==
  ASSUME GatewayTypeOK, Expires, [Next]_vars
  PROVE  Expires'
<1> DEFINE Has(k) == counter[k] > 0 /\ ttl[k] = None =>
                       k \in leaked \/ \E p \in Requests : Pending(p, k)
<1>0. \A k \in Keys : Has(k)
  BY DEF Expires, Pending
<1>1. ASSUME \A k \in Keys : Has(k)' PROVE Expires'
  BY <1>1 DEF Expires, Pending
<1>2. CASE UNCHANGED gateway
  BY <1>2 DEF gateway, Expires, InStage
<1>3. ASSUME NEW r \in Requests,
             Arrive(r) \/ Validate(r) \/ Abandon(r) \/ ReadBody(r) \/ Answer(r)
      PROVE  Expires'
  <2>1. \A p \in Requests, k \in Keys : Pending(p, k)' <=> Pending(p, k)
    BY <1>3, QuietBecomes, PendingKept
  <2> QED
    BY <1>0, <1>1, <1>3, <2>1, QuietBecomes DEF redis
<1>4. ASSUME NEW r \in Requests, Incr(r) PROVE Expires'
  <2>1. PICK key \in Keys : key = req[r].key
    BY <1>4 DEF Incr, InStage, GatewayTypeOK, RequestOK
  <2>2. /\ counter' = [counter EXCEPT ![key] = counter[key] + 1] /\ ttl' = ttl /\ leaked' = leaked
        /\ counter \in [Keys -> Nat] /\ InStage(r, "incr") /\ req[r].stage = "incr"
    BY <1>4, <2>1 DEF Incr, InStage, GatewayTypeOK
  <2>3. CASE counter[key] + 1 = 1
    <3>1. PICK q : Becomes(r, q) /\ q.stage = "expire" /\ q.key = key
      BY <1>4, <2>1, <2>2, <2>3, ExpireBecomes DEF Incr
    <3>2. \A p \in Requests, k \in Keys : Pending(p, k)' <=> Pending(p, k) \/ (p = r /\ k = key)
      BY <2>2, <3>1, PendingMore
    <3> QED
      BY <1>0, <1>1, <2>2, <3>2
  <2>4. CASE counter[key] + 1 # 1
    <3>1. \A p \in Requests, k \in Keys : Pending(p, k)' <=> Pending(p, k)
      BY <1>4, <2>1, <2>2, <2>4, DecideBecomes, PendingKept DEF Incr
    <3>2. counter[key] > 0
      BY <2>2, <2>4
    <3> QED
      BY <1>0, <1>1, <2>2, <3>1, <3>2
  <2> QED
    BY <2>3, <2>4
<1>5. ASSUME NEW r \in Requests, IncrUnheard(r) PROVE Expires'
  <2>1. PICK key \in Keys : key = req[r].key
    BY <1>5 DEF IncrUnheard, InStage, GatewayTypeOK, RequestOK
  <2>2. /\ counter' = [counter EXCEPT ![key] = counter[key] + 1] /\ ttl' = ttl
        /\ leaked' = IF counter[key] + 1 = 1 THEN leaked \cup {key} ELSE leaked
        /\ counter \in [Keys -> Nat] /\ req[r].stage = "incr"
    BY <1>5, <2>1 DEF IncrUnheard, InStage, GatewayTypeOK
  <2>3. \A p \in Requests, k \in Keys : Pending(p, k)' <=> Pending(p, k)
    <3>1. CASE UNCHANGED req
      BY <3>1 DEF Pending, InStage
    <3>2. CASE Goto(r, "failed")
      BY <2>2, <3>2, GotoBecomes, PendingKept DEF Stages
    <3> QED
      BY <1>5, <3>1, <3>2 DEF IncrUnheard
  <2>4. counter[key] > 0 \/ key \in leaked'
    BY <2>2
  <2> QED
    BY <1>0, <1>1, <2>2, <2>3, <2>4
<1>6. ASSUME NEW r \in Requests, Expire(r) PROVE Expires'
  <2>1. PICK key \in Keys : key = req[r].key
    BY <1>6 DEF Expire, InStage, GatewayTypeOK, RequestOK
  <2>2. /\ counter' = counter /\ leaked' = leaked /\ ttl' = [ttl EXCEPT ![key] = minute]
        /\ minute # None /\ ttl \in [Keys -> 0..LastMinute \cup {None}]
    BY <1>6, <2>1, GatewayAssumption DEF Expire, GatewayTypeOK
  <2>3. \A p \in Requests, k \in Keys : Pending(p, k)' <=> Pending(p, k) /\ p # r
    BY <1>6, DecideBecomes, PendingLess DEF Expire, InStage
  <2>4. \A k \in Keys : Pending(r, k) => k = key
    BY <2>1 DEF Pending
  <2> QED
    BY <1>0, <1>1, <2>2, <2>3, <2>4
<1>7. ASSUME NEW r \in Requests, ExpireFails(r) PROVE Expires'
  <2>1. PICK key \in Keys : key = req[r].key
    BY <1>7 DEF ExpireFails, InStage, GatewayTypeOK, RequestOK
  <2>2. \A p \in Requests, k \in Keys : Pending(p, k)' <=> Pending(p, k) /\ p # r
    BY <1>7, GotoBecomes, PendingLess DEF ExpireFails, Stages
  <2>3. \A k \in Keys : Pending(r, k) => k = key
    BY <2>1 DEF Pending
  <2> QED
    BY <1>0, <1>1, <1>7, <2>1, <2>2, <2>3 DEF ExpireFails
<1>8. ASSUME Redis PROVE Expires'
  <2>1. \A p \in Requests, k \in Keys : Pending(p, k)' <=> Pending(p, k)
    BY <1>8 DEF Redis, NextMinute, DropKey, Pending, InStage
  <2>2. CASE NextMinute
    BY <1>0, <1>1, <2>1, <2>2 DEF NextMinute, redis
  <2>3. CASE \E k \in Keys : DropKey(k)
    BY <1>0, <1>1, <2>1, <2>3 DEF DropKey, GatewayTypeOK
  <2> QED
    BY <1>8, <2>2, <2>3 DEF Redis
<1>9. ASSUME NEW r \in Requests, Gateway(r) \/ ReadBody(r) PROVE Expires'
  BY <1>3, <1>4, <1>5, <1>6, <1>7, <1>9 DEF Gateway
<1> QED
  BY <1>2, <1>8, <1>9, KeptByOthers DEF GatewayMoves

LEMMA GatewayStarts == ASSUME Init PROVE GatewayTypeOK
BY GatewayAssumption DEF Init, GatewayInit, GatewayTypeOK, Request, RequestOK, Stages

\* A counter without a time to live is about to get it, or a command went wrong.
THEOREM ExpiresHolds == Spec => []Expires
<1>1. Init => GatewayTypeOK /\ Expires
  BY GatewayStarts DEF Init, GatewayInit, Expires
<1>2. GatewayTypeOK /\ Expires /\ [Next]_vars => (GatewayTypeOK /\ Expires)'
  BY GatewayTyped, ExpiresKept
<1> QED
  BY <1>1, <1>2, PTL DEF Spec

------------------------------------------------------------------------------
(* The execution service.                                                  *)

Phases == {"none", "admitted", "running", "waiting", "over"}
BusyPhases == {"admitted", "running", "waiting"}

LEMMA BusyFinite == IsFiniteSet(Busy)
BY CapacityAssumption, FS_Subset DEF Busy

\* The tokens follow the requests that enter and leave.
LEMMA BusyMoves ==
  ASSUME ExecutionTypeOK, SlotsExact, NEW r \in Requests, NEW x \in Phases,
         phase' = [phase EXCEPT ![r] = x],
         slots' = IF x \in BusyPhases THEN IF r \in Busy THEN slots ELSE slots + 1
                  ELSE IF r \in Busy THEN slots - 1 ELSE slots,
         r \notin Busy /\ x \in BusyPhases => slots < Capacity
  PROVE  SlotsExact' /\ slots' \in 0..Capacity
<1>1. Busy' = IF x \in BusyPhases THEN Busy \cup {r} ELSE Busy \ {r}
  BY DEF Busy, BusyPhases, ExecutionTypeOK
<1>2. Capacity \in Nat /\ slots \in 0..Capacity /\ slots = Cardinality(Busy)
  BY CapacityAssumption DEF ExecutionTypeOK, SlotsExact
<1>3. CASE x \in BusyPhases /\ r \notin Busy
  <2>1. Cardinality(Busy \cup {r}) = Cardinality(Busy) + 1
    BY <1>3, BusyFinite, FS_AddElement
  <2>2. Busy' = Busy \cup {r} /\ slots' = slots + 1 /\ slots < Capacity
    BY <1>1, <1>3
  <2>3. slots' = Cardinality(Busy')
    BY <1>2, <2>1, <2>2
  <2> QED
    BY <1>2, <2>2, <2>3 DEF SlotsExact
<1>4. CASE x \in BusyPhases /\ r \in Busy
  <2>1. Busy' = Busy
    BY <1>1, <1>4
  <2> QED
    BY <1>2, <1>4, <2>1 DEF SlotsExact
<1>5. CASE x \notin BusyPhases /\ r \notin Busy
  <2>1. Busy' = Busy
    BY <1>1, <1>5
  <2> QED
    BY <1>2, <1>5, <2>1 DEF SlotsExact
<1>6. CASE x \notin BusyPhases /\ r \in Busy
  <2>1. Cardinality(Busy \ {r}) = Cardinality(Busy) - 1
    BY <1>6, BusyFinite, FS_RemoveElement
  <2>2. Cardinality(Busy) # 0
    BY <1>6, BusyFinite, FS_EmptySet
  <2> QED
    BY <1>1, <1>2, <1>6, <2>1, <2>2 DEF SlotsExact
<1> QED
  BY <1>3, <1>4, <1>5, <1>6

LEMMA ExecutionKept ==
  ASSUME ExecutionTypeOK, SlotsExact, [Next]_vars
  PROVE  ExecutionTypeOK' /\ SlotsExact'
<1> DEFINE Goal == ExecutionTypeOK' /\ SlotsExact'
<1>0. \A r \in Requests : r \in Busy <=> phase[r] \in BusyPhases
  BY DEF Busy, BusyPhases
<1>1. ASSUME UNCHANGED <<slots, phase>>, held' \in [Requests -> BOOLEAN],
             reply' \in [Requests -> {"none", "result", "error"}],
             event' \in [Requests -> {"none", "pending", "published", "lost"}]
      PROVE  Goal
  BY <1>1 DEF ExecutionTypeOK, SlotsExact, Busy
<1>2. ASSUME UNCHANGED execution PROVE Goal
  BY <1>1, <1>2 DEF execution, ExecutionTypeOK
<1>3. ASSUME NEW r \in Requests, NEW outcome \in {"published", "lost"}, Publish(r, outcome)
      PROVE  Goal
  BY <1>1, <1>3 DEF Publish, ExecutionTypeOK
<1>4. ASSUME Crash PROVE Goal
  <2>1. Busy' = {}
    BY <1>4 DEF Crash, Busy, ExecutionTypeOK
  <2>2. SlotsExact'
    BY <1>4, <2>1, FS_EmptySet DEF Crash, SlotsExact
  <2>3. ExecutionTypeOK'
    BY <1>4, CapacityAssumption DEF Crash, ExecutionTypeOK, Busy
  <2> QED
    BY <2>2, <2>3
<1>5. ASSUME NEW r \in Requests, Execution(r) PROVE Goal
  <2>1. ASSUME SlotsExact', slots' \in 0..Capacity, NEW x \in Phases,
               phase' = [phase EXCEPT ![r] = x],
               held' \in [Requests -> BOOLEAN],
               reply' \in [Requests -> {"none", "result", "error"}],
               event' \in [Requests -> {"none", "pending", "published", "lost"}]
        PROVE  Goal
    BY <2>1 DEF ExecutionTypeOK, Phases
  <2>2. CASE Execute(r)
    <3>1. CASE Refuse(r)
      <4>1. SlotsExact' /\ slots' \in 0..Capacity
        BY <1>0, <2>2, <3>1, BusyMoves DEF Execute, Refuse, InPhase, Phases, BusyPhases
      <4> QED
        BY <2>1, <3>1, <4>1 DEF Refuse, ExecutionTypeOK, Phases
    <3>2. CASE ~ Refuse(r)
      <4>1. SlotsExact' /\ slots' \in 0..Capacity
        BY <1>0, <2>2, <3>2, BusyMoves DEF Execute, InPhase, Phases, BusyPhases
      <4> QED
        BY <2>1, <2>2, <3>2, <4>1 DEF Execute, ExecutionTypeOK, Phases
    <3> QED
      BY <3>1, <3>2
  <2>3. CASE FailToStart(r)
    <3>1. SlotsExact' /\ slots' \in 0..Capacity
      BY <1>0, <2>3, BusyMoves DEF FailToStart, Finish, InPhase, Phases, BusyPhases
    <3> QED
      BY <2>1, <2>3, <3>1 DEF FailToStart, Finish, ExecutionTypeOK, Phases
  <2>4. CASE Start(r)
    <3>1. SlotsExact' /\ slots' \in 0..Capacity
      BY <1>0, <2>4, BusyMoves DEF Start, InPhase, Phases, BusyPhases
    <3> QED
      BY <2>1, <2>4, <3>1 DEF Start, ExecutionTypeOK, Phases
  <2>5. CASE Fork(r) \/ LetGo(r)
    BY <1>1, <2>5 DEF Fork, LetGo, ExecutionTypeOK
  <2>6. CASE End(r)
    <3>1. SlotsExact' /\ slots' \in 0..Capacity
      BY <1>0, <2>6, BusyMoves DEF End, InPhase, Phases, BusyPhases
    <3> QED
      BY <2>1, <2>6, <3>1 DEF End, ExecutionTypeOK, Phases
  <2>7. CASE Return(r)
    <3>1. SlotsExact' /\ slots' \in 0..Capacity
      BY <1>0, <2>7, BusyMoves DEF Return, Finish, InPhase, Phases, BusyPhases
    <3> QED
      BY <2>1, <2>7, <3>1 DEF Return, Finish, ExecutionTypeOK, Phases
  <2> QED
    BY <1>5, <2>2, <2>3, <2>4, <2>5, <2>6, <2>7 DEF Execution, Exit, Deadline, Cancel
<1> QED
  BY <1>2, <1>3, <1>4, <1>5, KeptByOthers DEF ExecutionMoves

LEMMA ExecutionStarts == ASSUME Init PROVE ExecutionTypeOK /\ SlotsExact
<1>1. Busy = {}
  BY DEF Init, ExecutionInit, Busy
<1>2. SlotsExact
  BY <1>1, FS_EmptySet DEF Init, ExecutionInit, SlotsExact
<1>3. ExecutionTypeOK
  BY CapacityAssumption DEF Init, ExecutionInit, ExecutionTypeOK
<1> QED
  BY <1>2, <1>3

\* The semaphore holds as many tokens as requests are being run.
THEOREM SlotsExactHolds == Spec => []SlotsExact
<1>1. ExecutionTypeOK /\ SlotsExact /\ [Next]_vars => (ExecutionTypeOK /\ SlotsExact)'
  BY ExecutionKept
<1> QED
  BY <1>1, ExecutionStarts, PTL DEF Spec

------------------------------------------------------------------------------
(* The notification service.                                               *)

NotificationInv ==
  /\ NotificationTypeOK
  /\ \A e \in Events :
       /\ letter[e] = "none" => attempts[e] = 0 /\ sent[e] = 0
       /\ letter[e] = "acked" => sent[e] > 0
       /\ letter[e] = "dead" => attempts[e] = Attempts
       /\ sent[e] > 0 => valid[e]

LEMMA NotificationKept ==
  ASSUME NotificationInv, [Next]_vars
  PROVE  NotificationInv'
<1> USE AttemptsAssumption DEF NotificationInv, NotificationTypeOK
<1>1. CASE UNCHANGED notification
  BY <1>1 DEF notification
<1>2. ASSUME NEW e \in Events, NEW fits \in BOOLEAN, Enqueue(e, fits) PROVE NotificationInv'
  BY <1>2 DEF Enqueue
<1>3. ASSUME NEW e \in Events, Unverified(e) \/ Invalid(e) PROVE NotificationInv'
  BY <1>3 DEF Unverified, Invalid, Retry
<1>4. ASSUME NEW e \in Events, Accept(e) PROVE NotificationInv'
  BY <1>4 DEF Accept, Send
<1>5. ASSUME NEW e \in Events, AcceptUnheard(e) PROVE NotificationInv'
  BY <1>5 DEF AcceptUnheard, Retry, Send
<1> QED
  BY <1>1, <1>2, <1>3, <1>4, <1>5, KeptByOthers DEF NotificationMoves, Deliver

LEMMA NotificationStarts == ASSUME Init PROVE NotificationInv
BY AttemptsAssumption DEF Init, NotificationInit, NotificationInv, NotificationTypeOK

\* Type correctness of the composition.
THEOREM TypeCorrect == Spec => []TypeOK
<1> DEFINE Inv == GatewayTypeOK /\ ExecutionTypeOK /\ SlotsExact /\ NotificationInv
<1>1. Init => Inv
  BY GatewayStarts, ExecutionStarts, NotificationStarts
<1>2. Inv /\ [Next]_vars => Inv'
  BY GatewayTyped, ExecutionKept, NotificationKept
<1>3. Inv => TypeOK
  BY DEF NotificationInv, TypeOK
<1> QED
  BY <1>1, <1>2, <1>3, PTL DEF Spec

------------------------------------------------------------------------------
(* The three services together.                                            *)

\* A request in one state of the gateway and of the execution service.
Fits(r) ==
  /\ Refused(r) \/ req[r].route # "execute" => phase[r] = "none"
  /\ reply[r] = "result" <=> event[r] # "none"
  /\ letter[r] # "none" => event[r] = "published" \/ req[r].route = "api"
  /\ event[r] = "published" => letter[r] # "none"
  /\ phase[r] # "over" => reply[r] = "none"
  /\ InStage(r, "new") => req[r].route = None

PathInv == \A r \in Requests : Fits(r)

\* A request's way through the gateway: it gets its route when it arrives and is
\* not counted or checked any more once it is forwarded.
Path(p) ==
  \/ req'[p] = req[p]
  \/ InStage(p, "new") /\ Refused(p)' /\ ~ InStage(p, "new")'
  \/ /\ req'[p].route = req[p].route
     /\ ~ InStage(p, "new")' /\ ~ InStage(p, "new") /\ (Refused(p)' => Refused(p))

LEMMA GotoPath ==
  ASSUME GatewayTypeOK, NEW r \in Requests, NEW stage \in Stages \ {"new"}, Goto(r, stage),
         ~ InStage(r, "new"), Refused(r) \/ stage \notin {"auth", "incr", "expire", "refused"}
  PROVE  \A p \in Requests : Path(p)
<1>1. req \in [Requests -> Request]
  BY DEF GatewayTypeOK
<1>2. req'[r].stage = stage /\ req'[r].route = req[r].route
  BY <1>1 DEF Goto, Request
<1>3. \A p \in Requests : p # r => req'[p] = req[p]
  BY <1>1 DEF Goto
<1> QED
  BY <1>2, <1>3 DEF Path, InStage, Refused

LEMMA CountPath ==
  ASSUME GatewayTypeOK, NEW r \in Requests, NEW scope, Count(r, scope),
         ~ InStage(r, "new"), Refused(r)
  PROVE  \A p \in Requests : Path(p)
<1>1. req \in [Requests -> Request]
  BY DEF GatewayTypeOK
<1>2. req'[r].stage = "incr" /\ req'[r].route = req[r].route
  BY <1>1 DEF Count, Request
<1>3. \A p \in Requests : p # r => req'[p] = req[p]
  BY <1>1 DEF Count
<1> QED
  BY <1>2, <1>3 DEF Path, InStage, Refused

LEMMA DecidePath ==
  ASSUME GatewayTypeOK, NEW r \in Requests, NEW n, Decide(r, n),
         ~ InStage(r, "new"), Refused(r)
  PROVE  \A p \in Requests : Path(p)
BY GotoPath, CountPath DEF Decide, Stages

LEMMA GatewayPath ==
  ASSUME GatewayTypeOK, GatewayMoves
  PROVE  \A p \in Requests : Path(p)
<1>1. CASE Redis
  BY <1>1 DEF Redis, NextMinute, DropKey, Path
<1>2. ASSUME NEW r \in Requests, Arrive(r) PROVE \A p \in Requests : Path(p)
  <2>1. req'[r].stage \in {"incr", "auth"} /\ InStage(r, "new")
    BY <1>2 DEF Arrive, GatewayTypeOK
  <2>2. \A p \in Requests : p # r => req'[p] = req[p]
    BY <1>2 DEF Arrive, GatewayTypeOK
  <2> QED
    BY <2>1, <2>2 DEF Path, InStage, Refused
<1>3. ASSUME NEW r \in Requests, Validate(r) PROVE \A p \in Requests : Path(p)
  BY <1>3, GotoPath, CountPath DEF Validate, InStage, Refused, Stages
<1>4. ASSUME NEW r \in Requests, Incr(r) PROVE \A p \in Requests : Path(p)
  <2>1. InStage(r, "incr") /\ Refused(r) /\ ~ InStage(r, "new")
    BY <1>4 DEF Incr, InStage, Refused
  <2>2. CASE req' = [req EXCEPT ![r].stage = "expire"]
    <3>1. req \in [Requests -> Request]
      BY DEF GatewayTypeOK
    <3>2. req'[r].stage = "expire" /\ req'[r].route = req[r].route
      BY <2>2, <3>1 DEF Request
    <3>3. \A p \in Requests : p # r => req'[p] = req[p]
      BY <2>2, <3>1
    <3> QED
      BY <2>1, <3>2, <3>3 DEF Path, InStage
  <2> QED
    BY <1>4, <2>1, <2>2, DecidePath DEF Incr
<1>5. ASSUME NEW r \in Requests, IncrUnheard(r) PROVE \A p \in Requests : Path(p)
  <2>1. CASE UNCHANGED req
    BY <2>1 DEF Path
  <2> QED
    BY <1>5, <2>1, GotoPath DEF IncrUnheard, InStage, Refused, Stages
<1>6. ASSUME NEW r \in Requests, Expire(r) PROVE \A p \in Requests : Path(p)
  BY <1>6, DecidePath DEF Expire, InStage, Refused
<1>7. ASSUME NEW r \in Requests, ExpireFails(r) \/ Abandon(r) \/ ReadBody(r) \/ Answer(r)
      PROVE  \A p \in Requests : Path(p)
  BY <1>7, GotoPath DEF ExpireFails, Abandon, ReadBody, Answer, InStage, Refused, Stages
<1> QED
  BY <1>1, <1>2, <1>3, <1>4, <1>5, <1>6, <1>7 DEF GatewayMoves, Gateway

\* What changes for one request in the execution service.
LEMMA ExecutionFits ==
  ASSUME ExecutionTypeOK, PathInv, ExecutionMoves
  PROVE  PathInv'
<1>0. req' = req /\ letter' = letter /\ \A r \in Requests : Fits(r)
  BY DEF ExecutionMoves, gateway, notification, PathInv
<1>1. CASE Crash
  <2>1. ASSUME NEW r \in Requests PROVE Fits(r)'
    BY <1>0, <1>1 DEF Crash, Busy, ExecutionTypeOK, Fits, Refused, InStage
  <2> QED
    BY <2>1 DEF PathInv
<1>2. ASSUME NEW r \in Requests, Execution(r) PROVE PathInv'
  <2>1. ASSUME NEW p \in Requests, p # r PROVE Fits(p)'
    <3>1. phase'[p] = phase[p] /\ reply'[p] = reply[p] /\ event'[p] = event[p]
      BY <1>2, <2>1 DEF Execution, Execute, Refuse, FailToStart, Start, Fork, LetGo, Exit,
                        Deadline, Cancel, End, Return, Finish, ExecutionTypeOK
    <3> QED
      BY <1>0, <3>1 DEF Fits, Refused, InStage
  <2>2. Fits(r)'
    <3>1. CASE Execute(r)
      BY <1>0, <3>1 DEF Execute, Refuse, Forwarded, InPhase, ExecutionTypeOK, Fits, Refused, InStage
    <3>2. CASE FailToStart(r)
      BY <1>0, <3>2 DEF FailToStart, Finish, InPhase, ExecutionTypeOK, Fits, Refused, InStage
    <3>3. CASE Start(r)
      BY <1>0, <3>3 DEF Start, InPhase, ExecutionTypeOK, Fits, Refused, InStage
    <3>4. CASE Fork(r) \/ LetGo(r)
      BY <1>0, <3>4 DEF Fork, LetGo, InPhase, ExecutionTypeOK, Fits, Refused, InStage
    <3>5. CASE End(r)
      BY <1>0, <3>5 DEF End, InPhase, ExecutionTypeOK, Fits, Refused, InStage
    <3>6. CASE Return(r)
      BY <1>0, <3>6 DEF Return, Finish, InPhase, ExecutionTypeOK, Fits, Refused, InStage
    <3> QED
      BY <1>2, <3>1, <3>2, <3>3, <3>4, <3>5, <3>6 DEF Execution, Exit, Deadline, Cancel
  <2> QED
    BY <2>1, <2>2 DEF PathInv
<1> QED
  BY <1>1, <1>2 DEF ExecutionMoves

LEMMA PathKept ==
  ASSUME GatewayTypeOK, ExecutionTypeOK, NotificationTypeOK, PathInv, [Next]_vars
  PROVE  PathInv'
<1>0. \A r \in Requests : Fits(r)
  BY DEF PathInv
<1>1. CASE GatewayMoves
  <2>1. ASSUME NEW r \in Requests PROVE Fits(r)'
    <3>1. Path(r)
      BY <1>1, GatewayPath
    <3>2. /\ phase' = phase /\ reply' = reply /\ event' = event /\ letter' = letter
          /\ Fits(r)
      BY <1>0, <1>1 DEF GatewayMoves, execution, notification
    <3>3. CASE req'[r] = req[r]
      BY <3>2, <3>3 DEF Fits, Refused, InStage
    <3>4. CASE InStage(r, "new") /\ Refused(r)' /\ ~ InStage(r, "new")'
      <4>1. phase[r] = "none" /\ reply[r] = "none" /\ event[r] = "none" /\ letter[r] = "none"
        BY <3>2, <3>4, GatewayAssumption DEF Fits, Refused, InStage, Routes
      <4> QED
        BY <3>2, <3>4, <4>1 DEF Fits
    <3>5. CASE /\ req'[r].route = req[r].route
               /\ ~ InStage(r, "new")' /\ ~ InStage(r, "new") /\ (Refused(r)' => Refused(r))
      BY <3>2, <3>5 DEF Fits
    <3> QED
      BY <3>1, <3>3, <3>4, <3>5 DEF Path
  <2> QED
    BY <2>1 DEF PathInv
<1>2. CASE NotificationMoves
  <2>1. \A r \in Requests : letter'[r] # "none" <=> letter[r] # "none"
    BY <1>2, EventsAssumption
    DEF NotificationMoves, Deliver, Unverified, Invalid, Accept, AcceptUnheard, Retry,
        NotificationTypeOK
  <2>2. UNCHANGED <<req, phase, reply, event>>
    BY <1>2 DEF NotificationMoves, gateway, execution
  <2>3. ASSUME NEW r \in Requests PROVE Fits(r)'
    BY <1>0, <2>1, <2>2 DEF Fits, Refused, InStage
  <2> QED
    BY <2>3 DEF PathInv
<1>3. ASSUME NEW e \in Requests, PublishResult(e) PROVE PathInv'
  <2>1. UNCHANGED <<req, phase, reply>>
    BY <1>3 DEF PublishResult, Publish, gateway
  <2>2. ASSUME NEW r \in Requests, r # e PROVE Fits(r)'
    <3>1. event'[r] = event[r] /\ letter'[r] = letter[r]
      BY <1>3, <2>2, EventsAssumption
      DEF PublishResult, Publish, Enqueue, notification, ExecutionTypeOK, NotificationTypeOK
    <3> QED
      BY <1>0, <2>1, <3>1 DEF Fits, Refused, InStage
  <2>3. Fits(e)'
    <3>1. /\ event[e] = "pending"
          /\ \/ event'[e] = "published" /\ letter'[e] = "queued"
             \/ event'[e] = "lost" /\ letter' = letter
      BY <1>3, EventsAssumption
      DEF PublishResult, Publish, Enqueue, notification, ExecutionTypeOK, NotificationTypeOK
    <3> QED
      BY <1>0, <2>1, <3>1 DEF Fits, Refused, InStage
  <2> QED
    BY <2>2, <2>3 DEF PathInv
<1>4. ASSUME NEW e \in Requests, PublishOther(e) PROVE PathInv'
  <2>1. UNCHANGED <<req, phase, reply, event>>
    BY <1>4 DEF PublishOther, gateway, execution
  <2>2. \A r \in Requests : r # e => letter'[r] = letter[r]
    BY <1>4 DEF PublishOther, Enqueue, NotificationTypeOK
  <2>3. req[e].route = "api" /\ letter'[e] = "queued"
    BY <1>4, EventsAssumption DEF PublishOther, Enqueue, NotificationTypeOK
  <2>4. ASSUME NEW r \in Requests PROVE Fits(r)'
    BY <1>0, <2>1, <2>2, <2>3 DEF Fits, Refused, InStage
  <2> QED
    BY <2>4 DEF PathInv
<1>5. CASE UNCHANGED vars
  <2>1. ASSUME NEW r \in Requests PROVE Fits(r)'
    BY <1>0, <1>5 DEF vars, gateway, execution, notification, Fits, Refused, InStage
  <2> QED
    BY <2>1 DEF PathInv
<1> QED
  BY <1>1, <1>2, <1>3, <1>4, <1>5, StepCases, ExecutionFits

\* The invariant of the composition.
LEMMA WholeInvariant == Spec => [](ExecutionTypeOK /\ NotificationInv /\ PathInv)
<1> DEFINE Inv == /\ GatewayTypeOK /\ ExecutionTypeOK /\ SlotsExact /\ NotificationInv
                  /\ PathInv
<1>1. Init => Inv
  <2> SUFFICES ASSUME Init PROVE Inv
    OBVIOUS
  <2>1. ASSUME NEW r \in Requests PROVE Fits(r)
    BY EventsAssumption
    DEF Init, GatewayInit, ExecutionInit, NotificationInit, Fits, Refused, InStage
  <2> QED
    BY <2>1, GatewayStarts, ExecutionStarts, NotificationStarts DEF PathInv
<1>2. Inv /\ [Next]_vars => Inv'
  BY GatewayTyped, ExecutionKept, NotificationKept, PathKept DEF NotificationInv
<1> QED
  BY <1>1, <1>2, PTL DEF Spec

\* What a request leaves behind in the three services fits together.
THEOREM ConsistentHolds == Spec => []Consistent
<1>1. PathInv => Consistent
  BY DEF PathInv, Fits, Consistent
<1> QED
  BY <1>1, WholeInvariant, PTL

\* A result gets lost only in its publishing, by a crash before it, or when QStash
\* has no attempts left; nobody is told of anything else.
THEOREM ResultToldHolds == Spec => []ResultTold
<1>1. ExecutionTypeOK /\ NotificationInv /\ PathInv => ResultTold
  <2> SUFFICES ASSUME ExecutionTypeOK, NotificationInv, PathInv, NEW r \in Requests
               PROVE  /\ reply[r] = "result" =>
                           \/ event[r] \in {"pending", "lost"}
                           \/ letter[r] = "queued"
                           \/ letter[r] = "dead" /\ attempts[r] = Attempts
                           \/ sent[r] > 0
                      /\ req[r].route = "execute" /\ sent[r] > 0
                           => reply[r] = "result" /\ valid[r]
    BY DEF ResultTold
  <2>1. Fits(r) /\ r \in Events
    BY EventsAssumption DEF PathInv
  <2>2. letter[r] \in {"none", "queued", "acked", "dead"} /\ sent[r] \in Nat
    BY <2>1 DEF NotificationInv, NotificationTypeOK
  <2>3. CASE reply[r] = "result"
    <3>1. event[r] \in {"pending", "lost"} \/ letter[r] # "none"
      BY <2>1, <2>3 DEF Fits, ExecutionTypeOK
    <3> QED
      BY <2>1, <2>2, <2>3, <3>1 DEF NotificationInv
  <2>4. CASE req[r].route = "execute" /\ sent[r] > 0
    BY <2>1, <2>2, <2>4 DEF NotificationInv, Fits
  <2> QED
    BY <2>1, <2>2, <2>3, <2>4 DEF NotificationInv
<1> QED
  BY <1>1, WholeInvariant, PTL
==============================================================================
