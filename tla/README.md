# CollabCode in TLA+

CollabCode is an online editor made of a React client, an API gateway and six
services. This directory holds TLA+ models of the parts of it that share state
between concurrent actors, TLC configurations that check them on small
instances, and TLAPS proofs of their most important properties for every
instance. The models are translated from the code under `src/`; the repository
has no tests to speak of, so the READMEs of the services and the comments are
the only statements of intent there are.

## 1. Inventory

| Component | State | Operations | What is hard | What makes it correct |
|---|---|---|---|---|
| file service (`apps/file-service`) | per file: a Postgres row, an R2 blob, `FileVersion` rows, a Redis lock key | create, get, list, update, delete; acquire, release, renew the lock | every handler is a chain of awaited calls to three stores, without a transaction; the lock is looked at once | one writer at a time, no gap in the versions, agreement of the stores, regular reads, locks of deleted files go away |
| web client, `useFileLock` (`apps/frontend`) | an interval per open editor | acquire on mount and on every interval, release on cleanup | calls are fired and forgotten, their failures too; tabs vanish | an abandoned lock is freed; an open file that is free is asked for within an interval |
| auth service (`apps/auth-service`) | users, refresh-token rows | register, login, refresh (rotation), logout, me, validate | concurrent refreshes, logout racing a refresh, lost replies | a token is exchanged once, a session has one live token until it is ended and belongs to the account whose password opened it |
| collaboration service (Go, `apps/collaboration-service`) | rooms and their clients in memory, a bounded queue per client, document log and presence hash in Redis | join, leave, relay an update, presence update, snapshot | goroutines of all connections share rooms; emptiness check and removal under two locks; bounded queues; one Redis connection for all | every client of a document is in the room the map holds; a joiner has log plus relayed updates; presence converges |
| workspace service (`apps/workspace-service`) | workspaces, members with roles, projects; published events | CRUD on workspaces and projects, invite, change role, remove | the role check, the lookup and the mutation are separate queries; an event is published after the commit; the last owner can go | only a member with the role changes things; nothing outlives its workspace; members are announced |
| notification service (`apps/notification-service`) | none | handle an event: e-mail, in-app | QStash delivers at least once; nobody learns what became of an event | a result is lost only in publishing, by a crash, or when the attempts are used up |
| API gateway (`apps/api-gateway`) | a rate-limit counter per user and route in Redis | limit, authenticate, proxy with a 10 s abort | increment and expiry are two commands, and the client library sends commands again; the service goes on after the abort | every counter expires; it never lets more than its limit pass; a client waits for a service's headers no longer than the timer |
| execution service (Go, `apps/execution-service`) | a semaphore, running processes | execute, publish the result | admission, timeout, a publishing goroutine that outlives the request | slots are released exactly once; a result has an event; a run ends |
| rest of the web client, shared packages, infrastructure | pages, types, configuration | | | not modelled: nothing concurrent, or no logic |

How they interact: the client calls the services through the gateway over HTTP;
the gateway validates the access token with the auth service and passes the
user's id in a header. The file service publishes lock conflicts, the workspace
and execution services publish events, all through QStash to the notification
service. The client connects to the collaboration service directly, over a
WebSocket, with the access token of the auth service.

`PROJECT.json` lists the hazards at
their lines, with the properties that cover them.

## 2. Modules

| Module | Role |
|---|---|
| `FileLease` | abstract: a file has at most one owner, and `by` is who acted on the lease last; grant, renew, give up, run out |
| `FileHistory` | abstract: the lease plus the log of numbered contents with their authors; after the first entry the author is the owner |
| `FileService` | the handlers of `file.service.ts`, call by call, for one file |
| `MCFileService` | instances and symmetry for TLC |
| `FileServiceProofs` | theorems about `FileService` |
| `LockClient`, `LockClientProofs` | the hook `useFileLock` and the lock key with its time to live, in ticks; theorems about them |
| `Sessions` | abstract: a session has one account and one live token, which is exchanged or ended |
| `AuthTokens` | users and refresh tokens: register, login, refresh, logout |
| `MCAuthTokens`, `AuthTokensProofs` | instances for TLC; theorems about `AuthTokens` |
| `CollabRooms` | the rooms of the collaboration service: join, relay, presence, leave |
| `MCCollabRooms`, `CollabRoomsProofs` | instances and symmetry for TLC; theorems about `CollabRooms` |
| `RedisResp` | the collaboration service's one Redis connection and the goroutines that share it |
| `MCRedisResp`, `RedisRespProofs` | instances for TLC; theorems about `RedisResp` |
| `Workspace` | workspaces, members with roles, projects, and the events of the workspace service |
| `MCWorkspace`, `WorkspaceProofs` | instances and symmetry for TLC; theorems about `Workspace` |
| `Gateway` | authentication, rate limit and proxy of the API gateway |
| `Execution` | the execution service behind the gateway; extends `Gateway` |
| `Notification` | QStash and the notification service |
| `ExecutionPath` | composes the three: a request to run code, its answer and its event |
| `MCExecutionPath`, `ExecutionPathProofs` | instances for TLC; theorems about `ExecutionPath` |

Operators whose comment says `mutant` are deliberate bugs. Nothing in the
specifications uses them; each stands for an action with a slip in it that the
property named in `PROJECT.json` must notice.

### FileService

All operations are keyed by one file id, so one file is modelled. A request
occupies a slot `job[r]`: its user, the call it waits for next, and its local
variables (the text to write or to return, the latest version number read). One
action is one awaited call together with the synchronous code behind it:

| Handler | Actions |
|---|---|
| `createFile` | `CreateRow`, `CreateBlob`, `CreateVersion` |
| `updateFile` | `UpdateFind`, `UpdateCheck`, `UpdateRead`, `UpdateBlob`, `UpdateRow`, `UpdateVersion` |
| `deleteFile` | `DeleteFind`, `DeleteCheck`, `DeleteBlob`, `DeleteRow` |
| `getFile` | `GetFind`, `GetBlob`, `GetLock` |
| `acquireLock` | `AcquireFind`, `AcquireSet`, `AcquireConflict` |
| `releaseLock`, `renewLock` | `ReleaseFind`, `ReleaseEval`; `RenewFind`, `RenewEval` |
| environment | `Lapse` (the key's time to live), `Abort` (a call throws, the process stops) |

`row`, `blob`, `versions` and `lock` are the stores; a row of `versions` is its number, its
content and its `createdBy`. `acked`, `allowed` and `keyBy` are
history variables: the content of the last create or update that succeeded,
what a running read may return, and the user whose call last set, renewed or deleted the
lock key (nobody when it ran out). `keyBy` lets `LeaseSpec` tell an owner's release from a
lapse, so that a release or renewal by anybody else would not pass for one. The constant `Faults` says how hostile the
environment is. It is a parameter rather than separate specifications because
the properties differ in what they survive:

* `VersionsContiguous`, `LeaseSpec`, `DeletedFileUnlocks` hold under every fault;
* `ExclusiveWriters` needs leases that outlive the writes made under them and
  users who send one request at a time, and nothing else;
* `CommittedFile`, `RegularRead` and `HistorySpec` need all of it: there is no
  transaction, so an aborted update leaves the stores apart, and a lapsed lease
  lets two updates overlap.

With `Faults = {}` concurrent users still race everywhere: what is excluded are
failing calls, a lease lapsing under a running write, two requests of one user,
and the use of a file whose creation has not answered.

`listFiles` only reads; that it shows a file whose creation has not finished is the
fault "early". A file's name, path, language and sizes, and the times in
the lock value, play no part in any property and are left out; the lock value is
its user.

### LockClient

`Mount`, `Heartbeat` and `Unmount` are the effect, the interval and the cleanup of
`useFileLock`; `Vanish` is a tab that dies without cleanup. Calls wait in `wire`,
a count per client and kind, so they are delayed and reordered arbitrarily.
`AcquireLock` and `ReleaseLock` are what the service does to the key, seen as one
step because the row of the file does not change here. `Fail` is a call that the network or the
gateway fails: `fileService.ts:18-37` catches that and answers itself with success, so the editor
does not notice and nothing is tried again. A tick divides both periods;
`Tick` waits for the timers that are due (and, with `Prompt`, for the calls under way; there
no call fails either).

`unasked` is history. It counts the ticks during which the file is open somewhere and free and no
acquire is under way, and starts again when the key goes and when an acquire arrives or
fails. `AskedInTime` bounds it by one interval: whatever was released, ran out, was overtaken or
failed, the next interval of an open editor asks for the file. It does not say that the file
is locked within an interval. Nothing in the code does: each acquire that fails costs the open
file another interval, and one that is delayed costs its delay, which is why ticks with an
acquire under way are not counted.

### AuthTokens

A row of `RefreshToken` is a position in `rows`; the nonce makes each token new.
`root`, `parent` and `proved` are history: the first token of the session, the token
the row replaced, and the password that opened the session. A password stands for its hash
too, since `bcrypt.compare` only tells whether two agree. `FindUser` is a lookup of a user, by
e-mail or by id: nothing deletes users, so the two queries of a refresh are one step. Register and login are `RegisterFind`/`CreateUser`/`IssueTokens`
and `LoginFind`/`IssueTokens`; refresh is `RefreshFind` and `Rotate`, which is one
transaction in the code (`updateMany ... revokedAt: null`, then `create`); logout
is one statement. A reply may be lost (`Reply`), a request may die between two
calls (`Abort`), a token may expire at any time (`Expire`). `known` are the tokens
that reached the client: only these are presented.

`SessionsSpec` says that the rows implement `Sessions`: the number of tokens issued is the
number of rows, a session is known by its first token, and its live tokens are its unrevoked
rows. Registrations that fail, refreshes that lose, lost replies, expiry and crashes are
stuttering steps.

### CollabRooms

One document. `conn[c]` is the goroutine of a connection: what it does next and its
local variables. One action is one critical section or one Redis call:

| Code | Actions |
|---|---|
| `Collaborate` | `Connect`; `Enter`, `AddClient` (Join); `LoadDocument`, `SendState`; `PresenceSnapshot` |
| `readPump` | `ReceiveUpdate`, `PersistDocument`; `UpdatePresence`; `ReadError` |
| broadcasts | `FindRoom` (GetOrCreateRoom), then `Broadcast`, or `Panic` when a channel is closed |
| deferred cleanup | `RemovePresence` and its broadcast; `LeaveFind`, `RemoveClient`, `DropRoom`, `DeletePresence` (Leave); `CloseSend` |
| `writePump`, Redis | `WritePump`; `ExpirePresence` |

`current` is the room of the document in the service's table, `members` what each
`Room` struct holds. A goroutine that has looked a room up keeps it in `conn[c].room`,
so it may broadcast to, or leave, a room that the table no longer holds; a room is
reused when nothing refers to it. A broadcast is one step: the room's read lock keeps
joins and leaves out, and sends to different queues commute. Its `default:` branch
drops the message for a full queue, while the handshake's send blocks. A panic in the
handshake or the cleanup ends the goroutine where it is; in `readPump` the cleanup
runs. A queue is its length and presence is the set of users: the contents of
snapshots, hence their order, are not modelled.

`faults` is chosen once, at the start of a behaviour, because the properties differ in
what they survive: `ClosedApart` and `RoomFreed` hold under everything, `GhostFree`
needs Redis to answer, `OneRoom` and `NoPanic` need joins and leaves to keep apart,
`RelayComplete` both. None of these conditions can be dropped: without it TLC finds a
counterexample. With joins and leaves apart, joins still race joins and relays, and
leaves race leaves and relays. `sender`, `relayed` and `offered` are history.

### RedisResp

`Do` of `client.go` under its mutex. Commands are numbered in the order they are
written, torn ones included (`torn` has their numbers), and what a reader has yet to take is a sequence of pieces, each named by its
command: a whole reply is one piece, and what a short read leaves of it is up to `Rests`
more.

| Code | Actions |
|---|---|
| the repository calls `Do` | `Call`; `Send` or `WriteFails` (a deadline inside the command leaves it torn) |
| `readReply` | `ReadReply`: the first piece, whole or in part; `Timeout`: the deadline, or the connection is closed |
| server and network | `Execute`, `Swallow` (a command is taken for the rest of a torn one, which may then be answered), `Close` |

`astray` says that something happened after which a piece may be read that is not the
reply waited for. A short read is such an event: `client.go:96` fetches the body of a bulk
reply with one `Read`, which returns what the buffer holds. Nothing connects again.

### Workspace

One action is one query or one publication; the handlers of the service are the chains of
`RequireRole`, a lookup and a write. `job[r]` is a request: its next call, its user, its
workspace, and the member or project it has settled on. What else a request names is chosen
by the first call that uses it, so requests for different things need no more slots.
`spent` keeps ids from being used twice (they are UUIDs). Only `InsertWorkspace`
is a transaction in the code; `DeleteWorkspace` cascades by the schema; `UpdateProject`
and `DeleteProject` select by id alone, after `ProjectFind` compared the workspace. A write
whose row is gone throws, which is `Abort`: what was written before stays. `held`, `lost` and
`silent` are history: the writing roles the user of a request had since its check, whether a
publication has failed, and which members still wait for their event until then.

### Gateway, Execution, Notification, ExecutionPath

| Code | Actions |
|---|---|
| `authMiddleware`, `AuthService.validate` | `Arrive`, `Validate` |
| `rateLimitMiddleware`, `RateLimitService.check` | `Incr`, `Expire`, each followed by `Decide`; `IncrUnheard`, `ExpireFails` |
| `ProxyService.forward`, `proxyHandler` | `Abandon` (the timer), `ReadBody`, `Answer` |
| Redis, the clock | `DropKey`, `NextMinute` |
| `Handler.Execute` | `Execute` (admitted or refused), `Return`, `FailToStart`; all give the slot back through `Finish` |
| `SandboxService.Run`, `SandboxRepository.Execute` | `Start`, `Exit`, `Deadline`, `Cancel`; `Fork` and `LetGo` are what the program does |
| `PublisherService.Publish` | `PublishResult`; `Crash` loses what was not published |
| QStash and the notification service | `Enqueue`; `Unverified`, `Invalid`, `Accept`, `AcceptUnheard` |

Time is the minute of the clock, because the gateway's keys carry it: a counter is
`(scope, caller, minute)`, its time to live ends in the following minute. A public route is
counted by address, another one by user, and a request to run code in the `execute` counter
as well. Requests to other services only matter for the counters and for the events the
services publish (`PublishOther`).

`cmd.Run` returns when the process it started is gone *and* its output pipes are closed.
`held` says that other processes hold them: the program itself behind `go run` or `sh -lc`,
or what the program started. The deadline and the caller's disappearance kill the
first process only, so `held` delays `Return`, and with it the slot.

## 3. Runs

| Run | Question | Result |
|---|---|---|
| `file_calm` | Is the single lock check of `updateFile` enough when leases outlive writes? | yes: `ExclusiveWriters`, `CommittedFile`, `RegularRead`, and the service implements `FileHistory`: versions without gap, each by the lock's owner |
| `file_faults` | What survives crashes, lapses, overlapping requests, half-created files? | `VersionsContiguous`, the key implements `FileLease` (only its owner renews or ends it), `DeletedFileUnlocks` |
| `only_holder_writes` | Does only the lock holder write (file-service `README.md:236`)? | no: the lease may lapse between the check and the upload |
| `lock_client` | Do abandoned locks go away, does an open editor get the lock back, and is a free file asked for in time? | yes, with calls that fail, are delayed without bound and overtake each other; asked for within one interval |
| `heartbeat` | Does the heartbeat keep the lock (comment of `useFileLock`)? | no, even when every call arrives at once: it acquires, and acquiring fails while the own lock lives |
| `auth_tokens` | Is a refresh token exchanged once, does a session keep exactly one live token, and whose is it when registrations race? | yes; of the account whose password opened it; the rows implement `Sessions` |
| `logout_race` | Does a successful logout end the session (auth-service `README.md:13`)? | no, when a concurrent refresh commits first |
| `collab_rooms` | Which connections does a room hold while connections join, leave and relay? | all that joined and none that closed, see the properties; each under the conditions it states |
| `redis_pairing` | Does a call get the reply to its own command? | yes, until a timeout, a torn command, a short read or a closed connection; after that, never the reply of a later command; every call ends |
| `workspace` | What does a role check guarantee that is a query of its own, and what is left when requests overlap a deletion or fail to publish? | the role was held in that very workspace since the check; nothing outlives its workspace; members are announced until a publication fails; without an owner a workspace stays as it is |
| `execution_path` | Do limits, timers, slots and events fit together across three services? | yes: see the six invariants; runs end whose output is let go, and the gateway waits no longer than its timer for a service's headers (the body it reads without a limit) |
| `late_joiner` | Does a late joiner get the full document (collaboration-service `README.md:12`)? | no, once an update whose base64 text is padded is followed by another |

`redis_pairing` visits 192 thousand distinct states, `file_calm` 378 thousand, `execution_path` 385 thousand,
`file_faults` 954 thousand, `auth_tokens`
2.1 million and `workspace` 2.7 million, each in a minute or two. The four violations are disagreements between the code and its documentation;
`PROJECT.json` quotes both sides.

Bounds. `file_calm` has three users with a request each (three are needed for two
writers and a third party that takes the lock or deletes), two texts (enough to
tell any two contents apart; the properties compare contents for equality), and updates
start while there are fewer than three versions, so that one follows another's version. `file_faults` has two slots that either user may fill, so one
user can overlap with himself, and one text, since its properties do not look at
contents. `MaxVersions` and `MaxTokens` bound the version rows and token rows by
refusing new requests beyond them. `auth_tokens` has two emails, two passwords (so that
two registrations of one e-mail can disagree), two request slots
and up to five rows: two sessions with a refresh each, or one session refreshed
several times. `lock_client` has two clients and the real proportion of the
periods, 4 ticks and 2, so that editors open and close between two intervals (`heartbeat` needs
no more than 2 and 1); `MaxWire` bounds the calls under way, failing ones included. `collab_rooms` has
three connections of one user (two that race over a room and a third that sees the
result; tabs of one user share a presence entry), one update, which is all
`RelayComplete` compares, queues of one message, so that they fill, and four rooms,
one more than the connections can hold at once. `late_joiner` needs two updates, the
padded one first. `redis_pairing` has three callers, so that one can read another's reply
while a third waits, four commands (`MaxCommands`) and up to two pieces left of a reply
(`Rests`). `workspace` has two users (two owners who remove each other, an editor and an
owner), two requests, two workspaces and one project, which is enough for a project of another
workspace, and two names. `execution_path` has two requests of one caller and one slot,
so that they meet in the counters and at the semaphore; a limit of 1 for users and of 2 for
addresses, so that one counter refuses at once and the other lets two pass; two minutes
(`LastMinute`), so that counters expire; `MaxCount` bounds the commands sent again, and two
`Attempts` give QStash one retry.

Deadlock is checked in the `LockClient` runs. In the others the system really may
stop: a deleted file accepts no more requests, the bound on the rows ends the
sessions, each connection of `CollabRooms` and each request of `ExecutionPath` is used once, the
commands of `RedisResp` are bounded, and `Workspace` runs out of ids.

Fairness. In `FileService` every awaited call is answered (weak fairness of
`Continue`: the clients of the stores have timeouts), and the key of a deleted
file runs out; on a live file the time to live is not fair, since a renewal may
always come first. In `LockClient` every call arrives or fails, browser timers fire and time
passes; a release may always fail, but of the acquires of a client who goes on sending them
not all do (strong: none may be under way in between), since with all of them failing no
lock could ever be expected; what users do is not fair. In `ExecutionPath` the gateway's
timer and the deadline of a run fire, and the handler's own steps are taken (`Start` or
`FailToStart`, `Return`); programs, clients, Redis, QStash and the network owe nothing, and
`RunEnds` says what it expects of the program: its pipes are let go again and again. In
`RedisResp` the deadline of 5 s fires (weak), and whoever waits for Go's mutex gets it in
the end (strong: the mutex is free only now and then; Go's starvation mode hands it over);
the server owes nothing. No other property needs fairness.

## 4. Proofs

`FileServiceProofs` proves, for any sets of users, texts and request slots, any
number of versions, and from `ConstantsAssumption` alone:

* `TypeCorrect`, `VersionsTheorem`, `LeaseTheorem`: under every set of faults.
  The invariant behind `VersionsTheorem` adds that the number a running update
  remembers is 0 or that of an existing row, which is what survives any overlap.
* `ExclusiveTheorem`: an update past its check holds the lock. It is inductive
  only together with the fact that a user has one request. `HolderTheorem` follows: under these
  conditions the README's "Only the lock holder can write to the file" is true.
* `CalmTheorem` is the inductive invariant for `Faults = {}`: who may be writing
  beside whom (nobody beside a creation; no update beside another update), what
  each store holds at each step of a write, and which texts a read may carry.
  `CommittedTheorem`, `ReadTheorem` and `HistoryTheorem` follow from it; the last
  is a refinement proof, step by step, with `owner <- lock, by <- keyBy, log <- versions`. Its
  heart is `UpdateVersion`: the author of the row is the user of the request, and
  `ExclusiveTheorem`'s invariant makes that user the owner.

`LeaseTheorem` is a refinement as well, with `owner <- lock, by <- keyBy`: `AcquireSet` grants,
`RenewEval` renews, `ReleaseEval` gives up, `Lapse` runs out, and every other step leaves both alone.

`LockClientProofs` proves, from `TimingAssumption`, for any number of clients, any periods, any
delays and any failures, `TypeTheorem`, `AskedTheorem` and `FadingTheorem`. `AskedInTime` is not
inductive alone; what carries it is `IntervalNear`: when the key is free and no acquire is
coming, what each open editor still waits for its interval and the time the file went unasked
for do not exceed one interval together. `KeyAsked` (nothing is counted while there is a key)
restores it when a release or the end of the time to live frees the file.

`AuthTokensProofs` proves `TypeCorrect`, `SessionTheorem`, `ExchangeTheorem`, `OwnedTheorem` and
`SessionsTheorem` from `TokensAssumption`. Neither `SessionExact` nor `ExchangedOnce` is inductive alone: a
rotation must know that its token has no replacement yet, which is
`ParentRevoked` (whoever has a replacement is revoked). What each step does to
the rows is first stated element by element (`Opened`, `Revoked`, `Unmoved`), so the
invariant proofs never look into sequences. `SessionOwned` needs to know of each request about to
issue tokens that its user has the password it was given (`OwnedInv`); that users are never
overwritten, because `InsertUser` happens only where there is none, keeps it. `SessionsTheorem` is the
refinement of `Sessions`, step by step: `IssueTokens` opens a session, a `Rotate` that finds its token
live is an exchange, a `Logout` that finds it live an end, and every other step stutters; it needs
`SessionExact` to know that the token exchanged or revoked was the only live one.

`CollabRoomsProofs` proves every invariant of `collab_rooms` from `CollabAssumption`, each
in the strength of its statement (what races and fails is a variable, so one theorem
covers all cases). The argument has layers:

* `Membership`: rooms enter the table empty and only their owners fill them, so a
  connection that has looked up the room it leaves is in no other room of the table.
  `ClosedTheorem` follows.
* `Held`: while the table has a room, some connection has not passed the removal of
  its client, or found the room empty and will drop it. `FreedTheorem` follows.
* `Together`, under `Apart`: every room a goroutine holds is the table's, and nobody is
  in a room about to be dropped. With `Membership` it gives `OneRoomTheorem` and
  `NoPanicTheorem`.
* `Relaying`, without faults and on top of `Together`: what is relayed is in the document,
  and between its read of the document and the send of it a joiner has each relayed
  update in one or the other. `RelayTheorem` follows.
* `Listing`: a listed user has a connection before its HDEL. `GhostTheorem` follows.
* `RefusedForPadding`: a document that cannot be decoded stays so, since chunks are only
  appended, and nothing else refuses a connection while Redis answers (`RefusedTheorem`).

`RedisRespProofs` proves `TypeCorrect` and `OwnReplyHolds` from `RedisRespAssumption`. The
invariant `PairInv` has two halves: no piece and no command on the wire is of a command not
yet written, which survives everything; and until something goes wrong (`InStep`) the reply
to the last command is all there is, on the wire or in the stream, and nothing is when the
mutex is free.

`WorkspaceProofs` proves every property of `workspace` from `WorkspaceAssumption`.
`NoOrphans` and `Announced` are inductive with the types. `ChangePermitted` needs `Permits`: every
request past its check remembers a role that allows its step, and one that has found a project
is in the workspace of that project as long as it exists (ids are not used twice).
`AbandonedForGood` needs that a step of a request without an owner's check
never makes an owner.

`ExecutionPathProofs` proves every invariant of `execution_path` from the four assumptions
of its modules. `WithinLimitHolds` rests on `LimitInv` (what passed is at most the
counter, one less while its first request is about to set the time to live);
`ExpiresHolds` on the types alone; `SlotsExactHolds` on the cardinality of the set of busy
requests, which each step moves by one; `ConsistentHolds` on `PathInv`, which says how far a request can be in one service given how
far it is in another; and `ResultToldHolds` on `PathInv` together with `NotificationInv` (a letter
is let go of after a notification or without attempts left), because a lost result is a
matter of both.

Only model-checked: the liveness properties (`DeletedFileUnlocks`,
`AbandonedLockFrees`, `LockTakenAgain`, `RunEnds`, `ForwardedEnds`, `CallEnds`), because liveness under fairness is outside
the proof system's reach, and the four violations. Of `DeletedFileUnlocks` and `AbandonedLockFrees` the
safety half is proved, as action properties: `DeletedTheorem` and `FadingTheorem` say that nothing new
begins and that each taking of the key uses up one of the requests or calls left over; that these
come to an end is where fairness is needed. For `only_holder_writes` a theorem says when the
claim holds (`HolderTheorem`), for `late_joiner` that only padding breaks it (`RefusedTheorem`), and for `logout_race` it is `SessionTheorem`: a
logout that revoked the live token did end the session.

Three hazards of `PROJECT.json` have no property. An upload that comes after the deletion
(`file.service.ts:212`) leaves an object nobody reads, and no document promises otherwise; a handshake that
blocks on a full queue (`handler.go:56`) is a state of `CollabRooms`, and nothing bounds its wait; and how often one event is
notified of (`notification.service.ts:27`) is bounded by nothing but QStash's attempts.

## 5. Not modelled

`components` in `PROJECT.json` gives the reasons part by part.

* The contents of presence snapshots. That an older snapshot may overtake a newer one is
  seen in the code (`handler.go:97`); nothing documented says which list a client shows in the end.
* Requests that only read and answer (`listFiles`, the listings of the workspace service,
  `me`, `validate`, health checks). Access tokens are never stored, so `validate` has no state.
* User interface, WebSocket framing, JSON and JWT formats, the password hash itself, headers, logging,
  infrastructure: no state shared between actors.
* OAuth is a placeholder in the code; `Set` of the repository is never called.

Disagreements between code and documentation that were met while modelling and have no run
of their own:

* workspace-service `README.md:305-307` on transactions for role checks: the check and the
  write are two queries; `ChangePermitted` states what is left of it.
* api-gateway `README.md:155` calls the limit a sliding window; the counter is per minute of
  the clock, so twice the limit may pass within sixty seconds (comment of `WithinLimit`).
* execution-service `README.md:149-151` says that a timed-out execution is killed; its
  descendants are not, and keep the slot (`RunEnds`). Behind the gateway, whose timer is as long,
  the client is mostly answered 502 instead of `timedOut` (`Consistent`).
* notification-service `README.md:150-155` on idempotence: nothing is recorded, so an event whose
  acknowledgement is lost is notified of again (`AcceptUnheard` after a `Send`).
* auth-service `README.md:216-217` on a Redis blocklist of revoked tokens that every `/auth/validate`
  checks: the service reads a `REDIS_URL` it never uses and has no blocklist. `validate` verifies the signature and the
  expiry alone, so an access token stays valid after a logout until it expires.
* the execution service accepts any non-empty `executionId` (`execute.go:24`), while the
  notification service's schema wants a UUID: such a result is posted until QStash gives up.

## 6. Conventions

Definitions keep the source's names. A section comment names the handler. A
property's comment states it in words and, where it comes from a document, quotes
the line. History variables are marked as such and never guard an action.

## 7. Order of the work

The modules were written in the order of what they protect: `FileService` with its two
abstract specifications, `LockClient`, `AuthTokens` with `Sessions`, `CollabRooms`, `Workspace`,
`ExecutionPath` with its parts, `RedisResp`. What could follow:

| Work | Why it is not here |
|---|---|
| presence snapshots on top of `CollabRooms` and `RedisResp`: which list a client shows when updates stop | it multiplies the states of `CollabRooms` by the lists under way |
| `CollabRooms` over `RedisResp` instead of Redis calls that answer or fail | after a timeout a call may get another command's reply, which `CollabRooms` does not distinguish from a failure |
| liveness of the handshake (`handler.go:56`) | the code gives no bound: the handshake may block for good |
