------------------------------ MODULE AuthTokens ------------------------------
(***************************************************************************)
(* Refresh tokens of the auth service: registration and login open a       *)
(* session with a first token, refresh exchanges a token for the next one, *)
(* logout revokes one.  A request is served in the calls its handler       *)
(* awaits; rotateRefreshToken is one database transaction.  Access tokens  *)
(* are stateless and not modelled: validate only checks a signature.       *)
(*                                                                         *)
(* A token is known by the position of its RefreshToken row in rows (the   *)
(* nonce makes every token new), an account by its email, which is unique. *)
(* A password stands for its hash too: bcrypt only tells whether two agree. *)
(***************************************************************************)
EXTENDS Naturals, Sequences

CONSTANTS Emails, Passwords, Reqs,
          NoEmail, NoPassword,
          MaxTokens         \* bound: no session or refresh starts beyond so many rows

ASSUME TokensAssumption ==
  /\ NoEmail \notin Emails
  /\ NoPassword \notin Passwords
  /\ MaxTokens \in Nat

VARIABLES
  users,      \* the password in the User row of each email, if there is one
  rows,       \* the RefreshToken rows; root, parent and proved are history
  job,        \* the requests being served
  known,      \* the tokens whose replies reached the client
  ended,      \* history: the sessions in which a logout revoked a live token
  loggedOut   \* history: the sessions in which a logout answered 200

vars == <<users, rows, job, known, ended, loggedOut>>

Tokens == DOMAIN rows

\* user is the column userId, root the first token of the session, parent the
\* token this one replaced and proved the password that opened the session.
Row == [user : Emails, proved : Passwords, root : Nat, parent : Nat,
        revoked : BOOLEAN, expired : BOOLEAN]

Idle == [step |-> "idle", email |-> NoEmail, password |-> NoPassword, token |-> 0]

Job == [step : {"idle", "createUser", "issue", "rotate"},
        email : Emails \cup {NoEmail}, password : Passwords \cup {NoPassword},
        token : Nat]

Init ==
  /\ users = [e \in Emails |-> NoPassword]
  /\ rows = <<>>
  /\ job = [r \in Reqs |-> Idle]
  /\ known = {}
  /\ ended = {}
  /\ loggedOut = {}

Begin(r, step, e, p, t) ==
  /\ job[r] = Idle
  /\ Len(rows) < MaxTokens
  /\ job' = [job EXCEPT ![r] =
               [step |-> step, email |-> e, password |-> p, token |-> t]]

Finish(r) == job' = [job EXCEPT ![r] = Idle]

\* The reply with the token reaches the client, or is lost on the way.
Reply(t) == known' = known \/ known' = known \cup {t}

FreshToken == Len(rows) + 1

\* findUserByEmail and findUserById find a row: nothing deletes users, so
\* whoever was found once is found again.
FindUser(e) == users[e] # NoPassword

\* The rows after an update of the row of token t.
Revoke(t)  == [rows EXCEPT ![t] = [rows[t] EXCEPT !.revoked = TRUE]]
Outdate(t) == [rows EXCEPT ![t] = [rows[t] EXCEPT !.expired = TRUE]]

------------------------------------------------------------------------------
(* registerUser and loginUser.                                             *)

RegisterFind(r, e, p) ==
  /\ ~ FindUser(e)
  /\ Begin(r, "createUser", e, p, 0)
  /\ UNCHANGED <<users, rows, known, ended, loggedOut>>

\* The row of a new user.
InsertUser(e, p) == users' = [users EXCEPT ![e] = p]

CreateUserUpsert(r) ==               \* mutant: an existing row is taken for the new one
  /\ job[r].step = "createUser"
  /\ IF FindUser(job[r].email) THEN UNCHANGED users
     ELSE InsertUser(job[r].email, job[r].password)
  /\ job' = [job EXCEPT ![r].step = "issue"]
  /\ UNCHANGED <<rows, known, ended, loggedOut>>

\* Another registration may have been faster: the unique email then fails.
CreateUser(r) ==
  /\ job[r].step = "createUser"
  /\ IF FindUser(job[r].email)
     THEN Finish(r) /\ UNCHANGED users
     ELSE /\ InsertUser(job[r].email, job[r].password)
          /\ job' = [job EXCEPT ![r].step = "issue"]
  /\ UNCHANGED <<rows, known, ended, loggedOut>>

\* bcrypt.compare of the password sent and the one of the user found.
ValidPassword(e, p) == users[e] = p

LoginFind(r, e, p) ==
  /\ FindUser(e)
  /\ ValidPassword(e, p)
  /\ Begin(r, "issue", e, p, 0)
  /\ UNCHANGED <<users, rows, known, ended, loggedOut>>

IssueTokensUnlisted(r) ==            \* mutant: the reply goes out, the row is lost
  /\ job[r].step = "issue"
  /\ Reply(FreshToken)
  /\ Finish(r)
  /\ UNCHANGED <<users, rows, ended, loggedOut>>

\* The row of the first token of the session that request r opens.
FirstRow(r) == [user |-> job[r].email, proved |-> job[r].password,
                root |-> FreshToken, parent |-> 0,
                revoked |-> FALSE, expired |-> FALSE]

IssueTokens(r) ==
  /\ job[r].step = "issue"
  /\ rows' = Append(rows, FirstRow(r))
  /\ Reply(FreshToken)
  /\ Finish(r)
  /\ UNCHANGED <<users, ended, loggedOut>>

------------------------------------------------------------------------------
(* refreshAccessToken.                                                     *)

RefreshFind(r, t) ==
  /\ t \in known
  /\ ~ rows[t].revoked /\ ~ rows[t].expired
  /\ FindUser(rows[t].user)
  /\ Begin(r, "rotate", NoEmail, NoPassword, t)
  /\ UNCHANGED <<users, rows, known, ended, loggedOut>>

\* The row of the next token of t's session.
Replacement(t) == [user |-> rows[t].user, proved |-> rows[t].proved,
                   root |-> rows[t].root, parent |-> t,
                   revoked |-> FALSE, expired |-> FALSE]

RotateKept(r) ==                     \* mutant: the old token is not revoked
  /\ job[r].step = "rotate"
  /\ LET t == job[r].token IN
     IF rows[t].revoked
     THEN UNCHANGED <<rows, known>>
     ELSE /\ rows' = Append(rows, Replacement(t))
          /\ Reply(FreshToken)
  /\ Finish(r)
  /\ UNCHANGED <<users, ended, loggedOut>>

RotateUnchecked(r) ==                \* mutant: the updated count is ignored
  /\ job[r].step = "rotate"
  /\ LET t == job[r].token IN
     /\ rows' = Append(Revoke(t), Replacement(t))
     /\ Reply(FreshToken)
  /\ Finish(r)
  /\ UNCHANGED <<users, ended, loggedOut>>

RotateRevokesOnly(r) ==              \* mutant: the transaction loses its second half
  /\ job[r].step = "rotate"
  /\ LET t == job[r].token IN
     /\ rows' = Revoke(t)
     /\ UNCHANGED known
  /\ Finish(r)
  /\ UNCHANGED <<users, ended, loggedOut>>

\* One transaction: revoke the token if it is not, and only then create its
\* replacement.  The expiry seen by RefreshFind is not looked at again.
Rotate(r) ==
  /\ job[r].step = "rotate"
  /\ LET t == job[r].token IN
     IF rows[t].revoked
     THEN UNCHANGED <<rows, known>>                        \* 409
     ELSE /\ rows' = Append(Revoke(t), Replacement(t))
          /\ Reply(FreshToken)
  /\ Finish(r)
  /\ UNCHANGED <<users, ended, loggedOut>>

------------------------------------------------------------------------------
(* logoutUser: one update of the row of this very token, always 200.       *)

Logout(t) ==
  /\ t \in known
  /\ rows' = Revoke(t)
  /\ ended' = IF rows[t].revoked THEN ended ELSE ended \cup {rows[t].root}
  /\ loggedOut' = loggedOut \cup {rows[t].root}
  /\ UNCHANGED <<users, job, known>>

------------------------------------------------------------------------------
(* The environment.                                                        *)

Expire(t) ==
  /\ ~ rows[t].expired
  /\ rows' = Outdate(t)
  /\ UNCHANGED <<users, job, known, ended, loggedOut>>

\* A database call throws or the process stops between two calls.
Abort(r) ==
  /\ job[r] # Idle
  /\ Finish(r)
  /\ UNCHANGED <<users, rows, known, ended, loggedOut>>

Next ==
  \/ \E r \in Reqs :
       \/ \E e \in Emails, p \in Passwords : RegisterFind(r, e, p) \/ LoginFind(r, e, p)
       \/ \E t \in Tokens : RefreshFind(r, t)
       \/ CreateUser(r) \/ IssueTokens(r) \/ Rotate(r) \/ Abort(r)
  \/ \E t \in Tokens : Logout(t) \/ Expire(t)

Spec == Init /\ [][Next]_vars

------------------------------------------------------------------------------
(* Properties.                                                             *)

TypeOK ==
  /\ users \in [Emails -> Passwords \cup {NoPassword}]
  /\ rows \in Seq(Row)
  /\ \A t \in Tokens : rows[t].root \in 1 .. t /\ rows[t].parent \in 0 .. t - 1
  /\ job \in [Reqs -> Job]
  /\ \A r \in Reqs : /\ job[r].step = "rotate" => job[r].token \in Tokens
                     /\ job[r].step \in {"createUser", "issue"} =>
                          job[r].email \in Emails /\ job[r].password \in Passwords
  /\ known \subseteq Tokens
  /\ ended \subseteq Tokens /\ loggedOut \subseteq Tokens

Live(t) == ~ rows[t].revoked

\* A session has one unrevoked token, whatever refreshes race, replies are lost
\* or requests die, until a logout revokes that one; then it has none for good:
\* a refresh that passed its check before the logout fails in its transaction.
SessionExact ==
  /\ \A t, s \in Tokens : Live(t) /\ Live(s) /\ rows[t].root = rows[s].root => t = s
  /\ \A t \in Tokens :
       (\E s \in Tokens : Live(s) /\ rows[s].root = rows[t].root)
         <=> rows[t].root \notin ended

\* Of the requests that present one token at most one gets a replacement.
ExchangedOnce ==
  \A t, s \in Tokens : rows[t].parent = rows[s].parent /\ rows[t].parent # 0 => t = s

\* Two registrations of one email may both find it free, and nothing but the
\* unique column decides between them.  Every token, however often it was
\* exchanged, belongs to an account whose password is the one that was given
\* when its session was opened: the slower registration gets no session.
SessionOwned ==
  \A t \in Tokens : users[rows[t].user] = rows[t].proved

\* The sessions behind the rows: known by their first tokens, with the unrevoked
\* rows of each.
Roots == {rows[t].root : t \in Tokens}
LiveTokens(s) == {t \in Tokens : Live(t) /\ rows[t].root = s}

AbstractSessions == INSTANCE Sessions WITH
  Accounts <- Emails,
  issued   <- Len(rows),
  account  <- [s \in Roots |-> rows[s].user],
  live     <- [s \in Roots |-> LiveTokens(s)]

\* Whatever registrations, logins, refreshes and logouts interleave, fail or
\* lose their replies, the rows behave like sessions with one live token that
\* is exchanged, ended once and never comes back.
SessionsSpec == AbstractSessions!SessionsSpec

\* README.md:13: "Revoke refresh tokens on logout".  After a logout was answered
\* with success the session has no usable token.
LogoutEndsSession ==
  \A t \in Tokens : rows[t].root \in loggedOut => ~ Live(t)
==============================================================================
