--------------------------- MODULE AuthTokensProofs ---------------------------
(***************************************************************************)
(* Theorems about AuthTokens for every set of emails, passwords and        *)
(* request slots and every bound on the rows.                              *)
(***************************************************************************)
EXTENDS AuthTokens, SequenceTheorems, TLAPS

\* What TypeOK says of the rows, element by element.
LEMMA RowsFacts ==
  ASSUME TypeOK
  PROVE  /\ Len(rows) \in Nat /\ Tokens = 1 .. Len(rows)
         /\ FreshToken \in Nat \ {0} /\ FreshToken \notin Tokens
         /\ \A t \in Tokens : /\ rows[t] \in Row /\ t \in Nat \ {0}
                              /\ rows[t].root \in 1 .. t /\ rows[t].root \in Tokens
                              /\ rows[t].parent \in 0 .. t - 1
                              /\ rows[t].parent \in Tokens \cup {0}
<1>1. Len(rows) \in Nat /\ Tokens = 1 .. Len(rows) /\ \A t \in Tokens : rows[t] \in Row
  BY DEF TypeOK, Tokens
<1>2. FreshToken \in Nat \ {0} /\ FreshToken \notin Tokens
  BY <1>1 DEF FreshToken
<1>3. \A t \in Tokens : rows[t].root \in 1 .. t /\ rows[t].parent \in 0 .. t - 1
  BY DEF TypeOK
<1>4. \A t \in Tokens : rows[t].root \in Tokens /\ rows[t].parent \in Tokens \cup {0}
  BY <1>1, <1>3
<1> QED
  BY <1>1, <1>2, <1>3, <1>4

\* Writing one row keeps the others.
LEMMA WriteRow ==
  ASSUME TypeOK, NEW t \in Tokens, NEW row \in Row
  PROVE  LET new == [rows EXCEPT ![t] = row] IN
         /\ new \in Seq(Row) /\ Len(new) = Len(rows) /\ DOMAIN new = Tokens
         /\ new[t] = row /\ \A s \in Tokens : s # t => new[s] = rows[s]
<1> DEFINE new == [rows EXCEPT ![t] = row]
<1>1. rows \in Seq(Row) /\ t \in 1 .. Len(rows) /\ Tokens = 1 .. Len(rows)
  BY RowsFacts DEF TypeOK
<1>2. /\ new \in Seq(Row) /\ Len(new) = Len(rows)
      /\ \A s \in 1 .. Len(rows) : new[s] = IF s = t THEN row ELSE rows[s]
  BY <1>1, ExceptSeq
<1>3. DOMAIN new = 1 .. Len(rows)
  BY <1>2
<1> QED
  BY <1>1, <1>2, <1>3

LEMMA RevokedRecord ==
  ASSUME NEW row \in Row
  PROVE  LET new == [row EXCEPT !.revoked = TRUE] IN
         /\ new \in Row /\ new.revoked
         /\ new.root = row.root /\ new.parent = row.parent
         /\ new.user = row.user /\ new.proved = row.proved
BY DEF Row

LEMMA OutdatedRecord ==
  ASSUME NEW row \in Row
  PROVE  LET new == [row EXCEPT !.expired = TRUE] IN
         /\ new \in Row /\ new.revoked = row.revoked
         /\ new.root = row.root /\ new.parent = row.parent
         /\ new.user = row.user /\ new.proved = row.proved
BY DEF Row

LEMMA RevokeRow ==
  ASSUME TypeOK, NEW t \in Tokens
  PROVE  /\ Revoke(t) \in Seq(Row) /\ Len(Revoke(t)) = Len(rows)
         /\ DOMAIN Revoke(t) = Tokens
         /\ Revoke(t)[t].revoked
         /\ Revoke(t)[t].root = rows[t].root /\ Revoke(t)[t].parent = rows[t].parent
         /\ Revoke(t)[t].user = rows[t].user /\ Revoke(t)[t].proved = rows[t].proved
         /\ \A s \in Tokens : s # t => Revoke(t)[s] = rows[s]
<1>1. PICK row \in Row :
        /\ row.revoked
        /\ row.root = rows[t].root /\ row.parent = rows[t].parent
        /\ row.user = rows[t].user /\ row.proved = rows[t].proved
        /\ Revoke(t) = [rows EXCEPT ![t] = row]
  <2> DEFINE new == [rows[t] EXCEPT !.revoked = TRUE]
  <2>1. rows[t] \in Row
    BY RowsFacts
  <2>2. /\ new \in Row
        /\ new.revoked
        /\ new.root = rows[t].root /\ new.parent = rows[t].parent
        /\ new.user = rows[t].user /\ new.proved = rows[t].proved
    BY <2>1, RevokedRecord
  <2>3. Revoke(t) = [rows EXCEPT ![t] = new]
    BY DEF Revoke
  <2> HIDE DEF new
  <2> QED
    BY <2>2, <2>3, Zenon
<1> QED
  BY <1>1, WriteRow

LEMMA OutdateRow ==
  ASSUME TypeOK, NEW t \in Tokens
  PROVE  /\ Outdate(t) \in Seq(Row) /\ Len(Outdate(t)) = Len(rows)
         /\ DOMAIN Outdate(t) = Tokens
         /\ Outdate(t)[t].revoked = rows[t].revoked
         /\ Outdate(t)[t].root = rows[t].root /\ Outdate(t)[t].parent = rows[t].parent
         /\ Outdate(t)[t].user = rows[t].user /\ Outdate(t)[t].proved = rows[t].proved
         /\ \A s \in Tokens : s # t => Outdate(t)[s] = rows[s]
<1>1. PICK row \in Row :
        /\ row.revoked = rows[t].revoked
        /\ row.root = rows[t].root /\ row.parent = rows[t].parent
        /\ row.user = rows[t].user /\ row.proved = rows[t].proved
        /\ Outdate(t) = [rows EXCEPT ![t] = row]
  <2> DEFINE new == [rows[t] EXCEPT !.expired = TRUE]
  <2>1. rows[t] \in Row
    BY RowsFacts
  <2>2. /\ new \in Row
        /\ new.revoked = rows[t].revoked
        /\ new.root = rows[t].root /\ new.parent = rows[t].parent
        /\ new.user = rows[t].user /\ new.proved = rows[t].proved
    BY <2>1, OutdatedRecord
  <2>3. Outdate(t) = [rows EXCEPT ![t] = new]
    BY DEF Outdate
  <2> HIDE DEF new
  <2> QED
    BY <2>2, <2>3, Zenon
<1> QED
  BY <1>1, WriteRow

\* Appending a row adds the fresh token.
LEMMA AppendRow ==
  ASSUME TypeOK, NEW old \in Seq(Row), Len(old) = Len(rows), NEW row \in Row
  PROVE  /\ Append(old, row) \in Seq(Row)
         /\ DOMAIN Append(old, row) = Tokens \cup {FreshToken}
         /\ Append(old, row)[FreshToken] = row
         /\ \A s \in Tokens : Append(old, row)[s] = old[s]
<1>1. /\ Append(old, row) \in Seq(Row) /\ Len(Append(old, row)) = Len(rows) + 1
      /\ \A i \in 1 .. Len(rows) : Append(old, row)[i] = old[i]
      /\ Append(old, row)[Len(rows) + 1] = row
  BY AppendProperties
<1>2. Len(rows) \in Nat /\ Tokens = 1 .. Len(rows)
  BY RowsFacts
<1>3. DOMAIN Append(old, row) = 1 .. Len(rows) + 1
  BY <1>1, <1>2
<1> QED
  BY <1>1, <1>2, <1>3 DEF FreshToken

------------------------------------------------------------------------------
(* What the steps do to the rows, element by element.                      *)

\* A new session: one more row, its own root.
Opened == /\ rows' \in Seq(Row) /\ Tokens' = Tokens \cup {FreshToken}
          /\ \A s \in Tokens : rows'[s] = rows[s]
          /\ rows'[FreshToken].root = FreshToken /\ rows'[FreshToken].parent = 0
          /\ rows'[FreshToken].revoked = FALSE

\* A token t revoked and, with replaced, its replacement added.
Revoked(t, replaced) ==
  /\ rows' \in Seq(Row)
  /\ Tokens' = IF replaced THEN Tokens \cup {FreshToken} ELSE Tokens
  /\ \A s \in Tokens : s # t => rows'[s] = rows[s]
  /\ rows'[t].revoked
  /\ rows'[t].root = rows[t].root /\ rows'[t].parent = rows[t].parent
  /\ rows'[t].user = rows[t].user /\ rows'[t].proved = rows[t].proved
  /\ replaced => /\ rows'[FreshToken].root = rows[t].root
                 /\ rows'[FreshToken].parent = t
                 /\ rows'[FreshToken].user = rows[t].user
                 /\ rows'[FreshToken].proved = rows[t].proved
                 /\ rows'[FreshToken].revoked = FALSE

\* Nothing but the expiry of a row changes.
Unmoved ==
  /\ rows' \in Seq(Row) /\ Tokens' = Tokens
  /\ \A s \in Tokens : /\ rows'[s].root = rows[s].root
                       /\ rows'[s].parent = rows[s].parent
                       /\ rows'[s].revoked = rows[s].revoked
                       /\ rows'[s].user = rows[s].user
                       /\ rows'[s].proved = rows[s].proved

LEMMA IssueOpens ==
  ASSUME TypeOK, NEW r \in Reqs, IssueTokens(r)
  PROVE  /\ Opened
         /\ rows'[FreshToken].user = job[r].email
         /\ rows'[FreshToken].proved = job[r].password
<1> DEFINE row == FirstRow(r)
<1>1. job[r].email \in Emails /\ job[r].password \in Passwords
  BY DEF TypeOK, IssueTokens
<1>2. /\ row.root = FreshToken /\ row.parent = 0 /\ row.revoked = FALSE
      /\ row.user = job[r].email /\ row.proved = job[r].password
  BY DEF FirstRow
<1>a. row \in Row
  BY <1>1, RowsFacts DEF Row, FirstRow
<1>3. rows' = Append(rows, row)
  BY DEF IssueTokens
<1>4. rows \in Seq(Row)
  BY DEF TypeOK
<1> HIDE DEF row
<1>5. /\ rows' \in Seq(Row) /\ DOMAIN rows' = Tokens \cup {FreshToken}
      /\ rows'[FreshToken] = row /\ \A s \in Tokens : rows'[s] = rows[s]
  <2>1. /\ Append(rows, row) \in Seq(Row)
        /\ DOMAIN Append(rows, row) = Tokens \cup {FreshToken}
        /\ Append(rows, row)[FreshToken] = row
        /\ \A s \in Tokens : Append(rows, row)[s] = rows[s]
    BY <1>4, <1>a, AppendRow
  <2> QED
    BY <1>3, <2>1, Zenon
<1> QED
  BY <1>2, <1>5 DEF Opened, Tokens

LEMMA RotateRevokes ==
  ASSUME TypeOK, NEW r \in Reqs, Rotate(r), Live(job[r].token)
  PROVE  Revoked(job[r].token, TRUE)
<1> DEFINE t == job[r].token
           row == Replacement(t)
<1>1. t \in Tokens
  BY DEF Rotate, TypeOK
<1>2. rows' = Append(Revoke(t), row)
  BY DEF Rotate, Live
<1>3. /\ rows[t].root \in Nat /\ t \in Nat
      /\ rows[t].user \in Emails /\ rows[t].proved \in Passwords
  BY <1>1, RowsFacts DEF Row
<1>4. /\ row.root = rows[t].root /\ row.parent = t
      /\ row.user = rows[t].user /\ row.proved = rows[t].proved
      /\ row.revoked = FALSE
  BY DEF Replacement
<1>a. row \in Row
  BY <1>3 DEF Row, Replacement
<1> HIDE DEF t, row
<1>5. /\ Revoke(t) \in Seq(Row) /\ Len(Revoke(t)) = Len(rows)
      /\ Revoke(t)[t].revoked
      /\ Revoke(t)[t].root = rows[t].root /\ Revoke(t)[t].parent = rows[t].parent
      /\ Revoke(t)[t].user = rows[t].user /\ Revoke(t)[t].proved = rows[t].proved
      /\ \A s \in Tokens : s # t => Revoke(t)[s] = rows[s]
  BY <1>1, RevokeRow
<1>6. /\ rows' \in Seq(Row) /\ DOMAIN rows' = Tokens \cup {FreshToken}
      /\ rows'[FreshToken] = row /\ \A s \in Tokens : rows'[s] = Revoke(t)[s]
  <2>1. Revoke(t) \in Seq(Row) /\ Len(Revoke(t)) = Len(rows)
    BY <1>5
  <2>2. /\ Append(Revoke(t), row) \in Seq(Row)
        /\ DOMAIN Append(Revoke(t), row) = Tokens \cup {FreshToken}
        /\ Append(Revoke(t), row)[FreshToken] = row
        /\ \A s \in Tokens : Append(Revoke(t), row)[s] = Revoke(t)[s]
    BY <1>a, <2>1, AppendRow
  <2> QED
    BY <1>2, <2>2, Zenon
<1> QED
  BY <1>1, <1>4, <1>5, <1>6 DEF Revoked, Tokens, t

LEMMA LogoutRevokes ==
  ASSUME TypeOK, NEW t \in Tokens, Logout(t) PROVE Revoked(t, FALSE)
BY RevokeRow DEF Logout, Revoked, Tokens

LEMMA ExpireUnmoved ==
  ASSUME TypeOK, NEW t \in Tokens, Expire(t) PROVE Unmoved
<1>1. rows' = Outdate(t)
  BY DEF Expire
<1> QED
  BY <1>1, OutdateRow DEF Unmoved, Tokens

\* Every other step leaves the rows and the logouts alone.
OtherStep ==
  \/ \E r \in Reqs :
       \/ \E e \in Emails, p \in Passwords : RegisterFind(r, e, p) \/ LoginFind(r, e, p)
       \/ \E t \in Tokens : RefreshFind(r, t)
       \/ CreateUser(r) \/ Abort(r)
       \/ (Rotate(r) /\ ~ Live(job[r].token))
  \/ UNCHANGED vars

LEMMA OtherUnmoved == OtherStep => UNCHANGED <<rows, known, ended, loggedOut>>
BY DEF OtherStep, RegisterFind, LoginFind, RefreshFind, CreateUser, Abort, Rotate,
       Live, vars

LEMMA StepCases ==
  ASSUME [Next]_vars
  PROVE  \/ \E r \in Reqs : IssueTokens(r)
         \/ \E r \in Reqs : Rotate(r) /\ Live(job[r].token)
         \/ \E t \in Tokens : Logout(t) \/ Expire(t)
         \/ OtherStep
BY DEF Next, OtherStep

------------------------------------------------------------------------------
(* Types.                                                                  *)

\* The rows stay well typed and no token disappears.
LEMMA RowsTyped ==
  ASSUME TypeOK, [Next]_vars
  PROVE  /\ rows' \in Seq(Row) /\ Tokens \subseteq Tokens'
         /\ \A t \in Tokens' : rows'[t].root \in 1 .. t /\ rows'[t].parent \in 0 .. t - 1
<1>1. CASE \E r \in Reqs : IssueTokens(r)
  <2>1. Opened
    BY <1>1, IssueOpens
  <2> QED
    BY <2>1, RowsFacts DEF Opened
<1>2. CASE \E r \in Reqs : Rotate(r) /\ Live(job[r].token)
  <2>1. PICK r \in Reqs : Rotate(r) /\ Live(job[r].token)
    BY <1>2
  <2>2. PICK t \in Tokens : Revoked(t, TRUE)
    BY <2>1, RotateRevokes DEF Rotate, TypeOK
  <2>3. t \in 1 .. FreshToken - 1 /\ rows[t].root \in 1 .. t
    BY RowsFacts DEF FreshToken
  <2>4. /\ rows'[FreshToken].root \in 1 .. FreshToken
        /\ rows'[FreshToken].parent \in 0 .. FreshToken - 1
    BY <2>2, <2>3, RowsFacts DEF Revoked
  <2> QED
    BY <2>2, <2>4, RowsFacts DEF Revoked
<1>3. CASE \E t \in Tokens : Logout(t) \/ Expire(t)
  <2>1. PICK t \in Tokens : Revoked(t, FALSE) \/ Unmoved
    BY <1>3, LogoutRevokes, ExpireUnmoved
  <2> QED
    BY <2>1, RowsFacts DEF Revoked, Unmoved
<1>4. CASE OtherStep
  BY <1>4, OtherUnmoved DEF TypeOK, Tokens
<1> QED
  BY <1>1, <1>2, <1>3, <1>4, StepCases

LEMMA TypeInit == Init => TypeOK
BY DEF Init, TypeOK, Tokens, Job, Idle

\* What a step's request may remember of the tokens and the emails.
JobOK(j) == /\ j \in Job
            /\ j.step = "rotate" => j.token \in Tokens
            /\ j.step \in {"createUser", "issue"} =>
                 j.email \in Emails /\ j.password \in Passwords

\* The requests stay well typed: a rotation works on an existing token, a
\* registration on an email.
LEMMA JobsTyped ==
  ASSUME TypeOK, [Next]_vars
  PROVE  /\ users' \in [Emails -> Passwords \cup {NoPassword}]
         /\ job' \in [Reqs -> Job]
         /\ \A r \in Reqs : JobOK(job'[r])
<1> DEFINE Goal == /\ users' \in [Emails -> Passwords \cup {NoPassword}]
                   /\ job' \in [Reqs -> Job]
                   /\ \A r \in Reqs : JobOK(job'[r])
<1>a. \A t \in Tokens : t \in Nat
  BY RowsFacts
<1>b. /\ users \in [Emails -> Passwords \cup {NoPassword}] /\ job \in [Reqs -> Job]
      /\ \A r \in Reqs : JobOK(job[r])
  BY DEF TypeOK, JobOK
<1>0. ASSUME NEW r \in Reqs, NEW j, JobOK(j), job' = [job EXCEPT ![r] = j],
             users' \in [Emails -> Passwords \cup {NoPassword}]
      PROVE  Goal
  <2>1. j \in Job
    BY <1>0 DEF JobOK
  <2> QED
    BY <1>0, <1>b, <2>1
<1>1. ASSUME NEW r \in Reqs, Finish(r), users' = users
      PROVE  Goal
  <2>1. JobOK(Idle)
    BY DEF Idle, Job, JobOK
  <2> QED
    BY <1>0, <1>1, <1>b, <2>1 DEF Finish
<1>2. ASSUME NEW r \in Reqs, NEW e \in Emails, NEW p \in Passwords,
             RegisterFind(r, e, p) \/ LoginFind(r, e, p)
      PROVE  Goal
  <2>1. PICK step \in {"createUser", "issue"} :
          job' = [job EXCEPT ![r] =
                    [step |-> step, email |-> e, password |-> p, token |-> 0]]
    BY <1>2 DEF RegisterFind, LoginFind, Begin
  <2> DEFINE j == [step |-> step, email |-> e, password |-> p, token |-> 0]
  <2>2. JobOK(j)
    BY DEF Job, JobOK
  <2>3. users' \in [Emails -> Passwords \cup {NoPassword}]
    BY <1>2, <1>b DEF RegisterFind, LoginFind
  <2>4. job' = [job EXCEPT ![r] = j]
    BY <2>1
  <2> QED
    BY <1>0, <2>2, <2>3, <2>4
<1>3. ASSUME NEW r \in Reqs, NEW t \in Tokens, RefreshFind(r, t)
      PROVE  Goal
  <2> DEFINE j == [step |-> "rotate", email |-> NoEmail, password |-> NoPassword,
                  token |-> t]
  <2>1. JobOK(j)
    BY <1>a DEF Job, JobOK
  <2>2. users' \in [Emails -> Passwords \cup {NoPassword}]
    BY <1>3, <1>b DEF RefreshFind
  <2>3. job' = [job EXCEPT ![r] = j]
    BY <1>3 DEF RefreshFind, Begin
  <2> QED
    BY <1>0, <2>1, <2>2, <2>3
<1>4. ASSUME NEW r \in Reqs, CreateUser(r)
      PROVE  Goal
  <2>1. CASE FindUser(job[r].email)
    BY <1>1, <1>4, <2>1 DEF CreateUser
  <2>2. CASE ~ FindUser(job[r].email)
    <3> DEFINE j == [job[r] EXCEPT !.step = "issue"]
    <3>1. JobOK(j)
      <4>1. job[r] \in Job
        BY <1>b
      <4>2. job[r].email \in Emails /\ job[r].password \in Passwords
        BY <1>4, <1>b DEF CreateUser, JobOK
      <4> QED
        BY <4>1, <4>2 DEF Job, JobOK
    <3>2. job' = [job EXCEPT ![r] = j]
      BY <1>4, <2>2 DEF CreateUser
    <3>3. job[r].email \in Emails /\ job[r].password \in Passwords
      BY <1>4, <1>b DEF CreateUser, JobOK
    <3>4. users' \in [Emails -> Passwords \cup {NoPassword}]
      BY <1>4, <1>b, <2>2, <3>3 DEF CreateUser, InsertUser
    <3> HIDE DEF j
    <3> QED
      BY <1>0, <3>1, <3>2, <3>4
  <2> QED
    BY <2>1, <2>2
<1>5. ASSUME NEW r \in Reqs, IssueTokens(r) \/ Rotate(r) \/ Abort(r)
      PROVE  Goal
  BY <1>1, <1>5 DEF IssueTokens, Rotate, Abort
<1>6. ASSUME UNCHANGED <<users, job>> PROVE Goal
  BY <1>6, <1>b
<1>7. ASSUME NEW t \in Tokens, Logout(t) \/ Expire(t)
      PROVE  Goal
  BY <1>6, <1>7 DEF Logout, Expire
<1>8. ASSUME UNCHANGED vars PROVE Goal
  BY <1>6, <1>8 DEF vars
<1> HIDE DEF Goal
<1>9. Goal
  <2>1. CASE \E r \in Reqs, e \in Emails, p \in Passwords :
               RegisterFind(r, e, p) \/ LoginFind(r, e, p)
    BY <1>2, <2>1
  <2>2. CASE \E r \in Reqs, t \in Tokens : RefreshFind(r, t)
    BY <1>3, <2>2
  <2>3. CASE \E r \in Reqs : CreateUser(r)
    BY <1>4, <2>3
  <2>4. CASE \E r \in Reqs : IssueTokens(r) \/ Rotate(r) \/ Abort(r)
    BY <1>5, <2>4
  <2>5. CASE \E t \in Tokens : Logout(t) \/ Expire(t)
    BY <1>7, <2>5
  <2>6. \/ UNCHANGED vars
        \/ \E r \in Reqs, e \in Emails, p \in Passwords :
             RegisterFind(r, e, p) \/ LoginFind(r, e, p)
        \/ \E r \in Reqs, t \in Tokens : RefreshFind(r, t)
        \/ \E r \in Reqs : CreateUser(r)
        \/ \E r \in Reqs : IssueTokens(r) \/ Rotate(r) \/ Abort(r)
        \/ \E t \in Tokens : Logout(t) \/ Expire(t)
    BY DEF Next
  <2> QED
    BY <1>8, <2>1, <2>2, <2>3, <2>4, <2>5, <2>6
<1> QED
  BY <1>9 DEF Goal

\* Clients and sessions only name tokens that exist.
LEMMA NamesTyped ==
  ASSUME TypeOK, [Next]_vars, Tokens \subseteq Tokens'
  PROVE  known' \subseteq Tokens' /\ ended' \subseteq Tokens' /\ loggedOut' \subseteq Tokens'
<1>0. known \subseteq Tokens /\ ended \subseteq Tokens /\ loggedOut \subseteq Tokens
  BY DEF TypeOK
<1>1. CASE \E r \in Reqs : IssueTokens(r)
  <2>1. Opened
    BY <1>1, IssueOpens
  <2> QED
    BY <1>0, <1>1, <2>1 DEF IssueTokens, Reply, Opened
<1>2. CASE \E r \in Reqs : Rotate(r) /\ Live(job[r].token)
  <2>1. PICK r \in Reqs : Rotate(r) /\ Live(job[r].token)
    BY <1>2
  <2>2. Tokens' = Tokens \cup {FreshToken}
    BY <2>1, RotateRevokes DEF Revoked
  <2> QED
    BY <1>0, <2>1, <2>2 DEF Rotate, Reply, Live
<1>3. CASE \E t \in Tokens : Logout(t) \/ Expire(t)
  BY <1>0, <1>3, RowsFacts DEF Logout, Expire
<1>4. CASE OtherStep
  BY <1>0, <1>4, OtherUnmoved
<1> QED
  BY <1>1, <1>2, <1>3, <1>4, StepCases

LEMMA TypeNext == TypeOK /\ [Next]_vars => TypeOK'
<1> SUFFICES ASSUME TypeOK, [Next]_vars PROVE TypeOK'
  OBVIOUS
<1>1. \A r \in Reqs :
        /\ job'[r].step = "rotate" => job'[r].token \in Tokens'
        /\ job'[r].step \in {"createUser", "issue"} =>
             job'[r].email \in Emails /\ job'[r].password \in Passwords
  BY JobsTyped, RowsTyped DEF JobOK
<1> QED
  BY <1>1, JobsTyped, RowsTyped, NamesTyped DEF TypeOK

\* Every reachable state is well typed; a rotation under way works on a token
\* that exists.
THEOREM TypeCorrect == Spec => []TypeOK
BY TypeInit, TypeNext, PTL DEF Spec

------------------------------------------------------------------------------
(* Sessions.  That a token is exchanged once follows only together with:   *)
(* whoever has a replacement is revoked.                                   *)

ParentRevoked == \A t \in Tokens : rows[t].parent # 0 => rows[rows[t].parent].revoked

TokenInv == TypeOK /\ SessionExact /\ ExchangedOnce /\ ParentRevoked

LEMMA TokenInit == Init => TokenInv
BY TypeInit DEF Init, TokenInv, SessionExact, ExchangedOnce, ParentRevoked, Tokens

\* A new session has its own root and one live token.
LEMMA OpenKeeps ==
  ASSUME TokenInv, NEW r \in Reqs, IssueTokens(r)
  PROVE  (SessionExact /\ ExchangedOnce /\ ParentRevoked)'
<1>1. Opened /\ ended' = ended /\ ended \subseteq Tokens
  BY IssueOpens DEF TokenInv, TypeOK, IssueTokens
<1>2. /\ Tokens' = Tokens \cup {FreshToken} /\ FreshToken \notin Tokens
      /\ \A s \in Tokens : rows'[s] = rows[s] /\ rows[s].root \in Tokens
                           /\ rows[s].parent \in Tokens \cup {0}
      /\ rows'[FreshToken].root = FreshToken /\ rows'[FreshToken].parent = 0
      /\ ~ rows'[FreshToken].revoked
  BY <1>1, RowsFacts DEF Opened, TokenInv
<1>3. SessionExact'
  <2>1. \A t, s \in Tokens' : ~ rows'[t].revoked /\ ~ rows'[s].revoked
                              /\ rows'[t].root = rows'[s].root => t = s
    BY <1>2 DEF TokenInv, SessionExact, Live
  <2>2. ASSUME NEW t \in Tokens'
        PROVE  (\E s \in Tokens' : ~ rows'[s].revoked /\ rows'[s].root = rows'[t].root)
                 <=> rows'[t].root \notin ended'
    <3>1. CASE t = FreshToken
      BY <1>1, <1>2, <3>1
    <3>2. CASE t \in Tokens
      <4>1. (\E s \in Tokens : ~ rows[s].revoked /\ rows[s].root = rows[t].root)
              <=> rows[t].root \notin ended
        BY <3>2 DEF TokenInv, SessionExact, Live
      <4> QED
        BY <1>1, <1>2, <3>2, <4>1
    <3> QED
      BY <1>2, <3>1, <3>2
  <2> QED
    BY <2>1, <2>2 DEF SessionExact, Live
<1>4. ExchangedOnce'
  BY <1>2 DEF TokenInv, ExchangedOnce
<1>5. ParentRevoked'
  BY <1>2 DEF TokenInv, ParentRevoked
<1> QED
  BY <1>3, <1>4, <1>5

\* A rotation moves the session's one live token to the replacement.
LEMMA RotateKeeps ==
  ASSUME TokenInv, NEW r \in Reqs, Rotate(r), Live(job[r].token)
  PROVE  (SessionExact /\ ExchangedOnce /\ ParentRevoked)'
<1> DEFINE t == job[r].token
<1>1. t \in Tokens /\ Revoked(t, TRUE) /\ ended' = ended /\ ~ rows[t].revoked
  BY RotateRevokes DEF TokenInv, TypeOK, Rotate, Live
<1> HIDE DEF t
<1>2. /\ Tokens' = Tokens \cup {FreshToken} /\ FreshToken \notin Tokens
      /\ \A s \in Tokens : /\ rows'[s].root = rows[s].root
                           /\ rows'[s].parent = rows[s].parent
                           /\ s # t => rows'[s].revoked = rows[s].revoked
                           /\ rows[s].parent \in Tokens \cup {0}
      /\ rows'[t].revoked
      /\ rows'[FreshToken].root = rows[t].root /\ rows'[FreshToken].parent = t
      /\ ~ rows'[FreshToken].revoked
  BY <1>1, RowsFacts DEF Revoked, TokenInv
<1>3. \A s \in Tokens : ~ rows[s].revoked /\ rows[s].root = rows[t].root => s = t
  BY <1>1 DEF TokenInv, SessionExact, Live
<1>4. SessionExact'
  <2>1. \A u, s \in Tokens' : ~ rows'[u].revoked /\ ~ rows'[s].revoked
                              /\ rows'[u].root = rows'[s].root => u = s
    BY <1>1, <1>2, <1>3 DEF TokenInv, SessionExact, Live
  <2>2. ASSUME NEW u \in Tokens'
        PROVE  (\E s \in Tokens' : ~ rows'[s].revoked /\ rows'[s].root = rows'[u].root)
                 <=> rows'[u].root \notin ended'
    <3>1. CASE rows'[u].root = rows[t].root
      <4>1. rows[t].root \notin ended
        BY <1>1 DEF TokenInv, SessionExact, Live
      <4> QED
        BY <1>1, <1>2, <3>1, <4>1
    <3>2. CASE rows'[u].root # rows[t].root
      <4>1. u \in Tokens /\ rows'[u].root = rows[u].root
        BY <1>2, <3>2
      <4>2. (\E s \in Tokens : ~ rows[s].revoked /\ rows[s].root = rows[u].root)
              <=> rows[u].root \notin ended
        BY <4>1 DEF TokenInv, SessionExact, Live
      <4> QED
        BY <1>1, <1>2, <3>2, <4>1, <4>2
    <3> QED
      BY <3>1, <3>2
  <2> QED
    BY <2>1, <2>2 DEF SessionExact, Live
<1>5. ExchangedOnce'
  <2>1. \A s \in Tokens : rows[s].parent # t
    BY <1>1, RowsFacts DEF TokenInv, ParentRevoked
  <2> QED
    BY <1>2, <2>1 DEF TokenInv, ExchangedOnce
<1>6. ParentRevoked'
  BY <1>1, <1>2 DEF TokenInv, ParentRevoked
<1> QED
  BY <1>4, <1>5, <1>6

\* A logout of the live token ends the session; of another it changes nothing.
LEMMA LogoutKeeps ==
  ASSUME TokenInv, NEW t \in Tokens, Logout(t)
  PROVE  (SessionExact /\ ExchangedOnce /\ ParentRevoked)'
<1>1. /\ Revoked(t, FALSE)
      /\ ended' = IF rows[t].revoked THEN ended ELSE ended \cup {rows[t].root}
  BY LogoutRevokes DEF TokenInv, Logout
<1>2. /\ Tokens' = Tokens
      /\ \A s \in Tokens : /\ rows'[s].root = rows[s].root
                           /\ rows'[s].parent = rows[s].parent
                           /\ s # t => rows'[s].revoked = rows[s].revoked
                           /\ rows[s].parent \in Tokens \cup {0}
      /\ rows'[t].revoked
  BY <1>1, RowsFacts DEF Revoked, TokenInv
<1>3. SessionExact'
  <2>1. \A u, s \in Tokens : ~ rows[u].revoked /\ ~ rows[s].revoked
                              /\ rows[u].root = rows[s].root => u = s
    BY DEF TokenInv, SessionExact, Live
  <2>2. \A u, s \in Tokens' : ~ rows'[u].revoked /\ ~ rows'[s].revoked
                              /\ rows'[u].root = rows'[s].root => u = s
    BY <1>2, <2>1
  <2>3. ASSUME NEW u \in Tokens'
        PROVE  (\E s \in Tokens' : ~ rows'[s].revoked /\ rows'[s].root = rows'[u].root)
                 <=> rows'[u].root \notin ended'
    <3>1. (\E s \in Tokens : ~ rows[s].revoked /\ rows[s].root = rows[u].root)
            <=> rows[u].root \notin ended
      BY <1>2 DEF TokenInv, SessionExact, Live
    <3>2. CASE rows[t].revoked
      BY <1>1, <1>2, <3>1, <3>2
    <3>3. CASE ~ rows[t].revoked /\ rows[u].root = rows[t].root
      BY <1>1, <1>2, <2>1, <3>3
    <3>4. CASE ~ rows[t].revoked /\ rows[u].root # rows[t].root
      BY <1>1, <1>2, <3>1, <3>4
    <3> QED
      BY <3>2, <3>3, <3>4
  <2> QED
    BY <2>2, <2>3 DEF SessionExact, Live
<1>4. ExchangedOnce'
  BY <1>2 DEF TokenInv, ExchangedOnce
<1>5. ParentRevoked'
  BY <1>2 DEF TokenInv, ParentRevoked
<1> QED
  BY <1>3, <1>4, <1>5

\* What no step moves stays as it was.
LEMMA UnmovedKeeps ==
  ASSUME TokenInv, Unmoved, ended' = ended
  PROVE  (SessionExact /\ ExchangedOnce /\ ParentRevoked)'
<1>1. /\ Tokens' = Tokens
      /\ \A s \in Tokens : /\ rows'[s].root = rows[s].root
                           /\ rows'[s].parent = rows[s].parent
                           /\ rows'[s].revoked = rows[s].revoked
                           /\ rows[s].parent \in Tokens \cup {0}
  BY RowsFacts DEF Unmoved, TokenInv
<1>2. SessionExact'
  BY <1>1 DEF TokenInv, SessionExact, Live
<1>3. ExchangedOnce' /\ ParentRevoked'
  BY <1>1 DEF TokenInv, ExchangedOnce, ParentRevoked
<1> QED
  BY <1>2, <1>3

LEMMA TokenNext == TokenInv /\ [Next]_vars => TokenInv'
<1> SUFFICES ASSUME TokenInv, [Next]_vars PROVE TokenInv'
  OBVIOUS
<1>0. TypeOK'
  BY TypeNext DEF TokenInv
<1>1. CASE \E r \in Reqs : IssueTokens(r)
  BY <1>0, <1>1, OpenKeeps DEF TokenInv
<1>2. CASE \E r \in Reqs : Rotate(r) /\ Live(job[r].token)
  BY <1>0, <1>2, RotateKeeps DEF TokenInv
<1>3. CASE \E t \in Tokens : Logout(t)
  BY <1>0, <1>3, LogoutKeeps DEF TokenInv
<1>4. CASE \E t \in Tokens : Expire(t)
  <2>1. Unmoved /\ ended' = ended
    BY <1>4, ExpireUnmoved DEF TokenInv, Expire
  <2> QED
    BY <1>0, <2>1, UnmovedKeeps DEF TokenInv
<1>5. CASE OtherStep
  <2>1. Unmoved /\ ended' = ended
    BY <1>5, OtherUnmoved DEF TokenInv, TypeOK, Unmoved, Tokens
  <2> QED
    BY <1>0, <2>1, UnmovedKeeps DEF TokenInv
<1> QED
  BY <1>1, <1>2, <1>3, <1>4, <1>5, StepCases

LEMMA TokenInvariant == Spec => []TokenInv
BY TokenInit, TokenNext, PTL DEF Spec

\* A session has one live token until a logout revokes it, and none from then
\* on, for any number of concurrent refreshes, lost replies and dead requests.
THEOREM SessionTheorem == Spec => []SessionExact
<1>1. TokenInv => SessionExact
  BY DEF TokenInv
<1> QED
  BY <1>1, TokenInvariant, PTL

\* No two requests exchange the same refresh token.
THEOREM ExchangeTheorem == Spec => []ExchangedOnce
<1>1. TokenInv => ExchangedOnce
  BY DEF TokenInv
<1> QED
  BY <1>1, TokenInvariant, PTL

------------------------------------------------------------------------------
(* Ownership.  It is inductive together with: a request that is about to   *)
(* open a session has given the password of the account.                   *)

Issuing == \A r \in Reqs :
  job[r].step = "issue" => users[job[r].email] = job[r].password

OwnedInv == TypeOK /\ SessionOwned /\ Issuing

\* No step changes the password of an account that exists.
LEMMA UsersKept ==
  ASSUME TypeOK, [Next]_vars
  PROVE  \A e \in Emails : FindUser(e) => users'[e] = users[e]
<1>1. ASSUME NEW r \in Reqs, CreateUser(r)
      PROVE  \A e \in Emails : FindUser(e) => users'[e] = users[e]
  BY <1>1 DEF CreateUser, InsertUser, FindUser, TypeOK
<1>2. CASE users' = users
  BY <1>2
<1>3. (\E r \in Reqs : CreateUser(r)) \/ users' = users
  BY DEF Next, vars, RegisterFind, LoginFind, RefreshFind, IssueTokens, Rotate,
         Abort, Logout, Expire
<1> QED
  BY <1>1, <1>2, <1>3

\* Every row keeps the account and the password it was made with.
LEMMA RowsKept ==
  ASSUME TypeOK, [Next]_vars
  PROVE  \A t \in Tokens' :
           \/ \E s \in Tokens : /\ rows'[t].user = rows[s].user
                                 /\ rows'[t].proved = rows[s].proved
           \/ \E r \in Reqs : /\ job[r].step = "issue"
                               /\ rows'[t].user = job[r].email
                               /\ rows'[t].proved = job[r].password
<1> SUFFICES ASSUME NEW t \in Tokens'
             PROVE  \/ \E s \in Tokens : /\ rows'[t].user = rows[s].user
                                          /\ rows'[t].proved = rows[s].proved
                    \/ \E r \in Reqs : /\ job[r].step = "issue"
                                        /\ rows'[t].user = job[r].email
                                        /\ rows'[t].proved = job[r].password
  OBVIOUS
<1>1. CASE \E r \in Reqs : IssueTokens(r)
  <2>1. PICK r \in Reqs : IssueTokens(r)
    BY <1>1
  <2>2. /\ Opened
        /\ rows'[FreshToken].user = job[r].email
        /\ rows'[FreshToken].proved = job[r].password
    BY <2>1, IssueOpens
  <2>3. job[r].step = "issue"
    BY <2>1 DEF IssueTokens
  <2> QED
    BY <2>2, <2>3 DEF Opened
<1>2. CASE \E r \in Reqs : Rotate(r) /\ Live(job[r].token)
  <2>1. PICK u \in Tokens : Revoked(u, TRUE)
    BY <1>2, RotateRevokes DEF Rotate, TypeOK
  <2> QED
    BY <2>1 DEF Revoked
<1>3. CASE \E u \in Tokens : Logout(u) \/ Expire(u)
  <2>1. PICK u \in Tokens : Revoked(u, FALSE) \/ Unmoved
    BY <1>3, LogoutRevokes, ExpireUnmoved
  <2> QED
    BY <2>1 DEF Revoked, Unmoved
<1>4. CASE OtherStep
  BY <1>4, OtherUnmoved DEF Tokens
<1> QED
  BY <1>1, <1>2, <1>3, <1>4, StepCases

\* A request comes to issue tokens by creating the user or by the right password.
LEMMA IssuingKept ==
  ASSUME OwnedInv, [Next]_vars PROVE Issuing'
<1> SUFFICES ASSUME NEW r \in Reqs, job'[r].step = "issue"
             PROVE  users'[job'[r].email] = job'[r].password
  BY DEF Issuing
<1>1. CASE job'[r] = job[r]
  <2>1. users[job[r].email] = job[r].password /\ job[r].email \in Emails
    BY <1>1 DEF OwnedInv, Issuing, TypeOK
  <2>2. FindUser(job[r].email)
    BY <1>1, <2>1, TokensAssumption DEF FindUser, OwnedInv, TypeOK
  <2> QED
    BY <1>1, <2>1, <2>2, UsersKept DEF OwnedInv
<1>2. CASE CreateUser(r)
  <2>1. ~ FindUser(job[r].email) /\ job[r].email \in Emails
    BY <1>2 DEF CreateUser, Finish, Idle, OwnedInv, TypeOK
  <2>2. /\ users' = [users EXCEPT ![job[r].email] = job[r].password]
        /\ job' = [job EXCEPT ![r].step = "issue"]
    BY <1>2, <2>1 DEF CreateUser, InsertUser
  <2>3. job \in [Reqs -> Job] /\ users \in [Emails -> Passwords \cup {NoPassword}]
    BY DEF OwnedInv, TypeOK
  <2>4. job'[r].email = job[r].email /\ job'[r].password = job[r].password
    BY <2>2, <2>3 DEF Job
  <2> QED
    BY <2>1, <2>2, <2>3, <2>4
<1>3. CASE \E e \in Emails, p \in Passwords : LoginFind(r, e, p)
  <2>1. PICK e \in Emails, p \in Passwords : LoginFind(r, e, p)
    BY <1>3
  <2>2. job'[r].email = e /\ job'[r].password = p /\ users'[e] = p
    BY <2>1 DEF LoginFind, Begin, ValidPassword, OwnedInv, TypeOK
  <2> QED
    BY <2>2
<1>4. job'[r] = job[r] \/ CreateUser(r) \/ \E e \in Emails, p \in Passwords : LoginFind(r, e, p)
  <2>1. job \in [Reqs -> Job] /\ Idle.step = "idle"
    BY DEF OwnedInv, TypeOK, Idle
  <2>2. ASSUME NEW q \in Reqs, Finish(q) PROVE job'[r] = job[r]
    BY <2>1, <2>2 DEF Finish
  <2>3. ASSUME NEW q \in Reqs, CreateUser(q) PROVE job'[r] = job[r] \/ CreateUser(r)
    <3>1. CASE q = r
      BY <2>3, <3>1
    <3>2. CASE q # r
      BY <2>1, <2>3, <3>2 DEF CreateUser, Finish
    <3> QED
      BY <3>1, <3>2
  <2>4. ASSUME NEW q \in Reqs, NEW e \in Emails, NEW p \in Passwords,
               RegisterFind(q, e, p) \/ LoginFind(q, e, p)
        PROVE  job'[r] = job[r] \/ LoginFind(r, e, p)
    <3>1. CASE q = r
      BY <2>1, <2>4, <3>1 DEF RegisterFind, Begin
    <3>2. CASE q # r
      BY <2>1, <2>4, <3>2 DEF RegisterFind, LoginFind, Begin
    <3> QED
      BY <3>1, <3>2
  <2>5. ASSUME NEW q \in Reqs, NEW t \in Tokens, RefreshFind(q, t)
        PROVE  job'[r] = job[r]
    BY <2>1, <2>5 DEF RefreshFind, Begin
  <2>6. CASE job' = job
    BY <2>6
  <2>7. \/ \E q \in Reqs : Finish(q) \/ CreateUser(q)
        \/ \E q \in Reqs, e \in Emails, p \in Passwords :
             RegisterFind(q, e, p) \/ LoginFind(q, e, p)
        \/ \E q \in Reqs, t \in Tokens : RefreshFind(q, t)
        \/ job' = job
    BY DEF Next, vars, IssueTokens, Rotate, Abort, Logout, Expire
  <2> QED
    BY <2>2, <2>3, <2>4, <2>5, <2>6, <2>7
<1> QED
  BY <1>1, <1>2, <1>3, <1>4

LEMMA OwnedInit == Init => OwnedInv
<1>1. Init => SessionOwned /\ Issuing
  BY DEF Init, SessionOwned, Issuing, Tokens, Idle
<1> QED
  BY <1>1, TypeInit DEF OwnedInv

LEMMA OwnedNext == OwnedInv /\ [Next]_vars => OwnedInv'
<1> SUFFICES ASSUME OwnedInv, [Next]_vars PROVE OwnedInv'
  OBVIOUS
<1>1. TypeOK /\ TypeOK'
  BY TypeNext DEF OwnedInv
<1>2. Issuing'
  BY IssuingKept
<1>3. \A t \in Tokens' : \E e \in Emails, p \in Passwords :
        rows'[t].user = e /\ rows'[t].proved = p /\ users[e] = p
  <2> TAKE t \in Tokens'
  <2>1. CASE \E s \in Tokens : /\ rows'[t].user = rows[s].user
                               /\ rows'[t].proved = rows[s].proved
    <3>1. PICK s \in Tokens : /\ rows'[t].user = rows[s].user
                              /\ rows'[t].proved = rows[s].proved
      BY <2>1
    <3>2. rows[s].user \in Emails /\ rows[s].proved \in Passwords
      BY <1>1, RowsFacts DEF Row
    <3> QED
      BY <3>1, <3>2 DEF OwnedInv, SessionOwned
  <2>2. CASE \E r \in Reqs : /\ job[r].step = "issue"
                             /\ rows'[t].user = job[r].email
                             /\ rows'[t].proved = job[r].password
    BY <2>2 DEF OwnedInv, Issuing, TypeOK
  <2> QED
    BY <1>1, <2>1, <2>2, RowsKept
<1>4. SessionOwned'
  <2> SUFFICES ASSUME NEW t \in Tokens'
               PROVE  users'[rows'[t].user] = rows'[t].proved
    BY DEF SessionOwned
  <2>1. PICK e \in Emails, p \in Passwords :
          rows'[t].user = e /\ rows'[t].proved = p /\ users[e] = p
    BY <1>3
  <2>2. FindUser(e)
    BY <2>1, TokensAssumption DEF FindUser
  <2> QED
    BY <1>1, <2>1, <2>2, UsersKept
<1> QED
  BY <1>1, <1>2, <1>4 DEF OwnedInv

\* Every token belongs to an account whose password opened its session, however
\* registrations of one email race and however often the token was exchanged.
THEOREM OwnedTheorem == Spec => []SessionOwned
<1>1. OwnedInv => SessionOwned
  BY DEF OwnedInv
<1> QED
  BY <1>1, OwnedInit, OwnedNext, PTL DEF Spec

------------------------------------------------------------------------------
(* The rows implement Sessions, step by step: issuing opens a session, a   *)
(* rotation exchanges its token, a logout of the live token ends it, and   *)
(* everything else leaves the sessions alone.                              *)

AccountOf == [s \in Roots |-> rows[s].user]
LiveOf    == [s \in Roots |-> LiveTokens(s)]

\* The live tokens of session s among the rows rs of the tokens T.
LiveIn(T, rs, s) == {t \in T : ~ rs[t].revoked /\ rs[t].root = s}

LEMMA LiveOfIs ==
  /\ LiveOf = [s \in Roots |-> LiveIn(Tokens, rows, s)]
  /\ LiveOf' = [s \in Roots' |-> LiveIn(Tokens', rows', s)]
BY DEF LiveOf, LiveTokens, Live, LiveIn

\* The roots are tokens, and the number of rows follows the tokens.
LEMMA RootsFacts ==
  ASSUME TypeOK
  PROVE  Roots \subseteq Tokens /\ \A t \in Tokens : rows[t].root \in Roots
BY RowsFacts DEF Roots

LEMMA GrownInterval ==
  ASSUME NEW m \in Nat, NEW n \in Nat, 1 .. m = (1 .. n) \cup {n + 1}
  PROVE  m = n + 1
<1>1. n + 1 \in 1 .. m
  OBVIOUS
<1>2. m > n + 1 => m \in 1 .. m /\ m \notin (1 .. n) \cup {n + 1}
  OBVIOUS
<1> QED
  BY <1>1, <1>2

LEMMA OneMoreRow ==
  ASSUME TypeOK, rows' \in Seq(Row), Tokens' = Tokens \cup {FreshToken}
  PROVE  Len(rows') = FreshToken
<1>1. Len(rows) \in Nat /\ Tokens = 1 .. Len(rows)
  BY RowsFacts
<1>2. Len(rows') \in Nat /\ Tokens' = 1 .. Len(rows')
  BY DEF Tokens
<1>3. FreshToken = Len(rows) + 1
  BY DEF FreshToken
<1>4. Len(rows') = Len(rows) + 1
  BY <1>1, <1>2, <1>3, GrownInterval
<1> QED
  BY <1>3, <1>4

LEMMA SameRows ==
  ASSUME TypeOK, rows' \in Seq(Row), Tokens' = Tokens
  PROVE  Len(rows') = Len(rows)
<1>1. Len(rows) \in Nat /\ Tokens = 1 .. Len(rows)
  BY RowsFacts
<1>2. Len(rows') \in Nat /\ Tokens' = 1 .. Len(rows')
  BY DEF Tokens
<1> QED
  BY <1>1, <1>2

LEMMA IssueRefines ==
  ASSUME TokenInv, NEW r \in Reqs, IssueTokens(r),
         NEW a \in Emails, a = job[r].email
  PROVE  AbstractSessions!Open(a)
<1>1. /\ Opened /\ rows'[FreshToken].user = a
      /\ Len(rows') = FreshToken
  BY IssueOpens, OneMoreRow DEF TokenInv, Opened
<1>2. /\ Roots \subseteq Tokens /\ FreshToken \notin Tokens
      /\ \A s \in Tokens : rows[s].root \in Roots
  BY RootsFacts, RowsFacts DEF TokenInv
<1>a. /\ Tokens' = Tokens \cup {FreshToken}
      /\ \A s \in Tokens : rows'[s] = rows[s]
      /\ rows'[FreshToken].root = FreshToken /\ ~ rows'[FreshToken].revoked
  BY <1>1 DEF Opened
<1>3. Roots' = Roots \cup {FreshToken}
  BY <1>2, <1>a DEF Roots
<1>4. AccountOf' = [s \in Roots \cup {FreshToken} |->
                      IF s = FreshToken THEN a ELSE AccountOf[s]]
  <2>1. \A s \in Roots : rows'[s].user = rows[s].user /\ s # FreshToken
    BY <1>2, <1>a
  <2> QED
    BY <1>1, <1>3, <2>1 DEF AccountOf
<1>5. LiveIn(Tokens', rows', FreshToken) = {FreshToken}
  BY <1>2, <1>a DEF LiveIn
<1>6. \A s \in Roots : LiveIn(Tokens', rows', s) = LiveIn(Tokens, rows, s)
  BY <1>2, <1>a DEF LiveIn
<1>7. LiveOf' = [s \in Roots \cup {FreshToken} |->
                   IF s = FreshToken THEN {FreshToken} ELSE LiveOf[s]]
  BY <1>2, <1>3, <1>5, <1>6, LiveOfIs
<1>8. DOMAIN LiveOf = Roots
  BY DEF LiveOf
<1> QED
  BY <1>1, <1>4, <1>7, <1>8
     DEF AbstractSessions!Open, AbstractSessions!Fresh, AbstractSessions!Opened,
         FreshToken, AccountOf, LiveOf

LEMMA RotateRefines ==
  ASSUME TokenInv, NEW r \in Reqs, Rotate(r), Live(job[r].token)
  PROVE  \E s \in Roots : AbstractSessions!Exchange(s)
<1> DEFINE t == job[r].token
           root == rows[t].root
<1>1. /\ t \in Tokens /\ Revoked(t, TRUE) /\ ~ rows[t].revoked
      /\ Len(rows') = FreshToken
  BY RotateRevokes, OneMoreRow DEF TokenInv, TypeOK, Rotate, Live, Revoked
<1>2. /\ Roots \subseteq Tokens /\ FreshToken \notin Tokens
      /\ \A s \in Tokens : rows[s].root \in Roots
  BY RootsFacts, RowsFacts DEF TokenInv
<1>3. \A s \in Tokens : ~ rows[s].revoked /\ rows[s].root = root => s = t
  BY <1>1 DEF TokenInv, SessionExact, Live
<1> HIDE DEF t
<1>4. /\ Tokens' = Tokens \cup {FreshToken}
      /\ \A s \in Tokens : /\ rows'[s].root = rows[s].root
                           /\ rows'[s].user = rows[s].user
                           /\ s # t => rows'[s].revoked = rows[s].revoked
      /\ rows'[t].revoked /\ rows'[FreshToken].root = root
      /\ ~ rows'[FreshToken].revoked
  BY <1>1 DEF Revoked
<1>5. Roots' = Roots
  BY <1>1, <1>2, <1>4 DEF Roots
<1>6. AccountOf' = AccountOf
  BY <1>2, <1>4, <1>5 DEF AccountOf
<1>7. LiveIn(Tokens', rows', root) = {FreshToken}
  BY <1>1, <1>2, <1>3, <1>4 DEF LiveIn
<1>8. \A s \in Roots : s # root => LiveIn(Tokens', rows', s) = LiveIn(Tokens, rows, s)
  BY <1>1, <1>2, <1>4 DEF LiveIn
<1>9. t \in LiveIn(Tokens, rows, root) /\ root \in Roots
  BY <1>1, <1>2 DEF LiveIn
<1> HIDE DEF root
<1>10. LiveOf' = [LiveOf EXCEPT ![root] = {FreshToken}] /\ LiveOf[root] # {}
  BY <1>5, <1>7, <1>8, <1>9, LiveOfIs
<1> QED
  BY <1>1, <1>6, <1>9, <1>10
     DEF AbstractSessions!Exchange, AbstractSessions!Fresh, FreshToken, AccountOf, LiveOf

LEMMA LogoutRefines ==
  ASSUME TokenInv, NEW t \in Tokens, Logout(t)
  PROVE  \/ \E s \in Roots : AbstractSessions!End(s)
         \/ UNCHANGED <<Len(rows), AccountOf, LiveOf>>
<1> DEFINE root == rows[t].root
<1>1. Revoked(t, FALSE) /\ Len(rows') = Len(rows)
  BY LogoutRevokes, SameRows DEF TokenInv, Revoked
<1>2. Roots \subseteq Tokens /\ \A s \in Tokens : rows[s].root \in Roots
  BY RootsFacts DEF TokenInv
<1>3. /\ Tokens' = Tokens
      /\ \A s \in Tokens : /\ rows'[s].root = rows[s].root
                           /\ rows'[s].user = rows[s].user
                           /\ s # t => rows'[s].revoked = rows[s].revoked
      /\ rows'[t].revoked
  BY <1>1 DEF Revoked
<1>4. Roots' = Roots
  BY <1>3 DEF Roots
<1>5. AccountOf' = AccountOf
  BY <1>2, <1>3, <1>4 DEF AccountOf
<1>6. CASE rows[t].revoked
  <2>1. \A s \in Roots : LiveIn(Tokens', rows', s) = LiveIn(Tokens, rows, s)
    BY <1>3, <1>6 DEF LiveIn
  <2>2. LiveOf' = LiveOf
    BY <1>4, <2>1, LiveOfIs
  <2> QED
    BY <1>1, <1>5, <2>2
<1>7. CASE ~ rows[t].revoked
  <2>1. \A s \in Tokens : ~ rows[s].revoked /\ rows[s].root = root => s = t
    BY <1>7 DEF TokenInv, SessionExact, Live
  <2>2. LiveIn(Tokens', rows', root) = {}
    BY <1>3, <2>1 DEF LiveIn
  <2>3. \A s \in Roots : s # root => LiveIn(Tokens', rows', s) = LiveIn(Tokens, rows, s)
    BY <1>3 DEF LiveIn
  <2>4. t \in LiveIn(Tokens, rows, root) /\ root \in Roots
    BY <1>2, <1>7 DEF LiveIn
  <2> HIDE DEF root
  <2>5. LiveOf' = [LiveOf EXCEPT ![root] = {}] /\ LiveOf[root] # {}
    BY <1>4, <2>2, <2>3, <2>4, LiveOfIs
  <2> QED
    BY <1>1, <1>5, <2>4, <2>5 DEF AbstractSessions!End, AccountOf, LiveOf
<1> QED
  BY <1>6, <1>7

LEMMA UnmovedRefines ==
  ASSUME TokenInv, Unmoved
  PROVE  UNCHANGED <<Len(rows), AccountOf, LiveOf>>
<1>1. Len(rows') = Len(rows)
  BY SameRows DEF TokenInv, Unmoved
<1>2. Roots \subseteq Tokens
  BY RootsFacts DEF TokenInv
<1>3. /\ Tokens' = Tokens
      /\ \A s \in Tokens : /\ rows'[s].root = rows[s].root
                           /\ rows'[s].user = rows[s].user
                           /\ rows'[s].revoked = rows[s].revoked
  BY DEF Unmoved
<1>4. Roots' = Roots
  BY <1>3 DEF Roots
<1>5. AccountOf' = AccountOf
  BY <1>2, <1>3, <1>4 DEF AccountOf
<1>6. \A s \in Roots : LiveIn(Tokens', rows', s) = LiveIn(Tokens, rows, s)
  BY <1>3 DEF LiveIn
<1>7. LiveOf' = LiveOf
  BY <1>4, <1>6, LiveOfIs
<1> QED
  BY <1>1, <1>5, <1>7

LEMMA SessionsInitRefines == Init => AbstractSessions!SessionsInit
<1> SUFFICES ASSUME Init PROVE AbstractSessions!SessionsInit
  OBVIOUS
<1>1. Len(rows) = 0 /\ Roots = {}
  BY DEF Init, Roots, Tokens
<1> QED
  BY <1>1 DEF AbstractSessions!SessionsInit

LEMMA SessionsNextRefines ==
  TokenInv /\ [Next]_vars
    => [AbstractSessions!SessionsNext]_(AbstractSessions!sessionVars)
<1> SUFFICES ASSUME TokenInv, [Next]_vars
             PROVE  [AbstractSessions!SessionsNext]_(AbstractSessions!sessionVars)
  OBVIOUS
<1>0. ASSUME UNCHANGED <<Len(rows), AccountOf, LiveOf>>
      PROVE  UNCHANGED AbstractSessions!sessionVars
  BY <1>0 DEF AbstractSessions!sessionVars, AccountOf, LiveOf
<1>a. AbstractSessions!Opened = Roots
  BY DEF AbstractSessions!Opened
<1>1. CASE \E r \in Reqs : IssueTokens(r)
  <2>1. PICK r \in Reqs : IssueTokens(r)
    BY <1>1
  <2>2. PICK e \in Emails : e = job[r].email
    BY <2>1 DEF IssueTokens, TokenInv, TypeOK
  <2>3. AbstractSessions!Open(e)
    BY <2>1, <2>2, IssueRefines, Zenon
  <2>4. \E a \in Emails : AbstractSessions!Open(a)
    BY <2>3, Zenon
  <2>5. AbstractSessions!SessionsNext
    BY <2>4, Zenon DEF AbstractSessions!SessionsNext
  <2> QED
    BY <2>5
<1>2. CASE \E r \in Reqs : Rotate(r) /\ Live(job[r].token)
  BY <1>2, <1>a, RotateRefines DEF AbstractSessions!SessionsNext
<1>3. CASE \E t \in Tokens : Logout(t)
  BY <1>0, <1>3, <1>a, LogoutRefines DEF AbstractSessions!SessionsNext
<1>4. CASE \E t \in Tokens : Expire(t)
  BY <1>0, <1>4, ExpireUnmoved, UnmovedRefines DEF TokenInv
<1>5. CASE OtherStep
  <2>1. Unmoved
    BY <1>5, OtherUnmoved DEF TokenInv, TypeOK, Unmoved, Tokens
  <2> QED
    BY <1>0, <2>1, UnmovedRefines
<1> QED
  BY <1>1, <1>2, <1>3, <1>4, <1>5, StepCases

\* The service implements Sessions: whatever interleaves, fails or is lost, a
\* session has one live token that moves on or ends, and never comes back.
THEOREM SessionsTheorem == Spec => SessionsSpec
BY SessionsInitRefines, SessionsNextRefines, TokenInvariant, PTL
   DEF Spec, SessionsSpec, AbstractSessions!SessionsSpec
==============================================================================
