------------------------------- MODULE Sessions -------------------------------
(***************************************************************************)
(* What the auth service promises about sessions: a session belongs to one *)
(* account, it has one live token at any time, which is exchanged for one  *)
(* that was never issued before, and once it has ended it stays ended.     *)
(* AuthTokens implements this specification with the rows of the table     *)
(* RefreshToken, in which every token ever issued stays.                   *)
(***************************************************************************)
EXTENDS Naturals

CONSTANT Accounts

VARIABLES
  issued,    \* how many tokens have been issued: they are 1 .. issued
  account,   \* the account of each session; a session is known by its first token
  live       \* the live tokens of each session: one, or none when it has ended

sessionVars == <<issued, account, live>>

Opened == DOMAIN live

Fresh == issued + 1

SessionsInit ==
  /\ issued = 0
  /\ account = [s \in {} |-> 0]
  /\ live = [s \in {} |-> {}]

Open(a) ==
  /\ issued' = Fresh
  /\ account' = [s \in Opened \cup {Fresh} |->
                   IF s = Fresh THEN a ELSE account[s]]
  /\ live' = [s \in Opened \cup {Fresh} |->
                IF s = Fresh THEN {Fresh} ELSE live[s]]

Exchange(s) ==
  /\ live[s] # {}
  /\ issued' = Fresh
  /\ live' = [live EXCEPT ![s] = {Fresh}]
  /\ UNCHANGED account

End(s) ==
  /\ live[s] # {}
  /\ live' = [live EXCEPT ![s] = {}]
  /\ UNCHANGED <<issued, account>>

SessionsNext ==
  \/ \E a \in Accounts : Open(a)
  \/ \E s \in Opened : Exchange(s) \/ End(s)

SessionsSpec == SessionsInit /\ [][SessionsNext]_sessionVars
==============================================================================
