----------------------------- MODULE MCAuthTokens -----------------------------
(* Instances of AuthTokens for TLC. *)
EXTENDS AuthTokens, TLC

\* Emails, passwords and request slots are only compared for equality.
Symmetry == Permutations(Emails) \cup Permutations(Passwords) \cup Permutations(Reqs)
==============================================================================
