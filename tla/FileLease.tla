------------------------------ MODULE FileLease ------------------------------
(***************************************************************************)
(* What the lock endpoints of the file service promise about one file: a   *)
(* free file is granted to one user, only the owner renews the lease or    *)
(* gives it up, and what nobody gave up ends by running out.  `by` tells   *)
(* these apart: the user whose call last granted, renewed or ended the     *)
(* lease, NoUser when it ran out.  So a caller who is not the owner can    *)
(* neither end a lease nor be taken for its running out.                   *)
(***************************************************************************)
CONSTANTS Users, NoUser

VARIABLES owner, by

LeaseInit == owner = NoUser /\ by = NoUser

Grant(u) == owner = NoUser /\ owner' = u /\ by' = u

Renew(u) == owner = u /\ by' = u /\ UNCHANGED owner

GiveUp(u) == owner = u /\ owner' = NoUser /\ by' = u

RunOut == owner # NoUser /\ owner' = NoUser /\ by' = NoUser

LeaseNext == RunOut \/ \E u \in Users : Grant(u) \/ Renew(u) \/ GiveUp(u)

LeaseSpec == LeaseInit /\ [][LeaseNext]_<<owner, by>>
==============================================================================
