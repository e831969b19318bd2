---------------------------- MODULE MCFileService ----------------------------
(* Instances of FileService for TLC. *)
EXTENDS FileService, TLC

\* Sound for the invariants and action properties: users, texts and request
\* slots are only compared for equality.
Symmetry == Permutations(Users) \cup Permutations(Texts) \cup Permutations(Reqs)

NoFaults  == {}
AllFaults == {"abort", "lapse", "overlap", "early"}
LapseOnly == {"lapse"}
==============================================================================
