----------------------------- MODULE MCWorkspace -----------------------------
(* Instances of Workspace for TLC. *)
EXTENDS Workspace, TLC

\* Sound for the properties: none names an element of these sets.
Symmetry == Permutations(Users) \cup Permutations(Workspaces)
            \cup Permutations(Projects) \cup Permutations(Reqs) \cup Permutations(Names)
==============================================================================
