----------------------------- MODULE FileHistory -----------------------------
(***************************************************************************)
(* What the file service promises about the content of one file: the       *)
(* history of the file is a log of numbered contents with their authors.   *)
(* Its first entry is the creator's, written before anybody owns the file, *)
(* and every later entry has the next number and, as its author, the user  *)
(* who owns the file at that moment.  FileService implements this when     *)
(* requests are neither cut short nor raced by their own user, and a lease *)
(* outlives the writes made under it (Faults = {} there).                  *)
(***************************************************************************)
EXTENDS FileLease, Naturals, Sequences

CONSTANT Texts

VARIABLE log

HistoryInit == LeaseInit /\ log = <<>>

Entry(u, t) == [number |-> Len(log) + 1, text |-> t, author |-> u]

Create(u, t) == /\ log = <<>> /\ owner = NoUser
                /\ log' = <<Entry(u, t)>>

Write(u, t) == /\ log # <<>> /\ owner = u
               /\ log' = Append(log, Entry(u, t))

HistoryNext ==
  \/ LeaseNext /\ UNCHANGED log
  \/ /\ \E u \in Users, t \in Texts : Create(u, t) \/ Write(u, t)
     /\ UNCHANGED <<owner, by>>

HistorySpec == HistoryInit /\ [][HistoryNext]_<<owner, by, log>>
==============================================================================
