----------------------------- MODULE FileService -----------------------------
(***************************************************************************)
(* The file service, for one file.  Every operation of                     *)
(* file.service.ts is keyed by the file's id (row, blob, version rows and  *)
(* lock key alike), so files do not interact and one file is enough.       *)
(*                                                                         *)
(* A handler is a sequence of awaited calls to three stores: the Postgres  *)
(* rows (row, versions), the R2 blob (blob) and the Redis lock key (lock). *)
(* The handlers of concurrent requests interleave between these calls and  *)
(* nothing spans them: there is no transaction and no second lock check.   *)
(* A member of Reqs is a slot that serves one request at a time; job[r]    *)
(* holds the call the request waits for next and its local variables.      *)
(* A check that answers 404, 403 or 409 ends the request; a request that   *)
(* finds no active row ends at once and is not represented.                *)
(*                                                                         *)
(* Faults names what the environment may do besides serving one request    *)
(* of each user after the other:                                           *)
(*   "abort"    a store call fails or the process stops, between any two   *)
(*              calls;                                                     *)
(*   "lapse"    the lock's time to live runs out under a running update of *)
(*              its holder (it may always run out otherwise);              *)
(*   "overlap"  a user has several requests in flight: two tabs, or a new  *)
(*              request after the gateway gave up on the former one;       *)
(*   "early"    the file is used, through the project's file list, before  *)
(*              its creation has finished.                                 *)
(***************************************************************************)
EXTENDS Integers, Sequences, FiniteSets

CONSTANTS Users, Texts, Reqs,
          NoUser, NoText,
          Faults,
          MaxVersions       \* bound: no update starts with so many versions

ASSUME ConstantsAssumption ==
  /\ NoUser \notin Users
  /\ NoText \notin Texts
  /\ MaxVersions \in Nat
  /\ Faults \subseteq {"abort", "lapse", "overlap", "early"}

VARIABLES
  row,        \* the File row: absent, active or deleted, and its content column
  blob,       \* the object in R2, NoText when there is none
  versions,   \* the FileVersion rows in the order they were inserted
  lock,       \* the userId in the Redis lock value, NoUser when there is no key
  keyBy,      \* history: the user whose call last set, renewed or deleted the
              \* key, NoUser before the first and when the key ran out
  job,        \* the requests being served
  acked,      \* history: the content of the last create or update that succeeded
  allowed     \* history: the contents a running read of the file may return

lease == <<lock, keyBy>>
stores == <<row, blob, versions, lease>>
vars == <<row, blob, versions, lock, keyBy, job, acked, allowed>>

CreateSteps == {"createBlob", "createVersion"}
WriteSteps  == {"updateRead", "updateBlob", "updateRow", "updateVersion"}
DeleteSteps == {"deleteBlob", "deleteRow"}
OtherSteps  == {"updateCheck", "deleteCheck", "acquireSet", "acquireConflict",
                "releaseEval", "renewEval", "getBlob", "getLock"}
Steps == CreateSteps \cup WriteSteps \cup DeleteSteps \cup OtherSteps

\* The steps in which a request carries a text to write or to return.
TextSteps == CreateSteps \cup WriteSteps \cup {"updateCheck", "getBlob", "getLock"}

Idle == [step |-> "idle", user |-> NoUser, text |-> NoText, latest |-> 0]

Job ==
  {j \in [step : Steps \cup {"idle"}, user : Users \cup {NoUser},
          text : Texts \cup {NoText}, latest : Nat] :
     /\ IF j.step = "idle" THEN j = Idle ELSE j.user \in Users
     /\ j.step \in TextSteps => j.text \in Texts}

Version == [number : Nat \ {0}, text : Texts, author : Users]

\* The version row request r inserts: createdBy is its user.
VersionRow(r, n) == [number |-> n, text |-> job[r].text, author |-> job[r].user]

Creating(r) == job[r].step \in CreateSteps
Writing(r)  == job[r].step \in WriteSteps
Deleting(r) == job[r].step \in DeleteSteps
Reading(r)  == job[r].step = "getBlob"

Init ==
  /\ row = [state |-> "absent", text |-> NoText]
  /\ blob = NoText
  /\ versions = <<>>
  /\ lock = NoUser /\ keyBy = NoUser
  /\ job = [r \in Reqs |-> Idle]
  /\ acked = NoText
  /\ allowed = [r \in Reqs |-> {}]

------------------------------------------------------------------------------
(* Requests: how one starts, moves to its next call and ends.              *)

\* The client sends a request of u only when it has no other one in flight.
MaySend(u) == "overlap" \in Faults \/ \A r \in Reqs : job[r].user # u

\* The client learns the file's id from the reply to the creation, or, "early",
\* from listFiles, which shows every row that is not deleted.
Visible == "early" \in Faults \/ \A r \in Reqs : ~ Creating(r)

Accept(r, u, step, t) ==
  /\ job[r] = Idle
  /\ MaySend(u)
  /\ job' = [job EXCEPT ![r] = [step |-> step, user |-> u, text |-> t, latest |-> 0]]

FindAnyFile(r, u, step, t) ==        \* mutant: the deletedAt filter is missing
  /\ row.state # "absent" /\ Visible
  /\ Accept(r, u, step, t)
  /\ UNCHANGED <<stores, acked>>

\* findActiveFile succeeds, and the handler goes on with the given step.
FindActiveFile(r, u, step, t) ==
  /\ row.state = "active" /\ Visible
  /\ Accept(r, u, step, t)
  /\ UNCHANGED <<stores, acked>>

Goto(r, step) == job' = [job EXCEPT ![r].step = step]
Finish(r) == job' = [job EXCEPT ![r] = Idle]

\* From now on a running read of the file may return t.
Expose(t) ==
  allowed' = [s \in Reqs |-> IF Reading(s) THEN allowed[s] \cup {t} ELSE allowed[s]]

\* The object of the file in R2 is replaced, or read.
UploadFileContent(r) == blob' = job[r].text
DownloadFileContent == {blob} \ {NoText}

------------------------------------------------------------------------------
(* createFile: the row, then the blob, then version 1.                     *)

CreateRow(r, u, t) ==
  /\ row.state = "absent"
  /\ Accept(r, u, "createBlob", t)
  /\ row' = [state |-> "active", text |-> t]
  /\ UNCHANGED <<blob, versions, lease, acked, allowed>>

CreateBlob(r) ==
  /\ job[r].step = "createBlob"
  /\ UploadFileContent(r)
  /\ Goto(r, "createVersion")
  /\ Expose(job[r].text)
  /\ UNCHANGED <<row, versions, lease, acked>>

CreateVersionZero(r) ==              \* mutant: numbering starts at 0
  /\ job[r].step = "createVersion"
  /\ versions' = Append(versions, VersionRow(r, 0))
  /\ acked' = job[r].text
  /\ Finish(r)
  /\ UNCHANGED <<row, blob, lease, allowed>>

CreateVersion(r) ==
  /\ job[r].step = "createVersion"
  /\ versions' = Append(versions, VersionRow(r, 1))
  /\ acked' = job[r].text
  /\ Finish(r)
  /\ UNCHANGED <<row, blob, lease, allowed>>

------------------------------------------------------------------------------
(* updateFile: check the lock, read the latest version, then write the     *)
(* blob, the row and the new version.  The lock is not looked at again.    *)

UpdateFind(r, u, t) ==
  /\ Len(versions) < MaxVersions
  /\ FindActiveFile(r, u, "updateCheck", t)
  /\ UNCHANGED allowed

UpdateCheckAnyLock(r) ==             \* mutant: some lock, not the caller's
  /\ job[r].step = "updateCheck"
  /\ IF lock # NoUser THEN Goto(r, "updateRead") ELSE Finish(r)
  /\ UNCHANGED <<stores, acked, allowed>>

UpdateCheck(r) ==
  /\ job[r].step = "updateCheck"
  /\ IF lock = job[r].user THEN Goto(r, "updateRead") ELSE Finish(r)
  /\ UNCHANGED <<stores, acked, allowed>>

Numbers == {versions[i].number : i \in DOMAIN versions}

\* n is the number of the latest version row, 0 when there is none.
IsLatest(n) ==
  /\ \A k \in Numbers : k <= n
  /\ IF versions = <<>> THEN n = 0 ELSE n \in Numbers

UpdateRead(r) ==
  /\ job[r].step = "updateRead"
  /\ \E n \in Numbers \cup {0} :
       /\ IsLatest(n)
       /\ job' = [job EXCEPT ![r].step = "updateBlob", ![r].latest = n]
  /\ UNCHANGED <<stores, acked, allowed>>

UpdateBlobSkipped(r) ==              \* mutant: the object is not uploaded
  /\ job[r].step = "updateBlob"
  /\ Goto(r, "updateRow")
  /\ Expose(job[r].text)
  /\ UNCHANGED <<row, blob, versions, lease, acked>>

UpdateBlob(r) ==
  /\ job[r].step = "updateBlob"
  /\ UploadFileContent(r)
  /\ Goto(r, "updateRow")
  /\ Expose(job[r].text)
  /\ UNCHANGED <<row, versions, lease, acked>>

UpdateRowSkipped(r) ==               \* mutant: the content column is not written
  /\ job[r].step = "updateRow"
  /\ Goto(r, "updateVersion")
  /\ UNCHANGED <<stores, acked, allowed>>

\* The row is selected by its id alone: a deleted one is written as well.
UpdateRow(r) ==
  /\ job[r].step = "updateRow"
  /\ row' = [row EXCEPT !.text = job[r].text]
  /\ Goto(r, "updateVersion")
  /\ UNCHANGED <<blob, versions, lease, acked, allowed>>

UpdateVersionByCount(r) ==           \* mutant: numbered by counting the rows
  /\ job[r].step = "updateVersion"
  /\ versions' = Append(versions, VersionRow(r, Len(versions) + 1))
  /\ acked' = job[r].text
  /\ Finish(r)
  /\ UNCHANGED <<row, blob, lease, allowed>>

UpdateVersion(r) ==
  /\ job[r].step = "updateVersion"
  /\ versions' = Append(versions, VersionRow(r, job[r].latest + 1))
  /\ acked' = job[r].text
  /\ Finish(r)
  /\ UNCHANGED <<row, blob, lease, allowed>>

------------------------------------------------------------------------------
(* deleteFile: only while nobody holds the lock, the blob before the row.  *)

DeleteFind(r, u) ==
  FindActiveFile(r, u, "deleteCheck", NoText) /\ UNCHANGED allowed

DeleteCheck(r) ==
  /\ job[r].step = "deleteCheck"
  /\ IF lock = NoUser THEN Goto(r, "deleteBlob") ELSE Finish(r)
  /\ UNCHANGED <<stores, acked, allowed>>

DeleteBlob(r) ==
  /\ job[r].step = "deleteBlob"
  /\ blob' = NoText
  /\ Goto(r, "deleteRow")
  /\ UNCHANGED <<row, versions, lease, acked, allowed>>

DeleteRow(r) ==
  /\ job[r].step = "deleteRow"
  /\ row' = [row EXCEPT !.state = "deleted"]
  /\ Finish(r)
  /\ UNCHANGED <<blob, versions, lease, acked, allowed>>

------------------------------------------------------------------------------
(* getFile: the row, then the blob with the row's content as a fallback    *)
(* for any error of the download, then the lock for the reply.             *)

GetFind(r, u) ==
  /\ FindActiveFile(r, u, "getBlob", row.text)
  /\ allowed' = [allowed EXCEPT ![r] =
       {acked} \cup {job[w].text : w \in {w \in Reqs :
                       job[w].step \in {"updateRow", "updateVersion"}}}]

GetBlob(r) ==
  /\ job[r].step = "getBlob"
  /\ \E t \in DownloadFileContent \cup {job[r].text} :
       job' = [job EXCEPT ![r].step = "getLock", ![r].text = t]
  /\ UNCHANGED <<stores, acked, allowed>>

GetLock(r) ==
  /\ job[r].step = "getLock"
  /\ Finish(r)
  /\ allowed' = [allowed EXCEPT ![r] = {}]
  /\ UNCHANGED <<stores, acked>>

------------------------------------------------------------------------------
(* acquireLock, releaseLock and renewLock: each touches the key in one     *)
(* atomic command or script, after an earlier look at the row.  The lock   *)
(* value names the user only, so a late release drops a newer lease of the *)
(* same user.                                                              *)

AcquireFind(r, u) ==
  FindActiveFile(r, u, "acquireSet", NoText) /\ UNCHANGED allowed

\* SET NX: it also fails for the user who holds the lock.
AcquireSet(r) ==
  /\ job[r].step = "acquireSet"
  /\ \/ lock = NoUser /\ lock' = job[r].user /\ Finish(r)
        /\ keyBy' = job[r].user
     \/ lock # NoUser /\ Goto(r, "acquireConflict") /\ UNCHANGED lease
  /\ UNCHANGED <<row, blob, versions, acked, allowed>>

\* Reads the holder, publishes the conflict event, answers 409.
AcquireConflict(r) ==
  /\ job[r].step = "acquireConflict"
  /\ Finish(r)
  /\ UNCHANGED <<stores, acked, allowed>>

ReleaseFind(r, u) ==
  FindActiveFile(r, u, "releaseEval", NoText) /\ UNCHANGED allowed

ReleaseEvalUnowned(r) ==             \* mutant: DEL without comparing the owner
  /\ job[r].step = "releaseEval"
  /\ IF lock # NoUser THEN lock' = NoUser /\ keyBy' = job[r].user ELSE UNCHANGED lease
  /\ Finish(r)
  /\ UNCHANGED <<row, blob, versions, acked, allowed>>

\* The script deletes the key when its userId is the caller's.
ReleaseEval(r) ==
  /\ job[r].step = "releaseEval"
  /\ IF lock = job[r].user THEN lock' = NoUser /\ keyBy' = job[r].user ELSE UNCHANGED lease
  /\ Finish(r)
  /\ UNCHANGED <<row, blob, versions, acked, allowed>>

RenewFind(r, u) ==
  FindActiveFile(r, u, "renewEval", NoText) /\ UNCHANGED allowed

\* The script starts the time to live again when the key's userId is the caller's.
RenewEval(r) ==
  /\ job[r].step = "renewEval"
  /\ keyBy' = IF lock = job[r].user THEN job[r].user ELSE keyBy
  /\ Finish(r)
  /\ UNCHANGED <<row, blob, versions, lock, acked, allowed>>

------------------------------------------------------------------------------
(* The environment.                                                        *)

\* The key's time to live runs out.
Lapse ==
  /\ lock # NoUser
  /\ "lapse" \in Faults \/ \A r \in Reqs : ~ (Writing(r) /\ job[r].user = lock)
  /\ lock' = NoUser /\ keyBy' = NoUser
  /\ UNCHANGED <<row, blob, versions, job, acked, allowed>>

\* A store call throws, or the process stops: what was done stays done.
Abort(r) ==
  /\ "abort" \in Faults
  /\ job[r] # Idle
  /\ Finish(r)
  /\ allowed' = [allowed EXCEPT ![r] = {}]
  /\ UNCHANGED <<stores, acked>>

Arrive(r, u) ==
  \/ \E t \in Texts : CreateRow(r, u, t) \/ UpdateFind(r, u, t)
  \/ DeleteFind(r, u)
  \/ GetFind(r, u)
  \/ AcquireFind(r, u)
  \/ ReleaseFind(r, u)
  \/ RenewFind(r, u)

Continue(r) ==
  \/ CreateBlob(r)
  \/ CreateVersion(r)
  \/ UpdateCheck(r)
  \/ UpdateRead(r)
  \/ UpdateBlob(r)
  \/ UpdateRow(r)
  \/ UpdateVersion(r)
  \/ DeleteCheck(r)
  \/ DeleteBlob(r)
  \/ DeleteRow(r)
  \/ GetBlob(r)
  \/ GetLock(r)
  \/ AcquireSet(r)
  \/ AcquireConflict(r)
  \/ ReleaseEval(r)
  \/ RenewEval(r)

Next ==
  \/ \E r \in Reqs : Continue(r) \/ Abort(r) \/ \E u \in Users : Arrive(r, u)
  \/ Lapse

Spec == Init /\ [][Next]_vars

\* Every awaited call is answered.  A time to live runs out for good only
\* when nobody can renew it any more, so Lapse is fair on a deleted file only.
Fairness ==
  /\ \A r \in Reqs : WF_vars(Continue(r))
  /\ WF_vars(row.state = "deleted" /\ Lapse)

FairSpec == Spec /\ Fairness

------------------------------------------------------------------------------
(* Properties.                                                             *)

\* The variables have their types: in particular a running request names a
\* user, and one that creates, writes or reads carries a text.
TypeOK ==
  /\ row \in [state : {"absent", "active", "deleted"}, text : Texts \cup {NoText}]
  /\ row.state = "active" => row.text \in Texts
  /\ blob \in Texts \cup {NoText}
  /\ versions \in Seq(Version)
  /\ lock \in Users \cup {NoUser}
  /\ keyBy \in Users \cup {NoUser}
  /\ job \in [Reqs -> Job]
  /\ acked \in Texts \cup {NoText}
  /\ allowed \in [Reqs -> SUBSET (Texts \cup {NoText})]

\* Whatever races, fails or lapses, the version numbers of a file have no gap:
\* below each number every smaller one exists.  Two updates that read the same
\* latest version may use one number twice (no unique index), never skip one.
VersionsContiguous ==
  \A k \in Numbers : \A n \in 1 .. k : n \in Numbers

\* updateFile is guarded by a lock it looks at once.  If leases outlive the
\* writes made under them and a user sends one request at a time, this is
\* enough: an update past its check still has the lock, and it is alone.
ExclusiveWriters ==
  {"lapse", "overlap"} \cap Faults = {} =>
    \A r \in Reqs : Writing(r) =>
      /\ lock = job[r].user
      /\ \A s \in Reqs : Writing(s) => s = r

\* Three stores hold a file and no transaction spans them.  When no request
\* was raced by its own user or cut short and no lease lapsed under a write,
\* they agree whenever nothing that writes is running: the blob, the content
\* column and the last version are what the last successful request wrote.
CommittedFile ==
  (/\ Faults = {}
   /\ row.state = "active"
   /\ \A r \in Reqs : ~ (Creating(r) \/ Writing(r) \/ Deleting(r)))
  => /\ blob = acked
     /\ row.text = acked
     /\ versions # <<>>
     /\ versions[Len(versions)].text = acked

\* getFile reads the row and then the blob, falls back to the row's content
\* when the download fails or the blob is gone, and runs beside an update and
\* a deletion.  It returns the content of the last update that succeeded
\* before it began or of one that ran meanwhile.
RegularRead ==
  Faults = {} => \A r \in Reqs : job[r].step = "getLock" => job[r].text \in allowed[r]

\* README.md:236: "Only the lock holder can write to the file".
OnlyHolderWrites ==
  [][\A r \in Reqs : UpdateBlob(r) => lock = job[r].user]_vars

\* Nobody can release the lock of a deleted file (releaseLock answers 404), and
\* an acquire or a renew that found the row in time may still set the key.  All
\* the same the key is gone in the end.
DeletedFileUnlocks ==
  row.state = "deleted" ~> [](lock = NoUser)

\* The Redis key implements the lease, under every fault: SET NX grants a free
\* file only, and a key that goes was deleted by its own user's release or ran
\* out, however late the release, renewal or acquire of another request comes.
Lease == INSTANCE FileLease WITH owner <- lock, by <- keyBy

LeaseSpec == Lease!LeaseSpec

\* Without faults the version rows are the history of the file: numbered one
\* after the other, and each update's createdBy is the user who has the lock at
\* the moment its version row is inserted, four awaits after the check.
History == INSTANCE FileHistory WITH owner <- lock, by <- keyBy, log <- versions

HistorySpec == History!HistorySpec
==============================================================================
