-------------------------- MODULE FileServiceProofs --------------------------
(***************************************************************************)
(* Theorems about FileService for every set of users, contents and request *)
(* slots, every bound and every set of faults.                             *)
(***************************************************************************)
EXTENDS FileService, TLAPS

USE DEF lease

\* The row a running request inserts.
LEMMA VersionRowType ==
  ASSUME NEW r \in Reqs, job[r].text \in Texts, job[r].user \in Users,
         NEW n \in Nat \ {0}
  PROVE  VersionRow(r, n) \in Version
BY DEF VersionRow, Version

\* Moving a running request to another step keeps its job well formed.
LEMMA StepType ==
  ASSUME NEW j \in Job, NEW step \in Steps, j.step # "idle",
         step \in TextSteps => j.text \in Texts
  PROVE  [j EXCEPT !.step = step] \in Job
<1>1. step # "idle"
  BY DEF Steps, CreateSteps, WriteSteps, DeleteSteps, OtherSteps
<1> QED
  BY <1>1 DEF Job

LEMMA IdleType == Idle \in Job
BY DEF Job, Idle, TextSteps, CreateSteps, WriteSteps

\* What Goto and Finish do to the jobs.
LEMMA GotoType ==
  ASSUME job \in [Reqs -> Job], NEW r \in Reqs, NEW step \in Steps,
         job[r].step # "idle", Goto(r, step),
         step \in TextSteps => job[r].text \in Texts
  PROVE  job' \in [Reqs -> Job]
<1>1. job' = [job EXCEPT ![r] = [job[r] EXCEPT !.step = step]]
  BY DEF Goto
<1> QED
  BY <1>1, StepType

LEMMA FinishType ==
  ASSUME job \in [Reqs -> Job], NEW r \in Reqs, Finish(r)
  PROVE  job' \in [Reqs -> Job]
BY IdleType DEF Finish

LEMMA AcceptType ==
  ASSUME job \in [Reqs -> Job], NEW r \in Reqs, NEW u \in Users,
         NEW step \in Steps, NEW t \in Texts \cup {NoText},
         step \in TextSteps => t \in Texts, Accept(r, u, step, t)
  PROVE  job' \in [Reqs -> Job]
<1>1. step # "idle"
  BY DEF Steps, CreateSteps, WriteSteps, DeleteSteps, OtherSteps
<1>2. [step |-> step, user |-> u, text |-> t, latest |-> 0] \in Job
  BY <1>1 DEF Job
<1> QED
  BY <1>2 DEF Accept

LEMMA ExposeType ==
  ASSUME TypeOK, NEW t \in Texts, Expose(t)
  PROVE  allowed' \in [Reqs -> SUBSET (Texts \cup {NoText})]
BY DEF Expose, TypeOK

LEMMA NumbersType == TypeOK => Numbers \subseteq Nat \ {0}
<1> SUFFICES ASSUME TypeOK PROVE Numbers \subseteq Nat \ {0}
  OBVIOUS
<1>1. \A i \in DOMAIN versions : versions[i] \in Version
  BY DEF TypeOK
<1> QED
  BY <1>1 DEF Numbers, Version

\* Every action keeps the types.
LEMMA TypeInductive == TypeOK /\ [Next]_vars => TypeOK'
<1> SUFFICES ASSUME TypeOK, [Next]_vars PROVE TypeOK'
  OBVIOUS
<1> USE DEF TextSteps, Steps, CreateSteps, WriteSteps, DeleteSteps, OtherSteps
<1>j. job \in [Reqs -> Job] /\ \A r \in Reqs : job[r] \in Job
  BY DEF TypeOK
<1>f. ASSUME NEW r \in Reqs, NEW u \in Users, NEW step \in Steps,
             NEW t \in Texts \cup {NoText}, step \in TextSteps => t \in Texts,
             FindActiveFile(r, u, step, t),
             allowed' \in [Reqs -> SUBSET (Texts \cup {NoText})]
      PROVE  TypeOK'
  <2>1. job' \in [Reqs -> Job]
    BY <1>f, <1>j, AcceptType DEF FindActiveFile
  <2> QED
    BY <1>f, <2>1 DEF FindActiveFile, TypeOK, stores
<1>1. ASSUME NEW r \in Reqs, NEW u \in Users, NEW t \in Texts, CreateRow(r, u, t)
      PROVE  TypeOK'
  <2>1. job' \in [Reqs -> Job]
    BY <1>1, <1>j, AcceptType DEF CreateRow
  <2> QED
    BY <1>1, <2>1, ConstantsAssumption DEF CreateRow, TypeOK
<1>2. ASSUME NEW r \in Reqs, CreateBlob(r) PROVE TypeOK'
  <2>1. job[r].text \in Texts
    BY <1>2, <1>j DEF CreateBlob, Job
  <2>2. job' \in [Reqs -> Job]
    BY <1>2, <1>j, <2>1, GotoType DEF CreateBlob
  <2> QED
    BY <1>2, <2>1, <2>2, ExposeType DEF CreateBlob, UploadFileContent, TypeOK
<1>3. ASSUME NEW r \in Reqs, CreateVersion(r) PROVE TypeOK'
  <2>1. job[r].text \in Texts /\ job[r].user \in Users
    BY <1>3, <1>j DEF CreateVersion, Job
  <2>2. job' \in [Reqs -> Job]
    BY <1>3, <1>j, FinishType DEF CreateVersion
  <2>3. versions' \in Seq(Version)
    BY <1>3, <2>1, VersionRowType DEF CreateVersion, TypeOK
  <2> QED
    BY <1>3, <2>1, <2>2, <2>3 DEF CreateVersion, TypeOK
<1>4. ASSUME NEW r \in Reqs, NEW u \in Users, NEW t \in Texts, UpdateFind(r, u, t)
      PROVE  TypeOK'
  BY <1>4, <1>f DEF UpdateFind, TypeOK
<1>5. ASSUME NEW r \in Reqs, UpdateCheck(r) PROVE TypeOK'
  <2>1. job[r].text \in Texts
    BY <1>5, <1>j DEF UpdateCheck, Job
  <2>2. job' \in [Reqs -> Job]
    BY <1>5, <1>j, <2>1, GotoType, FinishType DEF UpdateCheck
  <2> QED
    BY <1>5, <2>2 DEF UpdateCheck, TypeOK, stores
<1>6. ASSUME NEW r \in Reqs, UpdateRead(r) PROVE TypeOK'
  <2>1. PICK n \in Numbers \cup {0} :
          job' = [job EXCEPT ![r].step = "updateBlob", ![r].latest = n]
    BY <1>6 DEF UpdateRead
  <2>2. n \in Nat
    BY NumbersType
  <2>3. [job[r] EXCEPT !.step = "updateBlob", !.latest = n] \in Job
    BY <1>6, <1>j, <2>2 DEF UpdateRead, Job
  <2>4. job' = [job EXCEPT ![r] = [job[r] EXCEPT !.step = "updateBlob", !.latest = n]]
    BY <2>1
  <2>5. job' \in [Reqs -> Job]
    BY <2>3, <2>4, <1>j
  <2> QED
    BY <1>6, <2>5 DEF UpdateRead, TypeOK, stores
<1>7. ASSUME NEW r \in Reqs, UpdateBlob(r) PROVE TypeOK'
  <2>1. job[r].text \in Texts
    BY <1>7, <1>j DEF UpdateBlob, Job
  <2>2. job' \in [Reqs -> Job]
    BY <1>7, <1>j, <2>1, GotoType DEF UpdateBlob
  <2> QED
    BY <1>7, <2>1, <2>2, ExposeType DEF UpdateBlob, UploadFileContent, TypeOK
<1>8. ASSUME NEW r \in Reqs, UpdateRow(r) PROVE TypeOK'
  <2>1. job[r].text \in Texts
    BY <1>8, <1>j DEF UpdateRow, Job
  <2>2. job' \in [Reqs -> Job]
    BY <1>8, <1>j, <2>1, GotoType DEF UpdateRow
  <2> QED
    BY <1>8, <2>1, <2>2 DEF UpdateRow, TypeOK
<1>9. ASSUME NEW r \in Reqs, UpdateVersion(r) PROVE TypeOK'
  <2>1. job[r].text \in Texts /\ job[r].user \in Users /\ job[r].latest \in Nat
    BY <1>9, <1>j DEF UpdateVersion, Job
  <2>2. job' \in [Reqs -> Job]
    BY <1>9, <1>j, FinishType DEF UpdateVersion
  <2>3. job[r].latest + 1 \in Nat \ {0}
    BY <2>1
  <2>4. VersionRow(r, job[r].latest + 1) \in Version
    BY <2>1, <2>3, VersionRowType
  <2>5. versions' \in Seq(Version)
    BY <1>9, <2>4 DEF UpdateVersion, TypeOK
  <2> QED
    BY <1>9, <2>1, <2>2, <2>5 DEF UpdateVersion, TypeOK
<1>10. ASSUME NEW r \in Reqs, NEW u \in Users, DeleteFind(r, u) PROVE TypeOK'
  BY <1>10, <1>f DEF DeleteFind, TypeOK
<1>11. ASSUME NEW r \in Reqs, DeleteCheck(r) PROVE TypeOK'
  <2>1. job' \in [Reqs -> Job]
    BY <1>11, <1>j, GotoType, FinishType DEF DeleteCheck
  <2> QED
    BY <1>11, <2>1 DEF DeleteCheck, TypeOK, stores
<1>12. ASSUME NEW r \in Reqs, DeleteBlob(r) PROVE TypeOK'
  <2>1. job' \in [Reqs -> Job]
    BY <1>12, <1>j, GotoType DEF DeleteBlob
  <2> QED
    BY <1>12, <2>1 DEF DeleteBlob, TypeOK, stores
<1>13. ASSUME NEW r \in Reqs, DeleteRow(r) PROVE TypeOK'
  <2>1. job' \in [Reqs -> Job]
    BY <1>13, <1>j, FinishType DEF DeleteRow
  <2> QED
    BY <1>13, <2>1 DEF DeleteRow, TypeOK, stores
<1>14. ASSUME NEW r \in Reqs, NEW u \in Users, GetFind(r, u) PROVE TypeOK'
  <2>1. row.text \in Texts
    BY <1>14 DEF GetFind, FindActiveFile, TypeOK
  <2>2. \A w \in Reqs : job[w].step \in {"updateRow", "updateVersion"}
                          => job[w].text \in Texts
    BY <1>j DEF Job
  <2>3. allowed' \in [Reqs -> SUBSET (Texts \cup {NoText})]
    BY <1>14, <2>2 DEF GetFind, TypeOK
  <2> QED
    BY <1>14, <1>f, <2>1, <2>3 DEF GetFind
<1>15. ASSUME NEW r \in Reqs, GetBlob(r) PROVE TypeOK'
  <2>1. PICK t \in DownloadFileContent \cup {job[r].text} :
          job' = [job EXCEPT ![r].step = "getLock", ![r].text = t]
    BY <1>15 DEF GetBlob
  <2>2. t \in Texts
    BY <1>15, <1>j DEF GetBlob, DownloadFileContent, TypeOK, Job
  <2>3. [job[r] EXCEPT !.step = "getLock", !.text = t] \in Job
    BY <1>15, <1>j, <2>2 DEF GetBlob, Job
  <2>4. job' = [job EXCEPT ![r] = [job[r] EXCEPT !.step = "getLock", !.text = t]]
    BY <2>1
  <2>5. job' \in [Reqs -> Job]
    BY <2>3, <2>4, <1>j
  <2> QED
    BY <1>15, <2>5 DEF GetBlob, TypeOK, stores
<1>16. ASSUME NEW r \in Reqs, GetLock(r) PROVE TypeOK'
  <2>1. job' \in [Reqs -> Job]
    BY <1>16, <1>j, FinishType DEF GetLock
  <2> QED
    BY <1>16, <2>1 DEF GetLock, TypeOK, stores
<1>17. ASSUME NEW r \in Reqs, NEW u \in Users, AcquireFind(r, u) PROVE TypeOK'
  BY <1>17, <1>f DEF AcquireFind, TypeOK
<1>18. ASSUME NEW r \in Reqs, AcquireSet(r) PROVE TypeOK'
  <2>1. job[r].user \in Users
    BY <1>18, <1>j DEF AcquireSet, Job
  <2>2. job' \in [Reqs -> Job]
    BY <1>18, <1>j, GotoType, FinishType DEF AcquireSet
  <2> QED
    BY <1>18, <2>1, <2>2 DEF AcquireSet, TypeOK
<1>19. ASSUME NEW r \in Reqs, AcquireConflict(r) PROVE TypeOK'
  <2>1. job' \in [Reqs -> Job]
    BY <1>19, <1>j, FinishType DEF AcquireConflict
  <2> QED
    BY <1>19, <2>1 DEF AcquireConflict, TypeOK, stores
<1>20. ASSUME NEW r \in Reqs, NEW u \in Users, ReleaseFind(r, u) PROVE TypeOK'
  BY <1>20, <1>f DEF ReleaseFind, TypeOK
<1>21. ASSUME NEW r \in Reqs, ReleaseEval(r) PROVE TypeOK'
  <2>1. job' \in [Reqs -> Job] /\ job[r].user \in Users
    BY <1>21, <1>j, FinishType DEF ReleaseEval, Job
  <2> QED
    BY <1>21, <2>1 DEF ReleaseEval, TypeOK, stores
<1>22. ASSUME NEW r \in Reqs, NEW u \in Users, RenewFind(r, u) PROVE TypeOK'
  BY <1>22, <1>f DEF RenewFind, TypeOK
<1>23. ASSUME NEW r \in Reqs, RenewEval(r) PROVE TypeOK'
  <2>1. job' \in [Reqs -> Job] /\ job[r].user \in Users
    BY <1>23, <1>j, FinishType DEF RenewEval, Job
  <2> QED
    BY <1>23, <2>1 DEF RenewEval, TypeOK, stores
<1>24. ASSUME Lapse PROVE TypeOK'
  BY <1>24 DEF Lapse, TypeOK
<1>25. ASSUME NEW r \in Reqs, Abort(r) PROVE TypeOK'
  <2>1. job' \in [Reqs -> Job]
    BY <1>25, <1>j, FinishType DEF Abort
  <2> QED
    BY <1>25, <2>1 DEF Abort, TypeOK, stores
<1>26. CASE UNCHANGED vars
  BY <1>26 DEF vars, stores, TypeOK
<1> QED
  BY <1>1, <1>2, <1>3, <1>4, <1>5, <1>6, <1>7, <1>8, <1>9, <1>10, <1>11, <1>12,
     <1>13, <1>14, <1>15, <1>16, <1>17, <1>18, <1>19, <1>20, <1>21, <1>22, <1>23,
     <1>24, <1>25, <1>26
  DEF Next, Continue, Arrive

\* Every reachable state of the file service is well typed.
THEOREM TypeCorrect == Spec => []TypeOK
<1>1. Init => TypeOK
  BY IdleType DEF Init, TypeOK
<1> QED
  BY <1>1, TypeInductive, PTL DEF Spec

------------------------------------------------------------------------------
(* Version numbers.  What an update remembers of its read is 0 or a number *)
(* that exists, so the number it adds, one more, leaves no gap; version     *)
(* rows are never removed.                                                 *)

VersionsInv ==
  /\ VersionsContiguous
  /\ \A r \in Reqs : job[r].step \in {"updateBlob", "updateRow", "updateVersion"}
       => job[r].latest \in Numbers \cup {0}

\* Appending a version adds its number.
LEMMA NumbersAppend ==
  ASSUME TypeOK, NEW v \in Version, versions' = Append(versions, v)
  PROVE  Numbers' = Numbers \cup {v.number}
<1>1. Len(versions) \in Nat /\ DOMAIN versions = 1 .. Len(versions)
  BY DEF TypeOK
<1>2. DOMAIN versions' = 1 .. (Len(versions) + 1)
  BY DEF TypeOK
<1>3. \A i \in 1 .. Len(versions) : versions'[i] = versions[i]
  BY DEF TypeOK
<1>4. versions'[Len(versions) + 1] = v
  BY DEF TypeOK
<1>5. DOMAIN versions' = DOMAIN versions \cup {Len(versions) + 1}
  BY <1>1, <1>2
<1> QED
  BY <1>1, <1>3, <1>4, <1>5 DEF Numbers

\* A version numbered k + 1, with k known to exist or 0, leaves no gap.
LEMMA AppendContiguous ==
  ASSUME TypeOK, VersionsInv, NEW r \in Reqs, NEW k \in Numbers \cup {0},
         job[r].text \in Texts, job[r].user \in Users,
         versions' = Append(versions, VersionRow(r, k + 1)),
         \A s \in Reqs : job'[s] \in {job[s], Idle}
  PROVE  VersionsInv'
<1>1. k \in Nat /\ Numbers \subseteq Nat \ {0}
  BY NumbersType
<1>2. VersionRow(r, k + 1) \in Version /\ VersionRow(r, k + 1).number = k + 1
  BY <1>1 DEF Version, VersionRow
<1>3. Numbers' = Numbers \cup {k + 1}
  BY <1>2, NumbersAppend
<1>4. VersionsContiguous'
  <2> SUFFICES ASSUME NEW m \in Numbers', NEW n \in 1 .. m PROVE n \in Numbers'
    BY DEF VersionsContiguous
  <2>1. CASE m \in Numbers
    BY <2>1, <1>3 DEF VersionsInv, VersionsContiguous
  <2>2. CASE m = k + 1 /\ n = k + 1
    BY <2>2, <1>3
  <2>3. CASE m = k + 1 /\ n # k + 1
    <3>1. n \in 1 .. k /\ k \in Numbers
      BY <2>3, <1>1
    <3> QED
      BY <3>1, <1>3 DEF VersionsInv, VersionsContiguous
  <2> QED
    BY <2>1, <2>2, <2>3, <1>3
<1>5. \A s \in Reqs : job'[s].step \in {"updateBlob", "updateRow", "updateVersion"}
        => job'[s].latest \in Numbers' \cup {0}
  BY <1>3 DEF VersionsInv, Idle
<1> QED
  BY <1>4, <1>5 DEF VersionsInv

\* No other step touches the version rows, and only UpdateRead chooses latest.
LEMMA KeepVersions ==
  ASSUME TypeOK, VersionsInv, UNCHANGED versions,
         \A s \in Reqs : \/ job'[s].step \notin {"updateBlob", "updateRow", "updateVersion"}
                         \/ job'[s].latest \in Numbers \cup {0}
  PROVE  VersionsInv'
<1>1. Numbers' = Numbers
  BY DEF Numbers
<1> QED
  BY <1>1 DEF VersionsInv, VersionsContiguous

LEMMA VersionsInductive == TypeOK /\ VersionsInv /\ [Next]_vars => VersionsInv'
<1> SUFFICES ASSUME TypeOK, VersionsInv, [Next]_vars PROVE VersionsInv'
  OBVIOUS
<1> DEFINE Remembers == {"updateBlob", "updateRow", "updateVersion"}
<1>j. job \in [Reqs -> Job] /\ \A r \in Reqs : job[r] \in Job
  BY DEF TypeOK
<1>v. \A s \in Reqs : job[s].step \in Remembers => job[s].latest \in Numbers \cup {0}
  BY DEF VersionsInv
<1>1. ASSUME NEW r \in Reqs, CreateVersion(r) PROVE VersionsInv'
  <2>1. job[r].text \in Texts /\ job[r].user \in Users
    BY <1>1, <1>j DEF CreateVersion, Job, TextSteps, CreateSteps
  <2>2. versions' = Append(versions, VersionRow(r, 0 + 1))
    BY <1>1 DEF CreateVersion
  <2>3. \A s \in Reqs : job'[s] \in {job[s], Idle}
    BY <1>1, <1>j DEF CreateVersion, Finish
  <2> QED
    BY <2>1, <2>2, <2>3, AppendContiguous
<1>2. ASSUME NEW r \in Reqs, UpdateVersion(r) PROVE VersionsInv'
  <2>1. job[r].text \in Texts /\ job[r].user \in Users
    BY <1>2, <1>j DEF UpdateVersion, Job, TextSteps, WriteSteps
  <2>2. job[r].latest \in Numbers \cup {0}
    BY <1>2, <1>v DEF UpdateVersion
  <2>3. \A s \in Reqs : job'[s] \in {job[s], Idle}
    BY <1>2, <1>j DEF UpdateVersion, Finish
  <2> QED
    BY <1>2, <2>1, <2>2, <2>3, AppendContiguous DEF UpdateVersion
<1>3. ASSUME NEW r \in Reqs, UpdateRead(r) PROVE VersionsInv'
  <2>1. \A s \in Reqs : s # r => job'[s] = job[s]
    BY <1>3, <1>j DEF UpdateRead
  <2>2. job'[r].latest \in Numbers \cup {0}
    BY <1>3, <1>j DEF UpdateRead, Job
  <2>3. UNCHANGED versions
    BY <1>3 DEF UpdateRead, stores
  <2> QED
    BY <2>1, <2>2, <2>3, <1>v, KeepVersions
<1>4. ASSUME NEW r \in Reqs, NEW step, step \notin Remembers, Goto(r, step),
             UNCHANGED versions
      PROVE  VersionsInv'
  <2>1. /\ job'[r].step \notin Remembers
        /\ \A s \in Reqs : s # r => job'[s] = job[s]
    BY <1>4, <1>j DEF Goto, Job
  <2> QED
    BY <2>1, <1>4, <1>v, KeepVersions
<1>5. ASSUME NEW r \in Reqs, NEW step, job[r].step \in Remembers, Goto(r, step),
             UNCHANGED versions
      PROVE  VersionsInv'
  <2>1. /\ job'[r].latest = job[r].latest
        /\ \A s \in Reqs : s # r => job'[s] = job[s]
    BY <1>5, <1>j DEF Goto, Job
  <2> QED
    BY <2>1, <1>5, <1>v, KeepVersions
<1>6. ASSUME NEW r \in Reqs, Finish(r), UNCHANGED versions PROVE VersionsInv'
  <2>1. \A s \in Reqs : job'[s] \in {job[s], Idle}
    BY <1>6, <1>j DEF Finish
  <2> QED
    BY <2>1, <1>6, <1>v, KeepVersions DEF Idle
<1>7. ASSUME NEW r \in Reqs, NEW u, NEW step, NEW t, step \notin Remembers,
             Accept(r, u, step, t), UNCHANGED versions
      PROVE  VersionsInv'
  <2>1. /\ job'[r].step \notin Remembers
        /\ \A s \in Reqs : s # r => job'[s] = job[s]
    BY <1>7, <1>j DEF Accept
  <2> QED
    BY <2>1, <1>7, <1>v, KeepVersions
<1>8. ASSUME NEW r \in Reqs, GetBlob(r) PROVE VersionsInv'
  <2>1. /\ job'[r].step = "getLock"
        /\ \A s \in Reqs : s # r => job'[s] = job[s]
    BY <1>8, <1>j DEF GetBlob, Job
  <2> QED
    BY <2>1, <1>8, <1>v, KeepVersions DEF GetBlob, stores
<1>9. ASSUME NEW r \in Reqs, Continue(r) PROVE VersionsInv'
  <2>1. CASE UpdateBlob(r) \/ UpdateRow(r)
    BY <2>1, <1>5 DEF UpdateBlob, UpdateRow
  <2>2. CASE CreateBlob(r) \/ DeleteBlob(r)
    BY <2>2, <1>4 DEF CreateBlob, DeleteBlob
  <2>3. CASE UpdateCheck(r) \/ DeleteCheck(r) \/ AcquireSet(r)
    BY <2>3, <1>4, <1>6 DEF UpdateCheck, DeleteCheck, AcquireSet, stores
  <2>4. CASE \/ DeleteRow(r) \/ GetLock(r) \/ AcquireConflict(r)
             \/ ReleaseEval(r) \/ RenewEval(r)
    BY <2>4, <1>6
    DEF DeleteRow, GetLock, AcquireConflict, ReleaseEval, RenewEval, stores
  <2> QED
    BY <1>9, <1>1, <1>2, <1>3, <1>8, <2>1, <2>2, <2>3, <2>4 DEF Continue
<1>10. ASSUME NEW r \in Reqs, Abort(r) PROVE VersionsInv'
  BY <1>10, <1>6 DEF Abort, stores
<1>11. ASSUME NEW r \in Reqs, NEW u \in Users, Arrive(r, u) PROVE VersionsInv'
  <2>1. CASE \E t \in Texts : CreateRow(r, u, t)
    BY <2>1, <1>7 DEF CreateRow
  <2>2. CASE \/ \E t \in Texts : UpdateFind(r, u, t)
             \/ DeleteFind(r, u) \/ GetFind(r, u) \/ AcquireFind(r, u)
             \/ ReleaseFind(r, u) \/ RenewFind(r, u)
    BY <2>2, <1>7 DEF UpdateFind, DeleteFind, GetFind, AcquireFind, ReleaseFind,
                      RenewFind, FindActiveFile, stores
  <2> QED
    BY <1>11, <2>1, <2>2 DEF Arrive
<1>12. CASE Lapse \/ UNCHANGED vars
  BY <1>12, <1>v, KeepVersions DEF Lapse, vars, stores
<1> QED
  BY <1>9, <1>10, <1>11, <1>12 DEF Next

\* Under every fault and race the version numbers of a file have no gap.
THEOREM VersionsTheorem == Spec => []VersionsContiguous
<1>1. Init => VersionsInv
  BY DEF Init, VersionsInv, VersionsContiguous, Numbers, Idle
<1>2. VersionsInv => VersionsContiguous
  BY DEF VersionsInv
<1> QED
  BY <1>1, <1>2, TypeCorrect, VersionsInductive, PTL DEF Spec

------------------------------------------------------------------------------
(* Exclusive writers.  Without "overlap" a user has one request at a time, *)
(* so nobody but the time to live can take the lock from a running update; *)
(* without "lapse" that does not happen either.                            *)

OneRequestPerUser ==
  \A r, s \in Reqs : job[r].user \in Users /\ job[r].user = job[s].user => r = s

WritersHold == \A r \in Reqs : Writing(r) => lock = job[r].user

ExclusiveInv ==
  {"lapse", "overlap"} \cap Faults = {} => OneRequestPerUser /\ WritersHold

\* If every request keeps its user or ends, no two requests share a user.
LEMMA KeepUsers ==
  ASSUME TypeOK, OneRequestPerUser,
         \A s \in Reqs : job'[s].user \in {job[s].user, NoUser}
  PROVE  OneRequestPerUser'
BY ConstantsAssumption DEF OneRequestPerUser

LEMMA ExclusiveInductive == TypeOK /\ ExclusiveInv /\ [Next]_vars => ExclusiveInv'
<1> SUFFICES ASSUME TypeOK, ExclusiveInv, [Next]_vars,
                    {"lapse", "overlap"} \cap Faults = {}
             PROVE  OneRequestPerUser' /\ WritersHold'
  BY DEF ExclusiveInv
<1>j. job \in [Reqs -> Job] /\ \A r \in Reqs : job[r] \in Job
  BY DEF TypeOK
<1>o. OneRequestPerUser /\ WritersHold
  BY DEF ExclusiveInv
<1>w. \A r \in Reqs : job[r].step # "idle" => job[r].user \in Users
  BY <1>j DEF Job
<1>1. ASSUME NEW r \in Reqs, NEW step, Goto(r, step), UNCHANGED lock,
             step \in WriteSteps => lock = job[r].user
      PROVE  OneRequestPerUser' /\ WritersHold'
  <2>1. /\ job'[r].step = step /\ job'[r].user = job[r].user
        /\ \A s \in Reqs : s # r => job'[s] = job[s]
    BY <1>1, <1>j DEF Goto, Job
  <2>2. OneRequestPerUser'
    BY <2>1, <1>o, KeepUsers
  <2>3. WritersHold'
    BY <2>1, <1>1, <1>o DEF WritersHold, Writing
  <2> QED
    BY <2>2, <2>3
<1>2. ASSUME NEW r \in Reqs, Finish(r),
             lock' = lock \/ \A s \in Reqs : s # r => ~ Writing(s)
      PROVE  OneRequestPerUser' /\ WritersHold'
  <2>1. job'[r] = Idle /\ \A s \in Reqs : s # r => job'[s] = job[s]
    BY <1>2, <1>j DEF Finish
  <2>2. OneRequestPerUser'
    BY <2>1, <1>o, KeepUsers DEF Idle
  <2>3. WritersHold'
    BY <2>1, <1>2, <1>o DEF WritersHold, Writing, WriteSteps, Idle
  <2> QED
    BY <2>2, <2>3
<1>3. ASSUME NEW r \in Reqs, NEW u \in Users, NEW step, NEW t, step \notin WriteSteps,
             Accept(r, u, step, t), UNCHANGED lock
      PROVE  OneRequestPerUser' /\ WritersHold'
  <2>1. \A s \in Reqs : job[s].user # u
    BY <1>3 DEF Accept, MaySend
  <2>2. /\ job'[r].step = step /\ job'[r].user = u
        /\ \A s \in Reqs : s # r => job'[s] = job[s]
    BY <1>3, <1>j DEF Accept
  <2>3. OneRequestPerUser'
    BY <2>1, <2>2, <1>o DEF OneRequestPerUser
  <2>4. WritersHold'
    BY <2>2, <1>3, <1>o DEF WritersHold, Writing
  <2> QED
    BY <2>3, <2>4
<1>4. ASSUME NEW r \in Reqs, ReleaseEval(r) PROVE OneRequestPerUser' /\ WritersHold'
  <2>1. job[r].user \in Users
    BY <1>4, <1>w DEF ReleaseEval
  <2>2. lock' = lock \/ \A s \in Reqs : s # r => ~ Writing(s)
    BY <1>4, <2>1, <1>o DEF ReleaseEval, OneRequestPerUser, WritersHold
  <2> QED
    BY <1>4, <1>2, <2>2 DEF ReleaseEval
<1>5. ASSUME NEW r \in Reqs, AcquireSet(r) PROVE OneRequestPerUser' /\ WritersHold'
  <2>1. CASE lock = NoUser
    <3>1. \A s \in Reqs : ~ Writing(s)
      BY <2>1, <1>o, <1>w, ConstantsAssumption DEF WritersHold, Writing, WriteSteps
    <3> QED
      BY <1>5, <2>1, <3>1, <1>2 DEF AcquireSet
  <2>2. CASE lock # NoUser
    BY <1>5, <2>2, <1>1 DEF AcquireSet, WriteSteps
  <2> QED
    BY <2>1, <2>2
<1>6. ASSUME Lapse PROVE OneRequestPerUser' /\ WritersHold'
  <2>1. \A s \in Reqs : ~ Writing(s)
    BY <1>6, <1>o DEF Lapse, WritersHold
  <2> QED
    BY <1>6, <2>1, <1>o DEF Lapse, OneRequestPerUser, WritersHold, Writing
<1>7. ASSUME NEW r \in Reqs, UpdateRead(r) \/ GetBlob(r)
      PROVE  OneRequestPerUser' /\ WritersHold'
  <2>1. /\ job'[r].user = job[r].user
        /\ job'[r].step \in WriteSteps => Writing(r)
        /\ \A s \in Reqs : s # r => job'[s] = job[s]
    BY <1>7, <1>j DEF UpdateRead, GetBlob, Job, Writing, WriteSteps
  <2>2. OneRequestPerUser'
    BY <2>1, <1>o, KeepUsers
  <2>3. WritersHold'
    BY <2>1, <1>7, <1>o DEF UpdateRead, GetBlob, stores, WritersHold, Writing
  <2> QED
    BY <2>2, <2>3
<1>8. ASSUME NEW r \in Reqs, UpdateCheck(r) PROVE OneRequestPerUser' /\ WritersHold'
  BY <1>8, <1>1, <1>2 DEF UpdateCheck, stores
<1>9. ASSUME NEW r \in Reqs, UpdateBlob(r) \/ UpdateRow(r)
      PROVE  OneRequestPerUser' /\ WritersHold'
  <2>1. lock = job[r].user
    BY <1>9, <1>o DEF UpdateBlob, UpdateRow, WritersHold, Writing, WriteSteps
  <2> QED
    BY <1>9, <2>1, <1>1 DEF UpdateBlob, UpdateRow
<1>10. ASSUME NEW r \in Reqs, CreateBlob(r) \/ DeleteCheck(r) \/ DeleteBlob(r)
       PROVE  OneRequestPerUser' /\ WritersHold'
  BY <1>10, <1>1, <1>2 DEF CreateBlob, DeleteCheck, DeleteBlob, stores, WriteSteps
<1>11. ASSUME NEW r \in Reqs,
              \/ CreateVersion(r) \/ UpdateVersion(r) \/ DeleteRow(r) \/ GetLock(r)
              \/ AcquireConflict(r) \/ RenewEval(r) \/ Abort(r)
       PROVE  OneRequestPerUser' /\ WritersHold'
  BY <1>11, <1>2 DEF CreateVersion, UpdateVersion, DeleteRow, GetLock,
                     AcquireConflict, RenewEval, Abort, stores
<1>12. ASSUME NEW r \in Reqs, NEW u \in Users, Arrive(r, u)
       PROVE  OneRequestPerUser' /\ WritersHold'
  <2>1. CASE \E t \in Texts : CreateRow(r, u, t)
    BY <2>1, <1>3 DEF CreateRow, WriteSteps
  <2>2. CASE \/ \E t \in Texts : UpdateFind(r, u, t)
             \/ DeleteFind(r, u) \/ GetFind(r, u) \/ AcquireFind(r, u)
             \/ ReleaseFind(r, u) \/ RenewFind(r, u)
    BY <2>2, <1>3 DEF UpdateFind, DeleteFind, GetFind, AcquireFind, ReleaseFind,
                      RenewFind, FindActiveFile, stores, WriteSteps
  <2> QED
    BY <1>12, <2>1, <2>2 DEF Arrive
<1>13. CASE UNCHANGED vars
  BY <1>13, <1>o DEF vars, stores, OneRequestPerUser, WritersHold, Writing
<1> QED
  BY <1>4, <1>5, <1>6, <1>7, <1>8, <1>9, <1>10, <1>11, <1>12, <1>13
  DEF Next, Continue

\* If leases outlive the writes made under them and a user sends one request
\* at a time, at most one update is past its lock check and it has the lock.
THEOREM ExclusiveTheorem == Spec => []ExclusiveWriters
<1>1. Init => ExclusiveInv
  BY ConstantsAssumption
  DEF Init, ExclusiveInv, OneRequestPerUser, WritersHold, Writing, WriteSteps, Idle
<1>2. TypeOK /\ ExclusiveInv => ExclusiveWriters
  <2> SUFFICES ASSUME TypeOK, ExclusiveInv, {"lapse", "overlap"} \cap Faults = {},
                      NEW r \in Reqs, Writing(r)
               PROVE  lock = job[r].user /\ \A s \in Reqs : Writing(s) => s = r
    BY DEF ExclusiveWriters
  <2>1. job[r].user \in Users
    BY DEF TypeOK, Job, Writing, WriteSteps
  <2> QED
    BY <2>1 DEF ExclusiveInv, OneRequestPerUser, WritersHold
<1> QED
  BY <1>1, <1>2, TypeCorrect, ExclusiveInductive, PTL DEF Spec

\* README.md:236 wants only the lock holder to write.  That much is true while
\* leases outlive writes and users send one request at a time; the run
\* only_holder_writes shows that the first of the two is needed.
THEOREM HolderTheorem ==
  ASSUME {"lapse", "overlap"} \cap Faults = {} PROVE Spec => OnlyHolderWrites
<1>1. ASSUME ExclusiveWriters, NEW r \in Reqs, UpdateBlob(r)
      PROVE  lock = job[r].user
  BY <1>1 DEF ExclusiveWriters, UpdateBlob, Writing, WriteSteps
<1>2. ExclusiveWriters => [\A r \in Reqs : UpdateBlob(r) => lock = job[r].user]_vars
  BY <1>1
<1> QED
  BY <1>2, ExclusiveTheorem, PTL DEF Spec, OnlyHolderWrites

------------------------------------------------------------------------------
(* A deleted file.  DeletedFileUnlocks is liveness and stays with TLC; what *)
(* it rests on is that nothing new can happen to the file.                 *)

\* The requests that may still set the key of the file.
Acquiring == {r \in Reqs : job[r].step = "acquireSet"}

\* No request is accepted any more, none of the running ones turns into one that
\* sets the key, and each time the key is set there is one less that may.
Dwindling ==
  row.state = "deleted" =>
    /\ row'.state = "deleted"
    /\ \A r \in Reqs : job[r] = Idle => job'[r] = Idle
    /\ Acquiring' \subseteq Acquiring
    /\ lock' \notin {lock, NoUser} => \E r \in Acquiring : r \notin Acquiring'

LEMMA DwindlingStep ==
  ASSUME TypeOK, [Next]_vars
  PROVE  Dwindling
<1> SUFFICES ASSUME row.state = "deleted"
             PROVE  /\ row'.state = "deleted"
                    /\ \A r \in Reqs : job[r] = Idle => job'[r] = Idle
                    /\ Acquiring' \subseteq Acquiring
                    /\ lock' \notin {lock, NoUser} => \E r \in Acquiring : r \notin Acquiring'
  BY DEF Dwindling
<1> DEFINE Goal == /\ row'.state = "deleted"
                   /\ \A r \in Reqs : job[r] = Idle => job'[r] = Idle
                   /\ Acquiring' \subseteq Acquiring
                   /\ lock' \notin {lock, NoUser} => \E r \in Acquiring : r \notin Acquiring'
<1>j. job \in [Reqs -> Job] /\ \A r \in Reqs : job[r] \in Job
  BY DEF TypeOK
<1>r. row \in [state : {"absent", "active", "deleted"}, text : Texts \cup {NoText}]
  BY DEF TypeOK
\* A running request moves on, or ends.
<1>1. ASSUME NEW r \in Reqs, job[r].step # "idle", row'.state = "deleted",
             \A s \in Reqs : s # r => job'[s] = job[s],
             job'[r].step # "acquireSet", lock' \in {lock, NoUser} \/ r \in Acquiring
      PROVE  Goal
  BY <1>1 DEF Acquiring, Idle
<1>2. ASSUME NEW r \in Reqs, NEW step, Goto(r, step)
      PROVE  job'[r].step = step /\ \A s \in Reqs : s # r => job'[s] = job[s]
  BY <1>2, <1>j DEF Goto, Job
<1>3. ASSUME NEW r \in Reqs, Finish(r)
      PROVE  job'[r].step # "acquireSet" /\ \A s \in Reqs : s # r => job'[s] = job[s]
  BY <1>3, <1>j DEF Finish, Idle
<1>4. ASSUME NEW r \in Reqs, AcquireSet(r)
      PROVE  Goal
  <2>1. r \in Acquiring /\ job[r].step # "idle" /\ row' = row
    BY <1>4 DEF AcquireSet, Acquiring
  <2>2. job'[r].step # "acquireSet" /\ \A s \in Reqs : s # r => job'[s] = job[s]
    BY <1>4, <1>2, <1>3 DEF AcquireSet
  <2> QED
    BY <1>1, <2>1, <2>2
<1>5. ASSUME NEW r \in Reqs,
             \/ CreateBlob(r) \/ UpdateCheck(r) \/ UpdateBlob(r) \/ DeleteCheck(r)
             \/ DeleteBlob(r) \/ UpdateRow(r)
      PROVE  Goal
  <2>1. job[r].step # "idle" /\ lock' = lock /\ row'.state = "deleted"
    BY <1>5, <1>r DEF CreateBlob, UpdateCheck, UpdateBlob, DeleteCheck, DeleteBlob,
       UpdateRow, stores
  <2>2. job'[r].step # "acquireSet" /\ \A s \in Reqs : s # r => job'[s] = job[s]
    BY <1>5, <1>2, <1>3 DEF CreateBlob, UpdateCheck, UpdateBlob, DeleteCheck,
       DeleteBlob, UpdateRow
  <2> QED
    BY <1>1, <2>1, <2>2
<1>6. ASSUME NEW r \in Reqs,
             \/ CreateVersion(r) \/ UpdateVersion(r) \/ DeleteRow(r) \/ GetLock(r)
             \/ AcquireConflict(r) \/ ReleaseEval(r) \/ RenewEval(r) \/ Abort(r)
      PROVE  Goal
  <2>1. job[r].step # "idle" /\ lock' \in {lock, NoUser} /\ row'.state = "deleted"
    BY <1>6, <1>r, <1>j DEF CreateVersion, UpdateVersion, DeleteRow, GetLock,
       AcquireConflict, ReleaseEval, RenewEval, Abort, stores, Job
  <2>2. job'[r].step # "acquireSet" /\ \A s \in Reqs : s # r => job'[s] = job[s]
    BY <1>6, <1>3 DEF CreateVersion, UpdateVersion, DeleteRow, GetLock,
       AcquireConflict, ReleaseEval, RenewEval, Abort
  <2> QED
    BY <1>1, <2>1, <2>2
<1>7. ASSUME NEW r \in Reqs, UpdateRead(r) \/ GetBlob(r)
      PROVE  Goal
  <2>1. job[r].step # "idle" /\ lock' = lock /\ row' = row
    BY <1>7 DEF UpdateRead, GetBlob, stores
  <2>2. job'[r].step # "acquireSet" /\ \A s \in Reqs : s # r => job'[s] = job[s]
    BY <1>7, <1>j DEF UpdateRead, GetBlob, Job
  <2> QED
    BY <1>1, <2>1, <2>2
<1>8. ASSUME NEW r \in Reqs, NEW u \in Users, Arrive(r, u)
      PROVE  FALSE
  BY <1>8 DEF Arrive, CreateRow, UpdateFind, DeleteFind, GetFind, AcquireFind,
     ReleaseFind, RenewFind, FindActiveFile
<1>9. CASE Lapse
  BY <1>9 DEF Lapse, Acquiring
<1>10. CASE UNCHANGED vars
  BY <1>10 DEF vars, stores, Acquiring
<1> QED
  BY <1>4, <1>5, <1>6, <1>7, <1>8, <1>9, <1>10 DEF Next, Continue

\* Whatever races or fails, a deleted file stays deleted, and its key is set by no
\* more requests than were about to set it when the row was marked.
THEOREM DeletedTheorem == Spec => [][Dwindling]_vars
BY DwindlingStep, TypeCorrect, PTL DEF Spec

------------------------------------------------------------------------------
(* The lock key implements the lease.                                      *)

LEMMA LeaseStep == TypeOK /\ [Next]_vars => [Lease!LeaseNext]_<<lock, keyBy>>
<1> SUFFICES ASSUME TypeOK, [Next]_vars, <<lock, keyBy>>' # <<lock, keyBy>>
             PROVE  Lease!LeaseNext
  OBVIOUS
<1>u. \A r \in Reqs : job[r].step # "idle" => job[r].user \in Users
  BY DEF TypeOK, Job
<1>1. ASSUME NEW r \in Reqs, AcquireSet(r) PROVE Lease!LeaseNext
  <2>1. job[r].user \in Users /\ Lease!Grant(job[r].user)
    BY <1>1, <1>u DEF AcquireSet, Lease!Grant
  <2> QED
    BY <2>1 DEF Lease!LeaseNext
<1>2. ASSUME NEW r \in Reqs, ReleaseEval(r) PROVE Lease!LeaseNext
  <2>1. job[r].user \in Users /\ Lease!GiveUp(job[r].user)
    BY <1>2, <1>u DEF ReleaseEval, Lease!GiveUp
  <2> QED
    BY <2>1 DEF Lease!LeaseNext
<1>3. ASSUME NEW r \in Reqs, RenewEval(r) PROVE Lease!LeaseNext
  <2>1. job[r].user \in Users /\ Lease!Renew(job[r].user)
    BY <1>3, <1>u DEF RenewEval, Lease!Renew
  <2> QED
    BY <2>1 DEF Lease!LeaseNext
<1>4. ASSUME Lapse PROVE Lease!LeaseNext
  BY <1>4 DEF Lapse, Lease!RunOut, Lease!LeaseNext
<1>5. ASSUME NEW r \in Reqs, Continue(r)
      PROVE  AcquireSet(r) \/ ReleaseEval(r) \/ RenewEval(r)
  BY <1>5 DEF Continue, CreateBlob, CreateVersion, UpdateCheck, UpdateRead,
    UpdateBlob, UpdateRow, UpdateVersion, DeleteCheck, DeleteBlob, DeleteRow,
    GetBlob, GetLock, AcquireConflict, stores
<1>6. ASSUME NEW r \in Reqs, Abort(r) \/ \E u \in Users : Arrive(r, u) PROVE FALSE
  BY <1>6 DEF Abort, Arrive, CreateRow, UpdateFind, DeleteFind, GetFind,
    AcquireFind, ReleaseFind, RenewFind, FindActiveFile, stores
<1> QED
  BY <1>1, <1>2, <1>3, <1>4, <1>5, <1>6 DEF Next, vars, stores

\* Under every fault the Redis key implements FileLease: only the holder's own
\* release ends a lock that did not run out, only the holder renews it, and
\* nobody is granted a lock that is held.
THEOREM LeaseTheorem == Spec => LeaseSpec
<1>1. Init => Lease!LeaseInit
  BY DEF Init, Lease!LeaseInit
<1> QED
  BY <1>1, LeaseStep, TypeCorrect, PTL DEF Spec, LeaseSpec, Lease!LeaseSpec

------------------------------------------------------------------------------
(* The three stores without faults.  The invariant follows one write       *)
(* through the blob, the row and the version; a deletion may take the blob *)
(* away at any moment, and its row update is then still to come.           *)

Uploaded(r) == job[r].step \in {"updateRow", "updateVersion"}
Saved(r)    == job[r].step = "updateVersion"

\* Before its row exists a file has no requests, and while it is created
\* only the creator's one; nobody has the lock until the version 1 is there.
CreatorAlone ==
  /\ row.state = "absent" =>
       /\ versions = <<>> /\ lock = NoUser /\ \A r \in Reqs : job[r] = Idle
  /\ \A r \in Reqs : Creating(r) =>
       /\ row.state = "active" /\ row.text = job[r].text
       /\ versions = <<>> /\ lock = NoUser
       /\ job[r].step = "createVersion" => blob = job[r].text
       /\ \A s \in Reqs : s # r => job[s] = Idle

Born == row.state # "absent" /\ \A r \in Reqs : ~ Creating(r)

\* The version rows are numbered in order, the last one holds what was
\* acknowledged last, and an update has read the number of the last one.
VersionsInOrder ==
  /\ \A i \in DOMAIN versions : versions[i].number = i
  /\ Born => versions # <<>> /\ versions[Len(versions)].text = acked
  /\ \A r \in Reqs : job[r].step \in {"updateBlob", "updateRow", "updateVersion"}
       => job[r].latest = Len(versions)

\* The content column holds what was acknowledged last or, once an update has
\* written it and not yet its version, that update's content.
RowFollows ==
  /\ \A r \in Reqs : Saved(r) => row.text = job[r].text
  /\ Born /\ (\A r \in Reqs : ~ Saved(r)) => row.text = acked

\* So does the blob of an active file, unless a deletion has removed it.
BlobFollows ==
  row.state = "active" =>
    \/ blob = NoText /\ \E r \in Reqs : job[r].step = "deleteRow"
    \/ /\ \A r \in Reqs : Uploaded(r) => blob = job[r].text
       /\ Born /\ (\A r \in Reqs : ~ Uploaded(r)) => blob = acked

\* What a running read has read or may still read is allowed.
ReadsAllowed ==
  \A r \in Reqs :
    /\ job[r].step \in {"getBlob", "getLock"} => job[r].text \in allowed[r]
    /\ job[r].step = "getBlob" => blob \in allowed[r] \cup {NoText}

StoresAgree == CreatorAlone /\ VersionsInOrder /\ RowFollows /\ BlobFollows

CalmInv == Faults = {} => StoresAgree /\ ReadsAllowed

\* While a request other than the creator's runs, the file is born.
LEMMA RunningBorn ==
  ASSUME TypeOK, CreatorAlone, NEW r \in Reqs, job[r].step # "idle", ~ Creating(r)
  PROVE  Born
<1>1. row.state # "absent"
  BY DEF CreatorAlone, Idle
<1>2. \A s \in Reqs : ~ Creating(s)
  BY DEF CreatorAlone, Idle
<1> QED
  BY <1>1, <1>2 DEF Born

LEMMA FoundBorn ==
  ASSUME Faults = {}, NEW r \in Reqs, NEW u, NEW step, NEW t,
         FindActiveFile(r, u, step, t)
  PROVE  Born
BY DEF FindActiveFile, Visible, Born

\* A step of one request that leaves rows, blob and versions alone, and is not
\* one of the steps the invariant speaks of.
LEMMA QuietStep ==
  ASSUME TypeOK, StoresAgree, Born, NEW r \in Reqs,
         UNCHANGED <<row, blob, versions, acked>>,
         \A s \in Reqs : s # r => job'[s] = job[s],
         NEW marked,
         marked = CreateSteps \cup {"updateBlob", "updateRow", "updateVersion", "deleteRow"},
         job[r].step \notin marked, job'[r].step \notin marked
  PROVE  StoresAgree'
<1>1. \A s \in Reqs : ~ Creating(s)'
  BY DEF Born, Creating
<1>2. Born'
  BY <1>1 DEF Born
<1>3. CreatorAlone'
  BY <1>1, <1>2 DEF CreatorAlone, Born
<1>4. VersionsInOrder'
  BY <1>2 DEF StoresAgree, VersionsInOrder
<1>5. RowFollows'
  BY <1>2 DEF StoresAgree, RowFollows, Saved
<1>6. BlobFollows'
  BY <1>2 DEF StoresAgree, BlobFollows, Uploaded
<1> QED
  BY <1>3, <1>4, <1>5, <1>6 DEF StoresAgree

\* An update past its check is the only one.
LEMMA OneWriter ==
  ASSUME TypeOK, ExclusiveInv, Faults = {}, NEW r \in Reqs, Writing(r)
  PROVE  lock = job[r].user /\ \A s \in Reqs : Writing(s) => s = r
<1>1. job[r].user \in Users
  BY DEF TypeOK, Job, Writing, WriteSteps
<1> QED
  BY <1>1 DEF ExclusiveInv, OneRequestPerUser, WritersHold

\* The latest version's number is the number of versions.
LEMMA LatestIsLen ==
  ASSUME TypeOK, VersionsInOrder, NEW n \in Numbers \cup {0}, IsLatest(n)
  PROVE  n = Len(versions)
<1>1. Len(versions) \in Nat /\ DOMAIN versions = 1 .. Len(versions)
  BY DEF TypeOK
<1>2. CASE versions = <<>>
  BY <1>2 DEF IsLatest
<1>3. CASE versions # <<>>
  <2>1. Len(versions) \in DOMAIN versions
    BY <1>1, <1>3 DEF TypeOK
  <2>2. Len(versions) \in Numbers
    BY <2>1 DEF VersionsInOrder, Numbers
  <2>3. \A k \in Numbers : k \in 1 .. Len(versions)
    BY <1>1 DEF VersionsInOrder, Numbers
  <2> QED
    BY <1>1, <1>3, <2>2, <2>3 DEF IsLatest
<1> QED
  BY <1>2, <1>3

\* Appending the version with the next number keeps the versions in order.
LEMMA AppendInOrder ==
  ASSUME TypeOK, VersionsInOrder, NEW r \in Reqs,
         job[r].text \in Texts, job[r].user \in Users,
         versions' = Append(versions, VersionRow(r, Len(versions) + 1)),
         acked' = job[r].text,
         \A s \in Reqs : job'[s].step \notin {"updateBlob", "updateRow", "updateVersion"}
  PROVE  VersionsInOrder'
<1> DEFINE v == VersionRow(r, Len(versions) + 1)
<1>1. Len(versions) \in Nat /\ DOMAIN versions = 1 .. Len(versions)
  BY DEF TypeOK
<1>2. v \in Version /\ v.number = Len(versions) + 1 /\ v.text = job[r].text
  BY <1>1 DEF Version, VersionRow
<1>3. /\ Len(versions') = Len(versions) + 1
      /\ DOMAIN versions' = 1 .. (Len(versions) + 1)
      /\ \A i \in 1 .. Len(versions) : versions'[i] = versions[i]
      /\ versions'[Len(versions) + 1] = v
  BY <1>2 DEF TypeOK
<1>4. \A i \in DOMAIN versions' : versions'[i].number = i
  BY <1>1, <1>2, <1>3 DEF VersionsInOrder
<1>5. versions' # <<>> /\ versions'[Len(versions')].text = acked'
  BY <1>1, <1>2, <1>3
<1> QED
  BY <1>4, <1>5 DEF VersionsInOrder

LEMMA StoresInductive ==
  ASSUME TypeOK, TypeOK', ExclusiveInv, StoresAgree, Faults = {}, [Next]_vars
  PROVE  StoresAgree'
<1> USE DEF StoresAgree
<1>j. job \in [Reqs -> Job] /\ \A r \in Reqs : job[r] \in Job
  BY DEF TypeOK
<1>v. Len(versions) \in Nat /\ (versions = <<>> <=> Len(versions) = 0)
  BY DEF TypeOK
<1>1. ASSUME NEW r \in Reqs, NEW u \in Users, NEW t \in Texts, CreateRow(r, u, t)
      PROVE  StoresAgree'
  <2>1. /\ row'.state = "active" /\ row'.text = t
        /\ job'[r].step = "createBlob" /\ job'[r].text = t
        /\ \A s \in Reqs : s # r => job'[s] = Idle
        /\ versions' = <<>> /\ lock' = NoUser
    BY <1>1, <1>j DEF CreateRow, Accept, CreatorAlone
  <2>2. ~ Born' /\ \A s \in Reqs : s = r \/ job'[s].step = "idle"
    BY <2>1 DEF Born, Creating, CreateSteps, Idle
  <2>3. CreatorAlone'
    BY <2>1, <2>2 DEF CreatorAlone, Creating, CreateSteps
  <2>4. VersionsInOrder'
    BY <2>1, <2>2 DEF VersionsInOrder
  <2>5. RowFollows' /\ BlobFollows'
    BY <2>1, <2>2 DEF RowFollows, BlobFollows, Saved, Uploaded
  <2> QED
    BY <2>3, <2>4, <2>5
<1>2. ASSUME NEW r \in Reqs, CreateBlob(r) PROVE StoresAgree'
  <2>1. /\ job'[r].step = "createVersion" /\ job'[r].text = job[r].text
        /\ \A s \in Reqs : s # r => job'[s] = job[s]
    BY <1>2, <1>j DEF CreateBlob, Goto, Job
  <2>2. /\ row.state = "active" /\ row.text = job[r].text
        /\ versions = <<>> /\ lock = NoUser
        /\ \A s \in Reqs : s # r => job[s] = Idle
    BY <1>2 DEF CreateBlob, CreatorAlone, Creating, CreateSteps
  <2>3. ~ Born' /\ \A s \in Reqs : s = r \/ job'[s].step = "idle"
    BY <2>1, <2>2 DEF Born, Creating, CreateSteps, Idle
  <2>4. CreatorAlone'
    BY <1>2, <2>1, <2>2, <2>3
    DEF CreateBlob, UploadFileContent, CreatorAlone, Creating, CreateSteps
  <2>5. VersionsInOrder'
    BY <1>2, <2>1, <2>2, <2>3 DEF CreateBlob, VersionsInOrder
  <2>6. RowFollows' /\ BlobFollows'
    BY <2>1, <2>3 DEF RowFollows, BlobFollows, Saved, Uploaded
  <2> QED
    BY <2>4, <2>5, <2>6
<1>3. ASSUME NEW r \in Reqs, CreateVersion(r) PROVE StoresAgree'
  <2>1. /\ row.state = "active" /\ row.text = job[r].text /\ blob = job[r].text
        /\ versions = <<>> /\ lock = NoUser
        /\ \A s \in Reqs : s # r => job[s] = Idle
    BY <1>3 DEF CreateVersion, CreatorAlone, Creating, CreateSteps
  <2>2. \A s \in Reqs : job'[s] = Idle
    BY <1>3, <1>j, <2>1 DEF CreateVersion, Finish
  <2>3. \A s \in Reqs : job'[s].step = "idle"
    BY <2>2 DEF Idle
  <2>4. CreatorAlone'
    BY <1>3, <2>1, <2>3 DEF CreateVersion, CreatorAlone, Creating, CreateSteps
  <2>5. job[r].text \in Texts /\ job[r].user \in Users
    BY <1>3, <1>j DEF CreateVersion, Job, TextSteps, CreateSteps
  <2>6. VersionsInOrder'
    BY <1>3, <1>v, <2>1, <2>3, <2>5, AppendInOrder DEF CreateVersion
  <2>7. RowFollows' /\ BlobFollows'
    BY <1>3, <2>1, <2>3 DEF CreateVersion, RowFollows, BlobFollows, Saved, Uploaded
  <2> QED
    BY <2>4, <2>6, <2>7
<1>4. ASSUME NEW r \in Reqs, UpdateRead(r) PROVE StoresAgree'
  <2>1. PICK n \in Numbers \cup {0} :
          /\ IsLatest(n)
          /\ job' = [job EXCEPT ![r].step = "updateBlob", ![r].latest = n]
    BY <1>4 DEF UpdateRead
  <2>2. /\ job'[r].step = "updateBlob" /\ job'[r].latest = Len(versions)
        /\ \A s \in Reqs : s # r => job'[s] = job[s]
    BY <1>j, <2>1, LatestIsLen DEF Job
  <2>3. Born
    BY <1>4, RunningBorn DEF UpdateRead, Creating, CreateSteps
  <2>4. Born' /\ \A s \in Reqs : ~ Creating(s)'
    BY <1>4, <2>2, <2>3 DEF UpdateRead, stores, Born, Creating, CreateSteps
  <2>5. CreatorAlone'
    BY <2>4 DEF CreatorAlone, Born
  <2>6. VersionsInOrder'
    BY <1>4, <2>2, <2>3 DEF UpdateRead, stores, VersionsInOrder
  <2>7. RowFollows' /\ BlobFollows'
    BY <1>4, <2>2, <2>3
    DEF UpdateRead, stores, RowFollows, BlobFollows, Saved, Uploaded
  <2> QED
    BY <2>5, <2>6, <2>7
<1>5. ASSUME NEW r \in Reqs, UpdateBlob(r) PROVE StoresAgree'
  <2>1. /\ job'[r].step = "updateRow" /\ job'[r].text = job[r].text
        /\ job'[r].latest = job[r].latest
        /\ \A s \in Reqs : s # r => job'[s] = job[s]
    BY <1>5, <1>j DEF UpdateBlob, Goto, Job
  <2>2. \A s \in Reqs : s # r => ~ Writing(s)
    BY <1>5, OneWriter DEF UpdateBlob, Writing, WriteSteps
  <2>3. Born
    BY <1>5, RunningBorn DEF UpdateBlob, Creating, CreateSteps
  <2>4. Born' /\ \A s \in Reqs : ~ Creating(s)'
    BY <1>5, <2>1, <2>3 DEF UpdateBlob, Born, Creating, CreateSteps
  <2>5. CreatorAlone'
    BY <2>4 DEF CreatorAlone, Born
  <2>6. VersionsInOrder'
    BY <1>5, <2>1, <2>3 DEF UpdateBlob, VersionsInOrder
  <2>7. RowFollows'
    BY <1>5, <2>1, <2>3 DEF UpdateBlob, RowFollows, Saved
  <2>8. BlobFollows'
    BY <1>5, <2>1, <2>2 DEF UpdateBlob, UploadFileContent, BlobFollows, Uploaded, Writing, WriteSteps
  <2> QED
    BY <2>5, <2>6, <2>7, <2>8
<1>6. ASSUME NEW r \in Reqs, UpdateRow(r) PROVE StoresAgree'
  <2>1. /\ job'[r].step = "updateVersion" /\ job'[r].text = job[r].text
        /\ job'[r].latest = job[r].latest
        /\ \A s \in Reqs : s # r => job'[s] = job[s]
    BY <1>6, <1>j DEF UpdateRow, Goto, Job
  <2>2. \A s \in Reqs : s # r => ~ Writing(s)
    BY <1>6, OneWriter DEF UpdateRow, Writing, WriteSteps
  <2>3. Born
    BY <1>6, RunningBorn DEF UpdateRow, Creating, CreateSteps
  <2>r. row'.state = row.state /\ row'.text = job[r].text
    BY <1>6 DEF UpdateRow, TypeOK
  <2>4. Born' /\ \A s \in Reqs : ~ Creating(s)'
    BY <2>r, <2>1, <2>3 DEF Born, Creating, CreateSteps
  <2>5. CreatorAlone'
    BY <2>4 DEF CreatorAlone, Born
  <2>6. VersionsInOrder'
    BY <1>6, <2>1, <2>3 DEF UpdateRow, VersionsInOrder
  <2>7. RowFollows'
    BY <2>r, <2>1, <2>2 DEF RowFollows, Saved, Writing, WriteSteps
  <2>8. BlobFollows'
    BY <1>6, <2>r, <2>1, <2>3 DEF UpdateRow, BlobFollows, Uploaded
  <2> QED
    BY <2>5, <2>6, <2>7, <2>8
<1>7. ASSUME NEW r \in Reqs, UpdateVersion(r) PROVE StoresAgree'
  <2>1. job'[r] = Idle /\ \A s \in Reqs : s # r => job'[s] = job[s]
    BY <1>7, <1>j DEF UpdateVersion, Finish
  <2>2. \A s \in Reqs : s # r => ~ Writing(s)
    BY <1>7, OneWriter DEF UpdateVersion, Writing, WriteSteps
  <2>3. Born
    BY <1>7, RunningBorn DEF UpdateVersion, Creating, CreateSteps
  <2>4. Born' /\ \A s \in Reqs : ~ Creating(s)'
    BY <1>7, <2>1, <2>3 DEF UpdateVersion, Born, Creating, CreateSteps, Idle
  <2>5. CreatorAlone'
    BY <2>4 DEF CreatorAlone, Born
  <2>6. /\ job[r].text \in Texts /\ job[r].user \in Users
        /\ job[r].latest = Len(versions)
    BY <1>7, <1>j DEF UpdateVersion, Job, TextSteps, WriteSteps, VersionsInOrder
  <2>7. \A s \in Reqs : ~ Writing(s)'
    BY <2>1, <2>2 DEF Writing, WriteSteps, Idle
  <2>8. VersionsInOrder'
    BY <1>7, <2>6, <2>7, AppendInOrder DEF UpdateVersion, Writing, WriteSteps
  <2>9. RowFollows'
    BY <1>7, <2>7 DEF UpdateVersion, RowFollows, Saved, Writing, WriteSteps
  <2>10. BlobFollows'
    BY <1>7, <2>1, <2>7 DEF UpdateVersion, BlobFollows, Uploaded, Writing, WriteSteps
  <2> QED
    BY <2>5, <2>8, <2>9, <2>10
<1>8. ASSUME NEW r \in Reqs, DeleteBlob(r) PROVE StoresAgree'
  <2>1. /\ job'[r].step = "deleteRow"
        /\ \A s \in Reqs : s # r => job'[s] = job[s]
    BY <1>8, <1>j DEF DeleteBlob, Goto, Job
  <2>2. Born
    BY <1>8, RunningBorn DEF DeleteBlob, Creating, CreateSteps
  <2>3. Born' /\ \A s \in Reqs : ~ Creating(s)'
    BY <1>8, <2>1, <2>2 DEF DeleteBlob, Born, Creating, CreateSteps
  <2>4. CreatorAlone'
    BY <2>3 DEF CreatorAlone, Born
  <2>5. VersionsInOrder'
    BY <1>8, <2>1, <2>2 DEF DeleteBlob, VersionsInOrder
  <2>6. RowFollows'
    BY <1>8, <2>1, <2>2 DEF DeleteBlob, RowFollows, Saved
  <2>7. BlobFollows'
    BY <1>8, <2>1 DEF DeleteBlob, BlobFollows
  <2> QED
    BY <2>4, <2>5, <2>6, <2>7
<1>9. ASSUME NEW r \in Reqs, DeleteRow(r) PROVE StoresAgree'
  <2>1. job'[r] = Idle /\ \A s \in Reqs : s # r => job'[s] = job[s]
    BY <1>9, <1>j DEF DeleteRow, Finish
  <2>2. Born
    BY <1>9, RunningBorn DEF DeleteRow, Creating, CreateSteps
  <2>r. row'.state = "deleted" /\ row'.text = row.text
    BY <1>9 DEF DeleteRow, TypeOK
  <2>3. Born' /\ \A s \in Reqs : ~ Creating(s)'
    BY <2>r, <2>1, <2>2 DEF Born, Creating, CreateSteps, Idle
  <2>4. CreatorAlone'
    BY <2>3 DEF CreatorAlone, Born
  <2>5. VersionsInOrder'
    BY <1>9, <2>1, <2>2 DEF DeleteRow, VersionsInOrder, Idle
  <2>6. RowFollows'
    BY <1>9, <2>r, <2>1, <2>2 DEF DeleteRow, RowFollows, Saved, Idle
  <2>7. BlobFollows'
    BY <2>r DEF BlobFollows
  <2> QED
    BY <2>4, <2>5, <2>6, <2>7
<1> DEFINE marked == CreateSteps \cup {"updateBlob", "updateRow", "updateVersion", "deleteRow"}
<1>10. ASSUME NEW r \in Reqs, NEW step, step \notin marked, job[r].step \notin marked,
              job[r].step # "idle", Goto(r, step), UNCHANGED <<row, blob, versions, acked>>
       PROVE  StoresAgree'
  <2>1. job'[r].step = step /\ \A s \in Reqs : s # r => job'[s] = job[s]
    BY <1>10, <1>j DEF Goto, Job
  <2>2. Born
    BY <1>10, RunningBorn DEF Creating
  <2> QED
    BY <1>10, <2>1, <2>2, QuietStep
<1>11. ASSUME NEW r \in Reqs, job[r].step \notin marked, job[r].step # "idle",
              Finish(r), UNCHANGED <<row, blob, versions, acked>>
       PROVE  StoresAgree'
  <2>1. job'[r].step = "idle" /\ \A s \in Reqs : s # r => job'[s] = job[s]
    BY <1>11, <1>j DEF Finish, Idle
  <2>2. Born
    BY <1>11, RunningBorn DEF Creating
  <2>3. "idle" \notin marked
    BY DEF CreateSteps
  <2> QED
    BY <1>11, <2>1, <2>2, <2>3, QuietStep
<1>12. ASSUME NEW r \in Reqs, NEW u, NEW step, NEW t, step \notin marked,
              FindActiveFile(r, u, step, t)
       PROVE  StoresAgree'
  <2>1. /\ job[r].step = "idle" /\ job'[r].step = step
        /\ \A s \in Reqs : s # r => job'[s] = job[s]
    BY <1>12, <1>j DEF FindActiveFile, Accept, Idle
  <2>2. Born
    BY <1>12, FoundBorn
  <2>3. "idle" \notin marked
    BY DEF CreateSteps
  <2> QED
    BY <1>12, <2>1, <2>2, <2>3, QuietStep DEF FindActiveFile, stores
<1>13. ASSUME NEW r \in Reqs, UpdateCheck(r) \/ DeleteCheck(r) PROVE StoresAgree'
  BY <1>13, <1>10, <1>11 DEF UpdateCheck, DeleteCheck, stores, CreateSteps
<1>14. ASSUME NEW r \in Reqs, AcquireSet(r) PROVE StoresAgree'
  BY <1>14, <1>10, <1>11 DEF AcquireSet, CreateSteps
<1>15. ASSUME NEW r \in Reqs,
              GetLock(r) \/ AcquireConflict(r) \/ ReleaseEval(r) \/ RenewEval(r)
       PROVE  StoresAgree'
  BY <1>15, <1>11
  DEF GetLock, AcquireConflict, ReleaseEval, RenewEval, stores, CreateSteps
<1>16. ASSUME NEW r \in Reqs, GetBlob(r) PROVE StoresAgree'
  <2>1. job'[r].step = "getLock" /\ \A s \in Reqs : s # r => job'[s] = job[s]
    BY <1>16, <1>j DEF GetBlob, Job
  <2>2. Born
    BY <1>16, RunningBorn DEF GetBlob, Creating, CreateSteps
  <2>3. job[r].step \notin marked /\ job'[r].step \notin marked
    BY <1>16, <2>1 DEF GetBlob, CreateSteps
  <2> QED
    BY <1>16, <2>1, <2>2, <2>3, QuietStep DEF GetBlob, stores
<1>17. ASSUME NEW r \in Reqs, NEW u \in Users, Arrive(r, u) PROVE StoresAgree'
  <2>1. CASE \E t \in Texts : CreateRow(r, u, t)
    BY <2>1, <1>1
  <2>2. CASE \/ \E t \in Texts : UpdateFind(r, u, t)
             \/ DeleteFind(r, u) \/ GetFind(r, u) \/ AcquireFind(r, u)
             \/ ReleaseFind(r, u) \/ RenewFind(r, u)
    BY <2>2, <1>12 DEF UpdateFind, DeleteFind, GetFind, AcquireFind, ReleaseFind,
                       RenewFind, CreateSteps
  <2> QED
    BY <1>17, <2>1, <2>2 DEF Arrive
<1>18. CASE Lapse \/ UNCHANGED vars
  <2>1. /\ UNCHANGED <<row, blob, versions, job, acked>>
        /\ lock' = lock \/ lock' = NoUser
    BY <1>18 DEF Lapse, vars, stores
  <2>2. CreatorAlone'
    BY <2>1 DEF CreatorAlone, Creating
  <2>3. VersionsInOrder' /\ RowFollows' /\ BlobFollows'
    BY <2>1 DEF VersionsInOrder, RowFollows, BlobFollows, Born, Creating, Saved, Uploaded
  <2> QED
    BY <2>2, <2>3
<1>19. ASSUME NEW r \in Reqs, Abort(r) PROVE FALSE
  BY <1>19 DEF Abort
<1> QED
  BY <1>2, <1>3, <1>4, <1>5, <1>6, <1>7, <1>8, <1>9, <1>13, <1>14, <1>15, <1>16,
     <1>17, <1>18, <1>19 DEF Next, Continue

\* A read that begins now may return what the row and the blob hold now.
LEMMA FirstReadAllowed ==
  ASSUME TypeOK, StoresAgree, Faults = {}, NEW r \in Reqs, NEW u, GetFind(r, u)
  PROVE  row.text \in allowed'[r] /\ blob \in allowed'[r] \cup {NoText}
<1>1. Born /\ row.state = "active"
  BY FoundBorn DEF GetFind, FindActiveFile
<1>2. allowed'[r] = {acked} \cup {job[w].text : w \in {w \in Reqs :
                       job[w].step \in {"updateRow", "updateVersion"}}}
  BY DEF GetFind, TypeOK
<1>3. /\ acked \in allowed'[r]
      /\ \A w \in Reqs : Uploaded(w) => job[w].text \in allowed'[r]
  BY <1>2 DEF Uploaded
<1>4. row.text \in allowed'[r]
  BY <1>1, <1>3 DEF StoresAgree, RowFollows, Saved, Uploaded
<1>5. blob \in allowed'[r] \cup {NoText}
  BY <1>1, <1>3 DEF StoresAgree, BlobFollows
<1> QED
  BY <1>4, <1>5

LEMMA ReadsInductive ==
  ASSUME TypeOK, StoresAgree, ReadsAllowed, Faults = {}, [Next]_vars
  PROVE  ReadsAllowed'
<1>j. job \in [Reqs -> Job] /\ \A r \in Reqs : job[r] \in Job
  BY DEF TypeOK
<1>1. ASSUME NEW r \in Reqs, NEW step, step \notin {"getBlob", "getLock"},
             Goto(r, step), UNCHANGED <<blob, allowed>>
      PROVE  ReadsAllowed'
  BY <1>1, <1>j DEF Goto, Job, ReadsAllowed
<1>2. ASSUME NEW r \in Reqs, Finish(r), UNCHANGED blob,
             \A s \in Reqs : s # r => allowed'[s] = allowed[s]
      PROVE  ReadsAllowed'
  BY <1>2, <1>j DEF Finish, Idle, ReadsAllowed
<1>3. ASSUME NEW r \in Reqs, NEW u, NEW step, NEW t, Accept(r, u, step, t),
             step \notin {"getBlob", "getLock"}, UNCHANGED <<blob, allowed>>
      PROVE  ReadsAllowed'
  BY <1>3, <1>j DEF Accept, ReadsAllowed
<1>4. ASSUME NEW r \in Reqs, NEW step, job[r].step \notin {"getBlob", "getLock"},
             step \notin {"getBlob", "getLock"},
             Goto(r, step), blob' = job[r].text, Expose(job[r].text)
      PROVE  ReadsAllowed'
  <2>1. \A s \in Reqs : allowed'[s] = IF Reading(s) THEN allowed[s] \cup {job[r].text}
                                                   ELSE allowed[s]
    BY <1>4 DEF Expose
  <2>2. /\ job'[r].step = step
        /\ \A s \in Reqs : s # r => job'[s] = job[s]
    BY <1>4, <1>j DEF Goto, Job
  <2> QED
    BY <1>4, <2>1, <2>2 DEF ReadsAllowed, Reading
<1>5. ASSUME NEW r \in Reqs, CreateBlob(r) \/ UpdateBlob(r) PROVE ReadsAllowed'
  BY <1>5, <1>4 DEF CreateBlob, UpdateBlob, UploadFileContent
<1>6. ASSUME NEW r \in Reqs, NEW u \in Users, GetFind(r, u) PROVE ReadsAllowed'
  <2>1. /\ job'[r].text = row.text
        /\ \A s \in Reqs : s # r => job'[s] = job[s] /\ allowed'[s] = allowed[s]
        /\ blob' = blob
    BY <1>6, <1>j DEF GetFind, FindActiveFile, Accept, stores, TypeOK
  <2>2. row.text \in allowed'[r] /\ blob \in allowed'[r] \cup {NoText}
    BY <1>6, FirstReadAllowed
  <2> QED
    BY <2>1, <2>2 DEF ReadsAllowed
<1>7. ASSUME NEW r \in Reqs, GetBlob(r) PROVE ReadsAllowed'
  <2>1. /\ job'[r].step = "getLock" /\ job'[r].text \in DownloadFileContent \cup {job[r].text}
        /\ \A s \in Reqs : s # r => job'[s] = job[s]
    BY <1>7, <1>j DEF GetBlob, Job
  <2> QED
    BY <1>7, <2>1 DEF GetBlob, DownloadFileContent, stores, ReadsAllowed
<1>8. ASSUME NEW r \in Reqs, UpdateRead(r) PROVE ReadsAllowed'
  <2>1. /\ job'[r].step = "updateBlob"
        /\ \A s \in Reqs : s # r => job'[s] = job[s]
    BY <1>8, <1>j DEF UpdateRead, Job
  <2> QED
    BY <1>8, <2>1 DEF UpdateRead, stores, ReadsAllowed
<1>9. ASSUME NEW r \in Reqs, DeleteBlob(r) PROVE ReadsAllowed'
  <2>1. /\ job'[r].step = "deleteRow"
        /\ \A s \in Reqs : s # r => job'[s] = job[s]
    BY <1>9, <1>j DEF DeleteBlob, Goto, Job
  <2> QED
    BY <1>9, <2>1 DEF DeleteBlob, ReadsAllowed
<1>10. ASSUME NEW r \in Reqs, UpdateRow(r) \/ UpdateCheck(r) \/ DeleteCheck(r) \/ AcquireSet(r)
       PROVE  ReadsAllowed'
  BY <1>10, <1>1, <1>2 DEF UpdateRow, UpdateCheck, DeleteCheck, AcquireSet, stores
<1>11. ASSUME NEW r \in Reqs,
              \/ CreateVersion(r) \/ UpdateVersion(r) \/ DeleteRow(r)
              \/ AcquireConflict(r) \/ ReleaseEval(r) \/ RenewEval(r)
       PROVE  ReadsAllowed'
  BY <1>11, <1>2 DEF CreateVersion, UpdateVersion, DeleteRow, AcquireConflict,
                     ReleaseEval, RenewEval, stores
<1>12. ASSUME NEW r \in Reqs, GetLock(r) PROVE ReadsAllowed'
  BY <1>12, <1>2 DEF GetLock, stores, TypeOK
<1>13. ASSUME NEW r \in Reqs, NEW u \in Users, Arrive(r, u) PROVE ReadsAllowed'
  <2>1. CASE \E t \in Texts : CreateRow(r, u, t)
    BY <2>1, <1>3 DEF CreateRow
  <2>2. CASE \/ \E t \in Texts : UpdateFind(r, u, t)
             \/ DeleteFind(r, u) \/ AcquireFind(r, u)
             \/ ReleaseFind(r, u) \/ RenewFind(r, u)
    BY <2>2, <1>3 DEF UpdateFind, DeleteFind, AcquireFind, ReleaseFind, RenewFind,
                      FindActiveFile, stores
  <2> QED
    BY <1>13, <1>6, <2>1, <2>2 DEF Arrive
<1>14. CASE Lapse \/ UNCHANGED vars
  BY <1>14 DEF Lapse, vars, stores, ReadsAllowed
<1>15. ASSUME NEW r \in Reqs, Abort(r) PROVE FALSE
  BY <1>15 DEF Abort
<1> QED
  BY <1>5, <1>7, <1>8, <1>9, <1>10, <1>11, <1>12, <1>13, <1>14, <1>15
  DEF Next, Continue

THEOREM CalmTheorem == Spec => [](TypeOK /\ ExclusiveInv /\ CalmInv)
<1>1. Init => ExclusiveInv
  BY ConstantsAssumption
  DEF Init, ExclusiveInv, OneRequestPerUser, WritersHold, Writing, WriteSteps, Idle
<1>2. Init => CalmInv
  <2> SUFFICES ASSUME Init PROVE StoresAgree /\ ReadsAllowed
    BY DEF CalmInv
  <2>1. row.state = "absent" /\ \A r \in Reqs : job[r].step = "idle"
    BY DEF Init, Idle
  <2>2. CreatorAlone /\ RowFollows /\ BlobFollows /\ ReadsAllowed
    BY <2>1 DEF Init, CreatorAlone, Creating, CreateSteps, RowFollows, BlobFollows,
                ReadsAllowed, Born, Saved, Uploaded
  <2>3. VersionsInOrder
    BY <2>1 DEF Init, VersionsInOrder, Born
  <2> QED
    BY <2>2, <2>3 DEF StoresAgree
<1>3. TypeOK /\ TypeOK' /\ ExclusiveInv /\ CalmInv /\ [Next]_vars => CalmInv'
  BY StoresInductive, ReadsInductive DEF CalmInv
<1> QED
  BY <1>1, <1>2, <1>3, TypeCorrect, ExclusiveInductive, PTL DEF Spec

\* Without faults the blob, the content column and the last version are what
\* the last successful request wrote, whenever nothing that writes is running.
THEOREM CommittedTheorem == Spec => []CommittedFile
<1>1. TypeOK /\ CalmInv => CommittedFile
  <2> SUFFICES ASSUME TypeOK, StoresAgree, row.state = "active",
                      \A r \in Reqs : ~ (Creating(r) \/ Writing(r) \/ Deleting(r))
               PROVE  /\ blob = acked /\ row.text = acked /\ versions # <<>>
                      /\ versions[Len(versions)].text = acked
    BY DEF CommittedFile, CalmInv
  <2>1. Born /\ \A r \in Reqs : ~ Uploaded(r) /\ ~ Saved(r) /\ job[r].step # "deleteRow"
    BY DEF Born, Uploaded, Saved, Writing, WriteSteps, Deleting, DeleteSteps
  <2> QED
    BY <2>1 DEF StoresAgree, VersionsInOrder, RowFollows, BlobFollows
<1> QED
  BY <1>1, CalmTheorem, PTL

\* Without faults a read returns the last update before it or a concurrent one.
THEOREM ReadTheorem == Spec => []RegularRead
<1>1. CalmInv => RegularRead
  BY DEF CalmInv, ReadsAllowed, RegularRead
<1> QED
  BY <1>1, CalmTheorem, PTL

------------------------------------------------------------------------------
(* Without faults the version rows implement the history.                  *)

LEMMA HistoryStep ==
  ASSUME Faults = {}, TypeOK, ExclusiveInv, StoresAgree, [Next]_vars
  PROVE  [History!HistoryNext]_<<lock, keyBy, versions>>
<1>j. \A r \in Reqs : job[r] \in Job
  BY DEF TypeOK
<1>1. ASSUME NEW r \in Reqs, CreateVersion(r) PROVE History!HistoryNext
  <2>1. job[r].text \in Texts /\ job[r].user \in Users
    BY <1>1, <1>j DEF CreateVersion, Job, TextSteps, CreateSteps
  <2>2. versions = <<>> /\ lock = NoUser
    BY <1>1 DEF CreateVersion, StoresAgree, CreatorAlone, Creating, CreateSteps
  <2>3. versions' = <<[number |-> Len(versions) + 1, text |-> job[r].text,
                       author |-> job[r].user]>>
    BY <1>1, <2>2 DEF CreateVersion, VersionRow
  <2>4. History!Create(job[r].user, job[r].text) /\ UNCHANGED <<lock, keyBy>>
    BY <1>1, <2>2, <2>3 DEF CreateVersion, History!Create, History!Entry
  <2> QED
    BY <2>1, <2>4 DEF History!HistoryNext
<1>2. ASSUME NEW r \in Reqs, UpdateVersion(r) PROVE History!HistoryNext
  <2>1. job[r].text \in Texts /\ job[r].user \in Users
    BY <1>2, <1>j DEF UpdateVersion, Job, TextSteps, WriteSteps
  <2>2. lock = job[r].user
    BY <1>2, OneWriter DEF UpdateVersion, Writing, WriteSteps
  <2>3. versions # <<>>
    BY <1>2, RunningBorn
    DEF UpdateVersion, Creating, CreateSteps, StoresAgree, VersionsInOrder
  <2>4. job[r].latest = Len(versions)
    BY <1>2 DEF UpdateVersion, StoresAgree, VersionsInOrder
  <2>5. History!Write(job[r].user, job[r].text) /\ UNCHANGED <<lock, keyBy>>
    BY <1>2, <2>2, <2>3, <2>4
    DEF UpdateVersion, VersionRow, History!Write, History!Entry
  <2> QED
    BY <2>1, <2>5 DEF History!HistoryNext
<1>3. CASE UNCHANGED versions
  <2>1. [Lease!LeaseNext]_<<lock, keyBy>>
    BY LeaseStep
  <2>2. Lease!LeaseNext <=> History!LeaseNext
    BY DEF Lease!LeaseNext, Lease!RunOut, Lease!Grant, Lease!Renew, Lease!GiveUp,
           History!LeaseNext, History!RunOut, History!Grant, History!Renew,
           History!GiveUp
  <2> QED
    BY <1>3, <2>1, <2>2 DEF History!HistoryNext
<1>4. ASSUME NEW r \in Reqs, Continue(r), ~ CreateVersion(r), ~ UpdateVersion(r)
      PROVE  UNCHANGED versions
  BY <1>4 DEF Continue, CreateBlob, UpdateCheck, UpdateRead, UpdateBlob, UpdateRow,
    DeleteCheck, DeleteBlob, DeleteRow, GetBlob, GetLock, AcquireSet,
    AcquireConflict, ReleaseEval, RenewEval, stores
<1>5. ASSUME NEW r \in Reqs, Abort(r) \/ \E u \in Users : Arrive(r, u)
      PROVE  UNCHANGED versions
  BY <1>5 DEF Abort, Arrive, CreateRow, UpdateFind, DeleteFind, GetFind,
    AcquireFind, ReleaseFind, RenewFind, FindActiveFile, stores
<1>6. CASE Lapse \/ UNCHANGED vars
  BY <1>6, <1>3 DEF Lapse, vars, stores
<1> QED
  BY <1>1, <1>2, <1>3, <1>4, <1>5, <1>6 DEF Next

\* Without faults the version rows implement FileHistory: numbered without gap
\* or repetition, and each update's createdBy is the user who has the lock at the
\* moment its row is inserted.
THEOREM HistoryTheorem ==
  ASSUME Faults = {} PROVE Spec => HistorySpec
<1>1. Init => History!HistoryInit
  BY DEF Init, History!HistoryInit, History!LeaseInit
<1>2. TypeOK /\ ExclusiveInv /\ CalmInv /\ [Next]_vars
        => [History!HistoryNext]_<<lock, keyBy, versions>>
  BY HistoryStep DEF CalmInv
<1> QED
  BY <1>1, <1>2, CalmTheorem, PTL DEF Spec, HistorySpec, History!HistorySpec
==============================================================================
