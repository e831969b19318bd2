--------------------------- MODULE WorkspaceProofs ---------------------------
(***************************************************************************)
(* Theorems about Workspace for every set of users, workspaces, projects,  *)
(* names and request slots.                                                *)
(***************************************************************************)
EXTENDS Workspace, TLAPS

OwnerChecked == {"updateWorkspace", "deleteWorkspace", "inviteMember",
                 "updateMemberRole", "removeMember", "deleteProject"}

EditorChecked == {"createProject", "updateProject"}

\* The calls a request is made of, whichever handler they are in.
LEMMA StepCases ==
  ASSUME NEW r \in Reqs, Handle(r)
  PROVE  \/ \E step \in OwnerChecked : RequireRole(r, {"Owner"}, step)
         \/ \E step \in EditorChecked : RequireRole(r, {"Owner", "Editor"}, step)
         \/ CreateWorkspace(r)
         \/ PublishWorkspaceEvent(r, "workspace.created")
         \/ PublishWorkspaceEvent(r, "workspace.member.invited")
         \/ UpdateWorkspace(r) \/ DeleteWorkspaceRow(r)
         \/ InviteFind(r) \/ Invite(r) \/ UpdateRole(r) \/ RemoveMember(r)
         \/ CreateProject(r)
         \/ ProjectFind(r, "updateProject", "renameProject") \/ RenameProject(r)
         \/ ProjectFind(r, "deleteProject", "removeProject") \/ RemoveProject(r)
         \/ Abort(r)
BY DEF Handle, CreateWorkspaceHandler, UpdateWorkspaceHandler, DeleteWorkspaceHandler,
       InviteMemberHandler, UpdateMemberRoleHandler, RemoveMemberHandler,
       CreateProjectHandler, UpdateProjectHandler, DeleteProjectHandler,
       OwnerChecked, EditorChecked

------------------------------------------------------------------------------
(* Types.                                                                  *)

LEMMA SetJob ==
  ASSUME TypeOK, NEW r \in Reqs, NEW j \in Job, WellFormed(j),
         job' = [job EXCEPT ![r] = j]
  PROVE  /\ job' \in [Reqs -> Job] /\ \A q \in Reqs : WellFormed(job'[q])
         /\ job'[r] = j /\ \A q \in Reqs : q # r => job'[q] = job[q]
BY DEF TypeOK

LEMMA AnswerJob ==
  ASSUME TypeOK, NEW r \in Reqs, Answer(r)
  PROVE  /\ job' \in [Reqs -> Job] /\ \A q \in Reqs : WellFormed(job'[q])
         /\ job'[r] = Idle /\ \A q \in Reqs : q # r => job'[q] = job[q]
<1>1. Idle \in Job /\ WellFormed(Idle)
  BY DEF Idle, Job, Steps, WellFormed
<1> QED
  BY <1>1, SetJob DEF Answer

LEMMA AdvanceJob ==
  ASSUME TypeOK, NEW r \in Reqs, NEW step \in Steps, ~ At(r, "idle"),
         step \notin {"workspace.created", "workspace.member.invited",
                      "renameProject", "removeProject"},
         Goto(r, step)
  PROVE  /\ job' \in [Reqs -> Job] /\ \A q \in Reqs : WellFormed(job'[q])
         /\ job'[r] = [job[r] EXCEPT !.step = step]
         /\ \A q \in Reqs : q # r => job'[q] = job[q]
<1> DEFINE j == [job[r] EXCEPT !.step = step]
<1>1. job[r] \in Job /\ WellFormed(job[r]) /\ job[r].step # "idle"
  BY DEF TypeOK, At
<1>2. j \in Job /\ WellFormed(j)
  BY <1>1 DEF Job, WellFormed
<1>3. job' = [job EXCEPT ![r] = j]
  BY DEF Goto
<1> HIDE DEF j
<1> QED
  BY <1>2, <1>3, SetJob DEF j

LEMMA AdvanceJobWith ==
  ASSUME TypeOK, NEW r \in Reqs, ~ At(r, "idle"), NEW step, NEW arg,
         \/ step = "workspace.member.invited" /\ arg \in Users
         \/ step \in {"renameProject", "removeProject"} /\ arg \in Projects,
         job' = [job EXCEPT ![r].step = step, ![r].arg = arg]
  PROVE  /\ job' \in [Reqs -> Job] /\ \A q \in Reqs : WellFormed(job'[q])
         /\ job'[r] = [job[r] EXCEPT !.step = step, !.arg = arg]
         /\ \A q \in Reqs : q # r => job'[q] = job[q]
<1> DEFINE j == [job[r] EXCEPT !.step = step, !.arg = arg]
<1>1. job[r] \in Job /\ WellFormed(job[r]) /\ job[r].step # "idle"
  BY DEF TypeOK, At
<1>2. j \in Job /\ WellFormed(j)
  BY <1>1 DEF Job, WellFormed, Steps
<1>3. job' = [job EXCEPT ![r] = j]
  BY <1>1 DEF TypeOK, Job
<1> HIDE DEF j
<1> QED
  BY <1>2, <1>3, SetJob DEF j

LEMMA NewJob ==
  ASSUME TypeOK, NEW r \in Reqs, NEW step \in Steps, NEW u \in Users, NEW w \in Workspaces,
         NEW arg \in Users \cup {None}, step \notin {"renameProject", "removeProject"},
         step \in {"workspace.created", "workspace.member.invited"} => arg \in Users,
         job' = [job EXCEPT ![r] = [step |-> step, user |-> u, ws |-> w, arg |-> arg]]
  PROVE  /\ job' \in [Reqs -> Job] /\ \A q \in Reqs : WellFormed(job'[q])
         /\ job'[r] = [step |-> step, user |-> u, ws |-> w, arg |-> arg]
         /\ \A q \in Reqs : q # r => job'[q] = job[q]
<1> DEFINE j == [step |-> step, user |-> u, ws |-> w, arg |-> arg]
<1>1. j \in Job /\ WellFormed(j)
  BY DEF Job, WellFormed
<1> HIDE DEF j
<1> QED
  BY <1>1, SetJob DEF j

\* What each call does to the jobs and the rows, in terms the invariants need.
RowsTyped ==
  /\ workspaces' \in [Workspaces -> Names \cup {None}]
  /\ members' \in [Workspaces -> [Users -> Roles \cup {NoRole}]]
  /\ projects' \in [Projects -> ProjectRecord \cup {None}]
  /\ spent' \subseteq Workspaces \cup Projects

JobTyped == job' \in [Reqs -> Job] /\ \A q \in Reqs : WellFormed(job'[q])

LEMMA RowsKept ==
  ASSUME TypeOK, UNCHANGED rows
  PROVE  RowsTyped
BY DEF TypeOK, rows, RowsTyped

LEMMA UpsertTyped ==
  ASSUME TypeOK, NEW w \in Workspaces, NEW u \in Users, NEW role \in Roles \cup {NoRole},
         UpsertMember(w, u, role)
  PROVE  RowsTyped
BY DEF TypeOK, UpsertMember, RowsTyped

LEMMA StepTyped ==
  ASSUME TypeOK, NEW r \in Reqs, Handle(r)
  PROVE  RowsTyped /\ JobTyped /\ lost' \in BOOLEAN /\ silent' \subseteq Workspaces \X Users
<1> DEFINE Goal == RowsTyped /\ JobTyped /\ lost' \in BOOLEAN
                   /\ silent' \subseteq Workspaces \X Users
<1> USE DEF JobTyped
<1>0. /\ job[r] \in Job /\ WellFormed(job[r])
      /\ lost \in BOOLEAN /\ silent \subseteq Workspaces \X Users
      /\ ~ At(r, "idle") => job[r].user \in Users /\ job[r].ws \in Workspaces
  BY DEF TypeOK, At, WellFormed
<1>1. ASSUME NEW allowed, NEW step \in OwnerChecked \cup EditorChecked, RequireRole(r, allowed, step)
      PROVE  Goal
  <2>1. PICK u \in Users, w \in Workspaces :
          job' = [job EXCEPT ![r] = [step |-> step, user |-> u, ws |-> w, arg |-> None]]
    BY <1>1 DEF RequireRole
  <2>2. JobTyped
    BY <2>1, NewJob, ZenonT(60) DEF OwnerChecked, EditorChecked, Steps
  <2> QED
    BY <1>0, <1>1, <2>2, RowsKept DEF RequireRole, events
<1>2. ASSUME CreateWorkspace(r) PROVE Goal
  <2>1. PICK u \in Users, w \in Workspaces, name \in Names :
          /\ InsertWorkspace(w, name, u)
          /\ job' = [job EXCEPT ![r] = [step |-> "workspace.created", user |-> u,
                                        ws |-> w, arg |-> u]]
          /\ Unannounced({<<w, u>>})
    BY <1>2 DEF CreateWorkspace
  <2>2. JobTyped
    BY <2>1, NewJob DEF Steps
  <2>3. RowsTyped
    BY <2>1 DEF InsertWorkspace, TypeOK, RowsTyped, Roles
  <2> QED
    BY <1>0, <2>1, <2>2, <2>3 DEF Unannounced
<1>3. ASSUME NEW topic, PublishWorkspaceEvent(r, topic) PROVE Goal
  BY <1>0, <1>3, AnswerJob, RowsKept DEF PublishWorkspaceEvent
<1>4. ASSUME UpdateWorkspace(r) PROVE Goal
  <2>1. PICK name \in Names : UpdateName(job[r].ws, name)
    BY <1>4 DEF UpdateWorkspace
  <2>2. RowsTyped
    BY <1>0, <1>4, <2>1 DEF UpdateName, TypeOK, RowsTyped, UpdateWorkspace, At
  <2> QED
    BY <1>0, <1>4, <2>2, AnswerJob DEF UpdateWorkspace, events
<1>5. ASSUME DeleteWorkspaceRow(r) PROVE Goal
  <2>1. job[r].ws \in Workspaces
    BY <1>0, <1>5 DEF DeleteWorkspaceRow, At
  <2>2. RowsTyped
    BY <1>5, <2>1 DEF DeleteWorkspaceRow, DeleteWorkspace, TypeOK, RowsTyped, NoRole
  <2> QED
    BY <1>0, <1>5, <2>2, AnswerJob DEF DeleteWorkspaceRow, Forget
<1>6. ASSUME InviteFind(r) PROVE Goal
  <2>1. JobTyped
    BY <1>6, AnswerJob, AdvanceJob DEF InviteFind, At, Steps
  <2> QED
    BY <1>0, <1>6, <2>1, RowsKept DEF InviteFind, events
<1>7. ASSUME Invite(r) PROVE Goal
  <2>0. job[r].ws \in Workspaces /\ ~ At(r, "idle")
    BY <1>0, <1>7 DEF Invite, At
  <2>1. PICK u \in Users, role \in Roles :
          /\ UpsertMember(job[r].ws, u, role)
          /\ job' = [job EXCEPT ![r].step = "workspace.member.invited", ![r].arg = u]
          /\ Unannounced({<<job[r].ws, u>>})
    BY <1>7 DEF Invite
  <2>2. JobTyped
    BY <2>0, <2>1, AdvanceJobWith
  <2> QED
    BY <1>0, <2>0, <2>1, <2>2, UpsertTyped DEF Unannounced
<1>8. ASSUME UpdateRole(r) PROVE Goal
  <2>1. PICK u \in Users, role \in Roles : UpsertMember(job[r].ws, u, role)
    BY <1>8 DEF UpdateRole, UpdateMemberRole
  <2>2. RowsTyped
    BY <1>0, <1>8, <2>1, UpsertTyped DEF UpdateRole, At
  <2> QED
    BY <1>0, <1>8, <2>2, AnswerJob DEF UpdateRole, events
<1>9. ASSUME RemoveMember(r) PROVE Goal
  <2>1. PICK u \in Users : UpsertMember(job[r].ws, u, NoRole) /\ Forget({<<job[r].ws, u>>})
    BY <1>9 DEF RemoveMember, DeleteMember
  <2>2. RowsTyped
    BY <1>0, <1>9, <2>1, UpsertTyped DEF RemoveMember, At
  <2> QED
    BY <1>0, <1>9, <2>1, <2>2, AnswerJob DEF RemoveMember, Forget
<1>10. ASSUME CreateProject(r) PROVE Goal
  <2>1. PICK p \in Projects, name \in Names : InsertProject(job[r].ws, p, name)
    BY <1>10 DEF CreateProject
  <2>2. RowsTyped
    BY <1>0, <1>10, <2>1 DEF InsertProject, TypeOK, RowsTyped, ProjectRecord, CreateProject, At
  <2> QED
    BY <1>0, <1>10, <2>2, AnswerJob DEF CreateProject, events
<1>11. ASSUME NEW step, NEW next \in {"renameProject", "removeProject"}, step # "idle",
              ProjectFind(r, step, next)
       PROVE  Goal
  <2>1. JobTyped
    BY <1>11, AnswerJob, AdvanceJobWith DEF ProjectFind, At
  <2> QED
    BY <1>0, <1>11, <2>1, RowsKept DEF ProjectFind, events
<1>12. ASSUME RenameProject(r) PROVE Goal
  <2>1. job[r].arg \in Projects /\ projects[job[r].arg] # None
    BY <1>0, <1>12 DEF RenameProject, At, WellFormed, UpdateProject
  <2>2. projects[job[r].arg] \in ProjectRecord
    BY <2>1 DEF TypeOK
  <2>3. RowsTyped
    BY <1>12, <2>1, <2>2 DEF RenameProject, UpdateProject, TypeOK, RowsTyped, ProjectRecord
  <2> QED
    BY <1>0, <1>12, <2>3, AnswerJob DEF RenameProject, events
<1>13. ASSUME RemoveProject(r) PROVE Goal
  <2>1. job[r].arg \in Projects
    BY <1>0, <1>13 DEF RemoveProject, At, WellFormed
  <2>2. RowsTyped
    BY <1>13, <2>1 DEF RemoveProject, DeleteProject, TypeOK, RowsTyped
  <2> QED
    BY <1>0, <1>13, <2>2, AnswerJob DEF RemoveProject, events
<1>14. ASSUME Abort(r) PROVE Goal
  BY <1>0, <1>14, AnswerJob, RowsKept DEF Abort
<1> HIDE DEF Goal
<1>15. Goal
  BY StepCases, <1>1, <1>2, <1>3, <1>4, <1>5, <1>6, <1>7, <1>8, <1>9, <1>10, <1>11,
     <1>12, <1>13, <1>14
<1> QED
  BY <1>15 DEF Goal

\* TypeOK: the rows, the requests and the histories keep their types, and every
\* step of a handler finds in its request what it needs.
THEOREM TypeCorrect == Spec => []TypeOK
<1>1. Init => TypeOK
  <2>1. Idle \in Job /\ WellFormed(Idle)
    BY DEF Idle, Job, Steps, WellFormed
  <2>2. Init => job \in [Reqs -> Job] /\ \A r \in Reqs : WellFormed(job[r])
    BY <2>1 DEF Init
  <2>3. Init => held \in [Reqs -> SUBSET {"Owner", "Editor"}]
    <3>1. {} \in SUBSET {"Owner", "Editor"}
      OBVIOUS
    <3> QED
      BY <3>1 DEF Init
  <2>4. Init => /\ workspaces \in [Workspaces -> Names \cup {None}]
                /\ members \in [Workspaces -> [Users -> Roles \cup {NoRole}]]
                /\ projects \in [Projects -> ProjectRecord \cup {None}]
    BY DEF Init
  <2>5. Init => spent \subseteq Workspaces \cup Projects /\ lost \in BOOLEAN
                /\ silent \subseteq Workspaces \X Users
    BY DEF Init
  <2> QED
    BY <2>2, <2>3, <2>4, <2>5 DEF TypeOK
<1>2. TypeOK /\ [Next]_vars => TypeOK'
  <2>1. ASSUME TypeOK, NEW r \in Reqs, Handle(r), Observe
        PROVE  TypeOK'
    <3>1. held' \in [Reqs -> SUBSET {"Owner", "Editor"}]
      BY <2>1 DEF Observe, TypeOK
    <3> QED
      BY <2>1, <3>1, StepTyped DEF TypeOK, RowsTyped, JobTyped
  <2>2. ASSUME TypeOK, UNCHANGED vars PROVE TypeOK'
    BY <2>2 DEF TypeOK, vars
  <2> QED
    BY <2>1, <2>2 DEF Next
<1> QED
  BY <1>1, <1>2, PTL DEF Spec

------------------------------------------------------------------------------
(* Rows.                                                                   *)

KeepsRows(r) ==
  \/ \E step \in OwnerChecked : RequireRole(r, {"Owner"}, step)
  \/ \E step \in EditorChecked : RequireRole(r, {"Owner", "Editor"}, step)
  \/ PublishWorkspaceEvent(r, "workspace.created")
  \/ PublishWorkspaceEvent(r, "workspace.member.invited")
  \/ InviteFind(r) \/ Abort(r)
  \/ ProjectFind(r, "updateProject", "renameProject")
  \/ ProjectFind(r, "deleteProject", "removeProject")

LEMMA KeepsRowsIsSo == ASSUME NEW r \in Reqs, KeepsRows(r) PROVE UNCHANGED rows
BY DEF KeepsRows, RequireRole, PublishWorkspaceEvent, InviteFind, Abort, ProjectFind

\* What a call may do to a workspace and its members.
LEMMA WorkspaceStep ==
  ASSUME TypeOK, NEW r \in Reqs, Handle(r), NEW w \in Workspaces, workspaces[w] # None,
         workspaces'[w] # workspaces[w] \/ members'[w] # members[w]
  PROVE  job[r].ws = w /\ job[r].step \in OwnerSteps /\ job'[r] # job[r]
<1> DEFINE Goal == job[r].ws = w /\ job[r].step \in OwnerSteps /\ job'[r] # job[r]
<1>0. job[r] \in Job /\ job \in [Reqs -> Job]
  BY DEF TypeOK
<1>a. ASSUME Answer(r), job[r].ws = w, job[r].step \in OwnerSteps
      PROVE  Goal
  BY <1>a, AnswerJob DEF Idle, OwnerSteps
<1>b. ASSUME UNCHANGED rows PROVE FALSE
  BY <1>b DEF rows
<1>c. ASSUME NEW v, NEW u, NEW role, UpsertMember(v, u, role) PROVE v = w
  BY <1>c DEF UpsertMember, TypeOK
<1>1. CASE CreateWorkspace(r)
  BY <1>1 DEF CreateWorkspace, InsertWorkspace, TypeOK
<1>2. CASE UpdateWorkspace(r)
  BY <1>2, <1>a DEF UpdateWorkspace, UpdateName, TypeOK, At, OwnerSteps
<1>3. CASE DeleteWorkspaceRow(r)
  BY <1>3, <1>a DEF DeleteWorkspaceRow, DeleteWorkspace, TypeOK, At, OwnerSteps
<1>4. CASE Invite(r)
  <2>1. PICK u \in Users, role \in Roles :
          /\ UpsertMember(job[r].ws, u, role)
          /\ job' = [job EXCEPT ![r].step = "workspace.member.invited", ![r].arg = u]
    BY <1>4 DEF Invite
  <2>2. job'[r].step # job[r].step
    BY <1>0, <1>4, <2>1 DEF Invite, At, Job
  <2> QED
    BY <1>4, <1>c, <2>1, <2>2 DEF Invite, At, OwnerSteps
<1>5. CASE UpdateRole(r)
  BY <1>5, <1>a, <1>c DEF UpdateRole, UpdateMemberRole, At, OwnerSteps
<1>6. CASE RemoveMember(r)
  BY <1>6, <1>a, <1>c DEF RemoveMember, DeleteMember, At, OwnerSteps
<1>7. CASE CreateProject(r) \/ RenameProject(r) \/ RemoveProject(r)
  BY <1>7 DEF CreateProject, RenameProject, RemoveProject, InsertProject, UpdateProject,
              DeleteProject
<1>8. CASE KeepsRows(r)
  BY <1>8, <1>b, KeepsRowsIsSo
<1> QED
  BY StepCases, <1>1, <1>2, <1>3, <1>4, <1>5, <1>6, <1>7, <1>8 DEF KeepsRows

\* What a call may do to a project: an insertion or a rename under an editor's
\* check, a deletion under an owner's one, of the project or of its workspace.
LEMMA ProjectStep ==
  ASSUME TypeOK, NEW r \in Reqs, Handle(r), NEW p \in Projects, projects'[p] # projects[p]
  PROVE  /\ job'[r] # job[r] /\ job[r].ws \in Workspaces
         /\ \/ /\ At(r, "createProject") /\ projects[p] = None /\ p \notin spent
               /\ projects'[p] # None /\ projects'[p].ws = job[r].ws
            \/ /\ At(r, "renameProject") /\ p = job[r].arg
               /\ projects[p] # None
               /\ projects'[p] # None /\ projects'[p].ws = projects[p].ws
            \/ /\ At(r, "removeProject") /\ p = job[r].arg
               /\ projects[p] # None /\ projects'[p] = None /\ p \in spent'
            \/ /\ At(r, "deleteWorkspace") /\ projects[p].ws = job[r].ws
               /\ projects[p] # None /\ projects'[p] = None /\ p \in spent'
<1>0. /\ ~ At(r, "idle") => job[r].ws \in Workspaces
      /\ ~ At(r, "idle") /\ Answer(r) => job'[r] # job[r]
  BY AnswerJob DEF TypeOK, At, WellFormed, Idle
<1>1. CASE CreateProject(r)
  <2>1. PICK q \in Projects, name \in Names : InsertProject(job[r].ws, q, name)
    BY <1>1 DEF CreateProject
  <2>2. p = q /\ projects'[p] = [ws |-> job[r].ws, name |-> name]
    BY <2>1 DEF InsertProject, TypeOK
  <2>3. projects'[p] # None
    BY <1>0, <1>1, <2>2, WorkspaceAssumption DEF CreateProject, At
  <2> QED
    BY <1>0, <1>1, <2>1, <2>2, <2>3 DEF CreateProject, InsertProject, At
<1>2. CASE RenameProject(r)
  <2>1. PICK name \in Names : UpdateProject(job[r].arg, name)
    BY <1>2 DEF RenameProject
  <2>2. p = job[r].arg /\ projects[p] # None /\ projects[p] \in ProjectRecord
    BY <2>1 DEF UpdateProject, TypeOK
  <2>3. projects'[p] = [projects[p] EXCEPT !.name = name]
    BY <2>1, <2>2 DEF UpdateProject, TypeOK
  <2>4. projects'[p] \in ProjectRecord /\ projects'[p].ws = projects[p].ws
    BY <2>2, <2>3 DEF ProjectRecord
  <2>5. projects'[p] # None
    BY <2>4, WorkspaceAssumption DEF ProjectRecord
  <2> QED
    BY <1>0, <1>2, <2>2, <2>4, <2>5 DEF RenameProject, At
<1>3. CASE RemoveProject(r)
  BY <1>0, <1>3 DEF RemoveProject, DeleteProject, TypeOK, At
<1>4. CASE DeleteWorkspaceRow(r)
  BY <1>0, <1>4 DEF DeleteWorkspaceRow, DeleteWorkspace, TypeOK, At
<1>5. CASE CreateWorkspace(r) \/ UpdateWorkspace(r)
  BY <1>5 DEF CreateWorkspace, InsertWorkspace, UpdateWorkspace, UpdateName
<1>6. CASE Invite(r) \/ UpdateRole(r) \/ RemoveMember(r)
  BY <1>6 DEF Invite, UpdateRole, RemoveMember, UpdateMemberRole, DeleteMember, UpsertMember
<1>7. CASE KeepsRows(r)
  BY <1>7, KeepsRowsIsSo DEF rows
<1> QED
  BY StepCases, <1>1, <1>2, <1>3, <1>4, <1>5, <1>6, <1>7 DEF KeepsRows

\* NoOrphans: members and projects belong to a workspace that exists.
THEOREM NoOrphansHolds == Spec => []NoOrphans
<1>1. Init => NoOrphans
  BY DEF Init, NoOrphans
<1>2. TypeOK /\ NoOrphans /\ [Next]_vars => NoOrphans'
  <2>1. ASSUME TypeOK, NoOrphans, NEW r \in Reqs, Handle(r) PROVE NoOrphans'
    <3>1. CASE CreateWorkspace(r)
      <4>1. PICK u \in Users, w \in Workspaces, name \in Names : InsertWorkspace(w, name, u)
        BY <3>1 DEF CreateWorkspace
      <4>2. \A v \in Workspaces : workspaces[v] # None => workspaces'[v] # None
        BY <2>1, <4>1, WorkspaceAssumption DEF InsertWorkspace, TypeOK
      <4>3. \A v \in Workspaces, x \in Users : members'[v][x] # NoRole =>
              members[v][x] # NoRole \/ v = w
        BY <2>1, <4>1 DEF InsertWorkspace, TypeOK
      <4>4. workspaces'[w] # None
        BY <2>1, <4>1, WorkspaceAssumption DEF InsertWorkspace, TypeOK
      <4>5. projects' = projects
        BY <4>1 DEF InsertWorkspace
      <4>6. \A p \in Projects : projects[p] # None => projects[p].ws \in Workspaces
        BY <2>1 DEF TypeOK, ProjectRecord
      <4> QED
        BY <2>1, <4>2, <4>3, <4>4, <4>5, <4>6 DEF NoOrphans
    <3>2. CASE UpdateWorkspace(r)
      <4>1. PICK name \in Names : UpdateName(job[r].ws, name)
        BY <3>2 DEF UpdateWorkspace
      <4>2. \A v : workspaces[v] # None => workspaces'[v] # None
        BY <2>1, <4>1, WorkspaceAssumption DEF UpdateName, TypeOK
      <4> QED
        BY <2>1, <4>1, <4>2 DEF NoOrphans, UpdateName
    <3>3. CASE DeleteWorkspaceRow(r)
      <4>1. DeleteWorkspace(job[r].ws)
        BY <3>3 DEF DeleteWorkspaceRow
      <4>2. \A v \in Workspaces : v # job[r].ws => workspaces'[v] = workspaces[v]
        BY <2>1, <4>1 DEF DeleteWorkspace, TypeOK
      <4>3. \A v \in Workspaces, u \in Users :
              members'[v][u] # NoRole => members[v][u] # NoRole /\ v # job[r].ws
        BY <2>1, <4>1 DEF DeleteWorkspace, TypeOK
      <4>4. \A p \in Projects : projects'[p] # None =>
              projects'[p] = projects[p] /\ projects[p].ws # job[r].ws
        BY <2>1, <4>1 DEF DeleteWorkspace, TypeOK
      <4>5. \A p \in Projects : projects[p] # None => projects[p].ws \in Workspaces
        BY <2>1 DEF TypeOK, ProjectRecord
      <4> QED
        BY <2>1, <4>2, <4>3, <4>4, <4>5 DEF NoOrphans
    <3>4. ASSUME NEW w, NEW u \in Users, NEW role, UpsertMember(w, u, role),
                 w \in Workspaces => workspaces[w] # None
          PROVE  NoOrphans'
      <4>1. \A v \in Workspaces, x \in Users :
              members'[v][x] # NoRole => members[v][x] # NoRole \/ v = w
        BY <2>1, <3>4 DEF UpsertMember, TypeOK
      <4> QED
        BY <2>1, <3>4, <4>1 DEF NoOrphans, UpsertMember
    <3>5. CASE Invite(r)
      BY <3>4, <3>5 DEF Invite, FindWorkspaceById
    <3>6. CASE UpdateRole(r) \/ RemoveMember(r)
      BY <2>1, <3>4, <3>6 DEF UpdateRole, RemoveMember, UpdateMemberRole, DeleteMember,
                              FindMembership, NoOrphans
    <3>7. CASE CreateProject(r) \/ RenameProject(r) \/ RemoveProject(r)
      <4>1. workspaces' = workspaces /\ members' = members
        BY <3>7 DEF CreateProject, RenameProject, RemoveProject, InsertProject,
                    UpdateProject, DeleteProject
      <4>2. CreateProject(r) => workspaces[job[r].ws] # None
        BY DEF CreateProject, InsertProject, FindWorkspaceById
      <4>3. ~ At(r, "deleteWorkspace") /\ (At(r, "createProject") => CreateProject(r))
        BY <3>7 DEF CreateProject, RenameProject, RemoveProject, At
      <4>4. ASSUME NEW p \in Projects, projects'[p] # None
            PROVE  workspaces[projects'[p].ws] # None
        BY <2>1, <4>2, <4>3, <4>4, ProjectStep DEF NoOrphans
      <4> QED
        BY <2>1, <4>1, <4>4 DEF NoOrphans
    <3>8. CASE KeepsRows(r)
      BY <2>1, <3>8, KeepsRowsIsSo DEF rows, NoOrphans
    <3> QED
      BY <2>1, <3>1, <3>2, <3>3, <3>5, <3>6, <3>7, <3>8, StepCases DEF KeepsRows
  <2>2. ASSUME NoOrphans, UNCHANGED vars PROVE NoOrphans'
    BY <2>2 DEF NoOrphans, vars
  <2> QED
    BY <2>1, <2>2 DEF Next
<1> QED
  BY <1>1, <1>2, TypeCorrect, PTL DEF Spec

------------------------------------------------------------------------------
(* Events.                                                                 *)

\* Announced: until a publication fails, a change whose event is still to be sent
\* has a request about to send it.
THEOREM AnnouncedHolds == Spec => []Announced
<1>1. Init => Announced
  BY DEF Init, Announced
<1>2. TypeOK /\ Announced /\ [Next]_vars => Announced'
  <2>1. ASSUME TypeOK, Announced, NEW r \in Reqs, Handle(r), lost' = FALSE,
               NEW w \in Workspaces, NEW u \in Users, <<w, u>> \in silent'
        PROVE  \E q \in Reqs : Publishing(q)' /\ Announcement(q)' = <<w, u>>
    <3> DEFINE Sender(q) == Publishing(q) /\ Announcement(q) = <<w, u>>
    <3>0. job[r] \in Job
      BY <2>1 DEF TypeOK
    <3>a. ASSUME <<w, u>> \in silent, lost = FALSE, ~ Publishing(r) \/ Announcement(r) # <<w, u>>,
                 \A q \in Reqs : q # r => job'[q] = job[q]
          PROVE  \E q \in Reqs : Sender(q)'
      <4>1. PICK q \in Reqs : Sender(q)
        BY <2>1, <3>a DEF Announced
      <4>2. job'[q] = job[q]
        BY <3>a, <4>1
      <4> QED
        BY <4>1, <4>2 DEF Publishing, Announcement
    <3>b. Answer(r) => \A q \in Reqs : q # r => job'[q] = job[q]
      BY <2>1, AnswerJob
    <3>1. CASE \E topic : PublishWorkspaceEvent(r, topic)
      BY <2>1, <3>1, <3>a, <3>b DEF PublishWorkspaceEvent
    <3>2. CASE Abort(r)
      <4>1. lost \in BOOLEAN
        BY <2>1 DEF TypeOK
      <4>2. lost = FALSE /\ ~ Publishing(r) /\ silent' = silent
        BY <2>1, <3>2, <4>1 DEF Abort, Publishing
      <4> QED
        BY <2>1, <3>2, <3>a, <3>b, <4>2 DEF Abort
    <3>3. CASE CreateWorkspace(r)
      <4>1. PICK x \in Users, v \in Workspaces :
              /\ job' = [job EXCEPT ![r] = [step |-> "workspace.created", user |-> x,
                                            ws |-> v, arg |-> x]]
              /\ Unannounced({<<v, x>>})
        BY <3>3 DEF CreateWorkspace
      <4>2. /\ \A q \in Reqs : q # r => job'[q] = job[q]
            /\ job'[r] = [step |-> "workspace.created", user |-> x, ws |-> v, arg |-> x]
        BY <2>1, <4>1, NewJob DEF Steps
      <4>3. ~ Publishing(r)
        BY <3>3 DEF CreateWorkspace, At, Publishing
      <4>4. CASE <<w, u>> \in silent
        BY <2>1, <3>a, <4>1, <4>2, <4>3, <4>4 DEF Unannounced
      <4>5. CASE <<w, u>> = <<v, x>>
        BY <2>1, <4>2, <4>5 DEF Publishing, Announcement
      <4> QED
        BY <2>1, <4>1, <4>4, <4>5 DEF Unannounced
    <3>4. CASE Invite(r)
      <4>1. PICK x \in Users :
              /\ job' = [job EXCEPT ![r].step = "workspace.member.invited", ![r].arg = x]
              /\ Unannounced({<<job[r].ws, x>>})
        BY <3>4 DEF Invite
      <4>2. /\ \A q \in Reqs : q # r => job'[q] = job[q]
            /\ job'[r] = [job[r] EXCEPT !.step = "workspace.member.invited", !.arg = x]
        BY <2>1, <3>4, <4>1, AdvanceJobWith DEF Invite, At
      <4>3. ~ Publishing(r)
        BY <3>4 DEF Invite, At, Publishing
      <4>4. CASE <<w, u>> \in silent
        BY <2>1, <3>a, <4>1, <4>2, <4>3, <4>4 DEF Unannounced
      <4>5. CASE <<w, u>> = <<job[r].ws, x>>
        BY <2>1, <3>0, <4>2, <4>5 DEF Publishing, Announcement, Job
      <4> QED
        BY <2>1, <4>1, <4>4, <4>5 DEF Unannounced
    <3>5. ASSUME NEW step, RequireRole(r, {"Owner"}, step) \/ RequireRole(r, {"Owner", "Editor"}, step)
          PROVE  \E q \in Reqs : Sender(q)'
      BY <2>1, <3>5, <3>a DEF RequireRole, events, At, Publishing, TypeOK
    <3>6. CASE InviteFind(r)
      BY <2>1, <3>6, <3>a, <3>b DEF InviteFind, Goto, events, At, Publishing, TypeOK
    <3>7. ASSUME NEW step \in {"updateProject", "deleteProject"}, NEW next,
                 ProjectFind(r, step, next)
          PROVE  \E q \in Reqs : Sender(q)'
      BY <2>1, <3>7, <3>a, <3>b DEF ProjectFind, events, At, Publishing, TypeOK
    <3>8. CASE UpdateWorkspace(r) \/ UpdateRole(r) \/ CreateProject(r) \/ RenameProject(r)
               \/ RemoveProject(r)
      BY <2>1, <3>8, <3>a, <3>b DEF UpdateWorkspace, UpdateRole, CreateProject, RenameProject,
         RemoveProject, events, At, Publishing
    <3>9. CASE DeleteWorkspaceRow(r) \/ RemoveMember(r)
      BY <2>1, <3>9, <3>a, <3>b DEF DeleteWorkspaceRow, RemoveMember, Forget, At, Publishing
    <3> QED
      BY <2>1, <3>1, <3>2, <3>3, <3>4, <3>5, <3>6, <3>7, <3>8, <3>9, StepCases
  <2>2. ASSUME Announced, UNCHANGED vars PROVE Announced'
    BY <2>2 DEF Announced, vars, Publishing, Announcement
  <2>3. ASSUME TypeOK, Announced, NEW r \in Reqs, Handle(r) PROVE Announced'
    BY <2>1, <2>3, StepTyped DEF Announced
  <2> QED
    BY <2>2, <2>3 DEF Next
<1> QED
  BY <1>1, <1>2, TypeCorrect, PTL DEF Spec

------------------------------------------------------------------------------
(* Permissions.                                                            *)

\* What a request that is past its check has established, and still holds: the
\* roles its user had, and where its project is unless it is gone for good.
Established(r) ==
  /\ job[r].step \in OwnerSteps => "Owner" \in held[r]
  /\ job[r].step \in {"createProject", "updateProject", "renameProject"}
       => held[r] \cap {"Owner", "Editor"} # {}
  /\ job[r].step \in {"renameProject", "removeProject"}
       => IF projects[job[r].arg] = None
          THEN job[r].arg \in spent
          ELSE projects[job[r].arg].ws = job[r].ws

Permits == \A r \in Reqs : Established(r)

\* Deleted projects stay deleted, and a project stays in its workspace.
LEMMA ProjectStays ==
  ASSUME TypeOK, NEW r \in Reqs, Handle(r), NEW p \in Projects, NEW w,
         IF projects[p] = None THEN p \in spent ELSE projects[p].ws = w
  PROVE  IF projects'[p] = None THEN p \in spent' ELSE projects'[p].ws = w
<1>1. spent \subseteq spent'
  <2>1. CreateWorkspace(r) \/ UpdateWorkspace(r) => spent' = spent
    BY DEF CreateWorkspace, InsertWorkspace, UpdateWorkspace, UpdateName
  <2>2. DeleteWorkspaceRow(r) \/ RemoveProject(r) => spent \subseteq spent'
    BY DEF DeleteWorkspaceRow, DeleteWorkspace, RemoveProject, DeleteProject
  <2>3. Invite(r) \/ UpdateRole(r) \/ RemoveMember(r) => spent' = spent
    BY DEF Invite, UpdateRole, RemoveMember, UpdateMemberRole, DeleteMember, UpsertMember
  <2>4. CreateProject(r) \/ RenameProject(r) => spent' = spent
    BY DEF CreateProject, RenameProject, InsertProject, UpdateProject
  <2>5. KeepsRows(r) => spent' = spent
    BY KeepsRowsIsSo DEF rows
  <2> QED
    BY <2>1, <2>2, <2>3, <2>4, <2>5, StepCases DEF KeepsRows
<1> QED
  BY <1>1, ProjectStep

\* How the request that moves gets to its next step.
JobMoves(r) ==
  /\ \A q \in Reqs : q # r => job'[q] = job[q]
  /\ \/ job'[r].step \in {"idle", "workspace.created", "workspace.member.invited"}
     \/ /\ At(r, "idle") /\ UNCHANGED rows
        /\ job'[r].ws \in Workspaces /\ job'[r].user \in Users
        /\ \/ /\ job'[r].step \in OwnerChecked
              /\ members[job'[r].ws][job'[r].user] = "Owner"
           \/ /\ job'[r].step \in EditorChecked
              /\ members[job'[r].ws][job'[r].user] \in {"Owner", "Editor"}
     \/ /\ UNCHANGED rows
        /\ job'[r].ws = job[r].ws /\ job'[r].user = job[r].user
        /\ \/ At(r, "inviteMember") /\ job'[r].step = "upsertMember"
           \/ /\ \/ At(r, "updateProject") /\ job'[r].step = "renameProject"
                 \/ At(r, "deleteProject") /\ job'[r].step = "removeProject"
              /\ job'[r].arg \in Projects
              /\ projects[job'[r].arg] # None
              /\ projects[job'[r].arg].ws = job[r].ws

LEMMA JobStep == ASSUME TypeOK, NEW r \in Reqs, Handle(r) PROVE JobMoves(r)
<1>0. job[r] \in Job
  BY DEF TypeOK
<1>1. ASSUME Answer(r)
      PROVE  job'[r].step = "idle" /\ \A q \in Reqs : q # r => job'[q] = job[q]
  BY <1>1, AnswerJob DEF Idle
<1>2. ASSUME NEW allowed, NEW step \in OwnerChecked \cup EditorChecked, RequireRole(r, allowed, step)
      PROVE  /\ \A q \in Reqs : q # r => job'[q] = job[q]
             /\ At(r, "idle") /\ UNCHANGED rows
             /\ job'[r].ws \in Workspaces /\ job'[r].user \in Users /\ job'[r].step = step
             /\ members[job'[r].ws][job'[r].user] \in allowed
  <2>1. PICK u \in Users, w \in Workspaces :
          /\ members[w][u] \in allowed
          /\ job' = [job EXCEPT ![r] = [step |-> step, user |-> u, ws |-> w, arg |-> None]]
    BY <1>2 DEF RequireRole, FindMembership
  <2>2. /\ job'[r] = [step |-> step, user |-> u, ws |-> w, arg |-> None]
        /\ \A q \in Reqs : q # r => job'[q] = job[q]
    BY <2>1, NewJob DEF OwnerChecked, EditorChecked, Steps
  <2> QED
    BY <1>2, <2>1, <2>2 DEF RequireRole
<1>3. CASE CreateWorkspace(r)
  <2>1. PICK u \in Users, w \in Workspaces :
          job' = [job EXCEPT ![r] = [step |-> "workspace.created", user |-> u,
                                     ws |-> w, arg |-> u]]
    BY <1>3 DEF CreateWorkspace
  <2> QED
    BY <2>1, NewJob DEF Steps, JobMoves
<1>4. CASE Invite(r)
  <2>1. PICK u \in Users :
          job' = [job EXCEPT ![r].step = "workspace.member.invited", ![r].arg = u]
    BY <1>4 DEF Invite
  <2>2. /\ job'[r] = [job[r] EXCEPT !.step = "workspace.member.invited", !.arg = u]
        /\ \A q \in Reqs : q # r => job'[q] = job[q]
    BY <1>4, <2>1, AdvanceJobWith DEF Invite, At
  <2> QED
    BY <1>0, <2>2 DEF Job, JobMoves
<1>5. CASE InviteFind(r)
  <2>1. CASE Answer(r)
    BY <1>1, <2>1 DEF JobMoves
  <2>2. CASE Goto(r, "upsertMember")
    <3>1. /\ job'[r] = [job[r] EXCEPT !.step = "upsertMember"]
          /\ \A q \in Reqs : q # r => job'[q] = job[q]
      BY <1>5, <2>2, AdvanceJob DEF InviteFind, At, Steps
    <3> QED
      BY <1>0, <1>5, <3>1 DEF InviteFind, Job, JobMoves
  <2> QED
    BY <1>5, <2>1, <2>2 DEF InviteFind
<1>6. ASSUME NEW step \in {"updateProject", "deleteProject"},
             NEW next \in {"renameProject", "removeProject"}, ProjectFind(r, step, next)
      PROVE  /\ \A q \in Reqs : q # r => job'[q] = job[q]
             /\ \/ job'[r].step = "idle"
                \/ /\ UNCHANGED rows /\ At(r, step) /\ job'[r].step = next
                   /\ job'[r].ws = job[r].ws /\ job'[r].user = job[r].user
                   /\ job'[r].arg \in Projects
                   /\ projects[job'[r].arg] # None
                   /\ projects[job'[r].arg].ws = job[r].ws
  <2>1. CASE Answer(r)
    BY <1>1, <2>1
  <2>2. ASSUME NEW p \in Projects, FindProject(job[r].ws, p),
               job' = [job EXCEPT ![r].step = next, ![r].arg = p]
        PROVE  /\ \A q \in Reqs : q # r => job'[q] = job[q]
               /\ UNCHANGED rows /\ At(r, step) /\ job'[r].step = next
               /\ job'[r].ws = job[r].ws /\ job'[r].user = job[r].user
               /\ job'[r].arg \in Projects
               /\ projects[job'[r].arg] # None
               /\ projects[job'[r].arg].ws = job[r].ws
    <3>1. /\ job'[r] = [job[r] EXCEPT !.step = next, !.arg = p]
          /\ \A q \in Reqs : q # r => job'[q] = job[q]
      BY <1>6, <2>2, AdvanceJobWith DEF ProjectFind, At
    <3>2. job'[r].step = next /\ job'[r].arg = p /\ job'[r].ws = job[r].ws
          /\ job'[r].user = job[r].user
      BY <1>0, <3>1 DEF Job
    <3> QED
      BY <1>6, <2>2, <3>1, <3>2 DEF ProjectFind, FindProject
  <2> QED
    BY <1>6, <2>1, <2>2 DEF ProjectFind
<1>7. UpdateWorkspace(r) \/ UpdateRole(r) \/ CreateProject(r) \/ RenameProject(r)
      \/ RemoveProject(r) => Answer(r)
  BY DEF UpdateWorkspace, UpdateRole, CreateProject, RenameProject, RemoveProject
<1>8. (\/ DeleteWorkspaceRow(r) \/ RemoveMember(r) \/ Abort(r)
       \/ PublishWorkspaceEvent(r, "workspace.created")
       \/ PublishWorkspaceEvent(r, "workspace.member.invited")) => Answer(r)
  BY DEF DeleteWorkspaceRow, RemoveMember, Abort, PublishWorkspaceEvent
<1>9. CASE Answer(r)
  BY <1>1, <1>9 DEF JobMoves
<1>10. CASE \E step \in OwnerChecked : RequireRole(r, {"Owner"}, step)
  BY <1>2, <1>10 DEF JobMoves
<1>11. CASE \E step \in EditorChecked : RequireRole(r, {"Owner", "Editor"}, step)
  BY <1>2, <1>11 DEF JobMoves
<1>12. CASE \/ ProjectFind(r, "updateProject", "renameProject")
            \/ ProjectFind(r, "deleteProject", "removeProject")
  BY <1>6, <1>12 DEF JobMoves
<1>13. \/ \E step \in OwnerChecked : RequireRole(r, {"Owner"}, step)
       \/ \E step \in EditorChecked : RequireRole(r, {"Owner", "Editor"}, step)
       \/ CreateWorkspace(r) \/ Invite(r) \/ InviteFind(r) \/ Answer(r)
       \/ ProjectFind(r, "updateProject", "renameProject")
       \/ ProjectFind(r, "deleteProject", "removeProject")
  BY StepCases, <1>7, <1>8
<1> QED
  BY <1>3, <1>4, <1>5, <1>9, <1>10, <1>11, <1>12, <1>13

\* Permits is kept by every step.
LEMMA PermitsStep ==
  ASSUME TypeOK, Permits, NEW r \in Reqs, Handle(r), Observe
  PROVE  Permits'
<1>1. \A q \in Reqs : q # r => job'[q] = job[q]
  BY JobStep DEF JobMoves
<1>2. \A q \in Reqs : job'[q].step # "idle" => held[q] \subseteq held'[q]
  BY DEF Observe
<1>3. ASSUME NEW q \in Reqs, job'[q] = job[q]
      PROVE  Established(q)'
  <2>1. Established(q)
    BY DEF Permits
  <2>2. job'[q].step \in OwnerSteps => "Owner" \in held'[q]
    BY <1>2, <1>3, <2>1 DEF Established, OwnerSteps
  <2>3. job'[q].step \in {"createProject", "updateProject", "renameProject"}
          => held'[q] \cap {"Owner", "Editor"} # {}
    BY <1>2, <1>3, <2>1 DEF Established
  <2>4. ASSUME job[q].step \in {"renameProject", "removeProject"}
        PROVE  IF projects'[job[q].arg] = None
               THEN job[q].arg \in spent'
               ELSE projects'[job[q].arg].ws = job[q].ws
    <3>1. job[q].arg \in Projects
      BY <2>4 DEF TypeOK, WellFormed
    <3> QED
      BY <2>1, <2>4, <3>1, ProjectStays DEF Established
  <2> QED
    BY <1>3, <2>2, <2>3, <2>4 DEF Established
<1>4. Established(r)'
  <2>0. Established(r)
    BY DEF Permits
  <2>1. CASE job'[r].step \in {"idle", "workspace.created", "workspace.member.invited"}
    BY <2>1 DEF Established, OwnerSteps
  <2>2. CASE /\ At(r, "idle") /\ UNCHANGED rows
             /\ job'[r].ws \in Workspaces /\ job'[r].user \in Users
             /\ \/ /\ job'[r].step \in OwnerChecked
                   /\ members[job'[r].ws][job'[r].user] = "Owner"
                \/ /\ job'[r].step \in EditorChecked
                   /\ members[job'[r].ws][job'[r].user] \in {"Owner", "Editor"}
    <3>1. job'[r].step # "idle"
      BY <2>2 DEF OwnerChecked, EditorChecked
    <3>2. members[job'[r].ws][job'[r].user] \in {"Owner", "Editor"}
            => members[job'[r].ws][job'[r].user] \in held'[r]
      BY <2>2, <3>1 DEF Observe, rows
    <3> QED
      BY <2>2, <3>2 DEF Established, OwnerChecked, EditorChecked, OwnerSteps
  <2>3. CASE UNCHANGED rows /\ At(r, "inviteMember") /\ job'[r].step = "upsertMember"
    BY <1>2, <2>0, <2>3 DEF Established, At, OwnerSteps
  <2>4. CASE /\ UNCHANGED rows /\ job'[r].ws = job[r].ws
             /\ \/ At(r, "updateProject") /\ job'[r].step = "renameProject"
                \/ At(r, "deleteProject") /\ job'[r].step = "removeProject"
             /\ job'[r].arg \in Projects
             /\ projects[job'[r].arg] # None
             /\ projects[job'[r].arg].ws = job[r].ws
    BY <1>2, <2>0, <2>4 DEF Established, At, OwnerSteps, rows
  <2> QED
    BY <2>1, <2>2, <2>3, <2>4, JobStep DEF JobMoves
<1> QED
  BY <1>1, <1>3, <1>4 DEF Permits

\* ChangePermitted: whatever is changed while a request runs, it writes where the
\* check it passed allowed it to.
THEOREM ChangePermittedHolds == Spec => ChangePermitted
<1>1. Init => Permits
  BY DEF Init, Permits, Established, Idle, OwnerSteps
<1>2. TypeOK /\ Permits /\ [Next]_vars => Permits'
  <2>1. ASSUME Permits, UNCHANGED vars PROVE Permits'
    BY <2>1 DEF Permits, Established, vars
  <2> QED
    BY <2>1, PermitsStep DEF Next
<1> DEFINE
  OK == /\ \A w \in Workspaces :
             /\ workspaces[w] # None
             /\ workspaces'[w] # workspaces[w] \/ members'[w] # members[w]
             => \E q \in Reqs : Acted(q) /\ HadRole(q, w, {"Owner"})
        /\ \A p \in Projects :
             /\ projects'[p] # projects[p]
             => \E q \in Reqs :
                  /\ Acted(q)
                  /\ IF projects'[p] = None
                     THEN HadRole(q, projects[p].ws, {"Owner"})
                     ELSE HadRole(q, projects'[p].ws, {"Owner", "Editor"})
  WsOK == \A w \in Workspaces :
            /\ workspaces[w] # None
            /\ workspaces'[w] # workspaces[w] \/ members'[w] # members[w]
            => \E q \in Reqs : Acted(q) /\ HadRole(q, w, {"Owner"})
  ProjectOK == \A p \in Projects :
            /\ projects'[p] # projects[p]
            => \E q \in Reqs :
                 /\ Acted(q)
                 /\ IF projects'[p] = None
                    THEN HadRole(q, projects[p].ws, {"Owner"})
                    ELSE HadRole(q, projects'[p].ws, {"Owner", "Editor"})
<1>3. TypeOK /\ Permits /\ [Next]_vars => [OK]_vars
  <2>1. ASSUME TypeOK, Permits, NEW r \in Reqs, Handle(r) PROVE WsOK
    <3>1. ASSUME NEW w \in Workspaces, workspaces[w] # None,
                 workspaces'[w] # workspaces[w] \/ members'[w] # members[w]
          PROVE  Acted(r) /\ HadRole(r, w, {"Owner"})
      <4>1. job[r].ws = w /\ job[r].step \in OwnerSteps /\ job'[r] # job[r]
        BY <2>1, <3>1, WorkspaceStep
      <4> QED
        BY <2>1, <4>1 DEF Permits, Established, Acted, HadRole, At, OwnerSteps
    <3> QED
      BY <3>1
  <2>2. ASSUME TypeOK, Permits, NEW r \in Reqs, Handle(r) PROVE ProjectOK
    <3>1. ASSUME NEW p \in Projects, projects'[p] # projects[p]
          PROVE  /\ Acted(r)
                 /\ IF projects'[p] = None
                    THEN HadRole(r, projects[p].ws, {"Owner"})
                    ELSE HadRole(r, projects'[p].ws, {"Owner", "Editor"})
      <4>1. Established(r)
        BY <2>2 DEF Permits
      <4> QED
        BY <2>2, <3>1, <4>1, ProjectStep DEF Established, Acted, HadRole, At, OwnerSteps
    <3> QED
      BY <3>1
  <2> QED
    BY <2>1, <2>2 DEF Next
<1>4. ChangePermitted <=> [][OK]_vars
  BY DEF ChangePermitted
<1> HIDE DEF OK
<1> QED
  BY <1>1, <1>2, <1>3, <1>4, TypeCorrect, PTL DEF Spec

\* AbandonedForGood: without an owner, and without a request past an owner's
\* check, a workspace and its members never change again.
THEOREM AbandonedForGoodHolds == Spec => AbandonedForGood
<1> DEFINE Frozen ==
      \A w \in Workspaces : Abandoned(w) =>
        Abandoned(w)' /\ UNCHANGED <<workspaces[w], members[w]>>
<1>1. TypeOK /\ [Next]_vars => [Frozen]_vars
  <2>1. ASSUME TypeOK, NEW r \in Reqs, Handle(r), NEW w \in Workspaces, Abandoned(w)
        PROVE  Abandoned(w)' /\ UNCHANGED <<workspaces[w], members[w]>>
    <3>1. workspaces'[w] = workspaces[w] /\ members'[w] = members[w]
      BY <2>1, WorkspaceStep DEF Abandoned
    <3>2. ASSUME NEW q \in Reqs, job'[q].ws = w, job'[q].step \in OwnerSteps
          PROVE  FALSE
      <4>1. q # r => job'[q] = job[q]
        BY <2>1, JobStep DEF JobMoves
      <4>2. q = r
        BY <2>1, <3>2, <4>1 DEF Abandoned
      <4> QED
        BY <2>1, <3>2, <4>2, JobStep DEF JobMoves, Abandoned, OwnerSteps, EditorChecked, At
    <3> QED
      BY <2>1, <3>1, <3>2 DEF Abandoned
  <2> QED
    BY <2>1 DEF Next
<1>2. AbandonedForGood <=> [][Frozen]_vars
  BY DEF AbandonedForGood
<1> HIDE DEF Frozen
<1> QED
  BY <1>1, <1>2, TypeCorrect, PTL DEF Spec
==============================================================================
