------------------------------ MODULE Workspace ------------------------------
(***************************************************************************)
(* The workspace service: workspaces, their members with roles, and their  *)
(* projects.  A handler is the chain of the calls its service awaits: the  *)
(* role check, perhaps a lookup, the write, perhaps an event to QStash.    *)
(* Each call is one action, so a role may change, and a row go away,       *)
(* between any two calls of a request.  Only createWorkspace uses a        *)
(* transaction.                                                            *)
(*                                                                         *)
(* What a request names beside its workspace (the member, the role, the    *)
(* project) is chosen by the first call that uses it.  Ids are fresh:      *)
(* spent holds the ids of deleted rows.                                    *)
(***************************************************************************)
CONSTANTS Users, Workspaces, Projects, Names, Reqs, None

ASSUME WorkspaceAssumption ==
  None \notin Users \cup Workspaces \cup Projects \cup Names \cup [ws : Workspaces, name : Names]

VARIABLES
  workspaces, \* the name in the Workspace row of each id, None without a row
  members,    \* the role in the WorkspaceMember row of a workspace and a user
  projects,   \* the Project row of each id
  spent,      \* the ids of deleted workspaces and projects
  job,        \* the requests being served
  held,       \* history: the writing roles the user of a request had since its check
  lost,       \* history: whether a publication has failed
  silent      \* history: until then, the members whose event is not published

rows == <<workspaces, members, projects, spent>>
events == <<lost, silent>>
vars == <<workspaces, members, projects, spent, job, held, lost, silent>>

Roles == {"Owner", "Editor", "Viewer"}
NoRole == "none"

ProjectRecord == [ws : Workspaces, name : Names]

Idle == [step |-> "idle", user |-> None, ws |-> None, arg |-> None]

Init ==
  /\ workspaces = [w \in Workspaces |-> None]
  /\ members = [w \in Workspaces |-> [u \in Users |-> NoRole]]
  /\ projects = [p \in Projects |-> None]
  /\ spent = {}
  /\ job = [r \in Reqs |-> Idle]
  /\ held = [r \in Reqs |-> {}]
  /\ lost = FALSE
  /\ silent = {}

At(r, step) == job[r].step = step

Goto(r, step) == job' = [job EXCEPT ![r].step = step]

\* The request is answered: with success, or by errorMiddleware.
Answer(r) == job' = [job EXCEPT ![r] = Idle]

------------------------------------------------------------------------------
(* authorization.service: the first call of all handlers but two.          *)

FindMembership(w, u) == members[w][u]

RequireRole(r, allowed, step) ==
  /\ At(r, "idle")
  /\ \E u \in Users, w \in Workspaces :
       /\ FindMembership(w, u) \in allowed              \* otherwise 403
       /\ job' = [job EXCEPT ![r] = [step |-> step, user |-> u, ws |-> w, arg |-> None]]
  /\ UNCHANGED rows /\ UNCHANGED events

------------------------------------------------------------------------------
(* The repositories.  A write to a row that is gone throws, and so does an *)
(* insertion that refers to a workspace that is gone: Abort is all that is *)
(* left to the request then.                                               *)

FindWorkspaceById(w) == workspaces[w] # None

FindProjectAnywhere(w, p) == projects[p] # None  \* mutant: the workspace is not compared

FindProject(w, p) == projects[p] # None /\ projects[p].ws = w

UpsertMember(w, u, role) ==
  /\ members' = [members EXCEPT ![w][u] = role]
  /\ UNCHANGED <<workspaces, projects, spent>>

UpdateMemberRole(w, u, role) == FindMembership(w, u) # NoRole /\ UpsertMember(w, u, role)

DeleteMember(w, u) == FindMembership(w, u) # NoRole /\ UpsertMember(w, u, NoRole)

\* Both rows in one transaction.
InsertWorkspace(w, name, owner) ==
  /\ workspaces[w] = None /\ w \notin spent
  /\ workspaces' = [workspaces EXCEPT ![w] = name]
  /\ members' = [members EXCEPT ![w][owner] = "Owner"]
  /\ UNCHANGED <<projects, spent>>

UpdateName(w, name) ==
  /\ FindWorkspaceById(w)
  /\ workspaces' = [workspaces EXCEPT ![w] = name]
  /\ UNCHANGED <<members, projects, spent>>

\* mutant: the projects stay
DeleteWorkspaceOnly(w) ==
  /\ FindWorkspaceById(w)
  /\ workspaces' = [workspaces EXCEPT ![w] = None]
  /\ members' = [members EXCEPT ![w] = [u \in Users |-> NoRole]]
  /\ spent' = spent \cup {w}
  /\ UNCHANGED projects

\* The schema cascades to the members and the projects.
DeleteWorkspace(w) ==
  LET inside == {p \in Projects : projects[p] # None /\ projects[p].ws = w} IN
  /\ FindWorkspaceById(w)
  /\ workspaces' = [workspaces EXCEPT ![w] = None]
  /\ members' = [members EXCEPT ![w] = [u \in Users |-> NoRole]]
  /\ projects' = [p \in Projects |-> IF p \in inside THEN None ELSE projects[p]]
  /\ spent' = spent \cup {w} \cup inside

InsertProject(w, p, name) ==
  /\ FindWorkspaceById(w)
  /\ projects[p] = None /\ p \notin spent
  /\ projects' = [projects EXCEPT ![p] = [ws |-> w, name |-> name]]
  /\ UNCHANGED <<workspaces, members, spent>>

\* By id alone: the workspace was compared by the lookup before.
UpdateProject(p, name) ==
  /\ projects[p] # None
  /\ projects' = [projects EXCEPT ![p].name = name]
  /\ UNCHANGED <<workspaces, members, spent>>

DeleteProject(p) ==
  /\ projects[p] # None
  /\ projects' = [projects EXCEPT ![p] = None]
  /\ spent' = spent \cup {p}
  /\ UNCHANGED <<workspaces, members>>
------------------------------------------------------------------------------
(* Events.                                                                 *)

Publishing(r) == job[r].step \in {"workspace.created", "workspace.member.invited"}

Announcement(r) == <<job[r].ws, job[r].arg>>

\* The last call of the two handlers that publish.
PublishWorkspaceEvent(r, topic) ==
  /\ At(r, topic)
  /\ silent' = silent \ {Announcement(r)}
  /\ Answer(r)
  /\ UNCHANGED rows /\ UNCHANGED lost

\* A call throws or the process stops.  What the request has written stays, and
\* nothing publishes its event later.
Abort(r) ==
  /\ ~ At(r, "idle")
  /\ Answer(r)
  /\ lost' = (lost \/ Publishing(r))
  /\ silent' = IF lost' THEN {} ELSE silent
  /\ UNCHANGED rows

\* The history of a change of these members: their events are still to be sent.
Unannounced(new) == silent' = (IF lost THEN {} ELSE silent \cup new) /\ UNCHANGED lost

\* Members that are gone need no event.
Forget(old) == silent' = silent \ old /\ UNCHANGED lost

------------------------------------------------------------------------------
(* workspace.service.                                                      *)

CreateWorkspace(r) ==
  /\ At(r, "idle")
  /\ \E u \in Users, w \in Workspaces, name \in Names :
       /\ InsertWorkspace(w, name, u)
       /\ job' = [job EXCEPT ![r] = [step |-> "workspace.created", user |-> u,
                                     ws |-> w, arg |-> u]]
       /\ Unannounced({<<w, u>>})

CreateWorkspaceHandler(r) ==
  \/ CreateWorkspace(r)
  \/ PublishWorkspaceEvent(r, "workspace.created")

UpdateWorkspace(r) ==
  /\ At(r, "updateWorkspace")
  /\ \E name \in Names : UpdateName(job[r].ws, name)
  /\ Answer(r) /\ UNCHANGED events

UpdateWorkspaceHandler(r) ==
  RequireRole(r, {"Owner"}, "updateWorkspace") \/ UpdateWorkspace(r)

DeleteWorkspaceRow(r) ==
  /\ At(r, "deleteWorkspace")
  /\ DeleteWorkspace(job[r].ws)
  /\ Forget({job[r].ws} \X Users)
  /\ Answer(r)

DeleteWorkspaceHandler(r) ==
  RequireRole(r, {"Owner"}, "deleteWorkspace") \/ DeleteWorkspaceRow(r)

------------------------------------------------------------------------------
(* member.service.                                                         *)

InviteFind(r) ==
  /\ At(r, "inviteMember")
  /\ IF FindWorkspaceById(job[r].ws) THEN Goto(r, "upsertMember") ELSE Answer(r)
  /\ UNCHANGED rows /\ UNCHANGED events

InviteQuietly(r) ==                  \* mutant: a new role of a member is not announced
  LET w == job[r].ws IN
  /\ At(r, "upsertMember")
  /\ FindWorkspaceById(w)
  /\ \E u \in Users, role \in Roles :
       /\ UpsertMember(w, u, role)
       /\ IF FindMembership(w, u) = NoRole
          THEN job' = [job EXCEPT ![r].step = "workspace.member.invited", ![r].arg = u]
          ELSE Answer(r)
       /\ Unannounced({<<w, u>>})

Invite(r) ==
  LET w == job[r].ws IN
  /\ At(r, "upsertMember")
  /\ FindWorkspaceById(w)                      \* the foreign key
  /\ \E u \in Users, role \in Roles :
       /\ UpsertMember(w, u, role)
       /\ job' = [job EXCEPT ![r].step = "workspace.member.invited", ![r].arg = u]
       /\ Unannounced({<<w, u>>})

InviteMemberHandler(r) ==
  \/ RequireRole(r, {"Owner"}, "inviteMember")
  \/ InviteFind(r)
  \/ Invite(r)
  \/ PublishWorkspaceEvent(r, "workspace.member.invited")

UpdateRole(r) ==
  /\ At(r, "updateMemberRole")
  /\ \E u \in Users, role \in Roles : UpdateMemberRole(job[r].ws, u, role)
  /\ Answer(r) /\ UNCHANGED events

UpdateMemberRoleHandler(r) ==
  RequireRole(r, {"Owner"}, "updateMemberRole") \/ UpdateRole(r)

RemoveMember(r) ==
  /\ At(r, "removeMember")
  /\ \E u \in Users : DeleteMember(job[r].ws, u) /\ Forget({<<job[r].ws, u>>})
  /\ Answer(r)

RemoveMemberByEditor(r) ==           \* mutant: the list of roles of another handler
  RequireRole(r, {"Owner", "Editor"}, "removeMember") \/ RemoveMember(r)

RemoveMemberHandler(r) ==
  RequireRole(r, {"Owner"}, "removeMember") \/ RemoveMember(r)

------------------------------------------------------------------------------
(* project.service.                                                        *)

CreateProject(r) ==
  /\ At(r, "createProject")
  /\ \E p \in Projects, name \in Names : InsertProject(job[r].ws, p, name)
  /\ Answer(r) /\ UNCHANGED events

CreateProjectHandler(r) ==
  RequireRole(r, {"Owner", "Editor"}, "createProject") \/ CreateProject(r)

\* mutant: the project found is not remembered
ProjectFindForgotten(r, step, next) ==
  /\ At(r, step)
  /\ \E p \in Projects : IF FindProject(job[r].ws, p) THEN Goto(r, next) ELSE Answer(r)
  /\ UNCHANGED rows /\ UNCHANGED events

\* The lookup that precedes a rename or a deletion.
ProjectFind(r, step, next) ==
  /\ At(r, step)
  /\ \E p \in Projects :
       IF FindProject(job[r].ws, p)
       THEN job' = [job EXCEPT ![r].step = next, ![r].arg = p]
       ELSE Answer(r)
  /\ UNCHANGED rows /\ UNCHANGED events

RenameProject(r) ==
  /\ At(r, "renameProject")
  /\ \E name \in Names : UpdateProject(job[r].arg, name)
  /\ Answer(r) /\ UNCHANGED events

UpdateProjectHandler(r) ==
  \/ RequireRole(r, {"Owner", "Editor"}, "updateProject")
  \/ ProjectFind(r, "updateProject", "renameProject")
  \/ RenameProject(r)

RemoveProject(r) ==
  /\ At(r, "removeProject")
  /\ DeleteProject(job[r].arg)
  /\ Answer(r) /\ UNCHANGED events

DeleteProjectHandler(r) ==
  \/ RequireRole(r, {"Owner"}, "deleteProject")
  \/ ProjectFind(r, "deleteProject", "removeProject")
  \/ RemoveProject(r)

------------------------------------------------------------------------------
\* history: the roles of each running request's user that allow writes
Observe ==
  held' = [r \in Reqs |->
             IF job'[r].step = "idle" THEN {}
             ELSE held[r] \cup ({members'[job'[r].ws][job'[r].user]} \cap {"Owner", "Editor"})]

Handle(r) ==
  \/ CreateWorkspaceHandler(r) \/ UpdateWorkspaceHandler(r) \/ DeleteWorkspaceHandler(r)
  \/ InviteMemberHandler(r) \/ UpdateMemberRoleHandler(r) \/ RemoveMemberHandler(r)
  \/ CreateProjectHandler(r) \/ UpdateProjectHandler(r) \/ DeleteProjectHandler(r)
  \/ Abort(r)

Next == \E r \in Reqs : Handle(r) /\ Observe

Spec == Init /\ [][Next]_vars

------------------------------------------------------------------------------
(* Properties.                                                             *)

Steps == {"idle", "workspace.created", "workspace.member.invited",
          "updateWorkspace", "deleteWorkspace", "inviteMember",
          "upsertMember", "updateMemberRole", "removeMember", "createProject",
          "updateProject", "renameProject",
          "deleteProject", "removeProject"}

OwnerSteps == {"updateWorkspace", "deleteWorkspace", "inviteMember", "upsertMember",
               "updateMemberRole", "removeMember", "deleteProject", "removeProject"}

Job == [step : Steps, user : Users \cup {None}, ws : Workspaces \cup {None},
        arg : Users \cup Projects \cup {None}]

\* What a step finds in its job.
WellFormed(j) ==
  /\ j.step # "idle" => j.user \in Users /\ j.ws \in Workspaces
  /\ j.step \in {"workspace.created", "workspace.member.invited"} => j.arg \in Users
  /\ j.step \in {"renameProject", "removeProject"} => j.arg \in Projects

TypeOK ==
  /\ workspaces \in [Workspaces -> Names \cup {None}]
  /\ members \in [Workspaces -> [Users -> Roles \cup {NoRole}]]
  /\ projects \in [Projects -> ProjectRecord \cup {None}]
  /\ spent \subseteq Workspaces \cup Projects
  /\ job \in [Reqs -> Job] /\ \A r \in Reqs : WellFormed(job[r])
  /\ held \in [Reqs -> SUBSET {"Owner", "Editor"}]
  /\ lost \in BOOLEAN /\ silent \subseteq Workspaces \X Users

\* Request q took a step that does not only begin it.
Acted(q) == ~ At(q, "idle") /\ job'[q] # job[q]

HadRole(q, w, roles) == job[q].ws = w /\ held[q] \cap roles # {}

\* Whatever a request names and whatever is changed while it runs, a workspace
\* and its members change by a request for this very workspace whose user was an
\* owner of it since the request's check; a project by one for the workspace it
\* is in, whose user was an editor or owner of that, or an owner if it goes away.
\* The role may be lost by the time of the write: the check is a query of its own.
ChangePermitted ==
  [][/\ \A w \in Workspaces :
          /\ workspaces[w] # None
          /\ workspaces'[w] # workspaces[w] \/ members'[w] # members[w]
          => \E q \in Reqs : Acted(q) /\ HadRole(q, w, {"Owner"})
     /\ \A p \in Projects :
          /\ projects'[p] # projects[p]
          => \E q \in Reqs :
               /\ Acted(q)
               /\ IF projects'[p] = None
                  THEN HadRole(q, projects[p].ws, {"Owner"})
                  ELSE HadRole(q, projects'[p].ws, {"Owner", "Editor"})]_vars

\* Members and projects belong to a workspace that exists, although a write may
\* come after the deletion of the workspace that its lookup still found.
NoOrphans ==
  /\ \A w \in Workspaces, u \in Users : members[w][u] # NoRole => workspaces[w] # None
  /\ \A p \in Projects : projects[p] # None => workspaces[projects[p].ws] # None

\* The last owner can be demoted or removed, by himself or by another one whose
\* check came before.  That is final: once nobody owns a workspace and no request
\* past an owner's check is under way, its name and its members never change
\* again and it is never deleted.
Abandoned(w) ==
  /\ workspaces[w] # None
  /\ \A u \in Users : members[w][u] # "Owner"
  /\ \A q \in Reqs : job[q].ws = w => job[q].step \notin OwnerSteps

AbandonedForGood ==
  [][\A w \in Workspaces : Abandoned(w) =>
       Abandoned(w)' /\ UNCHANGED <<workspaces[w], members[w]>>]_vars

\* As long as no publication has failed, every member's invitation, and every
\* owner's workspace, has been published since it was last written, or its
\* request is about to.  (After a failure the change stays and the request answers
\* 500: nothing sends the event.)
Announced ==
  ~ lost => \A w \in Workspaces, u \in Users :
    <<w, u>> \in silent => \E q \in Reqs : Publishing(q) /\ Announcement(q) = <<w, u>>
==============================================================================
