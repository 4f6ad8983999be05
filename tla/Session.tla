------------------------------- MODULE Session -------------------------------
(***************************************************************************)
(* Who is logged in in a tab of the browser, and what the application lets *)
(* that user see and do: the session in local storage, which all tabs have *)
(* in common, the copy of its user that each tab keeps, the permissions    *)
(* and pages computed from that copy, and the policies of the server.      *)
(***************************************************************************)
EXTENDS Naturals, FiniteSets

CONSTANTS
  Users,
  Casts,           \* the roles they may have: functions from users to roles
  Projects,
  Tabs,
  None,            \* no user, role, project or session
  MaxSessionSteps  \* bound: requests sent and changes by others

(***************************************************************************)
(* The data of a user, as the server renders it.                           *)
(***************************************************************************)
Roles        == {"admin", "guest", "member"}
ProjectRoles == {"owner", "editor"}
UserData     == [id : Users, role : Roles, projects : [Projects -> ProjectRoles \cup {None}],
                 archived : SUBSET Projects, change : BOOLEAN]

ASSUME SessionAssumption ==
  Casts \subseteq [Users -> Roles] /\ None \notin ProjectRoles /\ MaxSessionSteps \in Nat

(***************************************************************************)
(* Permissions of a user, who may be nobody.                               *)
(***************************************************************************)
hasRole(user, role)  == user # None /\ user.role = role
isAdmin(user)        == hasRole(user, "admin")
isMember(user)       == hasRole(user, "member")
getUserProject(user, p) == IF user = None THEN None ELSE user.projects[p]
isArchived(user, p)  == getUserProject(user, p) # None /\ p \in user.archived
isEditor(user, p)    == getUserProject(user, p) = "editor"
isOwner(user, p)     == getUserProject(user, p) = "owner"

canArchiveProject(user)    == isAdmin(user)
canCreateJobs(user)        == isAdmin(user)
canCreateProject(user)     == isAdmin(user) \/ isMember(user)
canDeleteProject(user, p)  == isAdmin(user) \/ (isOwner(user, p) /\ ~isArchived(user, p))
canEditProjectData(user, p) ==
  isAdmin(user) \/ ((isOwner(user, p) \/ isEditor(user, p)) /\ ~isArchived(user, p))
canEditProjectSettings(user, p) == isAdmin(user) \/ (isOwner(user, p) /\ ~isArchived(user, p))
\* mutant: guests who own a project see its users as well
canEditUserProjectsAsOwner(user, p) ==
  isAdmin(user) \/ (isOwner(user, p) /\ ~isArchived(user, p))
canEditUserProjects(user, p) ==
  isAdmin(user) \/ (isMember(user) /\ isOwner(user, p) /\ ~isArchived(user, p))
canEditUsers(user)         == isAdmin(user)
canExportData(user)        == isAdmin(user)
canImportData(user)        == isAdmin(user)
\* Of a record of a model that is not shared with another project.
canDeleteRecord(user, p)   == ~isArchived(user, p)
canPublishRecord(user, p)  == isAdmin(user) \/ (isOwner(user, p) /\ ~isArchived(user, p))
\* Of a member who never signed in and was invited long ago.
canInviteUserProject(user, p) == isAdmin(user) \/ canEditUserProjects(user, p)

(***************************************************************************)
(* Pages, by name and project.                                             *)
(***************************************************************************)
Login   == <<"login", None>>
Home    == <<"projects", None>>
Reset   == <<"password_reset", None>>
Global  == {Home, Reset, <<"new_project", None>>, <<"users", None>>, <<"jobs", None>>}
Pages   == Global \cup {Login} \cup {"settings", "data", "user_projects", "jobs"} \X Projects

\* The page of new projects is open to everybody.
Allowed(user, pg) ==
  CASE pg[1] = "settings"        -> canEditProjectSettings(user, pg[2])
    [] pg[1] = "data"            -> canEditProjectData(user, pg[2])
    [] pg[1] = "user_projects"   -> canEditUserProjects(user, pg[2])
    [] pg[1] = "users"           -> canEditUsers(user)
    [] pg[1] = "jobs"            -> canCreateJobs(user)
    [] OTHER                       -> TRUE

\* Whom the users of a project are not for goes on to its records.
UnauthorizedRedirect(user, pg) ==
  IF pg[1] = "user_projects" /\ canEditProjectData(user, pg[2]) THEN <<"data", pg[2]>> ELSE Home

\* Where a visit of a page ends: AuthenticatedRoute, then the page itself.
Landing(authenticated, user, stored_, pg) ==
  IF ~authenticated THEN Login
  ELSE IF stored_ # None /\ stored_.user.change THEN Reset
  ELSE IF pg = Login THEN Home
  ELSE IF Allowed(user, pg) THEN pg
  ELSE UnauthorizedRedirect(user, pg)

\* The links of a page.
AdminMenu(user, pg) ==
  IF pg[2] # None \/ ~(canEditUsers(user) \/ canCreateJobs(user)) THEN {}
  ELSE {Home} \cup (IF canEditUsers(user) THEN {<<"users", None>>} ELSE {})
              \cup (IF canCreateJobs(user) THEN {<<"jobs", None>>} ELSE {})

ProjectSettingsMenu(user, pg) ==
  IF pg[1] \notin {"settings", "user_projects", "jobs"} \/ pg[2] = None THEN {}
  ELSE {<<"settings", pg[2]>>}
       \cup (IF canEditUserProjects(user, pg[2]) THEN {<<"user_projects", pg[2]>>} ELSE {})
       \cup (IF canCreateJobs(user) THEN {<<"jobs", pg[2]>>} ELSE {})

ProjectModeLink(user, pg) ==
  IF pg[2] = None \/ ~canEditProjectSettings(user, pg[2]) THEN {}
  ELSE {<<"data", pg[2]>>, <<"settings", pg[2]>>}

\* The projects of a user, of which archived ones are disabled.
ProjectsList(user, pg) ==
  IF pg # Home THEN {}
  ELSE {<<"data", p>> : p \in {q \in Projects :
          canArchiveProject(user) \/ (getUserProject(user, q) # None /\ ~isArchived(user, q))}}
       \cup (IF canCreateProject(user) THEN {<<"new_project", None>>} ELSE {})

UserMenu == {Reset}

Links(user, pg) ==
  AdminMenu(user, pg) \cup ProjectSettingsMenu(user, pg) \cup ProjectModeLink(user, pg)
  \cup ProjectsList(user, pg) \cup UserMenu

\* What the pages offer to do, besides the form of a new project.
If(condition, actions) == IF condition THEN actions ELSE {}

Project(user, p) ==
  {"project.update"}
  \cup If(canArchiveProject(user), {"project.archive"})
  \cup If(canDeleteProject(user, p), {"project.clear", "project.destroy"})

ProjectImportExport(user) ==
  {"project.export_configuration", "project.import_configuration", "project.export_variables"}
  \cup If(canExportData(user), {"project.export_data"})
  \cup If(canImportData(user), {"project.analyze_import", "project.import_data"})

\* Of models that are not shared.
ProjectModels   == {"project_model.create", "project_model.update", "project_model.destroy"}
WebAuthorities  == {"web_authority.create", "web_authority.update", "web_authority.destroy"}
ProjectAuditLog == {"project.show"}

ProjectData(user, p) ==
  {"record.create", "record.update", "record.merge"}
  \cup If(canDeleteRecord(user, p), {"record.destroy"})
  \cup If(canPublishRecord(user, p), {"record.publish"})

UserProjects(user, p) ==
  {"user_project.create", "user_project.update", "user_project.destroy"}
  \cup If(canInviteUserProject(user, p), {"user_project.invite"})

\* Of other users.
UsersOffers == {"user.create", "user.update", "user.destroy"}
JobsOffers  == {"job.destroy"}

Offers(user, pg) ==
  CASE pg[1] = "settings" ->
         Project(user, pg[2]) \cup ProjectImportExport(user) \cup ProjectModels
         \cup WebAuthorities \cup ProjectAuditLog
    [] pg[1] = "data"          -> ProjectData(user, pg[2])
    [] pg[1] = "user_projects" -> UserProjects(user, pg[2])
    [] pg[1] = "users"         -> UsersOffers
    [] pg[1] = "jobs"          -> JobsOffers
    [] OTHER                   -> {}

VARIABLES
  role,      \* the roles of the users
  exists,    \* the projects there are
  members,   \* the role of each user in each project
  archived,  \* the projects that are archived
  change,    \* the users who must change their password
  stored,    \* the session: [token, user], where a token names its user
  context,   \* of each tab: whether it is authenticated, and its user
  page,      \* of each tab
  sent,      \* requests under way
  sessionSteps

server == <<role, exists, members, archived, change>>
sessionVars == <<server, stored, context, page, sent, sessionSteps>>

Sessions == [token : Users, user : UserData]
Data(u)  == [id |-> u, role |-> role[u], projects |-> members[u],
             archived |-> {p \in archived : members[u][p] # None}, change |-> u \in change]

\* What the server allows a user whose token it gets.
Policy(u, action, p) ==
  LET admin  == role[u] = "admin"
      active == p \notin archived
      member == members[u][p] # None
      owner  == members[u][p] = "owner" IN
  CASE action \in {"project.update", "project.clear", "project.destroy",
                   "project.export_configuration", "project.import_configuration",
                   "project.export_variables", "project_model.create", "project_model.update",
                   "project_model.destroy", "web_authority.create", "web_authority.update",
                   "web_authority.destroy", "record.publish"}
                                                     -> admin \/ (active /\ owner)
    [] action \in {"project.show", "record.create", "record.update", "record.merge",
                   "record.destroy"}
                                                     -> admin \/ (active /\ member)
    [] action \in {"user_project.create", "user_project.update", "user_project.destroy"}
                                                     -> admin \/ (active /\ owner /\ role[u] = "member")
    [] action = "user_project.invite"                -> admin \/ (owner /\ role[u] = "member")
    [] action \in {"project.archive", "project.export_data", "project.analyze_import",
                   "project.import_data", "user.create", "user.update", "user.destroy",
                   "job.destroy"}                    -> admin

(***************************************************************************)
(* Steps of a tab. A request takes the token that is stored when it is     *)
(* sent, "then" is the page its answer leads to.                           *)
(***************************************************************************)
Bounded == sessionSteps < MaxSessionSteps /\ sessionSteps' = sessionSteps + 1

Nobody == [authenticated |-> FALSE, user |-> None]

\* onUpdateSession
ContextOf(session) ==
  [authenticated |-> session # None, user |-> IF session = None THEN None ELSE session.user]

Go(t, ctx, session, pg) ==
  page' = [page EXCEPT ![t] = Landing(ctx.authenticated, ctx.user, session, pg)]

Visit(t, pg) ==
  /\ page[t] # pg
  /\ Go(t, context[t], stored, pg)
  /\ UNCHANGED <<server, stored, context, sent, sessionSteps>>

Reload(t) ==
  /\ context' = [context EXCEPT ![t] = ContextOf(stored)]
  /\ Go(t, ContextOf(stored), stored, page[t])
  /\ UNCHANGED <<server, stored, sent, sessionSteps>>

Logout(t) ==
  /\ context[t].authenticated
  /\ stored' = None
  /\ context' = [context EXCEPT ![t] = Nobody]
  /\ page' = [page EXCEPT ![t] = Login]
  /\ UNCHANGED <<server, sent, sessionSteps>>

Token == IF stored = None THEN None ELSE stored.token

Request(kind, t, id, p, r, then) ==
  [kind |-> kind, tab |-> t, token |-> Token, id |-> id, project |-> p, role |-> r, then |-> then,
   status |-> "sent", user |-> None]

Send(q) ==
  /\ Bounded /\ sent' = sent \cup {q}
  /\ UNCHANGED <<server, stored, context, page>>

\* A bound: a tab has one request under way, in which others go on.
Idle(t) == \A q \in sent : q.tab # t

LogIn(t, u) == page[t] = Login /\ Idle(t) /\ Send(Request("login", t, u, None, None, Home))

CreateProject(t, p) ==
  /\ page[t] = <<"new_project", None>> /\ p \notin exists /\ Idle(t)
  /\ Send(Request("create", t, None, p, None, <<"settings", p>>))

SaveUserProject(t, u, r) ==
  /\ page[t][1] = "user_projects" /\ Idle(t)
  /\ Send(Request("user_project", t, u, page[t][2], r, page[t]))

\* The password of the user of the session, whoever that is by now.
ChangePassword(t) ==
  /\ page[t] = Reset /\ stored # None /\ Idle(t)
  /\ Send(Request("password", t, stored.user.id, None, None, Home))

(***************************************************************************)
(* Steps of the server.                                                    *)
(***************************************************************************)
Done(q, user) == sent' = (sent \ {q}) \cup {[q EXCEPT !.status = "ok", !.user = user]}

\* A login, and the user that is fetched again.
ServeUser(q) ==
  /\ q.kind \in {"login", "reset"}
  /\ Done(q, Data(q.id))
  /\ UNCHANGED server

\* Who creates a project owns it, but for admins.
ServeCreate(q) ==
  /\ q.kind = "create" /\ q.token # None /\ canCreateProject(Data(q.token)) /\ q.project \notin exists
  /\ exists' = exists \cup {q.project}
  /\ members' = IF role[q.token] = "admin" THEN members
                ELSE [members EXCEPT ![q.token][q.project] = "owner"]
  /\ Done(q, None)
  /\ UNCHANGED <<role, archived, change>>

ServeUserProject(q) ==
  /\ q.kind = "user_project" /\ q.token # None /\ Policy(q.token, "user_project.update", q.project)
  /\ members' = [members EXCEPT ![q.id][q.project] = q.role]
  /\ Done(q, None)
  /\ UNCHANGED <<role, exists, archived, change>>

ServePassword(q) ==
  /\ q.kind = "password" /\ q.token = q.id
  /\ change' = change \ {q.id}
  /\ Done(q, None)
  /\ UNCHANGED <<role, exists, members, archived>>

Serve(q) ==
  /\ q.status = "sent"
  /\ ServeUser(q) \/ ServeCreate(q) \/ ServeUserProject(q) \/ ServePassword(q)
  /\ UNCHANGED <<stored, context, page, sessionSteps>>

\* Somebody else archives a project, changes a membership or invites a user.
Others ==
  /\ Bounded
  /\ \/ \E p \in exists : archived' = archived \cup {p} /\ UNCHANGED <<members, change>>
     \/ \E u \in Users, p \in exists, r \in ProjectRoles \cup {None} :
          members' = [members EXCEPT ![u][p] = r] /\ UNCHANGED <<archived, change>>
     \/ \E u \in Users : change' = change \cup {u} /\ UNCHANGED <<archived, members>>
  /\ UNCHANGED <<role, exists, stored, context, page, sent>>

(***************************************************************************)
(* Answers that arrive.                                                    *)
(***************************************************************************)
LoginReply(q) ==
  LET session == [token |-> q.id, user |-> q.user] IN
  /\ q.kind = "login"
  /\ stored' = session
  /\ context' = [context EXCEPT ![q.tab] = ContextOf(session)]
  /\ Go(q.tab, ContextOf(session), session, q.then)
  /\ sent' = sent \ {q}

\* What was done is followed by a fetch of the user of the session, if there is
\* one by now, under its token.
DoneReply(q) ==
  /\ q.kind \in {"create", "user_project", "password"}
  /\ sent' = (sent \ {q}) \cup
       (IF stored = None THEN {}
        ELSE {[q EXCEPT !.kind = "reset", !.token = stored.token, !.id = stored.user.id,
                        !.status = "sent"]})
  /\ UNCHANGED <<stored, context, page>>

\* mutant: the token is read when the user arrives
resetLate(q) ==
  LET session == [token |-> Token, user |-> q.user] IN
  /\ q.kind = "reset"
  /\ stored' = session
  /\ Go(q.tab, context[q.tab], session, q.then)
  /\ sent' = sent \ {q}
  /\ UNCHANGED context

\* The session is stored again; no tab takes over its user.
reset(q) ==
  LET session == [token |-> q.token, user |-> q.user] IN
  /\ q.kind = "reset"
  /\ stored' = session
  /\ Go(q.tab, context[q.tab], session, q.then)
  /\ sent' = sent \ {q}
  /\ UNCHANGED context

Reply(q) ==
  /\ q.status = "ok"
  /\ LoginReply(q) \/ DoneReply(q) \/ reset(q)
  /\ UNCHANGED <<server, sessionSteps>>

\* Refused, or lost on its way.
Fail(q) == sent' = sent \ {q} /\ UNCHANGED <<server, stored, context, page, sessionSteps>>

SessionInit ==
  /\ role \in Casts
  /\ exists \in {{}, Projects}
  /\ members \in [Users -> {[p \in Projects |-> r] :
                              r \in IF exists = {} THEN {None} ELSE ProjectRoles \cup {None}}]
  /\ archived = {} /\ change = {}
  /\ stored = None
  /\ context = [t \in Tabs |-> Nobody]
  /\ page = [t \in Tabs |-> Login]
  /\ sent = {} /\ sessionSteps = 0

SessionNext ==
  \/ \E t \in Tabs :
       \/ \E pg \in Pages : Visit(t, pg)
       \/ Reload(t) \/ Logout(t) \/ ChangePassword(t)
       \/ \E u \in Users : LogIn(t, u) \/ \E r \in ProjectRoles : SaveUserProject(t, u, r)
       \/ \E p \in Projects : CreateProject(t, p)
  \/ \E q \in sent : Serve(q) \/ Reply(q) \/ Fail(q)
  \/ Others

SessionSpec == SessionInit /\ [][SessionNext]_sessionVars

-----------------------------------------------------------------------------
SessionTypeOK ==
  /\ exists \subseteq Projects /\ archived \subseteq exists /\ change \subseteq Users
  /\ members \in [Users -> [Projects -> ProjectRoles \cup {None}]]
  /\ stored = None \/ stored \in Sessions
  /\ \A t \in Tabs : context[t].user = None \/ context[t].user \in UserData
  /\ page \in [Tabs -> Pages] /\ sessionSteps \in 0..MaxSessionSteps

\* The token of the session is that of its user, whoever logs in or out, in
\* whatever tab, while the user of a session is fetched again (Session.reset).
SessionIsOfOneUser == stored # None => stored.token = stored.user.id

\* As long as nothing changed since a tab got its user, what its page offers is
\* allowed by the server, and no link of the page is redirected (Permissions
\* and the policies).
Fresh(t) == context[t].user # None /\ context[t].user = Data(context[t].user.id)
            /\ (stored # None => ~stored.user.change)

OffersAreAllowed ==
  \A t \in Tabs : (Fresh(t) /\ page[t] # Login) =>
    LET user == context[t].user IN
    Allowed(user, page[t]) =>
      /\ \A action \in Offers(user, page[t]) : Policy(user.id, action, page[t][2])
      /\ \A pg \in Links(user, page[t]) : Landing(TRUE, user, stored, pg) = pg

\* A user who created a project, and whose session was reset for that, is led to
\* the project that the fetched user owns.
CreatorSeesProject ==
  [][\A q \in sent :
       (/\ q.then[1] = "settings" /\ q.status = "ok" /\ reset(q)
        /\ context[q.tab].user # None /\ context[q.tab].user.id = q.id
        /\ canEditProjectSettings(q.user, q.then[2]) /\ ~q.user.change)
       => page'[q.tab] = q.then]_sessionVars
=============================================================================
