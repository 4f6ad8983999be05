--------------------------- MODULE DialogProofs ----------------------------
(***************************************************************************)
(* Proofs about Session, MergeDialog and ImportDialog, for any users and   *)
(* projects, lists of records, analysed file and number of steps.          *)
(***************************************************************************)
EXTENDS MCDialogs, SequenceTheorems, TLAPS


(***************************************************************************)
(* The session.                                                            *)
(***************************************************************************)
USE SessionAssumption

(***************************************************************************)
(* The inductive invariant: besides the types, a user that was fetched is  *)
(* the one that was asked for, and a session is fetched again under the    *)
(* token of its user.                                                      *)
(***************************************************************************)
Sends ==
  [kind : {"login", "create", "user_project", "password", "reset"}, tab : Tabs,
   token : Users \cup {None}, id : Users \cup {None}, project : Projects \cup {None},
   role : ProjectRoles \cup {None}, then : Pages, status : {"sent", "ok"},
   user : UserData \cup {None}]

SendOK(q) ==
  /\ q \in Sends
  /\ q.kind \in {"login", "reset", "password", "user_project"} => q.id \in Users
  /\ q.kind = "user_project" => q.project \in Projects /\ q.role \in ProjectRoles
  /\ q.kind = "create" => q.project \in Projects
  /\ q.kind = "reset" => q.token = q.id
  /\ q.kind \in {"login", "reset"} /\ q.status = "ok" => q.user \in UserData /\ q.user.id = q.id

ServerOK ==
  /\ role \in [Users -> Roles] /\ exists \subseteq Projects /\ archived \subseteq exists
  /\ change \subseteq Users /\ members \in [Users -> [Projects -> ProjectRoles \cup {None}]]

StoredOK == stored = None \/ (stored \in Sessions /\ stored.token = stored.user.id)

Contexts == [authenticated : BOOLEAN, user : UserData \cup {None}]

TabsOK == context \in [Tabs -> Contexts] /\ page \in [Tabs -> Pages]

SInv ==
  /\ ServerOK /\ StoredOK /\ TabsOK
  /\ \A q \in sent : SendOK(q)
  /\ sessionSteps \in 0..MaxSessionSteps

\* The pages of a project are pages, and others belong to none.
LEMMA PageOfProject ==
  ASSUME NEW pg \in Pages
  PROVE  /\ pg[1] \in {"settings", "data", "user_projects"} => pg[2] \in Projects
         /\ pg[2] # None => pg[2] \in Projects
         /\ pg = <<pg[1], pg[2]>>
BY DEF Pages, Global, Login, Home, Reset

LEMMA ProjectPages ==
  ASSUME NEW p \in Projects
  PROVE  /\ <<"settings", p>> \in Pages /\ <<"data", p>> \in Pages
         /\ <<"user_projects", p>> \in Pages /\ <<"jobs", p>> \in Pages
BY DEF Pages

LEMMA GlobalPages == Login \in Pages /\ Home \in Pages /\ Reset \in Pages
BY DEF Pages, Global

\* A visit ends at a page.
LEMMA LandingPage ==
  ASSUME NEW authenticated, NEW user, NEW session, NEW pg \in Pages
  PROVE  Landing(authenticated, user, session, pg) \in Pages
<1>1. UnauthorizedRedirect(user, pg) \in Pages
  BY PageOfProject, ProjectPages, GlobalPages DEF UnauthorizedRedirect
<1>2. QED
  BY <1>1, GlobalPages DEF Landing

LEMMA GoPage ==
  ASSUME TabsOK, NEW t \in Tabs, NEW ctx, NEW session, NEW pg \in Pages, Go(t, ctx, session, pg)
  PROVE  page' \in [Tabs -> Pages]
BY LandingPage DEF Go, TabsOK

\* The server renders the data of a user as that user's.
LEMMA DataOK ==
  ASSUME ServerOK, NEW u \in Users
  PROVE  Data(u) \in UserData /\ Data(u).id = u
<1>1. {p \in archived : members[u][p] # None} \subseteq Projects
  BY DEF ServerOK
<1>2. QED
  BY <1>1 DEF ServerOK, Data, UserData

LEMMA InitSInv == SessionInit => SInv
<1> SUFFICES ASSUME SessionInit PROVE SInv
  OBVIOUS
<1>1. members \in [Users -> [Projects -> ProjectRoles \cup {None}]]
  <2>1. PICK S \in SUBSET {[p \in Projects |-> r] : r \in ProjectRoles \cup {None}} :
          members \in [Users -> S]
    <3>1. {[p \in Projects |-> r] : r \in IF exists = {} THEN {None} ELSE ProjectRoles \cup {None}}
          \in SUBSET {[p \in Projects |-> r] : r \in ProjectRoles \cup {None}}
      BY Zenon
    <3>2. QED
      BY <3>1 DEF SessionInit
  <2>2. S \subseteq [Projects -> ProjectRoles \cup {None}]
    OBVIOUS
  <2>3. QED
    BY <2>1, <2>2
<1>2. role \in [Users -> Roles] /\ exists \subseteq Projects /\ archived \subseteq exists
      /\ change \subseteq Users
  BY DEF SessionInit
<1>3. TabsOK
  BY GlobalPages DEF SessionInit, TabsOK, Contexts, Nobody
<1>4. StoredOK /\ (\A q \in sent : SendOK(q)) /\ sessionSteps \in 0..MaxSessionSteps
  BY DEF SessionInit, StoredOK
<1>5. QED
  BY <1>1, <1>2, <1>3, <1>4 DEF SInv, ServerOK

\* A request that is sent.
LEMMA SendSInv ==
  ASSUME SInv, NEW q, SendOK(q), Send(q)
  PROVE  SInv'
<1>1. sessionSteps' \in 0..MaxSessionSteps
  BY DEF SInv, Send, Bounded
<1>2. \A p \in sent' : SendOK(p)
  BY DEF SInv, Send
<1>3. UNCHANGED <<role, exists, members, archived, change, stored, context, page>>
  BY DEF Send, server
<1>4. QED
  BY <1>1, <1>2, <1>3 DEF SInv, ServerOK, StoredOK, TabsOK

LEMMA TokenOK ==
  ASSUME SInv
  PROVE  Token \in Users \cup {None}
BY DEF SInv, StoredOK, Sessions, Token

\* What a tab sends.
LEMMA TabSends ==
  ASSUME SInv, NEW t \in Tabs,
         \/ ChangePassword(t)
         \/ \E u \in Users : LogIn(t, u) \/ \E r \in ProjectRoles : SaveUserProject(t, u, r)
         \/ \E p \in Projects : CreateProject(t, p)
  PROVE  SInv'
<1>0. Token \in Users \cup {None} /\ page[t] \in Pages
  BY TokenOK DEF SInv, TabsOK
<1>1. ASSUME ChangePassword(t) PROVE SInv'
  <2>1. stored.user.id \in Users
    BY <1>1 DEF ChangePassword, SInv, StoredOK, Sessions, UserData
  <2>2. SendOK(Request("password", t, stored.user.id, None, None, Home))
    BY <1>0, <2>1, GlobalPages DEF SendOK, Sends, Request
  <2>3. QED
    BY <1>1, <2>2, SendSInv DEF ChangePassword
<1>2. ASSUME NEW u \in Users, LogIn(t, u) PROVE SInv'
  <2>1. SendOK(Request("login", t, u, None, None, Home))
    BY <1>0, GlobalPages DEF SendOK, Sends, Request
  <2>2. QED
    BY <1>2, <2>1, SendSInv DEF LogIn
<1>3. ASSUME NEW u \in Users, NEW r \in ProjectRoles, SaveUserProject(t, u, r) PROVE SInv'
  <2>1. page[t][2] \in Projects
    BY <1>0, <1>3, PageOfProject DEF SaveUserProject
  <2>2. SendOK(Request("user_project", t, u, page[t][2], r, page[t]))
    BY <1>0, <2>1 DEF SendOK, Sends, Request
  <2>3. QED
    BY <1>3, <2>2, SendSInv DEF SaveUserProject
<1>4. ASSUME NEW p \in Projects, CreateProject(t, p) PROVE SInv'
  <2>1. SendOK(Request("create", t, None, p, None, <<"settings", p>>))
    BY <1>0, ProjectPages DEF SendOK, Sends, Request
  <2>2. QED
    BY <1>4, <2>1, SendSInv DEF CreateProject
<1>5. QED
  BY <1>1, <1>2, <1>3, <1>4

\* What a tab does by itself.
LEMMA TabMoves ==
  ASSUME SInv, NEW t \in Tabs,
         (\E pg \in Pages : Visit(t, pg)) \/ Reload(t) \/ Logout(t)
  PROVE  SInv'
<1>1. UNCHANGED <<role, exists, members, archived, change, sent, sessionSteps>>
  BY DEF Visit, Reload, Logout, server
<1>2. TabsOK /\ page[t] \in Pages
  BY DEF SInv, TabsOK
<1>3. page' \in [Tabs -> Pages]
  <2>1. ASSUME NEW pg \in Pages, Visit(t, pg) PROVE page' \in [Tabs -> Pages]
    BY <1>2, <2>1, GoPage DEF Visit
  <2>2. ASSUME Reload(t) PROVE page' \in [Tabs -> Pages]
    BY <1>2, <2>2, GoPage DEF Reload
  <2>3. ASSUME Logout(t) PROVE page' \in [Tabs -> Pages]
    BY <1>2, <2>3, GlobalPages DEF Logout, TabsOK
  <2>4. QED
    BY <2>1, <2>2, <2>3
<1>4. context' \in [Tabs -> Contexts]
  <2>1. ContextOf(stored) \in Contexts /\ Nobody \in Contexts
    BY DEF SInv, StoredOK, Sessions, ContextOf, Contexts, Nobody
  <2>2. QED
    BY <1>2, <2>1 DEF Visit, Reload, Logout, TabsOK
<1>5. StoredOK'
  BY DEF Visit, Reload, Logout, SInv, StoredOK
<1>6. QED
  BY <1>1, <1>3, <1>4, <1>5 DEF SInv, ServerOK, TabsOK

\* What the server answers.
LEMMA DoneOK ==
  ASSUME SInv, NEW q \in sent, NEW user \in UserData \cup {None}, Done(q, user),
         q.kind \in {"login", "reset"} => user \in UserData /\ user.id = q.id
  PROVE  \A p \in sent' : SendOK(p)
<1>1. SendOK(q)
  BY DEF SInv
<1>2. [q EXCEPT !.status = "ok", !.user = user] \in Sends
  BY <1>1 DEF SendOK, Sends
<1>3. SendOK([q EXCEPT !.status = "ok", !.user = user])
  BY <1>1, <1>2 DEF SendOK, Sends
<1>4. QED
  BY <1>3 DEF SInv, Done

LEMMA ServeSInv ==
  ASSUME SInv, NEW q \in sent, Serve(q)
  PROVE  SInv'
<1>0. SendOK(q) /\ ServerOK
  BY DEF SInv
<1>1. ServerOK' /\ \A p \in sent' : SendOK(p)
  <2>1. CASE ServeUser(q)
    <3>1. Data(q.id) \in UserData /\ Data(q.id).id = q.id
      BY <1>0, <2>1, DataOK DEF ServeUser, SendOK
    <3>2. ServerOK'
      BY <1>0, <2>1 DEF ServeUser, ServerOK, server
    <3>3. QED
      BY <2>1, <3>1, <3>2, DoneOK DEF ServeUser
  <2>2. CASE ServeCreate(q)
    <3>1. q.project \in Projects /\ q.token \in Users
      BY <1>0, <2>2 DEF ServeCreate, SendOK, Sends
    <3>2. members' \in [Users -> [Projects -> ProjectRoles \cup {None}]]
      BY <1>0, <2>2, <3>1 DEF ServeCreate, ServerOK, ProjectRoles
    <3>3. ServerOK'
      BY <1>0, <2>2, <3>1, <3>2 DEF ServeCreate, ServerOK
    <3>4. QED
      BY <2>2, <3>3, DoneOK DEF ServeCreate
  <2>3. CASE ServeUserProject(q)
    <3>1. q.id \in Users /\ q.project \in Projects /\ q.role \in ProjectRoles
      BY <1>0, <2>3 DEF ServeUserProject, SendOK
    <3>2. members' \in [Users -> [Projects -> ProjectRoles \cup {None}]]
      BY <1>0, <2>3, <3>1 DEF ServeUserProject, ServerOK
    <3>3. ServerOK'
      BY <1>0, <2>3, <3>2 DEF ServeUserProject, ServerOK
    <3>4. QED
      BY <2>3, <3>3, DoneOK DEF ServeUserProject
  <2>4. CASE ServePassword(q)
    <3>1. ServerOK'
      BY <1>0, <2>4 DEF ServePassword, ServerOK
    <3>2. QED
      BY <2>4, <3>1, DoneOK DEF ServePassword
  <2>5. QED
    BY <2>1, <2>2, <2>3, <2>4 DEF Serve
<1>2. UNCHANGED <<stored, context, page, sessionSteps>>
  BY DEF Serve
<1>3. QED
  BY <1>1, <1>2 DEF SInv, StoredOK, TabsOK

LEMMA OthersSInv ==
  ASSUME SInv, Others
  PROVE  SInv'
<1>1. ServerOK'
  <2>0. ServerOK /\ UNCHANGED <<role, exists>>
    BY DEF SInv, Others
  <2>1. CASE \E p \in exists : archived' = archived \cup {p} /\ UNCHANGED <<members, change>>
    BY <2>0, <2>1 DEF ServerOK
  <2>2. CASE \E u \in Users, p \in exists, r \in ProjectRoles \cup {None} :
               members' = [members EXCEPT ![u][p] = r] /\ UNCHANGED <<archived, change>>
    <3>1. PICK u \in Users, p \in exists, r \in ProjectRoles \cup {None} :
            members' = [members EXCEPT ![u][p] = r] /\ UNCHANGED <<archived, change>>
      BY <2>2
    <3>2. members' \in [Users -> [Projects -> ProjectRoles \cup {None}]]
      BY <2>0, <3>1 DEF ServerOK
    <3>3. QED
      BY <2>0, <3>1, <3>2 DEF ServerOK
  <2>3. CASE \E u \in Users : change' = change \cup {u} /\ UNCHANGED <<archived, members>>
    BY <2>0, <2>3 DEF ServerOK
  <2>4. QED
    BY <2>1, <2>2, <2>3 DEF Others
<1>2. UNCHANGED <<stored, context, page, sent>> /\ sessionSteps' \in 0..MaxSessionSteps
  BY DEF Others, Bounded, SInv
<1>3. QED
  BY <1>1, <1>2 DEF SInv, StoredOK, TabsOK

\* What a tab does with an answer, or without one.
LEMMA ReplySInv ==
  ASSUME SInv, NEW q \in sent, Reply(q) \/ Fail(q)
  PROVE  SInv'
<1>0. SendOK(q) /\ ServerOK /\ TabsOK /\ UNCHANGED <<server, sessionSteps>>
      /\ q.tab \in Tabs /\ q.then \in Pages /\ \A p \in sent : SendOK(p)
  BY DEF SInv, Reply, Fail, SendOK, Sends
<1>1. ServerOK' /\ sessionSteps' \in 0..MaxSessionSteps
  BY <1>0 DEF ServerOK, server, SInv
<1>2. ASSUME q.status = "ok", LoginReply(q)
      PROVE  StoredOK' /\ TabsOK' /\ \A p \in sent' : SendOK(p)
  <2> DEFINE session == [token |-> q.id, user |-> q.user]
  <2>1. session \in Sessions /\ session.token = session.user.id
    BY <1>0, <1>2 DEF LoginReply, SendOK, Sessions
  <2>2. /\ stored' = session /\ context' = [context EXCEPT ![q.tab] = ContextOf(session)]
        /\ Go(q.tab, ContextOf(session), session, q.then) /\ sent' = sent \ {q}
    BY <1>2 DEF LoginReply
  <2> HIDE DEF session
  <2>3. ContextOf(session) \in Contexts
    BY <2>1 DEF ContextOf, Contexts, Sessions
  <2>4. page' \in [Tabs -> Pages]
    BY <1>0, <2>2, GoPage
  <2>5. QED
    BY <1>0, <2>1, <2>2, <2>3, <2>4 DEF StoredOK, TabsOK
<1>3. ASSUME DoneReply(q)
      PROVE  StoredOK' /\ TabsOK' /\ \A p \in sent' : SendOK(p)
  <2>1. UNCHANGED <<stored, context, page>>
    BY <1>3 DEF DoneReply
  <2>2. CASE stored = None
    BY <1>0, <1>3, <2>1, <2>2 DEF DoneReply, SInv, StoredOK, TabsOK
  <2>3. CASE stored # None
    <3> DEFINE r == [q EXCEPT !.kind = "reset", !.token = stored.token, !.id = stored.user.id,
                              !.status = "sent"]
    <3>1. stored.token \in Users /\ stored.user.id = stored.token
      BY <2>3 DEF SInv, StoredOK, Sessions
    <3>2. SendOK(r)
      BY <1>0, <3>1 DEF SendOK, Sends
    <3>3. sent' = (sent \ {q}) \cup {r}
      BY <1>3, <2>3 DEF DoneReply
    <3> HIDE DEF r
    <3>4. QED
      BY <1>0, <2>1, <3>2, <3>3 DEF SInv, StoredOK, TabsOK
  <2>4. QED
    BY <2>2, <2>3
<1>4. ASSUME q.status = "ok", reset(q)
      PROVE  StoredOK' /\ TabsOK' /\ \A p \in sent' : SendOK(p)
  <2> DEFINE session == [token |-> q.token, user |-> q.user]
  <2>1. session \in Sessions /\ session.token = session.user.id
    BY <1>0, <1>4 DEF reset, SendOK, Sessions
  <2>2. /\ stored' = session /\ UNCHANGED context /\ sent' = sent \ {q}
        /\ Go(q.tab, context[q.tab], session, q.then)
    BY <1>4 DEF reset
  <2> HIDE DEF session
  <2>3. page' \in [Tabs -> Pages]
    BY <1>0, <2>2, GoPage
  <2>4. QED
    BY <1>0, <2>1, <2>2, <2>3 DEF StoredOK, TabsOK
<1>5. ASSUME Fail(q)
      PROVE  StoredOK' /\ TabsOK' /\ \A p \in sent' : SendOK(p)
  BY <1>0, <1>5 DEF Fail, SInv, StoredOK, TabsOK
<1>6. QED
  BY <1>1, <1>2, <1>3, <1>4, <1>5 DEF Reply, SInv

LEMMA StepSInv == SInv /\ [SessionNext]_sessionVars => SInv'
<1> SUFFICES ASSUME SInv, [SessionNext]_sessionVars PROVE SInv'
  OBVIOUS
<1>1. CASE UNCHANGED sessionVars
  BY <1>1 DEF sessionVars, server, SInv, ServerOK, StoredOK, TabsOK
<1>2. CASE SessionNext
  BY <1>2, TabMoves, TabSends, ServeSInv, ReplySInv, OthersSInv DEF SessionNext
<1>3. QED
  BY <1>1, <1>2

LEMMA AlwaysSInv == SessionSpec => []SInv
BY InitSInv, StepSInv, PTL DEF SessionSpec

(***************************************************************************)
(* The theorems.                                                           *)
(***************************************************************************)
\* The session, the tabs and the server's data are well typed, and every tab is
\* at a page (Session.js, AuthenticatedRoute.js).
THEOREM SessionTypeCorrect == SessionSpec => []SessionTypeOK
<1>1. SInv => SessionTypeOK
  BY DEF SInv, ServerOK, StoredOK, TabsOK, Contexts, SessionTypeOK
<1>2. QED
  BY <1>1, AlwaysSInv, PTL

\* However many tabs log in and out while users are fetched again, the token
\* that is stored is that of the user stored with it (Session.create and reset).
THEOREM OneUserPerSession == SessionSpec => []SessionIsOfOneUser
<1>1. SInv => SessionIsOfOneUser
  BY DEF SInv, StoredOK, SessionIsOfOneUser
<1>2. QED
  BY <1>1, AlwaysSInv, PTL

\* For any user, what a page that the user may see offers, the server allows.
LEMMA OffersOK ==
  ASSUME ServerOK, NEW u \in Users, NEW pg \in Pages, Allowed(Data(u), pg), Data(u) # None,
         NEW action \in Offers(Data(u), pg)
  PROVE  Policy(u, action, pg[2])
<1> DEFINE p == pg[2]
           admin == role[u] = "admin"
           owner == members[u][p] = "owner" /\ p \notin archived
           editor == members[u][p] = "editor" /\ p \notin archived
<1>1. "owner" # None /\ "editor" # None
  BY DEF ProjectRoles
<1>2. /\ Data(u).id = u /\ Data(u).role = role[u] /\ Data(u).projects = members[u]
      /\ Data(u).archived = {q \in archived : members[u][q] # None}
  BY DEF Data
<1>3. /\ isAdmin(Data(u)) <=> admin
      /\ isMember(Data(u)) <=> role[u] = "member"
      /\ isOwner(Data(u), p) /\ ~isArchived(Data(u), p) <=> owner
      /\ isEditor(Data(u), p) /\ ~isArchived(Data(u), p) <=> editor
  BY <1>1, <1>2 DEF hasRole, isAdmin, isMember, getUserProject, isArchived, isEditor, isOwner
<1>4. (owner \/ editor) => p \notin archived /\ members[u][p] # None
  BY <1>1
<1> HIDE DEF p
<1>5. CASE pg[1] = "settings"
  <2>1. admin \/ owner
    BY <1>3, <1>5 DEF Allowed, canEditProjectSettings, p
  <2>2. \/ action \in Project(Data(u), p) \/ action \in ProjectImportExport(Data(u))
        \/ action \in ProjectModels \/ action \in WebAuthorities \/ action \in ProjectAuditLog
    BY <1>5 DEF Offers, p
  <2>3. CASE action \in Project(Data(u), p)
    BY <1>3, <2>1, <2>3 DEF Project, If, canArchiveProject, canDeleteProject, Policy, p
  <2>4. CASE action \in ProjectImportExport(Data(u))
    BY <1>3, <2>1, <2>4 DEF ProjectImportExport, If, canExportData, canImportData, Policy, p
  <2>5. CASE action \in ProjectModels
    BY <2>1, <2>5 DEF ProjectModels, Policy, p
  <2>6. CASE action \in WebAuthorities
    BY <2>1, <2>6 DEF WebAuthorities, Policy, p
  <2>7. CASE action \in ProjectAuditLog
    BY <1>4, <2>1, <2>7 DEF ProjectAuditLog, Policy, p
  <2>8. QED
    BY <2>2, <2>3, <2>4, <2>5, <2>6, <2>7
<1>6. CASE pg[1] = "data"
  <2>1. admin \/ owner \/ editor
    BY <1>3, <1>6 DEF Allowed, canEditProjectData, p
  <2>2. /\ action \in {"record.create", "record.update", "record.merge", "record.destroy",
                       "record.publish"}
        /\ action = "record.publish" => admin \/ owner
    BY <1>3, <1>6 DEF Offers, ProjectData, If, canPublishRecord, p
  <2>3. QED
    BY <1>4, <2>1, <2>2 DEF Policy, p
<1>7. CASE pg[1] = "user_projects"
  <2>1. admin \/ (owner /\ role[u] = "member")
    BY <1>3, <1>7 DEF Allowed, canEditUserProjects, p
  <2>2. action \in {"user_project.create", "user_project.update", "user_project.destroy",
                    "user_project.invite"}
    BY <1>7 DEF Offers, UserProjects, If
  <2>3. QED
    BY <2>1, <2>2 DEF Policy, p
<1>8. CASE pg[1] \in {"users", "jobs"}
  <2>1. admin
    BY <1>3, <1>8 DEF Allowed, canEditUsers, canCreateJobs
  <2>2. action \in {"user.create", "user.update", "user.destroy", "job.destroy"}
    BY <1>8 DEF Offers, UsersOffers, JobsOffers
  <2>3. QED
    BY <2>1, <2>2 DEF Policy
<1>9. CASE pg[1] \notin {"settings", "data", "user_projects", "users", "jobs"}
  BY <1>9 DEF Offers
<1>10. QED
  BY <1>5, <1>6, <1>7, <1>8, <1>9

\* For any user, a link of a page that the user may see leads where it says.
LEMMA LinksOK ==
  ASSUME ServerOK, NEW u \in Users, NEW pg \in Pages, Allowed(Data(u), pg), Data(u) # None,
         NEW link \in Links(Data(u), pg)
  PROVE  link # Login /\ Allowed(Data(u), link)
<1> DEFINE user == Data(u)
           p == pg[2]
<1> HIDE DEF user
<1>1. canEditUserProjects(user, p) \/ canCreateJobs(user) => canEditProjectSettings(user, p)
  BY DEF canEditUserProjects, canCreateJobs, canEditProjectSettings
<1>2. CASE link \in AdminMenu(user, pg)
  BY <1>2 DEF AdminMenu, Allowed, Home, Login, user
<1>3. CASE link \in ProjectSettingsMenu(user, pg)
  <2>1. pg[1] \in {"settings", "user_projects", "jobs"}
    BY <1>3 DEF ProjectSettingsMenu
  <2>2. canEditProjectSettings(user, p)
    BY <1>1, <2>1 DEF Allowed, user
  <2>3. \/ link = <<"settings", p>>
        \/ link = <<"user_projects", p>> /\ canEditUserProjects(user, p)
        \/ link = <<"jobs", p>> /\ canCreateJobs(user)
    BY <1>3 DEF ProjectSettingsMenu
  <2>4. QED
    BY <2>2, <2>3 DEF Allowed, Login, user
<1>4. CASE link \in ProjectModeLink(user, pg)
  <2>1. canEditProjectSettings(user, p) /\ link \in {<<"data", p>>, <<"settings", p>>}
    BY <1>4 DEF ProjectModeLink
  <2>2. canEditProjectData(user, p)
    BY <2>1 DEF canEditProjectSettings, canEditProjectData
  <2>3. QED
    BY <2>1, <2>2 DEF Allowed, Login, user
<1>5. CASE link \in ProjectsList(user, pg)
  <2>1. CASE link = <<"new_project", None>>
    BY <2>1 DEF Allowed, Login
  <2>2. CASE \E q \in Projects : link = <<"data", q>> /\
               (canArchiveProject(user) \/ (getUserProject(user, q) # None /\ ~isArchived(user, q)))
    <3>1. PICK q \in Projects : link = <<"data", q>> /\
            (canArchiveProject(user) \/ (getUserProject(user, q) # None /\ ~isArchived(user, q)))
      BY <2>2
    <3>2. user # None => getUserProject(user, q) \in {"owner", "editor", None}
      <4>1. members[u][q] \in ProjectRoles \cup {None}
        BY DEF ServerOK
      <4>2. QED
        BY <4>1 DEF getUserProject, user, Data, ProjectRoles
    <3>3. user # None
      BY DEF user
    <3>4. canEditProjectData(user, q)
      BY <3>1, <3>2, <3>3 DEF canArchiveProject, canEditProjectData, isOwner, isEditor
    <3>5. QED
      BY <3>1, <3>4 DEF Allowed, Login, user
  <2>3. QED
    BY <1>5, <2>1, <2>2 DEF ProjectsList
<1>6. CASE link \in UserMenu
  BY <1>6 DEF UserMenu, Reset, Allowed, Login
<1>7. QED
  BY <1>2, <1>3, <1>4, <1>5, <1>6 DEF Links, user

\* Whatever users, projects and roles there are, a tab that knows its user as
\* the server does offers nothing that the policies refuse, and links to no
\* page that its user is sent away from (Permissions.js and app/policies).
THEOREM PagesOfferWhatIsAllowed == SessionSpec => []OffersAreAllowed
<1>1. SInv => OffersAreAllowed
  <2> SUFFICES ASSUME SInv, NEW t \in Tabs, Fresh(t), Allowed(context[t].user, page[t])
               PROVE  /\ \A action \in Offers(context[t].user, page[t]) :
                           Policy(context[t].user.id, action, page[t][2])
                      /\ \A pg \in Links(context[t].user, page[t]) :
                           Landing(TRUE, context[t].user, stored, pg) = pg
    BY DEF OffersAreAllowed
  <2> DEFINE u == context[t].user.id
  <2>1. ServerOK /\ page[t] \in Pages /\ context[t].user \in UserData \cup {None}
    BY DEF SInv, TabsOK, Contexts
  <2>2. context[t].user = Data(u) /\ Data(u) # None /\ u \in Users
    BY <2>1 DEF Fresh, UserData
  <2>3. stored # None => ~stored.user.change
    BY DEF Fresh
  <2> HIDE DEF u
  <2>4. ASSUME NEW action \in Offers(Data(u), page[t]) PROVE Policy(u, action, page[t][2])
    BY <2>1, <2>2, OffersOK
  <2>5. ASSUME NEW pg \in Links(Data(u), page[t])
        PROVE  Landing(TRUE, Data(u), stored, pg) = pg
    <3>1. pg # Login /\ Allowed(Data(u), pg)
      BY <2>1, <2>2, LinksOK
    <3>2. QED
      BY <2>3, <3>1 DEF Landing
  <2>6. Data(u).id = u
    BY DEF Data
  <2>7. QED
    BY <2>2, <2>4, <2>5, <2>6
<1>2. QED
  BY <1>1, AlwaysSInv, PTL

HIDE SessionAssumption
USE MergeDialogAssumption, ImportDialogAssumption

(***************************************************************************)
(* The attributes of the lists.                                            *)
(***************************************************************************)
\* Every attribute is of a kind that the dialog knows to clear, and the policy
\* of its class permits it in a merge.
LEMMA AttributesOfLists ==
  ASSUME NEW c \in MergeClasses
  PROVE  /\ \A a \in DOMAIN Attributes(c) : Attributes(c)[a] \in {"value", "names", "array", "file"}
         /\ DOMAIN Attributes(c) \subseteq PermittedForMerge(c)
<1> DEFINE Known(attributes) ==
             /\ \A a \in DOMAIN attributes : attributes[a] \in {"value", "names", "array", "file"}
             /\ DOMAIN attributes \subseteq PermittedForMerge(c)
<1>1. ASSUME NEW own, Known(own) PROVE Known(Common(own))
  BY <1>1 DEF Common, PermittedForMerge
<1>2. CASE c = "Events"
  BY <1>1, <1>2 DEF Attributes, Events, PermittedForMerge
<1>3. CASE c = "Instances"
  BY <1>1, <1>3 DEF Attributes, Instances, PermittedForMerge
<1>4. CASE c = "Items"
  BY <1>1, <1>4 DEF Attributes, Items, PermittedForMerge
<1>5. CASE c = "MediaContents"
  BY <1>1, <1>5 DEF Attributes, MediaContents, PermittedForMerge
<1>6. CASE c = "Organizations"
  BY <1>1, <1>6 DEF Attributes, Organizations, PermittedForMerge
<1>7. CASE c = "People"
  BY <1>1, <1>7 DEF Attributes, People, PermittedForMerge
<1>8. CASE c = "Places"
  BY <1>1, <1>8 DEF Attributes, Places, PermittedForMerge
<1>9. CASE c = "TaxonomyItems"
  BY <1>1, <1>9 DEF Attributes, TaxonomyItems, PermittedForMerge
<1>10. CASE c = "Works"
  BY <1>1, <1>10 DEF Attributes, Works, PermittedForMerge
<1>11. QED
  BY <1>2, <1>3, <1>4, <1>5, <1>6, <1>7, <1>8, <1>9, <1>10

(***************************************************************************)
(* The values of a merged record.                                          *)
(***************************************************************************)
EntrySet == [of : Listed, primary : BOOLEAN]

AtMostOne(entries) ==
  \A m, n \in DOMAIN entries : entries[m].primary /\ entries[n].primary => m = n

Values(r) ==
  \A a \in OfferedAttributes :
    IF IsArray(a) THEN r[a] \in Seq(EntrySet) ELSE r[a] \in Listed \cup {Unset}

\* Values that come from some records only.
OfOnly(r, ids) ==
  \A a \in OfferedAttributes :
    IF IsArray(a) THEN \A n \in DOMAIN r[a] : r[a][n].of \in ids ELSE r[a] \in ids \cup {Unset}

\* The values that are added for a record: at most one is primary, and none if
\* there is a primary one already.
LEMMA Added ==
  ASSUME NEW a, IsArray(a), NEW i \in Listed, NEW current, current[a] \in Seq(EntrySet)
  PROVE  LET v == getAttributeValue(current, i, a) IN
         /\ v \in Seq(EntrySet)
         /\ AtMostOne(current[a]) => AtMostOne(v)
         /\ \A n \in DOMAIN v : v[n].of = i \/ \E m \in DOMAIN current[a] : v[n].of = current[a][m].of
<1> DEFINE names   == [n \in 1..2 |-> [of |-> i, primary |->
                         Entries(i)[n].primary /\ ~HasPrimary(current[a])]]
           one     == <<[of |-> i, primary |-> FALSE]>>
           entries == IF Kind(a) = "names" THEN names ELSE one
           v       == getAttributeValue(current, i, a)
<1>1. v = current[a] \o entries
  BY DEF getAttributeValue
<1>2. /\ entries \in Seq(EntrySet) /\ AtMostOne(entries)
      /\ \A n \in DOMAIN entries : /\ entries[n].of = i
                                   /\ entries[n].primary => ~HasPrimary(current[a])
  <2>1. CASE Kind(a) = "names"
    <3>1. /\ \A n \in 1..2 : names[n].of = i
          /\ names[1].primary => ~HasPrimary(current[a])
          /\ ~names[2].primary
      <4>1. \A n \in 1..2 : names[n] = [of |-> i, primary |->
                              Entries(i)[n].primary /\ ~HasPrimary(current[a])]
        OBVIOUS
      <4>2. \A b : [of |-> i, primary |-> b].of = i /\ [of |-> i, primary |-> b].primary = b
        OBVIOUS
      <4>3. \A n \in 1..2 : /\ names[n].of = i
                            /\ names[n].primary = (Entries(i)[n].primary /\ ~HasPrimary(current[a]))
        BY <4>1, <4>2, Zenon
      <4>4. Entries(i)[2].primary = FALSE /\ 1 \in 1..2 /\ 2 \in 1..2
        BY DEF Entries
      <4>5. QED
        BY <4>3, <4>4, Zenon
    <3>2. DOMAIN names = 1..2 /\ \A n \in 1..2 : names[n] \in EntrySet
      <4>1. \A n \in 1..2 : (Entries(i)[n].primary /\ ~HasPrimary(current[a])) \in BOOLEAN
        BY Zenon
      <4>2. \A p \in BOOLEAN : [of |-> i, primary |-> p] \in EntrySet
        BY DEF EntrySet
      <4>3. \A n \in 1..2 : [of |-> i, primary |-> Entries(i)[n].primary /\ ~HasPrimary(current[a])]
                              \in EntrySet
        BY <4>1, <4>2, Zenon
      <4>4. QED
        BY <4>3, Zenon
    <3>3. names \in [1..2 -> EntrySet]
      BY <3>2
    <3>4. names \in Seq(EntrySet)
      BY <3>3, SeqDef
    <3>5. \A n \in DOMAIN names : n = 1 \/ n = 2
      BY <3>2
    <3>6. AtMostOne(names)
      BY <3>1, <3>5 DEF AtMostOne
    <3>7. QED
      BY <2>1, <3>1, <3>4, <3>5, <3>6
  <2>2. CASE Kind(a) # "names"
    <3>1. DOMAIN one = {1} /\ one[1] = [of |-> i, primary |-> FALSE] /\ one \in Seq(EntrySet)
      BY DEF EntrySet
    <3>2. QED
      BY <2>2, <3>1 DEF AtMostOne
  <2>3. QED
    BY <2>1, <2>2
<1>3. /\ v \in Seq(EntrySet) /\ Len(v) = Len(current[a]) + Len(entries)
      /\ \A n \in 1..Len(v) : v[n] = IF n <= Len(current[a]) THEN current[a][n]
                                     ELSE entries[n - Len(current[a])]
  <2> HIDE DEF entries, v
  <2>1. QED
    BY <1>1, <1>2, ConcatProperties
<1>4. /\ DOMAIN v = 1..Len(v) /\ DOMAIN current[a] = 1..Len(current[a])
      /\ DOMAIN entries = 1..Len(entries) /\ Len(current[a]) \in Nat /\ Len(entries) \in Nat
  <2> HIDE DEF entries, v
  <2>1. QED
    BY <1>2, <1>3, LenProperties
<1>5. \A n \in DOMAIN v :
        \/ n \in DOMAIN current[a] /\ v[n] = current[a][n]
        \/ n - Len(current[a]) \in DOMAIN entries /\ v[n] = entries[n - Len(current[a])]
  <2> HIDE DEF entries, v
  <2>1. QED
    BY <1>3, <1>4
<1>6. ASSUME AtMostOne(current[a]) PROVE AtMostOne(v)
  <2> HIDE DEF entries, v
  <2>1. SUFFICES ASSUME NEW m \in DOMAIN v, NEW n \in DOMAIN v, v[m].primary, v[n].primary
                 PROVE  m = n
    BY DEF AtMostOne
  <2>2. CASE HasPrimary(current[a])
    BY <1>2, <1>5, <1>6, <2>1, <2>2 DEF AtMostOne
  <2>3. CASE ~HasPrimary(current[a])
    <3>1. /\ m - Len(current[a]) \in DOMAIN entries /\ entries[m - Len(current[a])].primary
          /\ n - Len(current[a]) \in DOMAIN entries /\ entries[n - Len(current[a])].primary
      BY <1>5, <2>1, <2>3 DEF HasPrimary
    <3>2. m - Len(current[a]) = n - Len(current[a])
      BY <1>2, <3>1 DEF AtMostOne
    <3>3. QED
      BY <1>4, <3>2
  <2>4. QED
    BY <2>2, <2>3
<1>7. \A n \in DOMAIN v : v[n].of = i \/ \E m \in DOMAIN current[a] : v[n].of = current[a][m].of
  <2> HIDE DEF entries, v
  <2>1. QED
    BY <1>2, <1>5
<1>8. QED
  BY <1>3, <1>6, <1>7

\* A value that is removed changes none of the others.
LEMMA RemovedAt ==
  ASSUME NEW S, NEW s \in Seq(S), NEW i \in DOMAIN s
  PROVE  LET r == RemoveAt(s, i) IN
         /\ r \in Seq(S) /\ Len(r) = Len(s) - 1
         /\ \A n \in DOMAIN r : r[n] = IF n < i THEN s[n] ELSE s[n + 1]
         /\ \A n \in DOMAIN r : n \in DOMAIN s /\ n + 1 \in DOMAIN s
<1> DEFINE head == SubSeq(s, 1, i - 1)
           tail == SubSeq(s, i + 1, Len(s))
           r    == RemoveAt(s, i)
<1>1. DOMAIN s = 1..Len(s) /\ Len(s) \in Nat /\ \A n \in 1..Len(s) : s[n] \in S
  BY LenProperties, ElementOfSeq
<1>2. /\ head \in Seq(S) /\ Len(head) = i - 1
      /\ \A n \in 1..(i - 1) : head[n] = s[n]
  <2>1. \A n \in 1..(i - 1) : s[n] \in S
    BY <1>1
  <2>2. QED
    BY <1>1, <2>1, SubSeqProperties
<1>3. /\ tail \in Seq(S) /\ Len(tail) = Len(s) - i
      /\ \A n \in 1..(Len(s) - i) : tail[n] = s[i + n]
  <2>1. \A n \in (i + 1)..Len(s) : s[n] \in S
    BY <1>1
  <2>2. QED
    BY <1>1, <2>1, SubSeqProperties
<1>4. r = head \o tail
  BY DEF RemoveAt
<1> HIDE DEF head, tail, r
<1>5. /\ r \in Seq(S) /\ Len(r) = (i - 1) + (Len(s) - i)
      /\ \A n \in 1..((i - 1) + (Len(s) - i)) : r[n] = IF n <= i - 1 THEN head[n] ELSE tail[n - (i - 1)]
  BY <1>2, <1>3, <1>4, ConcatProperties
<1>6. Len(r) = Len(s) - 1 /\ DOMAIN r = 1..(Len(s) - 1)
  BY <1>1, <1>5, LenProperties
<1>7. ASSUME NEW n \in DOMAIN r
      PROVE  /\ r[n] = IF n < i THEN s[n] ELSE s[n + 1]
             /\ n \in DOMAIN s /\ n + 1 \in DOMAIN s
  <2>1. CASE n < i
    BY <1>1, <1>2, <1>5, <1>6, <1>7, <2>1
  <2>2. CASE n >= i
    <3>1. r[n] = tail[n - (i - 1)] /\ n - (i - 1) \in 1..(Len(s) - i)
      BY <1>1, <1>5, <1>6, <1>7, <2>2
    <3>2. tail[n - (i - 1)] = s[i + (n - (i - 1))] /\ i + (n - (i - 1)) = n + 1
      BY <1>1, <1>3, <1>6, <1>7, <3>1
    <3>3. QED
      BY <1>1, <1>6, <1>7, <2>2, <3>1, <3>2
  <2>3. QED
    BY <1>1, <1>6, <1>7, <2>1, <2>2
<1>8. QED
  BY <1>5, <1>6, <1>7 DEF r

(***************************************************************************)
(* The dialog that merges records.                                         *)
(***************************************************************************)
\* A merged record that was put together from some records: its values are theirs,
\* and an attribute that was picked has one.
Draft(r, p, ids) ==
  /\ DOMAIN r \subseteq OfferedAttributes /\ p \subseteq DOMAIN r
  /\ \A a \in DOMAIN r : IF IsArray(a) THEN \A n \in DOMAIN r[a] : r[a][n].of \in ids
                                       ELSE r[a] \in ids \cup {Unset}
  /\ \A a \in p : ~IsArray(a) => r[a] \in ids

MergeInv ==
  /\ MergeTypeOK
  /\ ~toggled => \A a \in OfferedAttributes : IsArray(a) => AtMostOne(record[a])
  /\ items # Unset => Draft(record, picked, items)
  /\ DOMAIN merging = {"stage", "ids", "record", "picked"}
  /\ Draft(merging.record, merging.picked, merging.ids)
  /\ PickedIsMerged

LEMMA MergeInitInv == MergeInit => MergeInv
<1>1. DOMAIN EmptyRecord = OfferedAttributes
  BY DEF EmptyRecord
<1>2. \A a \in OfferedAttributes : EmptyRecord[a] = IF IsArray(a) THEN <<>> ELSE Unset
  BY DEF EmptyRecord
<1> SUFFICES ASSUME MergeInit PROVE MergeInv
  OBVIOUS
<1>3. MergeTypeOK
  <2>1. \A a \in OfferedAttributes :
          IF IsArray(a) THEN record[a] \in Seq([of : Listed, primary : BOOLEAN])
                        ELSE record[a] \in Listed \cup {Unset}
    <3>1. <<>> \in Seq([of : Listed, primary : BOOLEAN]) /\ record = EmptyRecord
      BY DEF MergeInit
    <3>2. QED
      BY <1>2, <3>1
  <2>2. DOMAIN record = OfferedAttributes /\ merging.stage \in Stages
    BY <1>1 DEF MergeInit, NoMerge, Stages
  <2>3. /\ list \in MergeClasses /\ there \subseteq Listed /\ selected \subseteq Listed
        /\ items = Unset /\ picked = {} /\ picks \in 0..MaxPicks /\ selections \in 0..MaxSelections
    BY DEF MergeInit
  <2>4. QED
    BY <2>1, <2>2, <2>3 DEF MergeTypeOK
<1>4. \A a \in OfferedAttributes : IsArray(a) => AtMostOne(record[a])
  BY <1>2 DEF MergeInit, AtMostOne
<1>5. Draft(merging.record, merging.picked, merging.ids) /\ DOMAIN merging = {"stage", "ids", "record", "picked"}
  BY DEF MergeInit, NoMerge, Draft
<1>6. PickedIsMerged
  BY DEF MergeInit, NothingTaken, PickedIsMerged
<1>7. QED
  BY <1>3, <1>4, <1>5, <1>6 DEF MergeInv, MergeInit

\* The records of the list stay of their class, whatever happens.
LEMMA SameAttributes ==
  ASSUME list' = list
  PROVE  /\ OfferedAttributes' = OfferedAttributes
         /\ \A a : Kind(a)' = Kind(a) /\ IsArray(a)' = IsArray(a)
BY DEF OfferedAttributes, Kind, IsArray, Attributes

LEMMA TakenKept ==
  ASSUME PickedIsMerged, UNCHANGED <<list, taken>>
  PROVE  PickedIsMerged'
BY SameAttributes DEF PickedIsMerged

\* Every change of one attribute in the dialog.
LEMMA Edited ==
  ASSUME MergeInv, Editing, DialogUnchanged,
         NEW a \in OfferedAttributes, NEW v,
         DOMAIN record' = DOMAIN record,
         \A b \in DOMAIN record : record'[b] = IF b = a THEN v ELSE record[b],
         IF IsArray(a) THEN v \in Seq(EntrySet) /\ \A n \in DOMAIN v : v[n].of \in items
                       ELSE v \in items \cup {Unset},
         \/ picked' = picked \cup {a} /\ (~IsArray(a) => v \in items)
         \/ picked' = picked \ {a}
         \/ picked' = picked /\ IsArray(a),
         ~toggled' => ~toggled /\ (IsArray(a) => (AtMostOne(record[a]) => AtMostOne(v)))
  PROVE  MergeInv'
<1>1. list' = list /\ items' = items /\ items # Unset /\ merging' = merging
  BY DEF Editing, DialogUnchanged
<1>2. /\ OfferedAttributes' = OfferedAttributes
      /\ \A b : IsArray(b)' = IsArray(b)
  BY <1>1, SameAttributes
<1>3. items \subseteq Listed /\ DOMAIN record = OfferedAttributes
  BY <1>1 DEF MergeInv, MergeTypeOK
<1>4. DOMAIN record' = OfferedAttributes
  BY <1>3
<1>5. \A b \in OfferedAttributes : record'[b] = IF b = a THEN v ELSE record[b]
  BY <1>3
<1>6. MergeTypeOK'
  <2>1. \A b \in OfferedAttributes :
          IF IsArray(b) THEN record'[b] \in Seq(EntrySet) ELSE record'[b] \in Listed \cup {Unset}
    BY <1>3, <1>5 DEF MergeInv, MergeTypeOK, EntrySet
  <2>2. picked' \subseteq OfferedAttributes /\ picks' \in 0..MaxPicks
    BY DEF MergeInv, MergeTypeOK, Editing
  <2>3. QED
    BY <1>1, <1>2, <1>4, <2>1, <2>2 DEF MergeInv, MergeTypeOK, EntrySet, DialogUnchanged
<1>7. ASSUME ~toggled', NEW b \in OfferedAttributes, IsArray(b) PROVE AtMostOne(record'[b])
  BY <1>5, <1>7 DEF MergeInv
<1>8. Draft(record', picked', items)
  <2>1. Draft(record, picked, items)
    BY <1>1 DEF MergeInv
  <2>2. picked' \subseteq DOMAIN record'
    BY <1>3, <1>4, <2>1 DEF Draft
  <2>3. ASSUME NEW b \in OfferedAttributes
        PROVE  IF IsArray(b) THEN \A n \in DOMAIN record'[b] : record'[b][n].of \in items
                             ELSE record'[b] \in items \cup {Unset}
    BY <1>3, <1>5, <2>1 DEF Draft
  <2>4. ASSUME NEW b \in picked', ~IsArray(b) PROVE record'[b] \in items
    BY <1>3, <1>4, <1>5, <2>1, <2>2, <2>4 DEF Draft
  <2>5. QED
    BY <1>4, <2>2, <2>3, <2>4 DEF Draft
<1>9. Draft(record, picked, items)' /\ Draft(merging.record, merging.picked, merging.ids)'
  <2>1. Draft(merging.record, merging.picked, merging.ids)
    BY DEF MergeInv
  <2>2. QED
    BY <1>1, <1>2, <1>8, <2>1 DEF Draft
<1>10. QED
  <2>1. (\A b \in OfferedAttributes : IsArray(b) => AtMostOne(record[b]))' \/ toggled'
    BY <1>2, <1>7 DEF AtMostOne
  <2>2. PickedIsMerged'
    BY TakenKept DEF MergeInv, DialogUnchanged
  <2>3. QED
    BY <1>1, <1>6, <1>9, <2>1, <2>2 DEF MergeInv

LEMMA AttributePicked ==
  ASSUME MergeInv, NEW i \in Listed, NEW a \in OfferedAttributes, onAttributeSelection(i, a)
  PROVE  MergeInv'
<1> DEFINE v == getAttributeValue(record, i, a)
<1>1. /\ Editing /\ DialogUnchanged /\ i \in items /\ items # Unset
      /\ DOMAIN record' = DOMAIN record
      /\ \A b \in DOMAIN record : record'[b] = IF b = a THEN v ELSE record[b]
      /\ picked' = picked \cup {a} /\ toggled' = toggled
  BY DEF onAttributeSelection, Editing
<1>2. CASE IsArray(a)
  <2>1. record[a] \in Seq(EntrySet) /\ \A n \in DOMAIN record[a] : record[a][n].of \in items
    BY <1>1, <1>2 DEF MergeInv, MergeTypeOK, Draft, EntrySet
  <2>2. /\ v \in Seq(EntrySet)
        /\ AtMostOne(record[a]) => AtMostOne(v)
        /\ \A n \in DOMAIN v : v[n].of = i \/ \E m \in DOMAIN record[a] : v[n].of = record[a][m].of
    BY <1>2, <2>1, Added
  <2> HIDE DEF v
  <2>3. \A n \in DOMAIN v : v[n].of \in items
    BY <1>1, <2>1, <2>2
  <2>4. QED
    BY <1>1, <1>2, <2>2, <2>3, Edited
<1>3. CASE ~IsArray(a)
  <2>1. v = i
    BY <1>3 DEF getAttributeValue
  <2> HIDE DEF v
  <2>2. QED
    BY <1>1, <1>3, <2>1, Edited
<1>4. QED
  BY <1>2, <1>3

LEMMA AttributeCleared ==
  ASSUME MergeInv, NEW a \in OfferedAttributes, onClearAttribute(a)
  PROVE  MergeInv'
<1>1. Editing /\ DialogUnchanged /\ picked' = picked \ {a} /\ toggled' = toggled /\ items # Unset
  BY DEF onClearAttribute, Editing
<1>2. Kind(a) \in {"value", "names", "array", "file"}
  BY AttributesOfLists DEF MergeInv, MergeTypeOK, OfferedAttributes, Kind
<1>3. CASE IsArray(a)
  <2>1. record' = [record EXCEPT ![a] = <<>>]
    BY <1>3 DEF onClearAttribute, IsArray
  <2>2. <<>> \in Seq(EntrySet) /\ DOMAIN <<>> = {} /\ AtMostOne(<<>>)
    BY DEF AtMostOne
  <2>3. QED
    BY <1>1, <1>3, <2>1, <2>2, Edited
<1>4. CASE Kind(a) = "value"
  <2>1. record' = [record EXCEPT ![a] = Unset] /\ ~IsArray(a)
    BY <1>4 DEF onClearAttribute, IsArray
  <2>2. QED
    BY <1>1, <2>1, Edited
<1>5. CASE Kind(a) = "file"
  <2>1. record' = record /\ ~IsArray(a)
    BY <1>5 DEF onClearAttribute, IsArray
  <2>2. record[a] \in items \cup {Unset}
    BY <1>1, <2>1 DEF MergeInv, MergeTypeOK, Draft
  <2>3. QED
    BY <1>1, <2>1, <2>2, Edited
<1>6. QED
  BY <1>2, <1>3, <1>4, <1>5 DEF IsArray

LEMMA ItemRemoved ==
  ASSUME MergeInv, NEW a \in OfferedAttributes, NEW n \in Nat, onRemoveArrayItem(a, n)
  PROVE  MergeInv'
<1> DEFINE v == RemoveAt(record[a], n)
<1>1. /\ Editing /\ DialogUnchanged /\ IsArray(a) /\ n \in DOMAIN record[a] /\ items # Unset
      /\ DOMAIN record' = DOMAIN record
      /\ \A b \in DOMAIN record : record'[b] = IF b = a THEN v ELSE record[b]
      /\ picked' = picked /\ toggled' = toggled
  BY DEF onRemoveArrayItem, Editing
<1>2. /\ record[a] \in Seq(EntrySet) /\ DOMAIN record[a] \subseteq Nat
      /\ \A m \in DOMAIN record[a] : record[a][m].of \in items
  <2>1. record[a] \in Seq(EntrySet) /\ \A m \in DOMAIN record[a] : record[a][m].of \in items
    BY <1>1 DEF MergeInv, MergeTypeOK, Draft, EntrySet
  <2>2. QED
    BY <2>1, LenProperties
<1>3. /\ v \in Seq(EntrySet) /\ DOMAIN v \subseteq Nat
      /\ \A m \in DOMAIN v : v[m] = IF m < n THEN record[a][m] ELSE record[a][m + 1]
      /\ \A m \in DOMAIN v : m \in DOMAIN record[a] /\ m + 1 \in DOMAIN record[a]
  BY ZenonT(30), <1>1, <1>2, RemovedAt
<1> HIDE DEF v
<1>4. \A m \in DOMAIN v : v[m].of \in items
  BY <1>2, <1>3
<1>5. AtMostOne(record[a]) => AtMostOne(v)
  <2>1. SUFFICES ASSUME AtMostOne(record[a]), NEW k \in DOMAIN v, NEW m \in DOMAIN v,
                        v[k].primary, v[m].primary
                 PROVE  k = m
    BY DEF AtMostOne
  <2> DEFINE Place(j) == IF j < n THEN j ELSE j + 1
  <2>2. \A j \in {k, m} : Place(j) \in DOMAIN record[a] /\ record[a][Place(j)] = v[j]
    BY <1>3, <2>1
  <2>3. Place(k) = Place(m)
    BY <2>1, <2>2 DEF AtMostOne
  <2>4. QED
    BY <1>1, <1>2, <1>3, <2>3
<1>6. QED
  BY <1>1, <1>3, <1>4, <1>5, Edited

LEMMA PrimaryToggled ==
  ASSUME MergeInv, NEW a \in OfferedAttributes, NEW n \in Nat, onTogglePrimary(a, n)
  PROVE  MergeInv'
<1> DEFINE v == [record[a] EXCEPT ![n].primary = ~@]
<1>1. /\ Editing /\ DialogUnchanged /\ IsArray(a) /\ n \in DOMAIN record[a] /\ items # Unset
      /\ DOMAIN record' = DOMAIN record
      /\ \A b \in DOMAIN record : record'[b] = IF b = a THEN v ELSE record[b]
      /\ picked' = picked /\ toggled' = TRUE
  BY DEF onTogglePrimary, Editing, IsArray
<1>2. record[a] \in Seq(EntrySet) /\ \A m \in DOMAIN record[a] : record[a][m].of \in items
  BY <1>1 DEF MergeInv, MergeTypeOK, Draft, EntrySet
<1>3. v \in Seq(EntrySet) /\ \A m \in DOMAIN v : v[m].of \in items
  <2> DEFINE e == [record[a][n] EXCEPT !.primary = ~@]
  <2>1. record[a][n] \in EntrySet
    BY <1>1, <1>2, ElementOfSeq, LenProperties
  <2>2. e.of = record[a][n].of
    BY <2>1 DEF EntrySet
  <2>3. e \in EntrySet
    BY <2>1 DEF EntrySet
  <2>4. v = [record[a] EXCEPT ![n] = e]
    OBVIOUS
  <2> HIDE DEF e, v
  <2>5. v \in Seq(EntrySet) /\ DOMAIN v = DOMAIN record[a] /\ v[n] = e
        /\ \A m \in DOMAIN v : m # n => v[m] = record[a][m]
    BY <1>1, <1>2, <2>3, <2>4, ExceptSeq, LenProperties
  <2>6. QED
    BY <1>1, <1>2, <2>2, <2>5
<1> HIDE DEF v
<1>4. QED
  BY <1>1, <1>3, Edited

\* A merged record that is set as a whole: empty, or the values of one record.
LEMMA RecordReplaced ==
  ASSUME MergeInv, UNCHANGED <<list, there, selected, merging, taken, selections>>,
         picks' \in 0..MaxPicks,
         items' = Unset \/ items' \subseteq selected,
         \/ record' = EmptyRecord /\ picked' = {}
         \/ \E i \in items' : items' # Unset /\ picked' = OfferedAttributes /\ record' =
              [a \in OfferedAttributes |-> getAttributeValue(EmptyRecord, i, a)]
  PROVE  MergeInv'
<1>1. /\ OfferedAttributes' = OfferedAttributes
      /\ \A b : IsArray(b)' = IsArray(b)
  BY SameAttributes
<1>2. \A a \in OfferedAttributes : EmptyRecord[a] = IF IsArray(a) THEN <<>> ELSE Unset
  BY DEF EmptyRecord
<1>3. items' # Unset => items' \subseteq Listed
  BY DEF MergeInv, MergeTypeOK
<1>4. DOMAIN record' = OfferedAttributes /\ picked' \subseteq OfferedAttributes
  BY DEF EmptyRecord
<1>5. <<>> \in Seq(EntrySet) /\ DOMAIN <<>> = {} /\ AtMostOne(<<>>)
  BY DEF AtMostOne
<1>6. ASSUME NEW a \in OfferedAttributes
      PROVE  /\ IF IsArray(a) THEN /\ record'[a] \in Seq(EntrySet) /\ AtMostOne(record'[a])
                                   /\ \A n \in DOMAIN record'[a] : record'[a][n].of \in items'
                              ELSE record'[a] \in Listed \cup {Unset} /\ record'[a] \in items' \cup {Unset}
             /\ a \in picked' /\ ~IsArray(a) => record'[a] \in items'
  <2>1. CASE record' = EmptyRecord /\ picked' = {}
    <3>1. CASE IsArray(a)
      BY <1>2, <1>5, <2>1, <3>1
    <3>2. CASE ~IsArray(a)
      BY <1>2, <2>1, <3>2
    <3>3. QED
      BY <3>1, <3>2
  <2>2. CASE \E i \in items' : items' # Unset /\ picked' = OfferedAttributes /\ record' =
               [b \in OfferedAttributes |-> getAttributeValue(EmptyRecord, i, b)]
    <3>1. PICK i \in items' : items' # Unset /\ record' =
                 [b \in OfferedAttributes |-> getAttributeValue(EmptyRecord, i, b)]
      BY <2>2
    <3> DEFINE v == getAttributeValue(EmptyRecord, i, a)
    <3>2. record'[a] = v /\ i \in Listed
      BY <1>3, <3>1
    <3>3. CASE IsArray(a)
      <4>1. EmptyRecord[a] = <<>>
        BY <1>2, <3>3
      <4>2. /\ v \in Seq(EntrySet)
            /\ AtMostOne(EmptyRecord[a]) => AtMostOne(v)
            /\ \A n \in DOMAIN v : \/ v[n].of = i
                                   \/ \E m \in DOMAIN EmptyRecord[a] : v[n].of = EmptyRecord[a][m].of
        BY ZenonT(30), <1>5, <3>2, <3>3, <4>1, Added
      <4> HIDE DEF v
      <4>3. QED
        BY <1>5, <3>2, <3>3, <4>1, <4>2
    <3>4. CASE ~IsArray(a)
      <4>1. v = i
        BY <3>4 DEF getAttributeValue
      <4>2. QED
        BY <3>2, <3>4, <4>1
    <3>5. QED
      BY <3>3, <3>4
  <2>3. QED
    BY <2>1, <2>2
<1>7. MergeTypeOK'
  BY <1>1, <1>4, <1>6 DEF MergeInv, MergeTypeOK, EntrySet
<1>8. Draft(record, picked, items)' /\ Draft(merging.record, merging.picked, merging.ids)'
  <2>1. Draft(record, picked, items)'
    BY <1>1, <1>4, <1>6 DEF Draft
  <2>2. Draft(merging.record, merging.picked, merging.ids)
    BY DEF MergeInv
  <2>3. QED
    BY <1>1, <2>1, <2>2 DEF Draft
<1>9. (\A a \in OfferedAttributes : IsArray(a) => AtMostOne(record[a]))'
  BY <1>1, <1>6 DEF AtMostOne
<1>10. PickedIsMerged'
  BY TakenKept DEF MergeInv
<1>11. QED
  BY <1>7, <1>8, <1>9, <1>10 DEF MergeInv

\* What the server takes over from a merged record is all of it but a file: the
\* list offers nothing that the policy of its class does not permit.
LEMMA MergeTakes ==
  ASSUME MergeInv, list' = list, Merge
  PROVE  PickedIsMerged'
<1> DEFINE r == merging.record
           t == taken'
<1>1. Draft(r, merging.picked, merging.ids) /\ list \in MergeClasses
  BY DEF MergeInv, MergeTypeOK
<1>2. PICK fetched \in BOOLEAN :
        t = [ids |-> merging.ids, record |-> r, picked |-> merging.picked,
             stored |-> Sent(list, set_content(list, r, fetched))]
  BY DEF Merge
<1>3. ASSUME NEW a \in DOMAIN r
      PROVE  t.stored[a] = IF Kind(a) = "file" /\ ~fetched THEN Unset ELSE r[a]
  <2>1. a \in PermittedForMerge(list)
    BY <1>1, AttributesOfLists DEF Draft, OfferedAttributes
  <2>2. QED
    BY <1>2, <2>1 DEF Sent, set_content, Kind
<1>4. ASSUME NEW a \in t.picked
      PROVE  IF IsArray(a) THEN t.stored[a] = t.record[a]
             ELSE t.stored[a] \in t.ids \/ (Kind(a) = "file" /\ t.stored[a] = Unset)
  <2>1. a \in DOMAIN r
    BY <1>1, <1>2 DEF Draft
  <2>2. IsArray(a) => Kind(a) # "file"
    BY DEF IsArray
  <2>3. QED
    BY <1>1, <1>2, <1>3, <2>1, <2>2 DEF Draft
<1>5. QED
  BY <1>4, SameAttributes DEF PickedIsMerged

\* What happens to the list, the confirmation and the answer leaves the merged
\* record alone, and what waits is nothing or a copy of it.
LEMMA RecordKept ==
  ASSUME MergeInv, UNCHANGED <<list, record, picked, toggled, picks>>, UNCHANGED taken \/ Merge,
         there' \subseteq Listed, selected' \subseteq Listed, selections' \in 0..MaxSelections,
         items' = Unset \/ (items' = items /\ items \subseteq selected'),
         \/ merging' = merging \/ merging' = NoMerge
         \/ \E s \in Stages : merging' = [merging EXCEPT !.stage = s]
         \/ /\ items # Unset
            /\ merging' = [stage |-> "confirm", ids |-> selected, record |-> record, picked |-> picked]
  PROVE  MergeInv'
<1>1. /\ OfferedAttributes' = OfferedAttributes
      /\ \A b : IsArray(b)' = IsArray(b)
  BY SameAttributes
<1>2. /\ merging'.stage \in Stages
      /\ DOMAIN merging' = {"stage", "ids", "record", "picked"}
      /\ Draft(merging'.record, merging'.picked, merging'.ids)
  <2>1. CASE merging' = NoMerge
    BY <2>1 DEF NoMerge, Stages, Draft
  <2>2. CASE \E s \in Stages : merging' = [merging EXCEPT !.stage = s]
    BY <2>2 DEF MergeInv
  <2>3. CASE /\ items # Unset
             /\ merging' = [stage |-> "confirm", ids |-> selected, record |-> record, picked |-> picked]
    <3>1. Draft(record, picked, items) /\ items \subseteq selected
      BY <2>3 DEF MergeInv, MergeTypeOK
    <3>2. Draft(record, picked, selected)
      BY <3>1 DEF Draft
    <3>3. QED
      BY <2>3, <3>2 DEF Stages
  <2>4. CASE merging' = merging
    BY <2>4 DEF MergeInv, MergeTypeOK
  <2>5. QED
    BY <2>1, <2>2, <2>3, <2>4
<1>3. MergeTypeOK'
  BY <1>1, <1>2 DEF MergeInv, MergeTypeOK
<1>4. (items' # Unset => Draft(record, picked, items)') /\ Draft(merging.record, merging.picked, merging.ids)'
  BY <1>1, <1>2 DEF MergeInv, Draft
<1>5. ~toggled' => (\A a \in OfferedAttributes : IsArray(a) => AtMostOne(record[a]))'
  BY <1>1 DEF MergeInv, AtMostOne
<1>6. PickedIsMerged'
  BY TakenKept, MergeTakes DEF MergeInv
<1>7. QED
  BY <1>2, <1>3, <1>4, <1>5, <1>6 DEF MergeInv

LEMMA MergeStepInv == MergeInv /\ [MergeNext]_mergeVars => MergeInv'
<1> SUFFICES ASSUME MergeInv, [MergeNext]_mergeVars PROVE MergeInv'
  OBVIOUS
<1>0. /\ there \subseteq Listed /\ selected \subseteq Listed
      /\ items = Unset \/ items \subseteq selected
      /\ picks \in 0..MaxPicks /\ selections \in 0..MaxSelections
  BY DEF MergeInv, MergeTypeOK
<1>1. ASSUME NEW i \in Listed, onRowSelect(i) \/ onDelete(i) PROVE MergeInv'
  <2>1. /\ UNCHANGED <<list, items, record, picked, toggled, merging, taken, picks>> /\ items = Unset
        /\ there' \subseteq Listed /\ selected' \subseteq Listed /\ selections' \in 0..MaxSelections
    BY <1>0, <1>1 DEF onRowSelect, onDelete, Listing, ListUnchanged
  <2>2. QED
    BY <2>1, RecordKept
<1>2. CASE Open
  BY <1>0, <1>2, RecordReplaced DEF Open
<1>3. CASE Submit \/ Cancel \/ onMerge
  <2>1. UNCHANGED <<list, there, selected, items, record, picked, toggled, taken, picks, selections>>
    BY <1>3 DEF Submit, Cancel, onMerge, StageUnchanged, DraftUnchanged
  <2>2. \/ merging' = NoMerge
        \/ \E s \in Stages : merging' = [merging EXCEPT !.stage = s]
        \/ /\ items # Unset
           /\ merging' = [stage |-> "confirm", ids |-> selected, record |-> record, picked |-> picked]
    BY <1>3 DEF Submit, Cancel, onMerge, Stages
  <2>3. QED
    BY <1>0, <2>1, <2>2, RecordKept
<1>4. CASE onClose
  BY <1>0, <1>4, RecordKept DEF onClose, DraftUnchanged
<1>5. ASSUME NEW i \in Listed, onSelect(i) PROVE MergeInv'
  <2>1. /\ i \in items' /\ items' # Unset /\ picked' = OfferedAttributes /\ items' \subseteq selected'
        /\ UNCHANGED <<list, there, selected, merging, taken, selections>> /\ picks' \in 0..MaxPicks
        /\ record' = [a \in OfferedAttributes |-> getAttributeValue(EmptyRecord, i, a)]
    BY <1>0, <1>5 DEF onSelect, Editing, DialogUnchanged
  <2>2. QED
    BY <2>1, RecordReplaced
<1>6. ASSUME NEW i \in Listed, NEW a \in OfferedAttributes, onAttributeSelection(i, a) PROVE MergeInv'
  BY <1>6, AttributePicked
<1>7. ASSUME NEW a \in OfferedAttributes, onClearAttribute(a) PROVE MergeInv'
  BY <1>7, AttributeCleared
<1>8. ASSUME NEW a \in OfferedAttributes, NEW n \in 1..(2 * MaxPicks),
             onRemoveArrayItem(a, n) \/ onTogglePrimary(a, n)
      PROVE  MergeInv'
  BY <1>8, ItemRemoved, PrimaryToggled
<1>9. CASE onClear
  <2>1. /\ items' \subseteq selected' /\ picks' \in 0..MaxPicks
        /\ UNCHANGED <<list, there, selected, merging, taken, selections>>
        /\ record' = EmptyRecord /\ picked' = {}
    BY <1>0, <1>9 DEF onClear, Editing, DialogUnchanged
  <2>2. QED
    BY <2>1, RecordReplaced
<1>10. CASE afterMerge \/ onError \/ Lost
  <2>1. /\ UNCHANGED <<list, record, picked, toggled, picks, selections>>
        /\ there' \subseteq Listed /\ selected' \subseteq Listed
        /\ items' = Unset \/ (items' = items /\ selected' = selected)
    BY <1>0, <1>10 DEF afterMerge, onError, Lost, Merge, StageUnchanged, DraftUnchanged
  <2>2. merging' = NoMerge \/ \E s \in Stages : merging' = [merging EXCEPT !.stage = s]
    BY <1>10 DEF afterMerge, onError, Lost, Stages
  <2>3. UNCHANGED taken \/ Merge
    BY <1>10 DEF afterMerge, onError, Lost, StageUnchanged
  <2>4. QED
    BY <1>0, <2>1, <2>2, <2>3, RecordKept
<1>11. CASE UNCHANGED mergeVars
  BY <1>0, <1>11, RecordKept DEF mergeVars
<1>12. QED
  BY <1>1, <1>2, <1>3, <1>4, <1>5, <1>6, <1>7, <1>8, <1>9, <1>10, <1>11 DEF MergeNext

LEMMA MergeInvImplies == MergeInv => OnePrimaryName /\ MergedFromTheMerged /\ PickedIsMerged
<1> SUFFICES ASSUME MergeInv PROVE OnePrimaryName /\ MergedFromTheMerged /\ PickedIsMerged
  OBVIOUS
<1>1. OnePrimaryName
  BY DEF MergeInv, OnePrimaryName, AtMostOne
<1>2. Draft(merging.record, merging.picked, merging.ids) /\ list \in MergeClasses
  BY DEF MergeInv, MergeTypeOK
<1>3. MergedFromTheMerged
  BY <1>2 DEF MergedFromTheMerged, Draft
<1>4. QED
  BY <1>1, <1>3 DEF MergeInv

LEMMA AlwaysMergeInv == MergeSpec => []MergeInv
BY MergeInitInv, MergeStepInv, PTL DEF MergeSpec

(***************************************************************************)
(* The dialog that imports a file.                                         *)
(***************************************************************************)
RowSet == [row : DOMAIN Rows, result : SUBSET DOMAIN Rows,
           status : {"new", "noConflict", "conflict", "resolved"}]

\* The dialog apart from its rows.
PageOK ==
  /\ busy \subseteq Jobs /\ messages \subseteq {"error", "importSuccess", "exportSuccess"}
  /\ dialog \in BOOLEAN /\ duplicates \in BOOLEAN /\ errors \in BOOLEAN /\ disturbed \in BOOLEAN
  /\ stage \in {"none", "confirm", "sent"} /\ analyses \in Nat /\ unattended \in Nat
  /\ steps \in 0..MaxSteps
  /\ DOMAIN decisions = {"removed", "resolved", "duplicates"}

\* A row with values of its own record alone, which was resolved if it says so.
Kept(r) ==
  /\ r.result = {r.row}
  /\ r.status = "resolved" => r.row \in decisions.resolved
  /\ r.status = "noConflict" => Rows[r.row] = "noConflict"

RowsOK ==
  /\ data = Unknown \/ (data \in Seq(RowSet) /\ Len(data) <= Len(Rows))
  /\ comparing = NoRow \/ comparing \in [index : DOMAIN Rows, result : SUBSET DOMAIN Rows]
  /\ (data # Unknown /\ ~disturbed) => \A n \in DOMAIN data : Kept(data[n])

\* Unless the file is analysed again, a row that is compared is still at its index.
ComparingOK ==
  (comparing # NoRow /\ ~disturbed) =>
    data # Unknown /\ comparing.index \in DOMAIN data
      /\ comparing.result = {data[comparing.index].row}

ImportInv == PageOK /\ RowsOK /\ ComparingOK

LEMMA RowsAnalysed ==
  /\ Analysed \in Seq(RowSet) /\ Len(Analysed) = Len(Rows)
  /\ \A n \in DOMAIN Analysed : Kept(Analysed[n])
<1>1. DOMAIN Rows = 1..Len(Rows) /\ Len(Rows) \in Nat
      /\ \A n \in 1..Len(Rows) : Rows[n] \in {"new", "noConflict", "conflict"}
  BY LenProperties, ElementOfSeq
<1>2. Analysed \in [1..Len(Rows) -> RowSet]
  BY <1>1 DEF Analysed, RowSet
<1>3. Analysed \in Seq(RowSet) /\ Len(Analysed) = Len(Rows) /\ DOMAIN Analysed = 1..Len(Rows)
  BY <1>1, <1>2, SeqDef, LenProperties
<1>4. \A n \in 1..Len(Rows) : Kept(Analysed[n])
  BY <1>1 DEF Analysed, Kept
<1>5. QED
  BY <1>3, <1>4

LEMMA ImportInitInv == ImportInit => ImportInv
<1> SUFFICES ASSUME ImportInit PROVE ImportInv
  OBVIOUS
<1>1. DOMAIN decisions = {"removed", "resolved", "duplicates"} /\ steps \in 0..MaxSteps
  BY DEF ImportInit, NoDecision
<1>2. PageOK
  BY <1>1 DEF ImportInit, PageOK
<1>3. RowsOK /\ ComparingOK
  BY DEF ImportInit, RowsOK, ComparingOK
<1>4. QED
  BY <1>2, <1>3 DEF ImportInv

\* Steps that change neither the rows nor the one compared.
LEMMA RowsUnchanged ==
  ASSUME RowsOK, ComparingOK, UNCHANGED <<data, comparing, disturbed>>,
         decisions'.resolved = decisions.resolved
  PROVE  RowsOK' /\ ComparingOK'
BY DEF RowsOK, ComparingOK, Kept

\* The dialog without rows: when it opens, and when it is closed.
LEMMA NoRows ==
  ASSUME data' = Unknown, comparing' = NoRow
  PROVE  RowsOK' /\ ComparingOK'
BY DEF RowsOK, ComparingOK

LEMMA AnalysedInv ==
  ASSUME ImportInv, analyzeData
  PROVE  ImportInv'
<1>1. PageOK'
  <2>1. disturbed' \in BOOLEAN
    BY Zenon DEF analyzeData
  <2>2. duplicates' = FALSE /\ analyses' \in Nat
    BY DEF ImportInv, PageOK, analyzeData
  <2>3. UNCHANGED <<busy, messages, dialog, errors, stage, unattended, steps, decisions>>
    BY DEF analyzeData, pageVars
  <2>4. QED
    BY <2>1, <2>2, <2>3 DEF ImportInv, PageOK
<1>2. data' = Analysed /\ UNCHANGED <<comparing, decisions>> /\ disturbed' = (disturbed \/ comparing # NoRow)
  BY DEF analyzeData
<1>3. \A n \in DOMAIN Analysed : Kept(Analysed[n])'
  BY <1>2, RowsAnalysed DEF Kept, Analysed
<1>4. RowsOK'
  BY <1>2, <1>3, RowsAnalysed DEF ImportInv, RowsOK, Analysed
<1>5. ComparingOK'
  BY <1>2 DEF ImportInv, PageOK, ComparingOK
<1>6. QED
  BY <1>1, <1>4, <1>5 DEF ImportInv

LEMMA RowRemoved ==
  ASSUME ImportInv, NEW n \in DOMAIN Rows, onRemove(n)
  PROVE  ImportInv'
<1>1. /\ data # Unknown /\ comparing = NoRow /\ n \in DOMAIN data /\ data' = RemoveAt(data, n)
      /\ steps < MaxSteps /\ steps' = steps + 1
      /\ decisions' = [decisions EXCEPT !.removed = @ \cup {data[n].row}]
      /\ UNCHANGED <<busy, messages, unattended, dialog, duplicates, comparing, errors, stage, analyses,
                     disturbed>>
  BY DEF onRemove, Step, RowsListed, Ready, pageVars
<1>2. PageOK'
  BY <1>1 DEF ImportInv, PageOK
<1>3. decisions'.resolved = decisions.resolved
  BY <1>1 DEF ImportInv, PageOK
<1>4. data \in Seq(RowSet) /\ Len(data) <= Len(Rows)
  BY <1>1 DEF ImportInv, RowsOK
<1>5. /\ data' \in Seq(RowSet) /\ Len(data') = Len(data) - 1
      /\ \A m \in DOMAIN data' : data'[m] = IF m < n THEN data[m] ELSE data[m + 1]
      /\ \A m \in DOMAIN data' : m \in DOMAIN data /\ m + 1 \in DOMAIN data
  BY <1>1, <1>4, RemovedAt
<1>6. Len(data') <= Len(Rows)
  BY <1>4, <1>5, LenProperties
<1>7. ASSUME ~disturbed', NEW m \in DOMAIN data' PROVE Kept(data[m])'
  <2>1. PICK k \in DOMAIN data : data'[m] = data[k]
    BY <1>5
  <2>2. Kept(data[k])
    BY <1>1, <1>7 DEF ImportInv, RowsOK
  <2>3. QED
    BY <1>3, <2>1, <2>2 DEF Kept
<1>8. RowsOK' /\ ComparingOK'
  BY <1>1, <1>5, <1>6, <1>7 DEF ImportInv, RowsOK, ComparingOK
<1>9. QED
  BY <1>2, <1>8 DEF ImportInv

LEMMA RowCompared ==
  ASSUME ImportInv, NEW n \in DOMAIN Rows, Compare(n)
  PROVE  ImportInv'
<1>1. /\ data # Unknown /\ n \in DOMAIN data /\ steps < MaxSteps /\ steps' = steps + 1
      /\ comparing' = [index |-> n, result |-> data[n].result]
      /\ UNCHANGED <<busy, messages, unattended, dialog, data, duplicates, errors, stage, analyses,
                     decisions, disturbed>>
  BY DEF Compare, Step, RowsListed, Ready, pageVars
<1>2. PageOK'
  BY <1>1 DEF ImportInv, PageOK
<1>3. data[n] \in RowSet
  BY <1>1, ElementOfSeq, LenProperties DEF ImportInv, RowsOK
<1>4. ~disturbed => data[n].result = {data[n].row}
  BY <1>1 DEF ImportInv, RowsOK, Kept
<1>5. RowsOK'
  BY <1>1, <1>3 DEF ImportInv, RowsOK, RowSet, Kept
<1>6. ComparingOK'
  BY <1>1, <1>4 DEF ComparingOK
<1>7. QED
  BY <1>2, <1>5, <1>6 DEF ImportInv

LEMMA ComparedInRange ==
  ASSUME ImportInv, Comparing
  PROVE  /\ data # Unknown /\ comparing # NoRow /\ comparing.index \in DOMAIN data
         /\ data \in Seq(RowSet) /\ data[comparing.index] \in RowSet
         /\ comparing \in [index : DOMAIN Rows, result : SUBSET DOMAIN Rows]
<1>1. data # Unknown /\ comparing # NoRow /\ comparing.index \in DOMAIN data
  BY DEF Comparing, Ready
<1>2. data \in Seq(RowSet) /\ comparing \in [index : DOMAIN Rows, result : SUBSET DOMAIN Rows]
  BY <1>1 DEF ImportInv, RowsOK
<1>3. QED
  BY <1>1, <1>2, ElementOfSeq, LenProperties

LEMMA RowUpdated ==
  ASSUME ImportInv, onUpdate
  PROVE  ImportInv'
<1>1. /\ data # Unknown /\ comparing # NoRow /\ comparing.index \in DOMAIN data
      /\ data[comparing.index] \in RowSet
      /\ comparing \in [index : DOMAIN Rows, result : SUBSET DOMAIN Rows]
  BY ComparedInRange DEF onUpdate
<1>2. /\ comparing' = [comparing EXCEPT !.result = @ \cup {data[comparing.index].row}]
      /\ UNCHANGED <<busy, messages, unattended, dialog, data, duplicates, errors, stage, analyses,
                     decisions, disturbed, steps>>
  BY DEF onUpdate, pageVars
<1>3. PageOK'
  BY <1>2 DEF ImportInv, PageOK
<1>4. comparing' \in [index : DOMAIN Rows, result : SUBSET DOMAIN Rows]
  BY <1>1, <1>2 DEF RowSet
<1>5. /\ comparing'.index = comparing.index
      /\ comparing'.result = comparing.result \cup {data[comparing.index].row}
  BY <1>1, <1>2
<1>6. RowsOK'
  BY <1>2, <1>4 DEF ImportInv, RowsOK, Kept
<1>7. ComparingOK'
  BY <1>1, <1>2, <1>5 DEF ImportInv, ComparingOK
<1>8. QED
  BY <1>3, <1>6, <1>7 DEF ImportInv

LEMMA RowSaved ==
  ASSUME ImportInv, onSave
  PROVE  ImportInv'
<1> DEFINE n == comparing.index
           r == data[n]
           saved == [r EXCEPT !.result = comparing.result]
           status == IF r.status = "conflict" THEN "resolved" ELSE r.status
           resolved == [saved EXCEPT !.status = status]
<1>1. /\ data # Unknown /\ comparing # NoRow /\ n \in DOMAIN data /\ data \in Seq(RowSet)
      /\ r \in RowSet
      /\ comparing \in [index : DOMAIN Rows, result : SUBSET DOMAIN Rows]
  BY ComparedInRange DEF onSave
<1>2. /\ data' = [data EXCEPT ![n].result = comparing.result,
                              ![n].status = IF @ = "conflict" THEN "resolved" ELSE @]
      /\ decisions' = [decisions EXCEPT !.resolved =
           IF r.status = "conflict" THEN @ \cup {r.row} ELSE @]
      /\ comparing' = NoRow
      /\ UNCHANGED <<busy, messages, unattended, dialog, duplicates, errors, stage, analyses, disturbed,
                     steps>>
  BY DEF onSave, pageVars
<1>3. PageOK'
  BY <1>2 DEF ImportInv, PageOK
<1>4. decisions'.resolved = IF r.status = "conflict" THEN decisions.resolved \cup {r.row}
                                                     ELSE decisions.resolved
  BY <1>2 DEF ImportInv, PageOK
<1>5. /\ resolved \in RowSet /\ resolved.row = r.row /\ resolved.result = comparing.result
      /\ resolved.status = status
  BY <1>1 DEF RowSet
<1>6. /\ data' \in Seq(RowSet) /\ Len(data') = Len(data) /\ DOMAIN data' = DOMAIN data
      /\ data'[n] = resolved /\ \A m \in DOMAIN data : m # n => data'[m] = data[m]
  <2>1. saved \in RowSet
    BY <1>1 DEF RowSet
  <2>2. saved.status = r.status
    BY <1>1 DEF RowSet
  <2> DEFINE half == [data EXCEPT ![n] = saved]
  <2>3. half[n] = saved
    BY <1>1
  <2>4. data' = [half EXCEPT ![n] = resolved]
    BY <1>2, <2>2, <2>3
  <2> HIDE DEF saved, resolved, r
  <2>5. half \in Seq(RowSet) /\ Len(half) = Len(data) /\ DOMAIN half = DOMAIN data
        /\ \A m \in DOMAIN data : m # n => half[m] = data[m]
    BY <1>1, <2>1, ExceptSeq, LenProperties
  <2> HIDE DEF half
  <2>6. QED
    BY <1>1, <1>5, <2>4, <2>5, ExceptSeq, LenProperties
<1> HIDE DEF resolved, saved
<1>7. ASSUME ~disturbed', NEW m \in DOMAIN data' PROVE Kept(data[m])'
  <2>1. Kept(data[m]) /\ comparing.result = {r.row}
    BY <1>1, <1>2, <1>6, <1>7 DEF ImportInv, RowsOK, ComparingOK
  <2>2. CASE m = n
    BY <1>4, <1>5, <1>6, <2>1, <2>2 DEF Kept
  <2>3. CASE m # n
    BY <1>4, <1>6, <2>1, <2>3 DEF Kept
  <2>4. QED
    BY <2>2, <2>3
<1>8. RowsOK' /\ ComparingOK'
  BY <1>1, <1>2, <1>6, <1>7 DEF ImportInv, RowsOK, ComparingOK
<1>9. QED
  BY <1>3, <1>8 DEF ImportInv

LEMMA ImportStepInv == ImportInv /\ [ImportNext]_importVars => ImportInv'
<1> SUFFICES ASSUME ImportInv, [ImportNext]_importVars PROVE ImportInv'
  OBVIOUS
<1>0. PageOK /\ RowsOK /\ ComparingOK
  BY DEF ImportInv
<1>1. ASSUME NEW job \in Jobs,
             Start(job) \/ \E outcome \in {"done", "failed"} : Finish(job, outcome)
      PROVE  ImportInv'
  <2>1. ASSUME NEW outcome \in {"done", "failed"}
        PROVE  Message(job, outcome) \subseteq {"error", "importSuccess", "exportSuccess"}
    BY DEF Message, Jobs, Imports, Exports
  <2>2. /\ busy' \subseteq Jobs /\ messages' \subseteq {"error", "importSuccess", "exportSuccess"}
        /\ steps' \in 0..MaxSteps
    <3>1. CASE Start(job)
      BY <1>0, <3>1 DEF PageOK, Start, Step
    <3>2. ASSUME NEW outcome \in {"done", "failed"}, Finish(job, outcome)
          PROVE  /\ busy' \subseteq Jobs /\ steps' \in 0..MaxSteps
                 /\ messages' \subseteq {"error", "importSuccess", "exportSuccess"}
      <4>1. /\ busy' = busy \ {job} /\ steps' = steps
            /\ messages' = messages \cup Message(job, outcome)
        BY <3>2 DEF Finish
      <4>2. QED
        BY <1>0, <2>1, <4>1 DEF PageOK
    <3>3. QED
      BY <1>1, <3>1, <3>2
  <2>3. analyses' \in Nat
    BY <1>0, <1>1 DEF PageOK, Start, Finish, Rendered
  <2>4. UNCHANGED <<dialog, duplicates, errors, stage, unattended, data, comparing, disturbed, decisions>>
    BY <1>1 DEF Start, Finish, dialogVars
  <2>5. QED
    BY <1>0, <2>2, <2>3, <2>4, RowsUnchanged DEF ImportInv, PageOK
<1>2. ASSUME NEW message \in messages, Dismiss(message) PROVE ImportInv'
  BY <1>0, <1>2, RowsUnchanged DEF ImportInv, PageOK, Dismiss, Rendered, dialogVars
<1>3. CASE onAnalyze
  <2>1. DOMAIN decisions' = {"removed", "resolved", "duplicates"}
    BY <1>3 DEF onAnalyze, NoDecision
  <2>2. PageOK'
    <3>1. steps' \in 0..MaxSteps /\ analyses' \in Nat /\ stage' \in {"none", "confirm", "sent"}
      BY <1>0, <1>3 DEF PageOK, onAnalyze, Step
    <3>2. /\ UNCHANGED <<busy, messages, unattended>>
          /\ dialog' = TRUE /\ duplicates' = FALSE /\ errors' = FALSE /\ disturbed' = FALSE
      BY <1>3 DEF onAnalyze, pageVars
    <3>3. QED
      BY <1>0, <2>1, <3>1, <3>2 DEF PageOK
  <2>3. RowsOK' /\ ComparingOK'
    BY <1>3, NoRows DEF onAnalyze
  <2>4. QED
    BY <2>2, <2>3 DEF ImportInv
<1>4. ASSUME analyzeFailed \/ Confirm \/ CancelImport \/ onImport
               \/ (\E shown \in BOOLEAN : ImportFailed(shown)) \/ FailedUnattended
      PROVE  ImportInv'
  <2>1. errors' \in BOOLEAN
    BY <1>0, <1>4, Zenon DEF PageOK, analyzeFailed, Confirm, CancelImport, onImport, ImportFailed,
       FailedUnattended, dialogVars
  <2>2. /\ UNCHANGED <<busy, messages, dialog, duplicates, disturbed, data, comparing, decisions>>
        /\ stage' \in {"none", "confirm", "sent"} /\ analyses' \in Nat /\ unattended' \in Nat
        /\ steps' \in 0..MaxSteps
    BY <1>0, <1>4 DEF PageOK, analyzeFailed, Confirm, CancelImport, onImport, ImportFailed,
       FailedUnattended, dialogVars, pageVars, Step
  <2>3. QED
    BY <1>0, <2>1, <2>2, RowsUnchanged DEF ImportInv, PageOK
<1>5. CASE analyzeData
  BY <1>5, AnalysedInv
<1>6. ASSUME NEW n \in DOMAIN Rows, onRemove(n) \/ Compare(n) PROVE ImportInv'
  BY <1>6, RowRemoved, RowCompared
<1>7. CASE onToggleRemoveDuplicates
  <2>1. duplicates' \in BOOLEAN /\ decisions'.resolved = decisions.resolved
        /\ DOMAIN decisions' = DOMAIN decisions
    BY <1>0, <1>7 DEF PageOK, onToggleRemoveDuplicates
  <2>2. UNCHANGED <<busy, messages, dialog, errors, disturbed, data, comparing, stage, analyses, unattended>>
        /\ steps' \in 0..MaxSteps
    BY <1>0, <1>7 DEF PageOK, onToggleRemoveDuplicates, pageVars, Step
  <2>3. QED
    BY <1>0, <2>1, <2>2, RowsUnchanged DEF ImportInv, PageOK
<1>8. CASE onUpdate
  BY <1>8, RowUpdated
<1>9. CASE onSave
  BY <1>9, RowSaved
<1>10. CASE CloseCompare
  <2>1. UNCHANGED <<busy, messages, dialog, duplicates, errors, disturbed, data, decisions, stage,
                    analyses, unattended, steps>> /\ comparing' = NoRow
    BY <1>10 DEF CloseCompare, pageVars
  <2>2. QED
    BY <1>0, <2>1 DEF ImportInv, PageOK, RowsOK, ComparingOK, Kept
<1>11. CASE Imported \/ CloseImport \/ ImportedUnattended
  <2>1. Closed
    BY <1>11 DEF Imported, CloseImport, ImportedUnattended
  <2>2. /\ busy' = busy /\ steps' = steps /\ unattended' \in Nat
        /\ messages' \in {messages, messages \cup {"importSuccess"}}
    BY <1>0, <1>11 DEF PageOK, Imported, CloseImport, ImportedUnattended
  <2>3. DOMAIN decisions' = {"removed", "resolved", "duplicates"}
    BY <2>1 DEF Closed, NoDecision
  <2>4. PageOK'
    BY <1>0, <2>1, <2>2, <2>3 DEF PageOK, Closed
  <2>5. RowsOK' /\ ComparingOK'
    BY <2>1, NoRows DEF Closed
  <2>6. QED
    BY <2>4, <2>5 DEF ImportInv
<1>12. CASE UNCHANGED importVars
  BY <1>0, <1>12, RowsUnchanged DEF ImportInv, PageOK, importVars
<1>13. QED
  BY <1>1, <1>2, <1>3, <1>4, <1>5, <1>6, <1>7, <1>8, <1>9, <1>10, <1>11, <1>12 DEF ImportNext

LEMMA ImportInvImplies == ImportInv => ImportTypeOK /\ RowsKeepTheirRecord
<1>1. ASSUME ImportInv, data # Unknown PROVE \A n \in DOMAIN data : data[n] \in RowSet
  BY <1>1, ElementOfSeq, LenProperties DEF ImportInv, RowsOK
<1>2. ImportInv => ImportTypeOK
  BY <1>1 DEF ImportInv, PageOK, RowsOK, ImportTypeOK, RowSet
<1>3. ImportInv => RowsKeepTheirRecord
  BY DEF ImportInv, RowsOK, Kept, RowsKeepTheirRecord
<1>4. QED
  BY <1>2, <1>3

LEMMA AlwaysImportInv == ImportSpec => []ImportInv
BY ImportInitInv, ImportStepInv, PTL DEF ImportSpec

(***************************************************************************)
(* The theorems.                                                           *)
(***************************************************************************)
\* However its names are picked, cleared, picked again and removed, a merged record
\* has one primary name at most, unless one was made primary by hand
\* (getAttributeValue in MergeModal.js).
THEOREM MergedRecordHasOnePrimaryName == MergeSpec => []OnePrimaryName
BY AlwaysMergeInv, MergeInvImplies, PTL

\* What is sent to be merged was put together from the records that are replaced,
\* whatever was selected, deleted or edited before and meanwhile (MergeButton.js).
THEOREM MergeTakesFromTheMerged == MergeSpec => []MergedFromTheMerged
BY AlwaysMergeInv, MergeInvImplies, PTL

\* Every value that was picked and not cleared since is stored by the merge, for
\* the server permits whatever the lists offer (toMergeable); but a file that it
\* cannot download is not, and its records are gone all the same (set_content).
THEOREM MergeKeepsWhatWasPicked == MergeSpec => []PickedIsMerged
BY AlwaysMergeInv, MergeInvImplies, PTL

\* A row keeps the values of its own record, whatever rows are removed around it
\* and however often it is compared (ImportModal.js).
THEOREM ImportedRowsKeepTheirRecord == ImportSpec => []RowsKeepTheirRecord
BY AlwaysImportInv, ImportInvImplies, PTL

\* The dialogs and the session are well typed beside each other.
THEOREM DialogsTypeCorrect == DialogsSpec => []DialogsTypeOK
<1> DEFINE Inv == MergeInv /\ ImportInv /\ SInv
<1>1. DialogsInit => Inv
  BY MergeInitInv, ImportInitInv, InitSInv DEF DialogsInit, MergeRests, SessionRests
<1>2. Inv /\ [DialogsNext]_<<screen, mergeVars, importVars, sessionVars>> => Inv'
  BY MergeStepInv, ImportStepInv, StepSInv DEF DialogsNext
<1>3. Inv => DialogsTypeOK
  <2>1. SInv => SessionTypeOK
    BY DEF SInv, ServerOK, StoredOK, TabsOK, Contexts, SessionTypeOK
  <2>2. QED
    BY <2>1, ImportInvImplies DEF DialogsTypeOK, MergeInv
<1> HIDE DEF Inv
<1>4. QED
  BY <1>1, <1>2, <1>3, PTL DEF DialogsSpec

\* Whatever screen is shown, each dialog and the session behave as their own
\* specifications say.
LEMMA DialogsAreDialogs == DialogsSpec => MergeSpec /\ ImportSpec /\ SessionSpec
<1>1. DialogsInit => MergeInit /\ ImportInit /\ SessionInit
  BY DEF DialogsInit, MergeRests, SessionRests
<1>2. [DialogsNext]_<<screen, mergeVars, importVars, sessionVars>> =>
        [MergeNext]_mergeVars /\ [ImportNext]_importVars /\ [SessionNext]_sessionVars
  BY DEF DialogsNext
<1>3. QED
  BY <1>1, <1>2, PTL DEF DialogsSpec, MergeSpec, ImportSpec, SessionSpec

\* What the merge dialog, the import dialog and the session promise, the browser
\* that has them promises: each theorem above holds of the three together.
THEOREM DialogsKeepTheirPromises ==
  DialogsSpec => /\ []OnePrimaryName /\ []MergedFromTheMerged /\ []PickedIsMerged
                 /\ []RowsKeepTheirRecord /\ []SessionIsOfOneUser /\ []OffersAreAllowed
<1>1. QED
  BY DialogsAreDialogs, MergedRecordHasOnePrimaryName, MergeTakesFromTheMerged, MergeKeepsWhatWasPicked,
     ImportedRowsKeepTheirRecord, OneUserPerSession, PagesOfferWhatIsAllowed, PTL
=============================================================================
