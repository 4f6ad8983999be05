----------------------------- MODULE Membership -----------------------------
(***************************************************************************)
(* Users, their memberships of projects, and the passwords they are mailed *)
(* (UserProject, User, Users::Invitations).                                *)
(*                                                                         *)
(* A web request validates and saves in one transaction, but validations   *)
(* are SELECTs under READ COMMITTED and no unique index backs them: Begin  *)
(* actions are the loads and validations, Commit actions the writes.  The  *)
(* callbacks after the commit replace the user's password, and mail it, as *)
(* two further steps.  Invitations, password changes and sign-ins run at   *)
(* the same time as everything else.                                       *)
(*                                                                         *)
(* An admin may do all of this, so policies refuse no behaviour and are    *)
(* left out, as are names, system roles and the editing of other users.    *)
(***************************************************************************)
EXTENDS Naturals, FiniteSets

CONSTANTS
  Requests,       \* the web requests that change a user or a membership
  OldRows,        \* the memberships there may be to start from
  MaxUsers,       \* bound: users ever created
  Emails, Projects,
  InitialTables,  \* the users and memberships to start from
  Editors,        \* how many requests may create or change memberships at a time
  Unknown,        \* a generated password that nobody has been told
  Own,            \* a password the user has chosen
  NoUser, Deleted, NoId, NoRow, NoRequest

UserIds   == 1 .. MaxUsers
Roles     == {"owner", "editor"}
Passwords == Requests \cup {Unknown, Own}  \* Requests: the one that request mails

User == [email : Emails, password : Passwords, mustChange : BOOLEAN,
         signedIn : BOOLEAN, invited : BOOLEAN]
\* "row" is the primary key: the request that inserts a membership, or an old row.
Member == [row : Requests \cup OldRows, user : UserIds, project : Projects, role : Roles]
Mail   == [to : UserIds, password : Requests]

\* What a request remembers of the user it has loaded.
Seen    == [signedIn : BOOLEAN, invited : BOOLEAN, mustChange : BOOLEAN]
Kinds   == {"add", "create", "change", "invite", "password"}
Request == [kind : Kinds, user : UserIds \cup {NoId}, email : Emails,
            project : Projects \cup {NoId}, role : Roles, seen : Seen, was : Member \cup {NoRow}]
Tables  == [users : [UserIds -> User \cup {NoUser}], members : SUBSET Member]

ASSUME MembershipAssumption ==
  /\ MaxUsers \in Nat /\ Editors \in Nat /\ IsFiniteSet(Requests) /\ OldRows \cap Requests = {}
  /\ Unknown # Own /\ {Unknown, Own, NoRequest} \cap Requests = {}
  /\ NoUser # Deleted /\ NoUser \notin User /\ Deleted \notin User
  /\ NoRequest \notin Request /\ NoRow \notin Member /\ NoId \notin UserIds \cup Projects
  /\ InitialTables \subseteq Tables
  /\ \A t \in InitialTables, u \in UserIds : t.users[u] # NoUser => t.users[u].password = Own

\* What there is to start from is what the validations and the keys allow.
ASSUME InitialTablesAssumption ==
  \A t \in InitialTables :
    /\ \A m \in t.members : m.row \in OldRows /\ t.users[m.user] # NoUser
    /\ \A m, n \in t.members : m.row = n.row \/ (m.user = n.user /\ m.project = n.project) => m = n
    /\ \A u, v \in UserIds :
         t.users[u] # NoUser /\ t.users[v] # NoUser /\ t.users[u].email = t.users[v].email => u = v

VARIABLES
  users,    \* users[u]: the row of user u
  members,  \* core_data_connector_user_projects
  queue,    \* invitations that deliver_later has enqueued
  inbox,    \* invitations delivered
  step,     \* step[r]: what request r does next
  req       \* req[r]: its parameters and what it has loaded

vars == <<users, members, queue, inbox, step, req>>

Steps == {"idle", "commit", "invite", "mail", "save", "clear", "done", "failed"}

Go(r, next) == step' = [step EXCEPT ![r] = next]

Stored(u) == users[u] \notin {NoUser, Deleted}

\* What the loaded user of a request looks like, for a user not created yet too.
NewSeen   == [signedIn |-> FALSE, invited |-> FALSE, mustChange |-> TRUE]
SeenOf(u) == [signedIn |-> users[u].signedIn, invited |-> users[u].invited,
              mustChange |-> users[u].mustChange]

Editing  == {r \in Requests : /\ step[r] \notin {"idle", "done", "failed"}
                              /\ req[r].kind \in {"add", "create", "change"}}
MayEdit  == Cardinality(Editing) < Editors

-----------------------------------------------------------------------------
(* Validations: what the SELECTs of a request find                         *)

\* No user but u has the email: validated by every save of a user.
EmailFree(email, u) == \A v \in UserIds \ {u} : Stored(v) => users[v].email # email

\* mutant: only a membership in the same role counts
NotMemberAs(u, p, role) == \A m \in members : ~(m.user = u /\ m.project = p /\ m.role = role)

NotMember(u, p, role) == \A m \in members : ~(m.user = u /\ m.project = p)

\* mutant: the membership itself counts as the other owner
AnyOwner(p, row) == \E m \in members : m.project = p /\ m.role = "owner"

\* validate_project_owner: an owner other than the membership at hand.
OtherOwner(p, row) == \E m \in members : m.project = p /\ m.role = "owner" /\ m.row # row

-----------------------------------------------------------------------------
(* POST /user_projects and POST /users                                     *)

\* find_or_create_user finds a user by id or email, or is about to create one.
BeginAdd(r) ==
  /\ step[r] = "idle" /\ MayEdit
  /\ \E p \in Projects, role \in Roles, email \in Emails :
       /\ role = "editor" => OtherOwner(p, r)
       /\ \E u \in UserIds \cup {NoId} :
            /\ IF u = NoId THEN EmailFree(email, NoId)
               ELSE Stored(u) /\ users[u].email = email /\ NotMember(u, p, role)
            /\ req' = [req EXCEPT ![r] =
                 [kind |-> "add", user |-> u, email |-> email, project |-> p, role |-> role,
                  seen |-> IF u = NoId THEN NewSeen ELSE SeenOf(u), was |-> NoRow]]
  /\ Go(r, "commit")
  /\ UNCHANGED <<users, members, queue, inbox>>

\* An admin creates a user.
BeginCreate(r) ==
  /\ step[r] = "idle" /\ MayEdit
  /\ \E email \in Emails :
       /\ EmailFree(email, NoId)
       /\ req' = [req EXCEPT ![r] =
            [kind |-> "create", user |-> NoId, email |-> email, project |-> NoId, role |-> "editor",
             seen |-> NewSeen, was |-> NoRow]]
  /\ Go(r, "commit")
  /\ UNCHANGED <<users, members, queue, inbox>>

NextUser(u) == users[u] = NoUser /\ \A v \in UserIds : v < u => users[v] # NoUser

\* A generated password that is thrown away, until an invitation replaces it.
NewUser(email) == [email |-> email, password |-> Unknown, mustChange |-> TRUE,
                   signedIn |-> FALSE, invited |-> FALSE]

\* mutant: a user who has to change the password counts as invited
NoPasswordToChange(seen) == ~seen.signedIn /\ ~seen.mustChange

\* Whether the callback of a new membership invites its user.
Uninvited(seen) == ~seen.signedIn /\ ~seen.invited

\* mutant: the new user's key is not copied to the membership
KeyOfParams(r, u) == req[r].user

KeyOf(r, u) == u

NewMember(r, u) ==
  [row |-> r, user |-> KeyOf(r, u), project |-> req[r].project, role |-> req[r].role]

\* The transaction with the user, if there was none, and the membership.
CommitUser(r) ==
  /\ step[r] = "commit" /\ req[r].kind \in {"add", "create"}
  /\ \E u \in UserIds :
       /\ IF req[r].user = NoId
          THEN /\ NextUser(u)
               /\ users' = [users EXCEPT ![u] = NewUser(req[r].email)]
          ELSE u = req[r].user /\ UNCHANGED users
       /\ members' = IF req[r].kind = "add" THEN members \cup {NewMember(r, u)} ELSE members
       /\ req' = [req EXCEPT ![r].user = u]
  /\ Go(r, IF req[r].kind = "create" \/ Uninvited(req[r].seen) THEN "invite" ELSE "done")
  /\ UNCHANGED <<queue, inbox>>

-----------------------------------------------------------------------------
(* Invitations                                                             *)

\* POST .../invite, of a user or of a membership.
BeginInvite(r) ==
  /\ step[r] = "idle"
  /\ \E u \in UserIds :
       /\ Stored(u)
       /\ req' = [req EXCEPT ![r] =
            [kind |-> "invite", user |-> u, email |-> users[u].email, project |-> NoId,
             role |-> "editor", seen |-> SeenOf(u), was |-> NoRow]]
  /\ Go(r, "invite")
  /\ UNCHANGED <<users, members, queue, inbox>>

\* What update! writes: the columns that differ from what request r has loaded.
InvitedBy(r, user) ==
  [user EXCEPT !.password = r, !.invited = TRUE,
               !.mustChange = IF req[r].seen.mustChange THEN user.mustChange ELSE TRUE]

\* user.update!; the row may be gone.
SetPassword(r) ==
  /\ step[r] = "invite" /\ EmailFree(req[r].email, req[r].user)
  /\ LET u == req[r].user
     IN  users' = IF Stored(u) THEN [users EXCEPT ![u] = InvitedBy(r, users[u])] ELSE users
  /\ Go(r, "mail")
  /\ UNCHANGED <<members, queue, inbox, req>>

\* deliver_later
Invite(r) ==
  /\ step[r] = "mail"
  /\ queue' = queue \cup {[to |-> req[r].user, password |-> r]}
  /\ Go(r, "done")
  /\ UNCHANGED <<users, members, inbox, req>>

\* The worker delivers invitations in any order; that of a deleted user is dropped.
Deliver(mail) ==
  /\ mail \in queue
  /\ queue' = queue \ {mail}
  /\ inbox' = IF Stored(mail.to) THEN inbox \cup {mail} ELSE inbox
  /\ UNCHANGED <<users, members, step, req>>

\* An exception or a crash.  What was committed stays.
Fail(r) ==
  /\ step[r] \in {"commit", "invite", "mail", "save", "clear"}
  /\ Go(r, "failed")
  /\ UNCHANGED <<users, members, queue, inbox, req>>

-----------------------------------------------------------------------------
(* The user                                                                *)

Knows(u) == \/ users[u].password = Own
            \/ [to |-> u, password |-> users[u].password] \in inbox

\* User#authenticate
SignIn(u) ==
  /\ Stored(u) /\ Knows(u) /\ EmailFree(users[u].email, u)
  /\ users' = [users EXCEPT ![u].signedIn = TRUE]
  /\ UNCHANGED <<members, queue, inbox, step, req>>

\* PUT /users/:id by the user: load, ...
BeginPassword(r) ==
  /\ step[r] = "idle"
  /\ \E u \in UserIds :
       /\ Stored(u) /\ users[u].signedIn
       /\ req' = [req EXCEPT ![r] =
            [kind |-> "password", user |-> u, email |-> users[u].email, project |-> NoId,
             role |-> "editor", seen |-> SeenOf(u), was |-> NoRow]]
  /\ Go(r, "save")
  /\ UNCHANGED <<users, members, queue, inbox>>

\* ... save, ...
SavePassword(r) ==
  /\ step[r] = "save" /\ EmailFree(req[r].email, req[r].user)
  /\ users' = IF Stored(req[r].user) THEN [users EXCEPT ![req[r].user].password = Own] ELSE users
  /\ Go(r, IF req[r].seen.mustChange THEN "clear" ELSE "done")
  /\ UNCHANGED <<members, queue, inbox, req>>

\* ... and after_update.
ClearMustChange(r) ==
  /\ step[r] = "clear"
  /\ users' = IF Stored(req[r].user) THEN [users EXCEPT ![req[r].user].mustChange = FALSE] ELSE users
  /\ Go(r, "done")
  /\ UNCHANGED <<members, queue, inbox, req>>

-----------------------------------------------------------------------------
(* Other changes of memberships                                            *)

\* PUT /user_projects/:id may change the role, and an admin also the user or
\* the project.
BeginChange(r) ==
  /\ step[r] = "idle" /\ MayEdit
  /\ \E m \in members, u \in UserIds, p \in Projects, role \in Roles :
       /\ Stored(u)
       /\ role = "editor" => OtherOwner(p, m.row)
       /\ \A n \in members \ {m} : ~(n.user = u /\ n.project = p)
       /\ req' = [req EXCEPT ![r] =
            [kind |-> "change", user |-> u, email |-> users[u].email, project |-> p,
             role |-> role, seen |-> SeenOf(u), was |-> m]]
  /\ Go(r, "commit")
  /\ UNCHANGED <<users, members, queue, inbox>>

\* The UPDATE writes the columns that differ from the row that was loaded.
Changed(r, m) ==
  LET New(old, new, now) == IF old = new THEN now ELSE new
  IN  [row     |-> m.row,
       user    |-> New(req[r].was.user, req[r].user, m.user),
       project |-> New(req[r].was.project, req[r].project, m.project),
       role    |-> New(req[r].was.role, req[r].role, m.role)]

\* A row that is gone stays so.
CommitChange(r) ==
  /\ step[r] = "commit" /\ req[r].kind = "change"
  /\ members' = {IF m.row = req[r].was.row THEN Changed(r, m) ELSE m : m \in members}
  /\ Go(r, "done")
  /\ UNCHANGED <<users, queue, inbox, req>>

\* DELETE /user_projects/:id
RemoveMember ==
  /\ MayEdit
  /\ \E m \in members : members' = members \ {m}
  /\ UNCHANGED <<users, queue, inbox, step, req>>

\* DELETE /users/:id, with the user's memberships.
RemoveUser(u) ==
  /\ MayEdit /\ Stored(u)
  /\ users' = [users EXCEPT ![u] = Deleted]
  /\ members' = {m \in members : m.user # u}
  /\ UNCHANGED <<queue, inbox, step, req>>

-----------------------------------------------------------------------------

Init ==
  /\ \E t \in InitialTables : users = t.users /\ members = t.members
  /\ queue = {} /\ inbox = {}
  /\ step = [r \in Requests |-> "idle"]
  /\ req = [r \in Requests |-> NoRequest]

Handle(r) == \/ BeginAdd(r) \/ BeginCreate(r) \/ CommitUser(r)
             \/ BeginInvite(r) \/ SetPassword(r) \/ Invite(r)
             \/ BeginPassword(r) \/ SavePassword(r) \/ ClearMustChange(r)
             \/ BeginChange(r) \/ CommitChange(r)
             \/ Fail(r)

Next == \/ \E r \in Requests : Handle(r)
        \/ \E mail \in queue : Deliver(mail)
        \/ \E u \in UserIds : SignIn(u) \/ RemoveUser(u)
        \/ RemoveMember

Spec == Init /\ [][Next]_vars

-----------------------------------------------------------------------------
(* Properties                                                              *)

TypeOK ==
  /\ users \in [UserIds -> User \cup {NoUser, Deleted}]
  /\ members \subseteq Member
  /\ queue \subseteq Mail /\ inbox \subseteq Mail
  /\ step \in [Requests -> Steps]
  /\ req \in [Requests -> Request \cup {NoRequest}]
  /\ \A r \in Requests : step[r] # "idle" => req[r] \in Request
  /\ \A r \in Requests :
       /\ step[r] \in {"invite", "mail", "save", "clear"} => req[r].user \in UserIds
       /\ step[r] = "commit" /\ req[r].kind # "create" => req[r].project \in Projects
       /\ step[r] = "commit" /\ req[r].kind = "change" =>
            req[r].user \in UserIds /\ req[r].was \in Member

Mailed(u) == [to |-> u, password |-> users[u].password] \in queue \cup inbox

\* Some request will replace a password nobody knows, or has failed to.
Awaited(u) ==
  users[u].password = Unknown /\ \E r \in Requests : step[r] \in {"invite", "failed"} /\ req[r].user = u

\* The request that set the password is about to mail it, or has failed to.
Pending(u) ==
  \E r \in Requests : users[u].password = r /\ step[r] \in {"mail", "failed"} /\ req[r].user = u

\* Nobody is locked out: whatever invitations, sign-ins, password changes and
\* failures overlap, a user either has chosen the current password, has it in
\* the mail, or a request has still to send one or has reported that it failed
\* (invitations.rb, and the callbacks that decide who is invited).
NobodyLockedOut ==
  \A u \in UserIds : Stored(u) => users[u].password = Own \/ Mailed(u) \/ Awaited(u) \/ Pending(u)

Rows(p)   == {m.row : m \in {n \in members : n.project = p}}
Owners(p) == {m.row : m \in {n \in members : n.project = p /\ n.role = "owner"}}

\* "Projects must have an owner": the last owner's membership may be removed or
\* moved to another project, but while it stays it is not demoted
\* (validate_project_owner).
RoleChangesKeepAnOwner ==
  [][\A p \in Projects : Owners(p) # {} /\ Owners(p)' = {} => Owners(p) \cap Rows(p)' = {}]_vars

Welcomes(u) == {m \in queue \cup inbox : m.to = u /\ req[m.password].kind = "add"}

\* "This user cannot be added to the same project multiple times"
\* (user_project.rb:21), an email belongs to one user (user.rb:28), and however
\* many projects a user is added to, only the first sends an invitation: a second
\* one would replace the password of the first (user_project.rb's send_invitation).
NothingTwice ==
  /\ \A m, n \in members : m.user = n.user /\ m.project = n.project => m = n
  /\ \A u, v \in UserIds : Stored(u) /\ Stored(v) /\ users[u].email = users[v].email => u = v
  /\ \A u \in UserIds : Cardinality(Welcomes(u)) <= 1
=============================================================================
