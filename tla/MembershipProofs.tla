-------------------------- MODULE MembershipProofs --------------------------
(***************************************************************************)
(* Type correctness of Membership, and that nobody is locked out, for any  *)
(* number of requests that overlap in any way.  The invariant needs one    *)
(* more fact: a request that is about to create a user will invite it.     *)
(* With one editor at a time, nothing happens twice and owners are kept    *)
(* (EditInv): what a request has validated still holds when it writes.     *)
(***************************************************************************)
EXTENDS Membership, FiniteSetTheorems, TLAPS

\* The callback after the commit invites the users that the commit creates.
CreatedAreInvited ==
  \A r \in Requests :
    step[r] = "commit" /\ req[r].kind = "add" /\ req[r].user = NoId => Uninvited(req[r].seen)

MembershipInv == TypeOK /\ CreatedAreInvited /\ NobodyLockedOut

USE DEF Go

LEMMA InitMembership == Init => MembershipInv
<1> SUFFICES ASSUME Init PROVE MembershipInv
  OBVIOUS
<1>1. PICK t \in InitialTables : users = t.users /\ members = t.members
  BY DEF Init
<1>2. users \in [UserIds -> User \cup {NoUser}] /\ members \subseteq Member
  BY <1>1, MembershipAssumption DEF Tables
<1>3. TypeOK
  BY <1>2 DEF Init, TypeOK, Steps
<1>4. NobodyLockedOut
  BY <1>1, MembershipAssumption DEF NobodyLockedOut, Stored
<1> QED
  BY <1>3, <1>4 DEF Init, MembershipInv, CreatedAreInvited

-----------------------------------------------------------------------------
(* Types                                                                   *)

LEMMA StoredIsUser ==
  ASSUME TypeOK, NEW u \in UserIds, Stored(u)
  PROVE  users[u] \in User /\ SeenOf(u) \in Seen
BY DEF TypeOK, Stored, SeenOf, User, Seen

\* The actions that only load a user and note the parameters.
Begins(r) == BeginAdd(r) \/ BeginCreate(r) \/ BeginInvite(r) \/ BeginPassword(r) \/ BeginChange(r)

LEMMA BeginTypes ==
  ASSUME TypeOK, NEW r \in Requests, Begins(r)
  PROVE  TypeOK'
<1>1. /\ req' \in [Requests -> Request \cup {NoRequest}] /\ req'[r] \in Request
      /\ \A q \in Requests \ {r} : req'[q] = req[q] /\ step'[q] = step[q]
      /\ step' \in [Requests -> Steps]
      /\ step'[r] \in {"invite", "save"} => req'[r].user \in UserIds
      /\ step'[r] = "commit" /\ req'[r].kind # "create" => req'[r].project \in Projects
      /\ req'[r].kind = "change" => req'[r].user \in UserIds /\ req'[r].was \in Member
  <2>1. CASE BeginAdd(r)
    <3>1. PICK p \in Projects, role \in Roles, email \in Emails, u \in UserIds \cup {NoId} :
            /\ u # NoId => Stored(u)
            /\ req' = [req EXCEPT ![r] =
                 [kind |-> "add", user |-> u, email |-> email, project |-> p, role |-> role,
                  seen |-> IF u = NoId THEN NewSeen ELSE SeenOf(u), was |-> NoRow]]
      BY <2>1 DEF BeginAdd
    <3>2. (IF u = NoId THEN NewSeen ELSE SeenOf(u)) \in Seen
      BY <3>1, StoredIsUser DEF NewSeen, Seen
    <3> QED
      BY <2>1, <3>1, <3>2 DEF BeginAdd, TypeOK, Request, Kinds, Steps
  <2>2. CASE BeginCreate(r)
    <3>1. NewSeen \in Seen
      BY DEF NewSeen, Seen
    <3> QED
      BY <2>2, <3>1 DEF BeginCreate, TypeOK, Request, Kinds, Roles, Steps
  <2>3. CASE BeginInvite(r)
    <3>1. PICK u \in UserIds :
            /\ Stored(u)
            /\ req' = [req EXCEPT ![r] =
                 [kind |-> "invite", user |-> u, email |-> users[u].email, project |-> NoId,
                  role |-> "editor", seen |-> SeenOf(u), was |-> NoRow]]
      BY <2>3 DEF BeginInvite
    <3>2. users[u].email \in Emails /\ SeenOf(u) \in Seen
      BY <3>1, StoredIsUser DEF User
    <3> QED
      BY <2>3, <3>1, <3>2 DEF BeginInvite, TypeOK, Request, Kinds, Roles, Steps
  <2>4. CASE BeginPassword(r)
    <3>1. PICK u \in UserIds :
            /\ Stored(u)
            /\ req' = [req EXCEPT ![r] =
                 [kind |-> "password", user |-> u, email |-> users[u].email, project |-> NoId,
                  role |-> "editor", seen |-> SeenOf(u), was |-> NoRow]]
      BY <2>4 DEF BeginPassword
    <3>2. users[u].email \in Emails /\ SeenOf(u) \in Seen
      BY <3>1, StoredIsUser DEF User
    <3> QED
      BY <2>4, <3>1, <3>2 DEF BeginPassword, TypeOK, Request, Kinds, Roles, Steps
  <2>5. CASE BeginChange(r)
    <3>1. PICK m \in members, u \in UserIds, p \in Projects, role \in Roles :
            /\ Stored(u)
            /\ req' = [req EXCEPT ![r] =
                 [kind |-> "change", user |-> u, email |-> users[u].email, project |-> p,
                  role |-> role, seen |-> SeenOf(u), was |-> m]]
      BY <2>5 DEF BeginChange
    <3>2. m \in Member /\ users[u].email \in Emails /\ SeenOf(u) \in Seen
      BY <3>1, StoredIsUser DEF TypeOK, User
    <3> QED
      BY <2>5, <3>1, <3>2 DEF BeginChange, TypeOK, Request, Kinds, Steps
  <2> QED
    BY <2>1, <2>2, <2>3, <2>4, <2>5 DEF Begins
<1>2. UNCHANGED <<users, members, queue, inbox>> /\ step'[r] \in {"commit", "invite", "save"}
  BY DEF Begins, BeginAdd, BeginCreate, BeginInvite, BeginPassword, BeginChange, TypeOK
<1> QED
  BY <1>1, <1>2 DEF TypeOK

LEMMA CommitTypes ==
  ASSUME TypeOK, NEW r \in Requests, CommitUser(r)
  PROVE  TypeOK'
<1>1. req[r] \in Request /\ step[r] = "commit" /\ req[r].kind \in {"add", "create"}
  BY DEF CommitUser, TypeOK
<1>2. PICK u \in UserIds :
        /\ users' = IF req[r].user = NoId THEN [users EXCEPT ![u] = NewUser(req[r].email)] ELSE users
        /\ members' = IF req[r].kind = "add" THEN members \cup {NewMember(r, u)} ELSE members
        /\ req' = [req EXCEPT ![r].user = u]
  BY DEF CommitUser
<1>3. NewUser(req[r].email) \in User
  BY <1>1 DEF NewUser, User, Passwords, Request
<1>4. users' \in [UserIds -> User \cup {NoUser, Deleted}]
  BY <1>2, <1>3 DEF TypeOK
<1>5. req[r].kind = "add" => NewMember(r, u) \in Member
  BY <1>1 DEF NewMember, KeyOf, Member, Request, TypeOK
<1>6. members' \subseteq Member
  BY <1>2, <1>5 DEF TypeOK
<1>7. /\ req' \in [Requests -> Request \cup {NoRequest}] /\ req'[r] \in Request
      /\ req'[r].user \in UserIds
      /\ \A q \in Requests \ {r} : req'[q] = req[q]
  BY <1>1, <1>2 DEF TypeOK, Request
<1>8. /\ step' \in [Requests -> Steps] /\ step'[r] \in {"invite", "done"}
      /\ \A q \in Requests \ {r} : step'[q] = step[q]
  BY DEF CommitUser, TypeOK, Steps
<1> QED
  BY <1>4, <1>6, <1>7, <1>8 DEF CommitUser, TypeOK

LEMMA StepTypes == TypeOK /\ [Next]_vars => TypeOK'
<1> SUFFICES ASSUME TypeOK, [Next]_vars PROVE TypeOK'
  OBVIOUS
<1>1. ASSUME NEW r \in Requests, Handle(r) PROVE TypeOK'
  <2>1. CASE SetPassword(r)
    <3> DEFINE u   == req[r].user
               new == InvitedBy(r, users[u])
    <3>1. u \in UserIds /\ (Stored(u) => users[u] \in User)
      BY <2>1, StoredIsUser DEF SetPassword, TypeOK
    <3>2. Stored(u) => new \in User
      BY <3>1 DEF InvitedBy, User, Passwords
    <3>3. users' = IF Stored(u) THEN [users EXCEPT ![u] = new] ELSE users
      BY <2>1 DEF SetPassword
    <3>4. users' \in [UserIds -> User \cup {NoUser, Deleted}]
      <4> HIDE DEF new, u
      <4> QED
        BY <3>1, <3>2, <3>3 DEF TypeOK
    <3> QED
      BY <2>1, <3>4 DEF SetPassword, TypeOK, Steps
  <2>2. CASE Invite(r)
    <3>1. [to |-> req[r].user, password |-> r] \in Mail
      BY <2>2 DEF Invite, TypeOK, Mail
    <3> QED
      BY <2>2, <3>1 DEF Invite, TypeOK, Steps
  <2>3. CASE SavePassword(r) \/ ClearMustChange(r)
    <3>1. req[r].user \in UserIds /\ (Stored(req[r].user) => users[req[r].user] \in User)
      BY <2>3, StoredIsUser DEF SavePassword, ClearMustChange, TypeOK
    <3>2. PICK new : /\ Stored(req[r].user) => new \in User
                     /\ users' = IF Stored(req[r].user)
                                 THEN [users EXCEPT ![req[r].user] = new] ELSE users
      <4>1. CASE SavePassword(r)
        <5>1. Stored(req[r].user) => [users[req[r].user] EXCEPT !.password = Own] \in User
          BY <3>1 DEF User, Passwords
        <5> QED
          BY <4>1, <5>1 DEF SavePassword
      <4>2. CASE ClearMustChange(r)
        <5>1. Stored(req[r].user) => [users[req[r].user] EXCEPT !.mustChange = FALSE] \in User
          BY <3>1 DEF User
        <5> QED
          BY <4>2, <5>1 DEF ClearMustChange
      <4> QED
        BY <2>3, <4>1, <4>2
    <3>3. users' \in [UserIds -> User \cup {NoUser, Deleted}]
      BY <3>1, <3>2 DEF TypeOK
    <3> QED
      BY <2>3, <3>3 DEF SavePassword, ClearMustChange, TypeOK, Steps
  <2>4. CASE CommitChange(r)
    <3>1. req[r].user \in UserIds /\ req[r].project \in Projects /\ req[r].role \in Roles
      BY <2>4 DEF CommitChange, TypeOK, Request
    <3>2. \A m \in Member : Changed(r, m) \in Member
      BY <3>1 DEF Changed, Member
    <3>3. members' \subseteq Member
      BY <2>4, <3>2 DEF CommitChange, TypeOK
    <3> QED
      BY <2>4, <3>3 DEF CommitChange, TypeOK, Steps
  <2>5. CASE Fail(r)
    BY <2>5 DEF Fail, TypeOK, Steps
  <2> QED
    BY <1>1, <2>1, <2>2, <2>3, <2>4, <2>5, BeginTypes, CommitTypes DEF Handle, Begins
<1>2. ASSUME NEW mail \in queue, Deliver(mail) PROVE TypeOK'
  BY <1>2 DEF Deliver, TypeOK
<1>3. ASSUME NEW u \in UserIds, SignIn(u) \/ RemoveUser(u) PROVE TypeOK'
  <2>1. users[u] \in User
    BY <1>3, StoredIsUser DEF SignIn, RemoveUser
  <2>2. users' \in [UserIds -> User \cup {NoUser, Deleted}]
    BY <1>3, <2>1 DEF SignIn, RemoveUser, TypeOK, User
  <2> QED
    BY <1>3, <2>2 DEF SignIn, RemoveUser, TypeOK
<1>4. CASE RemoveMember
  BY <1>4 DEF RemoveMember, TypeOK
<1>5. CASE UNCHANGED vars
  BY <1>5 DEF vars, TypeOK
<1> QED
  BY <1>1, <1>2, <1>3, <1>4, <1>5 DEF Next

-----------------------------------------------------------------------------
(* Nobody is locked out                                                    *)

LEMMA CreatedStep == MembershipInv /\ [Next]_vars => CreatedAreInvited'
<1> SUFFICES ASSUME MembershipInv, [Next]_vars, NEW r \in Requests,
                    step'[r] = "commit", req'[r].kind = "add", req'[r].user = NoId
             PROVE  Uninvited(req'[r].seen)
  BY DEF CreatedAreInvited, Uninvited
<1>0. TypeOK /\ (step[r] = "commit" /\ req[r].kind = "add" /\ req[r].user = NoId
                   => Uninvited(req[r].seen))
  BY DEF MembershipInv, CreatedAreInvited
<1>1. CASE req'[r] = req[r] /\ step'[r] = step[r]
  BY <1>0, <1>1
<1>2. ASSUME NEW q \in Requests, Handle(q) PROVE Uninvited(req'[r].seen)
  <2>1. CASE BeginAdd(q) /\ q = r
    BY <1>0, <2>1 DEF BeginAdd, NewSeen, Uninvited, TypeOK
  <2>2. CASE (BeginCreate(q) \/ BeginChange(q)) /\ q = r
    BY <1>0, <2>2 DEF BeginCreate, BeginChange, TypeOK
  <2>3. CASE (BeginInvite(q) \/ BeginPassword(q)) /\ q = r
    BY <1>0, <2>3 DEF BeginInvite, BeginPassword, TypeOK
  <2>4. CASE q # r
    <3>1. req'[r] = req[r] /\ step'[r] = step[r]
      BY <1>0, <1>2, <2>4
      DEF Handle, BeginAdd, BeginCreate, CommitUser, BeginInvite, SetPassword, Invite,
          BeginPassword, SavePassword, ClearMustChange, BeginChange, CommitChange, Fail, TypeOK
    <3> QED
      BY <1>1, <3>1
  <2>5. CASE q = r /\ ~Begins(q)
    BY <1>0, <1>2, <2>5
    DEF Begins, Handle, CommitUser, SetPassword, Invite, SavePassword, ClearMustChange,
        CommitChange, Fail, TypeOK
  <2> QED
    BY <2>1, <2>2, <2>3, <2>4, <2>5 DEF Begins
<1>3. CASE UNCHANGED <<step, req>>
  BY <1>1, <1>3
<1> QED
  BY <1>2, <1>3 DEF Next, Deliver, SignIn, RemoveUser, RemoveMember, vars

\* What keeps user u from being locked out.
Safe(u) == users[u].password = Own \/ Mailed(u) \/ Awaited(u) \/ Pending(u)

LEMMA SafeStep ==
  ASSUME MembershipInv, [Next]_vars, NEW u \in UserIds, Stored(u)'
  PROVE  Safe(u)'
<1>0. TypeOK /\ TypeOK' /\ (Stored(u) => Safe(u)) /\ Unknown # Own
      /\ Unknown \notin Requests /\ Own \notin Requests
  BY StepTypes, MembershipAssumption DEF MembershipInv, NobodyLockedOut, Safe
\* Nothing that Safe speaks of has changed, or only requests that do not count.
<1>1. ASSUME Stored(u), users'[u].password = users[u].password,
             queue \cup inbox \subseteq queue' \cup inbox',
             \A q \in Requests : step[q] \in {"invite", "mail", "failed"}
                                   => step'[q] \in {step[q], "failed"} /\ req'[q] = req[q]
      PROVE  Safe(u)'
  <2>1. CASE users[u].password = Own \/ Mailed(u)
    BY <1>1, <2>1 DEF Safe, Mailed
  <2>2. CASE Awaited(u)
    BY <1>1, <2>2 DEF Safe, Awaited
  <2>3. CASE Pending(u)
    BY <1>1, <2>3 DEF Safe, Pending
  <2> QED
    BY <1>0, <1>1, <2>1, <2>2, <2>3 DEF Safe
<1>2. ASSUME NEW r \in Requests, Begins(r) \/ Fail(r) \/ CommitChange(r) PROVE Safe(u)'
  <2>1. UNCHANGED <<users, queue, inbox>> /\ Stored(u)
    BY <1>2 DEF Begins, BeginAdd, BeginCreate, BeginInvite, BeginPassword, BeginChange, Fail,
                CommitChange, Stored
  <2>2. ASSUME NEW q \in Requests, step[q] \in {"invite", "mail", "failed"}
        PROVE  step'[q] \in {step[q], "failed"} /\ req'[q] = req[q]
    BY <1>0, <1>2, <2>2
    DEF Begins, BeginAdd, BeginCreate, BeginInvite, BeginPassword, BeginChange, Fail,
        CommitChange, TypeOK
  <2> QED
    BY <1>1, <2>1, <2>2
<1>3. ASSUME NEW r \in Requests, CommitUser(r) PROVE Safe(u)'
  <2>1. PICK v \in UserIds :
          /\ IF req[r].user = NoId
             THEN users[v] = NoUser /\ users' = [users EXCEPT ![v] = NewUser(req[r].email)]
             ELSE UNCHANGED users
          /\ req' = [req EXCEPT ![r].user = v]
    BY <1>3 DEF CommitUser, NextUser
  <2>2. step[r] = "commit" /\ UNCHANGED <<queue, inbox>>
        /\ \A q \in Requests \ {r} : step'[q] = step[q] /\ req'[q] = req[q]
    BY <1>0, <1>3, <2>1 DEF CommitUser, TypeOK
  <2>3. CASE req[r].user # NoId \/ v # u
    <3>1. users'[u] = users[u] /\ Stored(u)
      BY <1>0, <2>1, <2>3 DEF TypeOK, Stored
    <3> QED
      BY <1>1, <2>2, <3>1
  <2>4. CASE req[r].user = NoId /\ v = u
    <3>1. users'[u].password = Unknown
      BY <1>0, <2>1, <2>4 DEF TypeOK, NewUser
    <3>2. step'[r] = "invite"
      BY <1>0, <1>3, <2>4 DEF CommitUser, MembershipInv, CreatedAreInvited, TypeOK
    <3>3. req'[r].user = u
      BY <1>0, <2>1, <2>2, <2>4 DEF TypeOK, Request
    <3> QED
      BY <3>1, <3>2, <3>3 DEF Safe, Awaited
  <2> QED
    BY <2>3, <2>4
<1>4. ASSUME NEW r \in Requests, SetPassword(r) PROVE Safe(u)'
  <2>1. /\ step[r] = "invite" /\ step'[r] = "mail" /\ UNCHANGED <<queue, inbox, req>>
        /\ \A q \in Requests \ {r} : step'[q] = step[q]
    BY <1>0, <1>4 DEF SetPassword, TypeOK
  <2>2. CASE req[r].user = u
    <3>1. Stored(u)
      BY <1>4, <2>2 DEF SetPassword, Stored
    <3>2. users'[u].password = r
      BY <1>0, <1>4, <2>2, <3>1, StoredIsUser DEF SetPassword, InvitedBy, TypeOK, User
    <3> QED
      BY <2>1, <2>2, <3>2 DEF Safe, Pending
  <2>3. CASE req[r].user # u
    <3>1. users'[u] = users[u] /\ Stored(u)
      BY <1>0, <1>4, <2>3 DEF SetPassword, TypeOK, Stored
    <3>2. CASE users[u].password = Own \/ Mailed(u)
      BY <2>1, <3>1, <3>2 DEF Safe, Mailed
    <3>3. CASE Awaited(u)
      <4>1. PICK q \in Requests : step[q] \in {"invite", "failed"} /\ req[q].user = u
        BY <3>3 DEF Awaited
      <4>2. q # r
        BY <2>3, <4>1
      <4> QED
        BY <2>1, <3>1, <3>3, <4>1, <4>2 DEF Safe, Awaited
    <3>4. CASE Pending(u)
      <4>1. PICK q \in Requests : users[u].password = q /\ step[q] \in {"mail", "failed"}
                                  /\ req[q].user = u
        BY <3>4 DEF Pending
      <4>2. q # r
        BY <2>3, <4>1
      <4> QED
        BY <2>1, <3>1, <4>1, <4>2 DEF Safe, Pending
    <3> QED
      BY <1>0, <3>1, <3>2, <3>3, <3>4 DEF Safe
  <2> QED
    BY <2>2, <2>3
<1>5. ASSUME NEW r \in Requests, Invite(r) PROVE Safe(u)'
  <2>1. /\ step[r] = "mail" /\ UNCHANGED <<users, inbox, req>> /\ Stored(u)
        /\ queue' = queue \cup {[to |-> req[r].user, password |-> r]}
        /\ \A q \in Requests \ {r} : step'[q] = step[q]
    BY <1>0, <1>5 DEF Invite, TypeOK, Stored
  <2>2. CASE users[u].password = Own \/ Mailed(u)
    BY <2>1, <2>2 DEF Safe, Mailed
  <2>3. CASE Awaited(u)
    <3>1. PICK q \in Requests : step[q] \in {"invite", "failed"} /\ req[q].user = u
      BY <2>3 DEF Awaited
    <3>2. q # r
      BY <2>1, <3>1
    <3> QED
      BY <2>1, <2>3, <3>1, <3>2 DEF Safe, Awaited
  <2>4. CASE Pending(u)
    <3>1. PICK q \in Requests : users[u].password = q /\ step[q] \in {"mail", "failed"}
                                /\ req[q].user = u
      BY <2>4 DEF Pending
    <3>2. CASE q = r
      BY <2>1, <3>1, <3>2 DEF Safe, Mailed
    <3>3. CASE q # r
      BY <2>1, <3>1, <3>3 DEF Safe, Pending
    <3> QED
      BY <3>2, <3>3
  <2> QED
    BY <1>0, <2>1, <2>2, <2>3, <2>4 DEF Safe
<1>6. ASSUME NEW r \in Requests, SavePassword(r) \/ ClearMustChange(r) PROVE Safe(u)'
  <2>1. /\ step[r] \in {"save", "clear"} /\ UNCHANGED <<queue, inbox, req>>
        /\ \A q \in Requests \ {r} : step'[q] = step[q]
    BY <1>0, <1>6 DEF SavePassword, ClearMustChange, TypeOK
  <2>2. Stored(u) /\ users'[u].password \in {users[u].password, Own}
    BY <1>0, <1>6, StoredIsUser DEF SavePassword, ClearMustChange, Stored, TypeOK, User
  <2>3. CASE users'[u].password = Own
    BY <2>3 DEF Safe
  <2>4. CASE users'[u].password = users[u].password
    BY <1>1, <2>1, <2>2, <2>4
  <2> QED
    BY <2>2, <2>3, <2>4
<1>7. ASSUME NEW mail \in queue, Deliver(mail) PROVE Safe(u)'
  <2>1. UNCHANGED <<users, step, req>> /\ Stored(u)
    BY <1>7 DEF Deliver, Stored
  <2>2. CASE Mailed(u)
    <3>1. Stored([to |-> u, password |-> users[u].password].to)
      BY <2>1
    <3>2. Mailed(u)'
      BY <1>7, <2>1, <2>2, <3>1 DEF Deliver, Mailed
    <3> QED
      BY <3>2 DEF Safe
  <2>3. CASE users[u].password = Own \/ Awaited(u) \/ Pending(u)
    BY <2>1, <2>3 DEF Safe, Awaited, Pending
  <2> QED
    BY <1>0, <2>1, <2>2, <2>3 DEF Safe
<1>8. ASSUME NEW v \in UserIds, SignIn(v) \/ RemoveUser(v) PROVE Safe(u)'
  <2>1. UNCHANGED <<queue, inbox, step, req>>
    BY <1>8 DEF SignIn, RemoveUser
  <2>2. Stored(u) /\ users'[u].password = users[u].password
    BY <1>0, <1>8, StoredIsUser DEF SignIn, RemoveUser, Stored, TypeOK, User
  <2> QED
    BY <1>1, <2>1, <2>2
<1>9. CASE RemoveMember \/ UNCHANGED vars
  <2>1. UNCHANGED <<users, queue, inbox, step, req>> /\ Stored(u)
    BY <1>9 DEF RemoveMember, vars, Stored
  <2> QED
    BY <1>1, <2>1
<1> QED
  BY <1>2, <1>3, <1>4, <1>5, <1>6, <1>7, <1>8, <1>9 DEF Next, Handle, Begins

LEMMA MembershipStep == MembershipInv /\ [Next]_vars => MembershipInv'
<1> SUFFICES ASSUME MembershipInv, [Next]_vars PROVE MembershipInv'
  OBVIOUS
<1>1. NobodyLockedOut'
  BY SafeStep DEF NobodyLockedOut, Safe
<1> QED
  BY <1>1, StepTypes, CreatedStep DEF MembershipInv

\* Users, memberships, mails and requests keep their types.
THEOREM MembershipTypeCorrect == Spec => []TypeOK
<1>1. Init => MembershipInv
  BY InitMembership
<1>2. MembershipInv => TypeOK
  BY DEF MembershipInv
<1> QED
  BY <1>1, <1>2, MembershipStep, PTL DEF Spec

\* However many requests overlap, nobody is locked out.
THEOREM EverybodyGetsIn == Spec => []NobodyLockedOut
<1>1. MembershipInv => NobodyLockedOut
  BY DEF MembershipInv
<1> QED
  BY <1>1, InitMembership, MembershipStep, PTL DEF Spec

-----------------------------------------------------------------------------
(* One change of users and memberships at a time: what each has validated  *)
(* still holds when it commits.                                            *)

RowsOnce ==
  /\ \A m, n \in members : m.row = n.row => m = n
  /\ \A m \in members : m.row \in Requests => step[m.row] \notin {"idle", "commit"}

MembersOnce    == \A m, n \in members : m.user = n.user /\ m.project = n.project => m = n
MembersCreated == \A m \in members : users[m.user] # NoUser
EmailsOnce     ==
  \A u, v \in UserIds : Stored(u) /\ Stored(v) /\ users[u].email = users[v].email => u = v

\* A user who was invited once stays so.
Invited(u)    == users[u] = Deleted \/ (Stored(u) /\ users[u].invited)
Welcome(mail) == req[mail.password].kind = "add"
Unwelcomed(u) == \A mail \in queue \cup inbox : mail.to = u => ~Welcome(mail)

CheckedAdd(r) ==
  IF req[r].user = NoId THEN EmailFree(req[r].email, NoId)
  ELSE users[req[r].user] # NoUser /\ NotMember(req[r].user, req[r].project, req[r].role)

CheckedChange(r) ==
  /\ req[r].was \in members /\ users[req[r].user] # NoUser
  /\ \A n \in members \ {req[r].was} : ~(n.user = req[r].user /\ n.project = req[r].project)
  /\ req[r].role = "editor" => OtherOwner(req[r].project, req[r].was.row)

WillInvite(r) ==
  \/ step[r] \in {"invite", "mail"}
  \/ step[r] = "commit" /\ req[r].user # NoId /\ Uninvited(req[r].seen)

Checked(r) ==
  /\ step[r] = "commit" /\ req[r].kind \in {"add", "create"} => CheckedAdd(r)
  /\ step[r] = "commit" /\ req[r].kind = "change" => CheckedChange(r)
  /\ req[r].kind = "add" /\ WillInvite(r) => Unwelcomed(req[r].user)
  /\ req[r].kind = "add" /\ step[r] = "invite" => users[req[r].user] # NoUser
  /\ req[r].kind = "add" /\ step[r] = "mail" => Invited(req[r].user)

MailOK(mail) ==
  /\ step[mail.password] = "done" /\ req[mail.password].user = mail.to
  /\ Welcome(mail) => Invited(mail.to)

MailsOnce ==
  /\ \A mail \in queue \cup inbox : MailOK(mail)
  /\ \A m, n \in queue \cup inbox : Welcome(m) /\ Welcome(n) /\ m.to = n.to => m = n

OneEditor == \A q, r \in Editing : q = r

EditInv ==
  /\ OneEditor /\ RowsOnce /\ MembersOnce /\ MembersCreated /\ EmailsOnce /\ MailsOnce
  /\ \A r \in Editing : Checked(r)

LEMMA NobodyEdits ==
  ASSUME Editors = 1, MayEdit
  PROVE  Editing = {}
<1>1. IsFiniteSet(Editing)
  BY MembershipAssumption, FS_Subset DEF Editing
<1>2. Cardinality(Editing) \in Nat /\ Cardinality(Editing) < 1
  BY <1>1, FS_CardinalityType DEF MayEdit
<1>3. Cardinality(Editing) = 0
  BY <1>2
<1> QED
  BY <1>1, <1>3, FS_EmptySet

\* What no step takes back: a request that is done, a user who was created, and
\* a user who was invited.
LEMMA NothingIsUndone ==
  ASSUME TypeOK, [Next]_vars
  PROVE  /\ \A q \in Requests : step[q] = "done" => step'[q] = "done" /\ req'[q] = req[q]
         /\ \A u \in UserIds : users[u] # NoUser => users'[u] # NoUser
         /\ \A u \in UserIds : Invited(u) => Invited(u)'
<1>1. ASSUME NEW q \in Requests, step[q] = "done" PROVE step'[q] = "done" /\ req'[q] = req[q]
  <2>1. ASSUME NEW r \in Requests, Handle(r)
        PROVE  r # q /\ step'[q] = step[q] /\ req'[q] = req[q]
    BY <1>1, <2>1
    DEF TypeOK, Handle, BeginAdd, BeginCreate, CommitUser, BeginInvite, SetPassword, Invite,
        BeginPassword, SavePassword, ClearMustChange, BeginChange, CommitChange, Fail
  <2> QED
    BY <1>1, <2>1 DEF Next, Deliver, SignIn, RemoveUser, RemoveMember, vars
<1>2. ASSUME NEW u \in UserIds, users[u] # NoUser, users'[u] # users[u]
      PROVE  /\ users'[u] # NoUser
             /\ users'[u] = Deleted \/ (users'[u] \in User /\ (users[u].invited => users'[u].invited))
  <2>1. users[u] \in User \/ users[u] = Deleted
    BY <1>2 DEF TypeOK
  <2>2. CASE RemoveUser(u)
    BY <2>2, MembershipAssumption DEF RemoveUser, TypeOK
  <2>3. ASSUME NEW new \in User, users' = [users EXCEPT ![u] = new],
               users[u].invited => new.invited
        PROVE  /\ users'[u] # NoUser
               /\ users'[u] \in User /\ (users[u].invited => users'[u].invited)
    BY <2>3, MembershipAssumption DEF TypeOK
  <2>4. CASE SignIn(u)
    <3>1. users[u] \in User
      BY <2>1, <2>4 DEF SignIn, Stored
    <3>2. [users[u] EXCEPT !.signedIn = TRUE] \in User
      BY <3>1 DEF User
    <3> QED
      BY <2>3, <2>4, <3>1, <3>2 DEF SignIn, User
  <2>5. ASSUME NEW r \in Requests, SetPassword(r) \/ SavePassword(r) \/ ClearMustChange(r)
        PROVE  /\ users'[u] # NoUser
               /\ users'[u] \in User /\ (users[u].invited => users'[u].invited)
    <3>1. req[r].user = u /\ Stored(u)
      BY <1>2, <2>5 DEF SetPassword, SavePassword, ClearMustChange, TypeOK
    <3>2. users[u] \in User
      BY <2>1, <3>1 DEF Stored
    <3>3. /\ InvitedBy(r, users[u]) \in User /\ InvitedBy(r, users[u]).invited
          /\ [users[u] EXCEPT !.password = Own] \in User
          /\ [users[u] EXCEPT !.mustChange = FALSE] \in User
      BY <3>2 DEF InvitedBy, User, Passwords
    <3>4. \/ users' = [users EXCEPT ![u] = InvitedBy(r, users[u])]
          \/ users' = [users EXCEPT ![u] = [users[u] EXCEPT !.password = Own]]
          \/ users' = [users EXCEPT ![u] = [users[u] EXCEPT !.mustChange = FALSE]]
      BY <2>5, <3>1 DEF SetPassword, SavePassword, ClearMustChange, TypeOK
    <3> QED
      BY <2>3, <3>2, <3>3, <3>4 DEF User
  <2>6. ASSUME NEW r \in Requests, CommitUser(r) PROVE FALSE
    BY <1>2, <2>6 DEF CommitUser, NextUser, TypeOK
  <2>7. ASSUME NEW v \in UserIds, v # u, SignIn(v) \/ RemoveUser(v) PROVE FALSE
    BY <1>2, <2>7 DEF SignIn, RemoveUser, TypeOK
  <2> QED
    BY <1>2, <2>2, <2>4, <2>5, <2>6, <2>7
    DEF Next, Handle, BeginAdd, BeginCreate, BeginInvite, Invite, BeginPassword, BeginChange,
        CommitChange, Fail, Deliver, RemoveMember, vars
<1>3. ASSUME NEW u \in UserIds, Invited(u) PROVE Invited(u)'
  <2>1. users[u] # NoUser
    BY <1>3, MembershipAssumption DEF Invited, Stored
  <2>2. CASE users'[u] = users[u]
    BY <1>3, <2>2 DEF Invited, Stored
  <2>3. CASE users'[u] # users[u] /\ users[u] = Deleted
    <3>1. users'[u] = Deleted \/ ~Stored(u)
      BY <2>3 DEF Stored
    <3>2. users'[u] = users[u]
      BY <2>3, MembershipAssumption
      DEF Next, Handle, BeginAdd, BeginCreate, CommitUser, NextUser, BeginInvite, SetPassword,
          Invite, BeginPassword, SavePassword, ClearMustChange, BeginChange, CommitChange, Fail,
          Deliver, SignIn, RemoveUser, RemoveMember, vars, Stored, TypeOK
    <3> QED
      BY <2>3, <3>2
  <2>4. CASE users'[u] # users[u] /\ Stored(u) /\ users[u].invited
    BY <1>2, <2>1, <2>4, MembershipAssumption DEF Invited, Stored
  <2> QED
    BY <1>3, <2>2, <2>3, <2>4 DEF Invited
<1> QED
  BY <1>1, <1>2, <1>3

\* A request that is done has sent its mail: the mails of a step that sends none
\* are as they were, and so is whom they welcome.
LEMMA MailsKept ==
  ASSUME TypeOK, [Next]_vars, MailsOnce, queue' \cup inbox' \subseteq queue \cup inbox
  PROVE  /\ MailsOnce'
         /\ \A u \in UserIds : Unwelcomed(u) => Unwelcomed(u)'
<1>1. ASSUME NEW mail \in queue' \cup inbox'
      PROVE  /\ mail \in queue \cup inbox /\ mail.password \in Requests /\ mail.to \in UserIds
             /\ req'[mail.password] = req[mail.password] /\ step'[mail.password] = "done"
             /\ MailOK(mail) /\ (Invited(mail.to) => Invited(mail.to)')
  <2>1. mail \in queue \cup inbox
    OBVIOUS
  <2>2. mail \in Mail /\ MailOK(mail)
    BY <2>1 DEF TypeOK, MailsOnce
  <2> QED
    BY <2>1, <2>2, NothingIsUndone DEF Mail, MailOK
<1>2. \A mail \in queue' \cup inbox' : MailOK(mail)'
  BY <1>1 DEF MailOK, Welcome
<1>3. \A m, n \in queue' \cup inbox' : Welcome(m)' /\ Welcome(n)' /\ m.to = n.to => m = n
  BY <1>1 DEF MailsOnce, Welcome
<1>4. ASSUME NEW u \in UserIds, Unwelcomed(u) PROVE Unwelcomed(u)'
  BY <1>1, <1>4 DEF Unwelcomed, Welcome
<1> QED
  BY <1>2, <1>3, <1>4 DEF MailsOnce

LEMMA OnlyInviteMails ==
  ASSUME [Next]_vars, \A r \in Requests : ~Invite(r)
  PROVE  queue' \cup inbox' \subseteq queue \cup inbox
BY DEF Next, Handle, BeginAdd, BeginCreate, CommitUser, BeginInvite, SetPassword, BeginPassword,
       SavePassword, ClearMustChange, BeginChange, CommitChange, Fail, Deliver, SignIn,
       RemoveUser, RemoveMember, vars

LEMMA OneEditorStep ==
  ASSUME Editors = 1, TypeOK, OneEditor, [Next]_vars
  PROVE  OneEditor'
<1>1. ASSUME NEW r \in Requests, BeginAdd(r) \/ BeginCreate(r) \/ BeginChange(r)
      PROVE  Editing' \subseteq {r}
  <2>1. Editing = {}
    BY <1>1, NobodyEdits DEF BeginAdd, BeginCreate, BeginChange
  <2>2. \A q \in Requests \ {r} : step'[q] = step[q] /\ req'[q] = req[q]
    BY <1>1 DEF BeginAdd, BeginCreate, BeginChange, TypeOK
  <2> QED
    BY <2>1, <2>2 DEF Editing
<1>2. ASSUME NEW r \in Requests, Handle(r), ~(BeginAdd(r) \/ BeginCreate(r) \/ BeginChange(r))
      PROVE  Editing' \subseteq Editing
  <2>1. \A q \in Requests \ {r} : step'[q] = step[q] /\ req'[q] = req[q]
    BY <1>2 DEF Handle, CommitUser, BeginInvite, SetPassword, Invite, BeginPassword, SavePassword,
                ClearMustChange, CommitChange, Fail, TypeOK
  <2>2. CASE BeginInvite(r) \/ BeginPassword(r)
    <3>1. req'[r].kind \in {"invite", "password"}
      BY <2>2 DEF BeginInvite, BeginPassword, TypeOK
    <3> QED
      BY <2>1, <3>1 DEF Editing
  <2>3. CASE ~(BeginInvite(r) \/ BeginPassword(r))
    <3>1. step[r] \notin {"idle", "done", "failed"}
      BY <1>2, <2>3 DEF Handle, CommitUser, SetPassword, Invite, SavePassword, ClearMustChange,
                        CommitChange, Fail
    <3>2. req'[r].kind = req[r].kind
      BY <1>2, <2>3, <3>1 DEF Handle, CommitUser, SetPassword, Invite, SavePassword,
                              ClearMustChange, CommitChange, Fail, TypeOK, Request
    <3> QED
      BY <2>1, <3>1, <3>2 DEF Editing
  <2> QED
    BY <2>2, <2>3
<1>3. ASSUME UNCHANGED <<step, req>> PROVE Editing' = Editing
  BY <1>3 DEF Editing
<1>4. ASSUME \A r \in Requests : ~Handle(r) PROVE UNCHANGED <<step, req>>
  BY <1>4 DEF Next, Deliver, SignIn, RemoveUser, RemoveMember, vars
<1> QED
  BY <1>1, <1>2, <1>3, <1>4 DEF OneEditor

LEMMA RowsStep ==
  ASSUME TypeOK, RowsOnce, [Next]_vars
  PROVE  RowsOnce'
<1>1. \A q \in Requests : step[q] \notin {"idle", "commit"} => step'[q] \notin {"idle", "commit"}
  BY DEF TypeOK, Next, Handle, BeginAdd, BeginCreate, CommitUser, BeginInvite, SetPassword, Invite,
         BeginPassword, SavePassword, ClearMustChange, BeginChange, CommitChange, Fail, Deliver,
         SignIn, RemoveUser, RemoveMember, vars
<1>2. CASE members' \subseteq members
  BY <1>1, <1>2 DEF RowsOnce
<1>3. ASSUME NEW r \in Requests, CommitUser(r) PROVE RowsOnce'
  <2>1. PICK new : new.row = r /\ members' \subseteq members \cup {new}
    <3>1. PICK u \in UserIds : members' = IF req[r].kind = "add"
                                          THEN members \cup {NewMember(r, u)} ELSE members
      BY <1>3 DEF CommitUser
    <3>2. NewMember(r, u).row = r /\ members' \subseteq members \cup {NewMember(r, u)}
      BY <3>1 DEF NewMember
    <3> QED
      BY <3>2
  <2>2. step[r] = "commit" /\ step'[r] \notin {"idle", "commit"}
    BY <1>3 DEF CommitUser, TypeOK
  <2>3. \A m \in members : m.row # r
    BY <2>2 DEF RowsOnce
  <2> QED
    BY <1>1, <2>1, <2>2, <2>3 DEF RowsOnce
<1>4. ASSUME NEW r \in Requests, CommitChange(r) PROVE RowsOnce'
  <2>1. \A m \in members' : \E n \in members :
          n.row = m.row /\ m = IF n.row = req[r].was.row THEN Changed(r, n) ELSE n
    BY <1>4 DEF CommitChange, Changed
  <2> QED
    BY <1>1, <2>1 DEF RowsOnce
<1> QED
  BY <1>2, <1>3, <1>4
  DEF Next, Handle, BeginAdd, BeginCreate, BeginInvite, SetPassword, Invite, BeginPassword,
      SavePassword, ClearMustChange, BeginChange, Fail, Deliver, SignIn, RemoveUser,
      RemoveMember, vars

\* What the commit of a validated request writes.
LEMMA CommitUserWrites ==
  ASSUME TypeOK, NEW r \in Requests, CommitUser(r), Checked(r), MembersCreated, MailsOnce
  PROVE  /\ step[r] = "commit" /\ req[r] \in Request
         /\ \E u \in UserIds :
              /\ \/ /\ req[r].user = NoId /\ users[u] = NoUser /\ EmailFree(req[r].email, NoId)
                    /\ users' = [users EXCEPT ![u] = NewUser(req[r].email)]
                    /\ Unwelcomed(u)
                 \/ u = req[r].user /\ users[u] # NoUser /\ UNCHANGED users
              /\ members' = IF req[r].kind = "add" THEN members \cup {NewMember(r, u)} ELSE members
              /\ req' = [req EXCEPT ![r].user = u]
              /\ NotMember(u, req[r].project, req[r].role)
<1>1. /\ step[r] = "commit" /\ req[r] \in Request /\ CheckedAdd(r)
  BY DEF CommitUser, Checked, TypeOK
<1>2. PICK u \in UserIds :
        /\ IF req[r].user = NoId
           THEN /\ NextUser(u)
                /\ users' = [users EXCEPT ![u] = NewUser(req[r].email)]
           ELSE u = req[r].user /\ UNCHANGED users
        /\ members' = IF req[r].kind = "add" THEN members \cup {NewMember(r, u)} ELSE members
        /\ req' = [req EXCEPT ![r].user = u]
  BY DEF CommitUser
<1>3. CASE req[r].user = NoId
  <2>1. users[u] = NoUser /\ EmailFree(req[r].email, NoId)
    BY <1>1, <1>2, <1>3 DEF NextUser, CheckedAdd
  <2>2. ~Invited(u)
    BY <2>1, MembershipAssumption DEF Invited, Stored
  <2>3. Unwelcomed(u)
    BY <2>2 DEF Unwelcomed, MailsOnce, MailOK
  <2>4. NotMember(u, req[r].project, req[r].role)
    BY <2>1 DEF NotMember, MembersCreated
  <2> QED
    BY <1>1, <1>2, <1>3, <2>1, <2>3, <2>4
<1>4. CASE req[r].user # NoId
  BY <1>1, <1>2, <1>4 DEF CheckedAdd
<1> QED
  BY <1>3, <1>4

\* The row that is changed is the only one that is, and becomes what was asked for.
LEMMA CommitChangeWrites ==
  ASSUME TypeOK, NEW r \in Requests, CommitChange(r), Checked(r), RowsOnce
  PROVE  LET was == req[r].was
             new == [row |-> was.row, user |-> req[r].user, project |-> req[r].project,
                     role |-> req[r].role]
         IN  /\ CheckedChange(r) /\ UNCHANGED users
             /\ members' = (members \ {was}) \cup {new}
<1> DEFINE was == req[r].was
           new == [row |-> was.row, user |-> req[r].user, project |-> req[r].project,
                   role |-> req[r].role]
<1>1. CheckedChange(r) /\ was \in members
  BY DEF CommitChange, Checked, CheckedChange
<1>2. Changed(r, was) = new
  BY DEF Changed
<1>3. \A m \in members : m.row = was.row => m = was
  BY <1>1 DEF RowsOnce
<1>4. members' = {IF m.row = was.row THEN Changed(r, m) ELSE m : m \in members}
  BY DEF CommitChange
<1>5. members' = {IF m = was THEN new ELSE m : m \in members}
  <2> HIDE DEF new, was
  <2> QED
    BY <1>1, <1>2, <1>3, <1>4
<1>6. members' = (members \ {was}) \cup {new}
  <2> HIDE DEF new, was
  <2> QED
    BY <1>1, <1>5
<1> QED
  BY <1>1, <1>6 DEF CommitChange

LEMMA CommitsAreEdits ==
  ASSUME TypeOK, NEW r \in Requests, CommitUser(r) \/ CommitChange(r)
  PROVE  r \in Editing
BY DEF CommitUser, CommitChange, Editing

\* The steps that leave the memberships, and which users there are, as they are.
Quiet ==
  /\ UNCHANGED members
  /\ \A u \in UserIds :
       /\ users'[u] = NoUser <=> users[u] = NoUser
       /\ Stored(u)' <=> Stored(u)
       /\ Stored(u) => users'[u].email = users[u].email

LEMMA QuietSteps ==
  ASSUME TypeOK, [Next]_vars,
         \A r \in Requests : ~CommitUser(r) /\ ~CommitChange(r), ~RemoveMember,
         \A u \in UserIds : ~RemoveUser(u)
  PROVE  Quiet
<1>1. UNCHANGED members
  BY DEF Next, Handle, BeginAdd, BeginCreate, BeginInvite, SetPassword, Invite, BeginPassword,
         SavePassword, ClearMustChange, BeginChange, Fail, Deliver, SignIn, vars
<1>2. ASSUME UNCHANGED users PROVE Quiet
  BY <1>1, <1>2 DEF Quiet, Stored
<1>3. ASSUME NEW u \in UserIds, NEW new \in User, Stored(u),
             users' = [users EXCEPT ![u] = new], new.email = users[u].email
      PROVE  Quiet
  BY <1>1, <1>3, MembershipAssumption DEF Quiet, Stored, TypeOK
<1>4. ASSUME NEW u \in UserIds, SignIn(u) PROVE Quiet
  <2>1. Stored(u) /\ users[u] \in User
    BY <1>4, StoredIsUser DEF SignIn
  <2>2. [users[u] EXCEPT !.signedIn = TRUE] \in User
    BY <2>1 DEF User
  <2> QED
    BY <1>3, <1>4, <2>1, <2>2 DEF SignIn, User
<1>5. ASSUME NEW r \in Requests, SetPassword(r) \/ SavePassword(r) \/ ClearMustChange(r)
      PROVE  Quiet
  <2> DEFINE u == req[r].user
  <2>1. CASE ~Stored(u)
    BY <1>2, <1>5, <2>1 DEF SetPassword, SavePassword, ClearMustChange
  <2>2. CASE Stored(u)
    <3>1. u \in UserIds /\ users[u] \in User
      BY <1>5, <2>2, StoredIsUser DEF SetPassword, SavePassword, ClearMustChange, TypeOK
    <3>2. PICK new \in User : users' = [users EXCEPT ![u] = new] /\ new.email = users[u].email
      <4>1. /\ InvitedBy(r, users[u]) \in User /\ InvitedBy(r, users[u]).email = users[u].email
            /\ [users[u] EXCEPT !.password = Own] \in User
            /\ [users[u] EXCEPT !.mustChange = FALSE] \in User
        BY <3>1 DEF InvitedBy, User, Passwords
      <4>2. \/ users' = [users EXCEPT ![u] = InvitedBy(r, users[u])]
            \/ users' = [users EXCEPT ![u] = [users[u] EXCEPT !.password = Own]]
            \/ users' = [users EXCEPT ![u] = [users[u] EXCEPT !.mustChange = FALSE]]
        BY <1>5, <2>2, <3>1 DEF SetPassword, SavePassword, ClearMustChange, TypeOK
      <4> QED
        BY <3>1, <4>1, <4>2 DEF User
    <3> QED
      BY <1>3, <2>2, <3>1, <3>2
  <2> QED
    BY <2>1, <2>2
<1> QED
  BY <1>2, <1>4, <1>5 DEF Next, Handle, BeginAdd, BeginCreate, BeginInvite, Invite,
     BeginPassword, BeginChange, Fail, Deliver, vars

-----------------------------------------------------------------------------
(* The invariant of one editor is inductive                                *)

LEMMA EditorsCommit ==
  ASSUME TypeOK, EditInv, NEW r \in Requests, CommitUser(r) \/ CommitChange(r)
  PROVE  Checked(r)
BY CommitsAreEdits DEF EditInv

LEMMA TablesStep ==
  ASSUME TypeOK, EditInv, [Next]_vars
  PROVE  MembersOnce' /\ MembersCreated' /\ EmailsOnce'
<1>0. MembersOnce /\ MembersCreated /\ EmailsOnce
  BY DEF EditInv
<1>1. MembersCreated'
  <2> SUFFICES ASSUME NEW m \in members' PROVE users'[m.user] # NoUser
    BY DEF MembersCreated
  <2>1. CASE m \in members
    BY <1>0, <2>1, NothingIsUndone DEF MembersCreated, TypeOK, Member
  <2>2. ASSUME NEW r \in Requests, CommitUser(r), m \notin members PROVE users'[m.user] # NoUser
    <3>1. PICK u \in UserIds :
            /\ \/ users' = [users EXCEPT ![u] = NewUser(req[r].email)]
               \/ users[u] # NoUser /\ UNCHANGED users
            /\ members' = IF req[r].kind = "add" THEN members \cup {NewMember(r, u)} ELSE members
      BY <2>2, CommitUserWrites, EditorsCommit DEF EditInv
    <3>2. m.user = u
      BY <2>2, <3>1 DEF NewMember, KeyOf
    <3>3. NewUser(req[r].email) # NoUser
      <4>1. req[r].email \in Emails
        BY <2>2 DEF CommitUser, TypeOK, Request
      <4>2. NewUser(req[r].email) \in User
        BY <4>1 DEF NewUser, User, Passwords
      <4> QED
        BY <4>2, MembershipAssumption
    <3> QED
      BY <3>1, <3>2, <3>3 DEF TypeOK
  <2>3. ASSUME NEW r \in Requests, CommitChange(r), m \notin members PROVE users'[m.user] # NoUser
    <3>1. /\ m.user = req[r].user /\ UNCHANGED users /\ CheckedChange(r)
      BY <2>3, CommitChangeWrites, EditorsCommit DEF EditInv
    <3> QED
      BY <3>1 DEF CheckedChange
  <2> QED
    BY <2>1, <2>2, <2>3
    DEF Next, Handle, BeginAdd, BeginCreate, BeginInvite, SetPassword, Invite, BeginPassword,
        SavePassword, ClearMustChange, BeginChange, Fail, Deliver, SignIn, RemoveUser,
        RemoveMember, vars
<1>2. MembersOnce'
  <2>1. CASE members' \subseteq members
    BY <1>0, <2>1 DEF MembersOnce
  <2>2. ASSUME NEW r \in Requests, CommitUser(r) PROVE MembersOnce'
    <3>1. PICK u \in UserIds :
            /\ members' = IF req[r].kind = "add" THEN members \cup {NewMember(r, u)} ELSE members
            /\ NotMember(u, req[r].project, req[r].role)
      BY <2>2, CommitUserWrites, EditorsCommit DEF EditInv
    <3>2. NewMember(r, u).user = u /\ NewMember(r, u).project = req[r].project
      BY DEF NewMember, KeyOf
    <3> QED
      BY <1>0, <3>1, <3>2 DEF MembersOnce, NotMember
  <2>3. ASSUME NEW r \in Requests, CommitChange(r) PROVE MembersOnce'
    <3> DEFINE new == [row |-> req[r].was.row, user |-> req[r].user, project |-> req[r].project,
                       role |-> req[r].role]
    <3>1. CheckedChange(r) /\ members' = (members \ {req[r].was}) \cup {new}
      BY <2>3, CommitChangeWrites, EditorsCommit DEF EditInv
    <3>2. \A n \in members \ {req[r].was} : ~(n.user = new.user /\ n.project = new.project)
      BY <3>1 DEF CheckedChange
    <3> HIDE DEF new
    <3> QED
      BY <1>0, <3>1, <3>2 DEF MembersOnce
  <2> QED
    BY <2>1, <2>2, <2>3
    DEF Next, Handle, BeginAdd, BeginCreate, BeginInvite, SetPassword, Invite, BeginPassword,
        SavePassword, ClearMustChange, BeginChange, Fail, Deliver, SignIn, RemoveUser,
        RemoveMember, vars
<1>3. EmailsOnce'
  <2>1. ASSUME Quiet PROVE EmailsOnce'
    BY <1>0, <2>1 DEF EmailsOnce, Quiet
  <2>2. ASSUME UNCHANGED users PROVE EmailsOnce'
    BY <1>0, <2>2 DEF EmailsOnce, Stored
  <2>3. ASSUME NEW u \in UserIds, RemoveUser(u) PROVE EmailsOnce'
    BY <1>0, <2>3 DEF EmailsOnce, RemoveUser, Stored, TypeOK
  <2>4. ASSUME NEW r \in Requests, CommitUser(r) PROVE EmailsOnce'
    <3>1. PICK u \in UserIds :
            \/ /\ users' = [users EXCEPT ![u] = NewUser(req[r].email)]
               /\ EmailFree(req[r].email, NoId)
            \/ UNCHANGED users
      BY <2>4, CommitUserWrites, EditorsCommit DEF EditInv
    <3>2. NewUser(req[r].email).email = req[r].email
      BY DEF NewUser
    <3>3. CASE /\ users' = [users EXCEPT ![u] = NewUser(req[r].email)]
               /\ EmailFree(req[r].email, NoId)
      <4>1. \A v \in UserIds : Stored(v) => users[v].email # req[r].email
        BY <3>3, MembershipAssumption DEF EmailFree
      <4>2. users'[u].email = req[r].email /\ \A v \in UserIds \ {u} : users'[v] = users[v]
        BY <3>2, <3>3 DEF TypeOK
      <4> QED
        BY <1>0, <4>1, <4>2 DEF EmailsOnce, Stored
    <3> QED
      BY <2>2, <3>1, <3>3
  <2> QED
    BY <2>1, <2>2, <2>3, <2>4, QuietSteps DEF CommitChange, RemoveMember
<1> QED
  BY <1>1, <1>2, <1>3

LEMMA MailsStep ==
  ASSUME TypeOK, EditInv, [Next]_vars
  PROVE  MailsOnce'
<1>0. MailsOnce
  BY DEF EditInv
<1>1. ASSUME NEW r \in Requests, Invite(r) PROVE MailsOnce'
  <2>0. PICK new : new = [to |-> req[r].user, password |-> r]
    OBVIOUS
  <2>1. /\ queue' \cup inbox' = (queue \cup inbox) \cup {new} /\ UNCHANGED <<users, req>>
        /\ step[r] = "mail" /\ step' = [step EXCEPT ![r] = "done"]
    BY <1>1, <2>0 DEF Invite
  <2>2. new.to = req[r].user /\ new.password = r
    BY <2>0
  <2>3. ASSUME req[r].kind = "add" PROVE Unwelcomed(new.to) /\ Invited(new.to)
    <3>1. r \in Editing
      BY <2>1, <2>3 DEF Editing
    <3> QED
      BY <2>1, <2>2, <2>3, <3>1 DEF EditInv, Checked, WillInvite
  <2>4. Welcome(new) <=> req[r].kind = "add"
    BY <2>2 DEF Welcome
  <2>5. ASSUME NEW mail \in queue \cup inbox PROVE MailOK(mail)'
    <3>1. mail \in Mail /\ MailOK(mail)
      BY <1>0 DEF TypeOK, MailsOnce
    <3> QED
      BY <2>1, <3>1 DEF MailOK, Mail, TypeOK, Welcome, Invited, Stored
  <2>6. MailOK(new)'
    BY <2>1, <2>2, <2>3, <2>4 DEF MailOK, TypeOK, Welcome, Invited, Stored
  <2>7. \A m, n \in queue' \cup inbox' : Welcome(m)' /\ Welcome(n)' /\ m.to = n.to => m = n
    BY <1>0, <2>1, <2>3, <2>4 DEF MailsOnce, Welcome, Unwelcomed
  <2> QED
    BY <2>1, <2>5, <2>6, <2>7 DEF MailsOnce
<1> QED
  BY <1>0, <1>1, MailsKept, OnlyInviteMails

\* Only a request that adds a member sends a welcome.
LEMMA UnwelcomedStays ==
  ASSUME TypeOK, EditInv, [Next]_vars, \A r \in Editing : ~Invite(r), NEW u \in UserIds,
         Unwelcomed(u)
  PROVE  Unwelcomed(u)'
<1>1. ASSUME NEW r \in Requests, Invite(r) PROVE Unwelcomed(u)'
  <2>1. req[r].kind # "add"
    BY <1>1 DEF Invite, Editing
  <2>2. /\ queue' \cup inbox' = (queue \cup inbox) \cup {[to |-> req[r].user, password |-> r]}
        /\ UNCHANGED req
    BY <1>1 DEF Invite
  <2> QED
    BY <2>1, <2>2 DEF Unwelcomed, Welcome
<1> QED
  BY <1>1, OnlyInviteMails, MailsKept DEF EditInv

\* What a request has validated stays so while nobody else writes.
LEMMA CheckedStays ==
  ASSUME TypeOK, [Next]_vars, Quiet, \A u \in UserIds : Unwelcomed(u) => Unwelcomed(u)',
         NEW q \in Requests, Checked(q), step[q] # "idle",
         step'[q] = step[q], req'[q] = req[q]
  PROVE  Checked(q)'
<1>0. req[q] \in Request
  BY DEF TypeOK
<1>1. CheckedAdd(q) => CheckedAdd(q)'
  BY <1>0 DEF CheckedAdd, Quiet, EmailFree, NotMember, Request
<1>2. step[q] = "commit" /\ req[q].kind = "change" /\ CheckedChange(q) => CheckedChange(q)'
  BY <1>0 DEF CheckedChange, Quiet, OtherOwner, Request, TypeOK
<1>3. req[q].kind = "add" /\ WillInvite(q) => req[q].user \in UserIds
  BY <1>0 DEF WillInvite, TypeOK, Request
<1>4. req[q].kind = "add" /\ WillInvite(q) /\ Unwelcomed(req[q].user) => Unwelcomed(req[q].user)'
  BY <1>3 DEF Unwelcomed
<1>5. WillInvite(q)' <=> WillInvite(q)
  BY DEF WillInvite, Uninvited
<1>6. step[q] \in {"invite", "mail"} => req[q].user \in UserIds
  BY DEF TypeOK
<1>7. /\ step[q] = "invite" /\ users[req[q].user] # NoUser => users'[req[q].user] # NoUser
      /\ step[q] = "mail" /\ Invited(req[q].user) => Invited(req[q].user)'
  BY <1>6, NothingIsUndone DEF Invited, Stored
<1> QED
  BY <1>1, <1>2, <1>4, <1>5, <1>7 DEF Checked

LEMMA CheckedBegin ==
  ASSUME TypeOK, MailsOnce, NEW r \in Requests, BeginAdd(r) \/ BeginCreate(r) \/ BeginChange(r)
  PROVE  Checked(r)'
<1>0. UNCHANGED <<users, members, queue, inbox>> /\ step'[r] = "commit"
  BY DEF BeginAdd, BeginCreate, BeginChange, TypeOK
<1>1. CASE BeginAdd(r)
  <2>1. PICK p \in Projects, role \in Roles, email \in Emails, u \in UserIds \cup {NoId} :
          /\ IF u = NoId THEN EmailFree(email, NoId)
             ELSE Stored(u) /\ users[u].email = email /\ NotMember(u, p, role)
          /\ req' = [req EXCEPT ![r] =
               [kind |-> "add", user |-> u, email |-> email, project |-> p, role |-> role,
                seen |-> IF u = NoId THEN NewSeen ELSE SeenOf(u), was |-> NoRow]]
    BY <1>1 DEF BeginAdd
  <2>2. /\ req'[r].kind = "add" /\ req'[r].user = u /\ req'[r].project = p /\ req'[r].role = role
        /\ req'[r].email = email /\ (u # NoId => req'[r].seen = SeenOf(u))
    BY <2>1 DEF TypeOK
  <2>3. CheckedAdd(r)'
    BY <1>0, <2>1, <2>2 DEF CheckedAdd, EmailFree, NotMember, Stored
  <2>4. ASSUME WillInvite(r)' PROVE Unwelcomed(u)'
    <3>1. u # NoId /\ Uninvited(SeenOf(u))
      BY <1>0, <2>2, <2>4 DEF WillInvite, Uninvited
    <3>2. Stored(u) /\ ~users[u].invited
      BY <2>1, <3>1 DEF Uninvited, SeenOf
    <3>3. ~Invited(u)
      BY <3>2 DEF Invited, Stored
    <3>4. Unwelcomed(u)
      BY <3>3 DEF Unwelcomed, MailsOnce, MailOK
    <3>5. \A mail \in queue \cup inbox : mail.password \in Requests /\ step[mail.password] = "done"
      BY DEF MailsOnce, MailOK, TypeOK, Mail
    <3>6. \A mail \in queue \cup inbox : req'[mail.password] = req[mail.password]
      BY <1>1, <3>5 DEF BeginAdd, TypeOK
    <3> QED
      BY <1>0, <3>4, <3>6 DEF Unwelcomed, Welcome
  <2> QED
    BY <1>0, <2>2, <2>3, <2>4 DEF Checked, Unwelcomed
<1>2. CASE BeginCreate(r)
  <2>1. PICK email \in Emails :
          /\ EmailFree(email, NoId)
          /\ req' = [req EXCEPT ![r] =
               [kind |-> "create", user |-> NoId, email |-> email, project |-> NoId,
                role |-> "editor", seen |-> NewSeen, was |-> NoRow]]
    BY <1>2 DEF BeginCreate
  <2>2. req'[r].kind = "create" /\ req'[r].user = NoId /\ req'[r].email = email
    BY <2>1 DEF TypeOK
  <2>3. CheckedAdd(r)'
    BY <1>0, <2>1, <2>2 DEF CheckedAdd, EmailFree, Stored
  <2> QED
    BY <2>2, <2>3 DEF Checked
<1>3. CASE BeginChange(r)
  <2>1. PICK m \in members, u \in UserIds, p \in Projects, role \in Roles :
          /\ Stored(u)
          /\ role = "editor" => OtherOwner(p, m.row)
          /\ \A n \in members \ {m} : ~(n.user = u /\ n.project = p)
          /\ req' = [req EXCEPT ![r] =
               [kind |-> "change", user |-> u, email |-> users[u].email, project |-> p,
                role |-> role, seen |-> SeenOf(u), was |-> m]]
    BY <1>3 DEF BeginChange
  <2>2. /\ req'[r].kind = "change" /\ req'[r].user = u /\ req'[r].project = p
        /\ req'[r].role = role /\ req'[r].was = m
    BY <2>1 DEF TypeOK
  <2>3. CheckedChange(r)'
    BY <1>0, <2>1, <2>2 DEF CheckedChange, OtherOwner, Stored
  <2> QED
    BY <2>2, <2>3 DEF Checked
<1> QED
  BY <1>1, <1>2, <1>3

LEMMA CheckedCommit ==
  ASSUME TypeOK, EditInv, [Next]_vars, NEW r \in Requests, CommitUser(r)
  PROVE  Checked(r)'
<1>1. Checked(r) /\ MailsOnce
  BY EditorsCommit DEF EditInv
<1>2. PICK u \in UserIds :
        /\ \/ /\ req[r].user = NoId
              /\ Unwelcomed(u)
              /\ users' = [users EXCEPT ![u] = NewUser(req[r].email)]
           \/ u = req[r].user /\ users[u] # NoUser /\ UNCHANGED users
        /\ req' = [req EXCEPT ![r].user = u]
  BY <1>1, CommitUserWrites DEF EditInv
<1>3. /\ req[r] \in Request /\ step[r] = "commit" /\ req[r].kind \in {"add", "create"}
      /\ step'[r] \in {"invite", "done"}
      /\ step'[r] = "invite" /\ req[r].kind = "add" => Uninvited(req[r].seen)
  BY DEF CommitUser, TypeOK
<1>4. req'[r].user = u /\ req'[r].kind = req[r].kind
  BY <1>2, <1>3 DEF TypeOK, Request
<1>5. users'[u] # NoUser
  <2>1. NewUser(req[r].email) \in User
    BY <1>3 DEF NewUser, User, Passwords, Request
  <2> QED
    BY <1>2, <2>1, MembershipAssumption DEF TypeOK
<1>6. ASSUME req[r].kind = "add", step'[r] = "invite" PROVE Unwelcomed(u)'
  <2>1. Unwelcomed(u)
    <3>1. CASE u = req[r].user
      <4>1. WillInvite(r)
        BY <1>3, <1>6, <3>1, MembershipAssumption DEF WillInvite
      <4> QED
        BY <1>1, <1>6, <3>1, <4>1 DEF Checked
    <3> QED
      BY <1>2, <3>1
  <2>2. queue' \cup inbox' = queue \cup inbox
    BY DEF CommitUser
  <2> QED
    BY <1>1, <2>1, <2>2, MailsKept
<1>7. req'[r].kind = "add" /\ WillInvite(r)' => Unwelcomed(u)'
  BY <1>3, <1>4, <1>6 DEF WillInvite
<1> QED
  BY <1>3, <1>4, <1>5, <1>7 DEF Checked, Unwelcomed

LEMMA CheckedSetPassword ==
  ASSUME TypeOK, EditInv, [Next]_vars, NEW r \in Editing, SetPassword(r)
  PROVE  Checked(r)'
<1> DEFINE u == req[r].user
<1>1. Checked(r) /\ MailsOnce /\ r \in Requests
  BY DEF EditInv, Editing
<1>2. /\ step[r] = "invite" /\ step'[r] = "mail" /\ UNCHANGED <<queue, inbox, req>>
      /\ u \in UserIds
  BY <1>1 DEF SetPassword, TypeOK
<1>3. CASE req[r].kind = "add"
  <2>1. Unwelcomed(u) /\ users[u] # NoUser
    BY <1>1, <1>2, <1>3 DEF Checked, WillInvite
  <2>2. \A v \in UserIds : Unwelcomed(v) => Unwelcomed(v)'
    BY <1>1, <1>2, MailsKept
  <2>3. Invited(u)'
    <3>1. CASE Stored(u)
      <4>1. users[u] \in User /\ InvitedBy(r, users[u]).invited /\ InvitedBy(r, users[u]) \in User
        BY <1>1, <1>2, <3>1, StoredIsUser DEF InvitedBy, User, Passwords
      <4>2. users'[u] = InvitedBy(r, users[u])
        BY <1>2, <3>1 DEF SetPassword, TypeOK
      <4> QED
        BY <1>2, <4>1, <4>2, MembershipAssumption DEF Invited, Stored
    <3>2. CASE ~Stored(u)
      <4>1. users[u] = Deleted /\ UNCHANGED users
        BY <2>1, <3>2 DEF SetPassword, Stored
      <4> QED
        BY <1>2, <4>1 DEF Invited
    <3> QED
      BY <3>1, <3>2
  <2>4. Unwelcomed(u)'
    BY <1>2, <2>1, <2>2 DEF Unwelcomed
  <2> QED
    BY <1>2, <2>3, <2>4 DEF Checked, Unwelcomed, Invited
<1> QED
  BY <1>2, <1>3 DEF Checked

LEMMA CheckedStep ==
  ASSUME Editors = 1, TypeOK, EditInv, [Next]_vars, NEW q \in Editing'
  PROVE  Checked(q)'
<1>0. q \in Requests /\ MailsOnce /\ OneEditor /\ (q \in Editing => Checked(q))
  BY DEF Editing, EditInv
<1>1. ASSUME NEW r \in Requests, BeginAdd(r) \/ BeginCreate(r) \/ BeginChange(r)
      PROVE  Checked(q)'
  <2>1. Editing = {}
    BY <1>1, NobodyEdits DEF BeginAdd, BeginCreate, BeginChange
  <2>2. \A p \in Requests \ {r} : step'[p] = step[p] /\ req'[p] = req[p]
    BY <1>1 DEF BeginAdd, BeginCreate, BeginChange, TypeOK
  <2>3. q = r
    BY <1>0, <2>1, <2>2 DEF Editing
  <2> QED
    BY <1>0, <1>1, <2>3, CheckedBegin
\* Another request moves, or none: then nobody commits.
<1>2. ASSUME q \in Editing, step'[q] = step[q], req'[q] = req[q], ~Invite(q)
      PROVE  Checked(q)'
  <2>1. \A p \in Editing : p = q
    BY <1>0, <1>2 DEF OneEditor
  <2>2. ASSUME NEW p \in Requests, CommitUser(p) \/ CommitChange(p) PROVE FALSE
    <3>1. p = q
      BY <2>1, <2>2, CommitsAreEdits
    <3> QED
      BY <1>2, <2>2, <3>1 DEF CommitUser, CommitChange, TypeOK
  <2>3. ~MayEdit
    BY <1>2, NobodyEdits
  <2>4. Quiet
    BY <2>2, <2>3, QuietSteps DEF RemoveMember, RemoveUser
  <2>5. \A u \in UserIds : Unwelcomed(u) => Unwelcomed(u)'
    BY <1>2, <2>1, UnwelcomedStays
  <2> QED
    BY <1>0, <1>2, <2>4, <2>5, CheckedStays DEF Editing
<1>3. ASSUME NEW r \in Requests, q # r, Handle(r),
             ~(BeginAdd(r) \/ BeginCreate(r) \/ BeginChange(r))
      PROVE  Checked(q)'
  <2>1. step'[q] = step[q] /\ req'[q] = req[q]
    BY <1>0, <1>3 DEF Handle, CommitUser, BeginInvite, SetPassword, Invite, BeginPassword,
                      SavePassword, ClearMustChange, CommitChange, Fail, TypeOK
  <2>2. q \in Editing
    BY <1>0, <2>1 DEF Editing
  <2>3. ~Invite(q)
    BY <1>0, <2>1 DEF Invite, TypeOK
  <2> QED
    BY <1>2, <2>1, <2>2, <2>3
<1>4. ASSUME Handle(q), ~(BeginAdd(q) \/ BeginCreate(q) \/ BeginChange(q))
      PROVE  Checked(q)'
  <2>1. CASE CommitUser(q)
    BY <1>0, <2>1, CheckedCommit
  <2>2. CASE SetPassword(q)
    <3>1. q \in Editing
      BY <1>0, <2>2 DEF SetPassword, Editing
    <3> QED
      BY <2>2, <3>1, CheckedSetPassword
  \* After the other steps it edits nothing.
  <2>3. CASE ~CommitUser(q) /\ ~SetPassword(q)
    <3>1. CASE BeginInvite(q) \/ BeginPassword(q)
      BY <1>0, <3>1 DEF BeginInvite, BeginPassword, TypeOK, Editing
    <3>2. CASE SavePassword(q)
      <4>1. /\ step[q] = "save" /\ step'[q] \in {"clear", "done"} /\ UNCHANGED <<req, queue, inbox>>
        BY <1>0, <3>2 DEF SavePassword, TypeOK
      <4> QED
        BY <4>1 DEF Checked, WillInvite
    <3>3. CASE CommitChange(q) \/ Invite(q) \/ ClearMustChange(q) \/ Fail(q)
      BY <1>0, <3>3 DEF CommitChange, Invite, ClearMustChange, Fail, TypeOK, Editing
    <3> QED
      BY <1>4, <2>3, <3>1, <3>2, <3>3 DEF Handle
  <2> QED
    BY <2>1, <2>2, <2>3
<1>5. ASSUME \A r \in Requests : ~Handle(r) PROVE Checked(q)'
  <2>1. UNCHANGED <<step, req>>
    BY <1>5 DEF Next, Deliver, SignIn, RemoveUser, RemoveMember, vars
  <2> QED
    BY <1>0, <1>2, <1>5, <2>1 DEF Editing, Handle
<1> QED
  BY <1>0, <1>1, <1>3, <1>4, <1>5

LEMMA EditStep ==
  ASSUME Editors = 1
  PROVE  MembershipInv /\ EditInv /\ [Next]_vars => EditInv'
<1> SUFFICES ASSUME MembershipInv, EditInv, [Next]_vars PROVE EditInv'
  OBVIOUS
<1>1. TypeOK /\ OneEditor /\ RowsOnce
  BY DEF MembershipInv, EditInv
<1>2. \A r \in Editing' : Checked(r)'
  BY <1>1, CheckedStep
<1>3. OneEditor' /\ RowsOnce'
  BY <1>1, OneEditorStep, RowsStep
<1>4. MembersOnce' /\ MembersCreated' /\ EmailsOnce' /\ MailsOnce'
  BY <1>1, TablesStep, MailsStep
<1> QED
  BY <1>2, <1>3, <1>4 DEF EditInv

LEMMA InitEdit == Init => EditInv
<1> SUFFICES ASSUME Init PROVE EditInv
  OBVIOUS
<1>1. PICK t \in InitialTables : users = t.users /\ members = t.members
  BY DEF Init
<1>2. \A u \in UserIds : Stored(u) => users[u] # NoUser
  BY DEF Stored
<1>3. RowsOnce /\ MembersOnce /\ MembersCreated /\ EmailsOnce
  BY <1>1, <1>2, InitialTablesAssumption, MembershipAssumption
  DEF RowsOnce, MembersOnce, MembersCreated, EmailsOnce
<1>4. Editing = {} /\ queue = {} /\ inbox = {}
  BY DEF Init, Editing
<1> QED
  BY <1>3, <1>4 DEF EditInv, OneEditor, MailsOnce

LEMMA EditInvariant ==
  ASSUME Editors = 1
  PROVE  Spec => [](MembershipInv /\ EditInv)
<1>1. Init => MembershipInv /\ EditInv
  BY InitMembership, InitEdit
<1>2. MembershipInv /\ EditInv /\ [Next]_vars => (MembershipInv /\ EditInv)'
  BY MembershipStep, EditStep
<1> QED
  BY <1>1, <1>2, PTL DEF Spec

\* At most one welcome is as good as a set of at most one.
LEMMA OneWelcome ==
  ASSUME EditInv, NEW u \in UserIds
  PROVE  Cardinality(Welcomes(u)) <= 1
<1>1. \A m, n \in Welcomes(u) : m = n
  BY DEF EditInv, MailsOnce, Welcomes, Welcome
<1>2. CASE Welcomes(u) = {}
  BY <1>2, FS_EmptySet
<1>3. CASE Welcomes(u) # {}
  <2>1. PICK m : Welcomes(u) = {m}
    BY <1>1, <1>3
  <2> QED
    BY <2>1, FS_Singleton
<1> QED
  BY <1>2, <1>3

\* As long as memberships are created and changed one at a time, nobody is added to
\* a project twice, no email belongs to two users, and nobody is welcomed twice,
\* whatever invitations, sign-ins, password changes and failures overlap with it:
\* the uniqueness validations of user_project.rb and user.rb are enough then.
THEOREM NothingHappensTwice ==
  ASSUME Editors = 1
  PROVE  Spec => []NothingTwice
<1>1. EditInv => NothingTwice
  BY OneWelcome DEF EditInv, NothingTwice, MembersOnce, EmailsOnce
<1> QED
  BY <1>1, EditInvariant, PTL

LEMMA OwnerStep ==
  ASSUME Editors = 1, TypeOK, EditInv, [Next]_vars, NEW p \in Projects,
         Owners(p) # {}, Owners(p)' = {}
  PROVE  Owners(p) \cap Rows(p)' = {}
<1> SUFFICES ASSUME NEW m \in members, m.project = p, m.role = "owner",
                    NEW n \in members', n.project = p, n.row = m.row
             PROVE  FALSE
  BY DEF Owners, Rows
<1>0. RowsOnce /\ \A k \in members' : ~(k.project = p /\ k.role = "owner")
  BY DEF EditInv, Owners
<1>1. ASSUME members' \subseteq members \/ members \subseteq members' PROVE FALSE
  BY <1>0, <1>1 DEF RowsOnce
<1>2. ASSUME NEW r \in Requests, CommitChange(r) PROVE FALSE
  <2> DEFINE was == req[r].was
             new == [row |-> was.row, user |-> req[r].user, project |-> req[r].project,
                     role |-> req[r].role]
  <2>1. CheckedChange(r) /\ members' = (members \ {was}) \cup {new}
    BY <1>2, CommitChangeWrites, EditorsCommit DEF EditInv
  <2>2. m = was
    BY <1>0, <2>1
  <2>3. n = new
    BY <1>0, <2>1, <2>2 DEF RowsOnce
  <2>4. req[r].project = p /\ req[r].role = "editor"
    BY <1>0, <1>2, <2>3 DEF CommitChange, TypeOK, Request, Roles
  <2>5. OtherOwner(p, was.row)
    BY <2>1, <2>4 DEF CheckedChange
  <2> QED
    BY <1>0, <2>1, <2>5 DEF OtherOwner
<1> QED
  BY <1>1, <1>2
  DEF Next, Handle, BeginAdd, BeginCreate, CommitUser, BeginInvite, SetPassword, Invite,
      BeginPassword, SavePassword, ClearMustChange, BeginChange, Fail, Deliver, SignIn,
      RemoveUser, RemoveMember, vars

\* One at a time, no change of roles takes a project's last owner away:
\* validate_project_owner is enough then.
THEOREM OwnersAreKept ==
  ASSUME Editors = 1
  PROVE  Spec => RoleChangesKeepAnOwner
<1>1. MembershipInv /\ EditInv /\ [Next]_vars
        => [\A p \in Projects :
              Owners(p) # {} /\ Owners(p)' = {} => Owners(p) \cap Rows(p)' = {}]_vars
  BY OwnerStep DEF MembershipInv
<1> QED
  BY <1>1, EditInvariant, PTL DEF Spec, RoleChangesKeepAnOwner
=============================================================================
