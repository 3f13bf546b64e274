------------------------------ MODULE Accounts ------------------------------
(***************************************************************************)
(* Web-UI accounts and sessions: setup, sign-in and the user management of *)
(* app/web/routes/login.py and app/web/routes/settings.py over class       *)
(* AppConfig's user list (app/config.py) and the signed session cookie of  *)
(* app/web/auth.py.  A handler checks first, may hash a password in a      *)
(* worker thread, and changes the list under config_lock; the lock stays   *)
(* held while the configuration is saved.                                  *)
(***************************************************************************)
EXTENDS Naturals, Sequences, FiniteSets, SequencesExt

CONSTANTS
    Usernames,     \* account names
    AcRoles,       \* roles; "admin" is one
    Requests,      \* requests that may be in flight
    MaxOps,        \* bound: requests handled
    MaxTokens      \* bound: session cookies issued

VARIABLES
    acUsers,       \* config.users: records; gen identifies the User object
    acTokens,      \* cookies issued: name and version, role and gen at issue
    acReq,         \* request -> what it has still to do
    acQueue,       \* requests waiting for config_lock, in order
    acBusy,        \* config_lock is held by a request that saves
    acGen, acOps

acVars == <<acUsers, acTokens, acReq, acQueue, acBusy, acGen, acOps>>

NoReq == [do |-> "none"]

AcInit ==
    /\ acUsers = <<>> /\ acTokens = {} /\ acReq = [r \in Requests |-> NoReq] /\ acQueue = <<>>
    /\ acBusy = FALSE /\ acGen = 0 /\ acOps = 0

(* get_user: the first account of that name.                               *)
GetUser(users, name) ==
    LET is == {i \in 1 .. Len(users) : users[i].name = name} IN
    IF is = {} THEN {} ELSE {users[CHOOSE i \in is : \A j \in is : i <= j]}

AdminsOf(users) == {i \in 1 .. Len(users) : users[i].role = "admin"}

(* session_user: the account exists and the version is the current one.    *)
SessionUser(t) == {u \in GetUser(acUsers, t.name) : u.v = t.v}

(* issue_session, by set_session.                                          *)
Token(u) == [name |-> u.name, v |-> u.v, role |-> u.role, gen |-> u.gen]
Issue(u) == acTokens' = IF Cardinality(acTokens) < MaxTokens THEN acTokens \cup {Token(u)}
                                                             ELSE acTokens

NewUser(name, role, source) ==
    [name |-> name, role |-> role, v |-> 1, source |-> source, gen |-> acGen + 1]

-----------------------------------------------------------------------------
(* What each handler does under the lock.                                  *)
Created(q)  == Append(acUsers, NewUser(q.name, q.role, "local"))
Replaced(q) == <<NewUser(q.name, "admin", "local")>>
Bump(u, role, source) == [u EXCEPT !.role = role, !.source = source, !.v = @ + 1]
Recast(q) ==
    [i \in 1 .. Len(acUsers) |->
        LET u == acUsers[i] IN
        IF u.gen # q.user.gen THEN u
        ELSE Bump(u, IF q.do = "role" THEN q.role ELSE u.role, u.source)]
Removed(q)  == SelectSeq(acUsers, LAMBDA u : u.name # q.name)
Upsert(q) ==
    LET old == GetUser(acUsers, q.name) IN
    IF old = {} THEN Append(acUsers, NewUser(q.name, q.role, "external"))
    ELSE [i \in 1 .. Len(acUsers) |->
            IF acUsers[i] \in old /\ <<acUsers[i].role, acUsers[i].source>> # <<q.role, "external">>
              THEN Bump(acUsers[i], q.role, "external") ELSE acUsers[i]]

UsersAfter(q) ==
    CASE q.do = "create" -> Created(q)
      [] q.do = "setup"  -> Replaced(q)
      [] q.do \in {"role", "password"} -> Recast(q)
      [] q.do = "delete" -> Removed(q)
      [] q.do = "external" -> Upsert(q)

(* The User object a handler read before it paused: as it is in the list,  *)
(* or as it was when it has left the list meanwhile.                       *)
Held(users, was) ==
    LET us == {u \in ToSet(users) : u.gen = was.gen} IN IF us = {} THEN was ELSE CHOOSE u \in us : TRUE

SignsIn(q) == q.do \in {"setup", "external", "password"}

(* With the lock: change the list and begin to save.  Setup and an external*)
(* sign-in then answer with a session, and so does a password change.      *)
Commit(q) ==
    LET users == UsersAfter(q)
        me    == IF q.do = "password" THEN Held(users, Bump(q.user, q.user.role, "local"))
                 ELSE CHOOSE u \in GetUser(users, q.name) : TRUE
    IN
    /\ acUsers' = users /\ acBusy' = TRUE
    /\ acGen' = IF q.do \in {"create", "setup", "external"} THEN acGen + 1 ELSE acGen
    /\ IF SignsIn(q) THEN Issue(me) ELSE UNCHANGED acTokens

(* async with config_lock: a free lock is taken without a pause.           *)
Enter(r, q) ==
    IF ~acBusy /\ acQueue = <<>>
      THEN Commit(q) /\ acReq' = [acReq EXCEPT ![r] = NoReq] /\ UNCHANGED acQueue
      ELSE /\ acReq' = [acReq EXCEPT ![r] = q] /\ acQueue' = Append(acQueue, r)
           /\ UNCHANGED <<acUsers, acBusy, acGen, acTokens>>

Hashing(r, q) ==
    /\ acReq' = [acReq EXCEPT ![r] = q]
    /\ UNCHANGED <<acUsers, acTokens, acQueue, acBusy, acGen>>

Arrives(r) == acReq[r] = NoReq /\ acOps < MaxOps /\ acOps' = acOps + 1

(* The guard's part of every settings handler: an admin's session.         *)
AdminSession == {t \in acTokens : \E u \in SessionUser(t) : u.role = "admin"}

-----------------------------------------------------------------------------
(* setup_post: only while there is no account.                             *)
SetupPost(r, name) ==
    /\ Arrives(r) /\ acUsers = <<>>
    /\ Hashing(r, [do |-> "setup", name |-> name])

NameFree(name) == GetUser(acUsers, name) = {}

(* settings_users_create: the name must be free now.                       *)
UsersCreate(r, name, role) ==
    /\ Arrives(r) /\ AdminSession # {} /\ NameFree(name)
    /\ Hashing(r, [do |-> "create", name |-> name, role |-> role, seen |-> acGen])

OtherAdmin == Cardinality(AdminsOf(acUsers)) > 1

(* settings_users_role: not the last admin.                                *)
UsersRole(r, u, role) ==
    /\ Arrives(r) /\ AdminSession # {} /\ {u} = GetUser(acUsers, u.name)
    /\ u.role = "admin" /\ role # "admin" => OtherAdmin
    /\ Enter(r, [do |-> "role", user |-> u, role |-> role])

(* settings_users_delete: not oneself, not the last admin.                 *)
UsersDelete(r, u) ==
    /\ Arrives(r) /\ {u} = GetUser(acUsers, u.name)
    /\ \E t \in AdminSession : t.name # u.name
    /\ u.role = "admin" => OtherAdmin
    /\ Enter(r, [do |-> "delete", name |-> u.name])

(* settings_password_post: verify, then hash, both off the loop; the same  *)
(* role under a new version.                                               *)
PasswordPost(r, t, u) ==
    /\ Arrives(r) /\ t \in acTokens /\ u \in SessionUser(t) /\ u.source = "local"
    /\ Hashing(r, [do |-> "password", user |-> u])

(* login_post with a local account: verify off the loop.                   *)
LoginPost(r, u) ==
    /\ Arrives(r) /\ {u} = GetUser(acUsers, u.name) /\ u.source = "local"
    /\ Hashing(r, [do |-> "login", user |-> u])

(* login_post by LDAP (names that are no local account) and oidc_callback: *)
(* the directory answers off the loop, with the role of its groups.        *)
ExternalLogin(r, name, role, ldap) ==
    /\ Arrives(r) /\ acUsers # <<>>
    /\ ldap => \A u \in GetUser(acUsers, name) : u.source # "local"
    /\ Hashing(r, [do |-> "external", name |-> name, role |-> role])

(* The worker thread answered.  A local login now signs in; the others ask *)
(* for the lock.                                                           *)
Hashed(r) ==
    LET q == acReq[r] IN
    /\ q.do # "none" /\ r \notin ToSet(acQueue)
    /\ IF q.do = "login"
         THEN /\ Issue(Held(acUsers, q.user)) /\ acReq' = [acReq EXCEPT ![r] = NoReq]
              /\ UNCHANGED <<acUsers, acQueue, acBusy, acGen>>
         ELSE Enter(r, q)
    /\ UNCHANGED acOps

(* The lock passes to the request that waited longest.                     *)
Granted ==
    /\ acQueue # <<>> /\ ~acBusy
    /\ Commit(acReq[Head(acQueue)])
    /\ acReq' = [acReq EXCEPT ![Head(acQueue)] = NoReq] /\ acQueue' = Tail(acQueue)
    /\ UNCHANGED acOps

(* asave returned, of one of these or of any other handler.                *)
Saved == /\ acBusy /\ acBusy' = FALSE
         /\ UNCHANGED <<acUsers, acTokens, acReq, acQueue, acGen, acOps>>

OtherSave == /\ ~acBusy /\ acQueue = <<>> /\ acUsers # <<>> /\ acOps < MaxOps
             /\ acBusy' = TRUE /\ acOps' = acOps + 1
             /\ UNCHANGED <<acUsers, acTokens, acReq, acQueue, acGen>>

AcNext ==
    \/ Granted \/ Saved \/ OtherSave
    \/ \E r \in Requests :
        \/ Hashed(r)
        \/ \E name \in Usernames : SetupPost(r, name)
        \/ \E name \in Usernames, role \in AcRoles :
              UsersCreate(r, name, role) \/ \E ldap \in BOOLEAN : ExternalLogin(r, name, role, ldap)
        \/ \E u \in ToSet(acUsers) :
              \/ \E role \in AcRoles : UsersRole(r, u, role)
              \/ UsersDelete(r, u) \/ LoginPost(r, u)
              \/ \E t \in acTokens : PasswordPost(r, t, u)

-----------------------------------------------------------------------------
(* A session never acts under another role than the one it was issued for: *)
(* "force re-login so the new role applies everywhere", for as long as the *)
(* account is not deleted and made again.                                  *)
SessionsFollowRole ==
    \A t \in acTokens : \A u \in SessionUser(t) : u.gen = t.gen => u.role = t.role

(* "Cannot demote the last admin.", "Cannot delete the last admin.": user  *)
(* management loses the last admin only to a request that overlaps another *)
(* one (the check is made before the lock), or to the directory's answer.  *)
LastAdminKept ==
    AdminsOf(acUsers) # {} /\ AdminsOf(acUsers') = {} =>
        \/ \E r \in Requests : acReq[r].do = "external" /\ acReq'[r] = NoReq
        \/ Len(acQueue) > 0

(* "User '{0}' already exists.": a name is given twice only when an account*)
(* was added between the check and the lock of the request that adds it.   *)
NamesUnique ==
    \A r \in Requests :
        acReq[r].do = "create" /\ acReq[r].seen = acGen /\ acGen' > acGen /\ acReq'[r] = NoReq
          => GetUser(acUsers, acReq[r].name) = {}


(* "Cannot demote the last admin.": once set up, there is an admin.        *)
AdminRemains == acUsers # <<>> => AdminsOf(acUsers) # {}

=============================================================================
