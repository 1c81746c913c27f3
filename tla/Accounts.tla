------------------------------- MODULE Accounts -------------------------------
(***************************************************************************)
(* Users and their sessions (backend/app/core/security.py, api/auth.py,    *)
(* api/users.py, core/bootstrap.py, api/bootstrap.py and the scripts       *)
(* create-owner-user.py and create-enrollment-token.py).                   *)
(*                                                                         *)
(* Each request is a transaction of its own: it reads committed rows       *)
(* without locking them and writes when it commits.  Passwords, e-mail     *)
(* addresses and names are left out: one that is wrong, too weak or taken  *)
(* is a reason to refuse a request, and any request may be refused.        *)
(***************************************************************************)
EXTENDS Naturals, FiniteSets

CONSTANTS
    Users,   \* ids of users
    Orgs,    \* ids of organizations
    Roles,   \* ROLES
    Tokens,  \* refresh tokens that may be issued
    Slots,   \* requests that may overlap
    None

ASSUME RolesAssumption == "owner" \in Roles
ASSUME NoneAssumption  == None \notin Users \cup Orgs \cup Roles \cup Tokens

VARIABLES
    org,       \* organizations
    user,      \* users
    token,     \* refresh_tokens
    req,       \* requests in flight
    session,   \* history: the token that the session of a token began with
    raced,     \* history: sessions two requests have had loaded at the same time
    ended,     \* history: sessions a logout has ended
    locked     \* history: setups with an active owner from their beginning on

tables   == <<org, user, token>>
sessions == <<session, raced, ended>>
vars     == <<org, user, token, req, session, raced, ended, locked>>

UserRow == [org : Orgs, role : Roles, active : BOOLEAN]
NoUser  == [org |-> None, role |-> None, active |-> FALSE]

(* A token is over once it is revoked or has expired.                      *)
TokenRow == [user : Users, status : {"valid", "over"}]
NoToken  == [user |-> None, status |-> "none"]

Kinds == {"none", "login", "refresh", "logout", "create", "patch", "disable", "enable",
          "setup"}

(***************************************************************************)
(* A request in flight, from its first read on.  `user` and `token` are    *)
(* what it is about, `org` is the organization of the authenticated user,  *)
(* `hasOrg` is whether a setup has counted any organization.               *)
(***************************************************************************)
Request == [kind    : Kinds,
            phase   : {"found", "ready"},
            org     : Orgs \cup {None},
            user    : Users \cup {None},
            role    : Roles \cup {None},
            token   : Tokens \cup {None},
            hasOrg  : BOOLEAN]

NoRequest == [kind |-> "none", phase |-> "found", org |-> None, user |-> None,
              role |-> None, token |-> None, hasOrg |-> FALSE]

Init ==
    /\ org     = {}
    /\ user    = [u \in Users |-> NoUser]
    /\ token   = [t \in Tokens |-> NoToken]
    /\ req     = [s \in Slots |-> NoRequest]
    /\ session = [t \in Tokens |-> None]
    /\ raced   = {}
    /\ ended   = {}
    /\ locked  = {}

-----------------------------------------------------------------------------
(* A request has made its first read.                                      *)
Begin(s, r) == req[s] = NoRequest /\ req' = [req EXCEPT ![s] = r]

At(s, kinds, phase) == req[s].kind \in kinds /\ req[s].phase = phase

(* The request ends; its transaction is committed or rolled back.          *)
Done(s) == req' = [req EXCEPT ![s] = NoRequest]

(***************************************************************************)
(* A request is refused (401, 403, 404, 409), fails, or finds nothing to   *)
(* do: get_db closes the session without a commit.                         *)
(***************************************************************************)
Refuse(s) ==
    /\ req[s] # NoRequest
    /\ Done(s)
    /\ UNCHANGED <<tables, sessions>>

-----------------------------------------------------------------------------
(* Sessions.                                                               *)

Fresh == {t \in Tokens : token[t].status = "none"}

Valid(t) == token[t].status = "valid"

LoginLoads(s, u) ==
    /\ user[u].active
    /\ Begin(s, [NoRequest EXCEPT !.kind = "login", !.phase = "ready", !.user = u])
    /\ UNCHANGED <<tables, sessions>>

(* issue_refresh_token: a token that opens a session, or goes on with one. *)
Issued(t, u) == [token EXCEPT ![t] = [user |-> u, status |-> "valid"]]

LoginCommit(s) ==
    /\ At(s, {"login"}, "ready")
    /\ \E t \in Fresh :
        /\ token' = Issued(t, req[s].user)
        /\ session' = [session EXCEPT ![t] = t]
    /\ Done(s)
    /\ UNCHANGED <<org, user, raced, ended>>

\* Faulty variant: compares the hash alone.
FindableOnceIssued == {t \in Tokens : token[t].status # "none"}

(* The rows find_valid_refresh_token compares the presented token with.    *)
Findable == {t \in Tokens : Valid(t)}

InSession(s, t) == req[s].token # None /\ session[req[s].token] = session[t]

FindToken(s, kind, t) ==
    /\ t \in Findable
    /\ Begin(s, [NoRequest EXCEPT !.kind = kind, !.token = t])
    /\ raced' = IF \E v \in Slots : InSession(v, t) THEN raced \cup {session[t]} ELSE raced
    /\ UNCHANGED <<tables, session, ended>>

RefreshLoads(s) ==
    /\ At(s, {"refresh"}, "found")
    /\ user[token[req[s].token].user].active
    /\ req' = [req EXCEPT ![s].phase = "ready"]
    /\ UNCHANGED <<tables, sessions>>

\* Faulty variant: the old token stays valid.
RefreshCommitKeeps(s) ==
    /\ At(s, {"refresh"}, "ready")
    /\ \E t \in Fresh :
        /\ token' = Issued(t, token[req[s].token].user)
        /\ session' = [session EXCEPT ![t] = session[req[s].token]]
    /\ Done(s)
    /\ UNCHANGED <<org, user, raced, ended>>

RefreshCommit(s) ==
    /\ At(s, {"refresh"}, "ready")
    /\ \E t \in Fresh :
        /\ token' = [Issued(t, token[req[s].token].user)
                         EXCEPT ![req[s].token].status = "over"]
        /\ session' = [session EXCEPT ![t] = session[req[s].token]]
    /\ Done(s)
    /\ UNCHANGED <<org, user, raced, ended>>

LogoutCommit(s) ==
    /\ At(s, {"logout"}, "found")
    /\ token' = [token EXCEPT ![req[s].token].status = "over"]
    /\ ended' = ended \cup {session[req[s].token]}
    /\ Done(s)
    /\ UNCHANGED <<org, user, session, raced>>

(* REFRESH_TOKEN_DAYS have gone by.                                        *)
Expire(t) ==
    /\ Valid(t)
    /\ token' = [token EXCEPT ![t].status = "over"]
    /\ UNCHANGED <<org, user, req, sessions>>

-----------------------------------------------------------------------------
(* The users API: the caller's access token names an active owner.         *)

Edits == {"patch", "disable", "enable"}

Owners == {u \in Users : user[u].active /\ user[u].role = "owner"}

(***************************************************************************)
(* Does the edit change the row as loaded?  If not, the ORM writes nothing *)
(* and the request ends as a refused one does.                             *)
(***************************************************************************)
Differs(kind, role, row) ==
    \/ kind = "patch" /\ row.role # role
    \/ kind = "disable" /\ row.active
    \/ kind = "enable" /\ ~row.active

(***************************************************************************)
(* require_permission("users:manage") loads the row of the caller a.       *)
(***************************************************************************)
Authenticate(s, kind, a, u, role) ==
    /\ a \in Owners
    /\ a # u
    /\ Begin(s, [NoRequest EXCEPT !.kind = kind, !.org = user[a].org, !.user = u,
                                  !.role = role])
    /\ UNCHANGED <<tables, sessions>>

(* When callers edit themselves, that row is the target's, too.            *)
AuthenticateSelf(s, kind, a, role) ==
    /\ a \in Owners
    /\ Differs(kind, role, user[a])
    /\ Begin(s, [NoRequest EXCEPT !.kind = kind, !.org = user[a].org, !.user = a,
                                  !.role = role, !.phase = "ready"])
    /\ UNCHANGED <<tables, sessions>>

\* Faulty variant: any user id will do.
LoadTargetAnywhere(s) ==
    /\ At(s, Edits, "found")
    /\ Differs(req[s].kind, req[s].role, user[req[s].user])
    /\ req' = [req EXCEPT ![s].phase = "ready"]
    /\ UNCHANGED <<tables, sessions>>

LoadTarget(s) ==
    /\ At(s, Edits, "found")
    /\ user[req[s].user].org = req[s].org
    /\ Differs(req[s].kind, req[s].role, user[req[s].user])
    /\ req' = [req EXCEPT ![s].phase = "ready"]
    /\ UNCHANGED <<tables, sessions>>

(* The UPDATE writes the one column that differs, whatever the row is now. *)
EditCommit(s) ==
    /\ At(s, Edits, "ready")
    /\ user' = IF req[s].kind = "patch"
               THEN [user EXCEPT ![req[s].user].role = req[s].role]
               ELSE [user EXCEPT ![req[s].user].active = (req[s].kind = "enable")]
    /\ Done(s)
    /\ UNCHANGED <<org, token, sessions>>

\* Faulty variant: the role is left out.
AddUserNoRole(o, role) ==
    \E u \in {v \in Users : user[v] = NoUser} :
        user' = [user EXCEPT ![u] = [org |-> o, role |-> None, active |-> TRUE]]

(* A new row; a taken e-mail address (they are unique) refuses the request *)
AddUser(o, role) ==
    \E u \in {v \in Users : user[v] = NoUser} :
        user' = [user EXCEPT ![u] = [org |-> o, role |-> role, active |-> TRUE]]

CreateCommit(s) ==
    /\ At(s, {"create"}, "found")
    /\ AddUser(req[s].org, req[s].role)
    /\ Done(s)
    /\ UNCHANGED <<org, token, sessions>>

-----------------------------------------------------------------------------
(***************************************************************************)
(* First-run setup, from the dashboard or from the script.  Both ask       *)
(* setup_required twice; what counts is the second answer, and a request   *)
(* begins with it here.  The script does what the dashboard's request can  *)
(* do, and adds an owner where that one is refused.                        *)
(***************************************************************************)

(* bootstrap_status counts organizations, then active owners.              *)
CountOrganizations(s) ==
    /\ Begin(s, [NoRequest EXCEPT !.kind = "setup", !.hasOrg = (org # {})])
    /\ UNCHANGED <<tables, sessions>>

\* Faulty variant: counts the disabled owners.
SetupRequiredMiscounts(s) ==
    ~(req[s].hasOrg /\ \E u \in Users : user[u].role = "owner" /\ ~user[u].active)

SetupRequired(s) == ~(req[s].hasOrg /\ Owners # {})

CountOwners(s) ==
    /\ At(s, {"setup"}, "found")
    /\ SetupRequired(s)
    /\ req' = [req EXCEPT ![s].phase = "ready", ![s].hasOrg = FALSE]
    /\ UNCHANGED <<tables, sessions>>

(* create_first_owner: names and addresses must be new (they are unique).  *)
SetupCommit(s) ==
    /\ At(s, {"setup"}, "ready")
    /\ \E o \in Orgs \ org : org' = org \cup {o} /\ AddUser(o, "owner")
    /\ \E t \in Fresh, u \in Users :
        /\ user'[u] # user[u]
        /\ token' = Issued(t, u)
        /\ session' = [session EXCEPT ![t] = t]
    /\ Done(s)
    /\ UNCHANGED <<raced, ended>>

(***************************************************************************)
(* When setup is complete the script adds an owner to the organization     *)
(* that is the oldest by the time stamp of its transaction.                *)
(***************************************************************************)
ScriptAddsOwner(s) ==
    /\ At(s, {"setup"}, "found")
    /\ ~SetupRequired(s)
    /\ \E o \in org : AddUser(o, "owner")
    /\ Done(s)
    /\ UNCHANGED <<org, token, sessions>>

(***************************************************************************)
(* create-enrollment-token.py makes the organization it is to enroll into  *)
(* if there is none of that slug, with owners around or without.           *)
(***************************************************************************)
ScriptAddsOrganization ==
    /\ \E o \in Orgs \ org : org' = org \cup {o}
    /\ UNCHANGED <<user, token, req, sessions>>

-----------------------------------------------------------------------------
Arrives(s) ==
    \/ \E u \in Users : LoginLoads(s, u)
    \/ \E t \in Tokens, k \in {"refresh", "logout"} : FindToken(s, k, t)
    \/ \E a \in Users, r \in Roles : Authenticate(s, "create", a, None, r)
    \/ \E a, u \in Users :
        \/ \E r \in Roles : Authenticate(s, "patch", a, u, r)
        \/ \E k \in {"disable", "enable"} : Authenticate(s, k, a, u, None)
    \/ \E a \in Users :
        \/ \E r \in Roles : AuthenticateSelf(s, "patch", a, r)
        \/ AuthenticateSelf(s, "disable", a, None)
    \/ CountOrganizations(s)

Serve(s) ==
    \/ Refuse(s)
    \/ LoginCommit(s)
    \/ RefreshLoads(s) \/ RefreshCommit(s) \/ LogoutCommit(s)
    \/ LoadTarget(s) \/ EditCommit(s) \/ CreateCommit(s)
    \/ CountOwners(s) \/ SetupCommit(s) \/ ScriptAddsOwner(s)

Step ==
    \/ \E s \in Slots : Arrives(s) \/ Serve(s)
    \/ \E t \in Tokens : Expire(t)
    \/ ScriptAddsOrganization

(* The history of setups: a setup is locked out if there is an active      *)
(* owner when it begins, for as long as there is one.                      *)
WatchSetups ==
    locked' = {s \in Slots : /\ req'[s].kind = "setup"
                             /\ req[s].kind = "setup" => s \in locked
                             /\ Owners' # {}}

Next == Step /\ WatchSetups

Spec == Init /\ [][Next]_vars

-----------------------------------------------------------------------------
(* Type invariant.                                                         *)
TypeOK ==
    /\ org \subseteq Orgs
    /\ user \in [Users -> UserRow \cup {NoUser}]
    /\ token \in [Tokens -> TokenRow \cup {NoToken}]
    /\ req \in [Slots -> Request]
    /\ session \in [Tokens -> Tokens \cup {None}]
    /\ raced \subseteq Tokens
    /\ ended \subseteq Tokens
    /\ locked \subseteq Slots

(***************************************************************************)
(* Rotation: each login has at most one valid refresh token, the newest,   *)
(* unless two requests had tokens of that session loaded at once.          *)
(***************************************************************************)
OneTokenPerSession ==
    \A s, t \in Tokens :
        Valid(s) /\ Valid(t) /\ session[s] = session[t] /\ session[s] \notin raced => s = t

(***************************************************************************)
(* A logout ends the session: no refresh that did not overlap with another *)
(* request of the session has left, or will ever leave, a valid successor. *)
(***************************************************************************)
LogoutEndsSession ==
    \A t \in Tokens : session[t] \in ended \ raced => ~Valid(t)

(***************************************************************************)
(* Setup, which anybody may call, goes ahead only if at some time since it *)
(* began there was no active owner.  So of setups that overlap only those  *)
(* that began before the first owner was committed get through, and after  *)
(* the last owner is lost setup is open just until there is one again:     *)
(* whatever organizations the script adds, and although organizations and  *)
(* owners are counted one after the other.                                 *)
(***************************************************************************)
SetupStaysLocked == \A s \in locked : ~At(s, {"setup"}, "ready")

(***************************************************************************)
(* A user's row is only changed by a request of an owner of the same       *)
(* organization, and never moves to another one.                           *)
(***************************************************************************)
OrganizationsStayApart ==
    [][\A u \in Users : user[u] # NoUser /\ user'[u] # user[u] =>
          /\ user'[u].org = user[u].org
          /\ \E s \in Slots : /\ req[s].phase = "ready" /\ req'[s] = NoRequest
                              /\ req[s].user = u /\ req[s].org = user[u].org]_vars
=============================================================================
